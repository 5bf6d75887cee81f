----------------------------- MODULE AccountSync -----------------------------
(***************************************************************************)
(* How the gateway synchronises one account after its private web socket   *)
(* comes up.                                                               *)
(*                                                                         *)
(*   DropCopy    (master)  owns the web socket: logs in, then walks the    *)
(*                         download states of drop_copy.hpp:86-99,         *)
(*                         subscribing topics itself and asking OrderEntry *)
(*                         for every REST snapshot.                        *)
(*   Request               the mailbox between the two: one                *)
(*                         core::limit::Request per snapshot, and the set  *)
(*                         details_lost_orders.                            *)
(*   OrderEntry            sends the REST requests from its own timer and  *)
(*                         commits each request when its answer arrives.   *)
(*                                                                         *)
(* The gateway is one event loop: a handler runs to its end, so each is    *)
(* one action.  The exchange, the two connections and the order management *)
(* system (OMS) act between handlers.                                      *)
(***************************************************************************)
EXTENDS Naturals, FiniteSets

CONSTANTS
  Orders,         \* orders of the account that the OMS knows at start-up
  Batches,        \* numbers that tell rounds of order-details requests apart
  TradesLookback, \* BOOLEAN: settings.download.trades_lookback is not zero
  RetryLogon,     \* BOOLEAN: settings.experimental.retry_logon
  EagerCommit,    \* BOOLEAN: a commit also answers a request still queued
  Faults,         \* subset of {"subscribe", "login", "forget"} that may occur
  MaxSessions,    \* bound: web socket connections
  MaxRestDrops,   \* bound: losses of the REST connection
  MaxStale        \* bound: times an order turns stale

ASSUME SyncAssumption ==
  /\ IsFiniteSet(Orders)
  /\ Batches \subseteq Nat
  /\ TradesLookback \in BOOLEAN
  /\ RetryLogon \in BOOLEAN
  /\ EagerCommit \in BOOLEAN
  /\ Faults \subseteq {"subscribe", "login", "forget"}
  /\ MaxSessions \in Nat /\ MaxRestDrops \in Nat /\ MaxStale \in Nat

VARIABLES
  ws,        \* the private web socket
  dl,        \* DropCopy::download_.state()
  oe,        \* "ready" when OrderEntry::ready()
  queued,    \* requests waiting for OrderEntry's timer
  answered,  \* requests whose has_response() holds
  lost,      \* Request::details_lost_orders
  counter,   \* OrderEntry::download_lost_orders_counter_
  fatal,     \* why the process called log::fatal, or "none"
  subs,      \* subscribe messages the exchange has not answered
  flight,    \* snapshot requests on the REST connection: <<kind, number>>
  asked,     \* order-details requests there: <<order, batch>>
  known,     \* orders that dispatcher.find_order finds
  stale,     \* orders that dispatcher.get_all_stale_orders reports
  asks,      \* history: how often each snapshot has been requested
  answer,    \* history: the number of the last answer committed
  confirmed, \* history: topics answered on this web socket
  sessions, drops, stales  \* how often the bounded events have happened

code == <<dl, oe, queued, answered, lost, counter, fatal>>
net  == <<ws, subs, flight, asked>>
oms  == <<known, stale>>
hist == <<asks, answer, confirmed>>
spent == <<sessions, drops, stales>>
vars == <<code, net, oms, hist, spent>>

-----------------------------------------------------------------------------
(* The download states, in the order of the enumeration. *)

UNDEFINED             == 0
GET_ACCOUNT           == 1
SUBSCRIBE_BALANCES    == 2
GET_BALANCES          == 3
SUBSCRIBE_POSITIONS   == 4
GET_CURRENT_POSITIONS == 5
SUBSCRIBE_ORDERS      == 6
GET_OPEN_ORDERS       == 7
GET_LOST_ORDERS       == 8
SUBSCRIBE_TRADES      == 9
GET_TRADES            == 10
DONE                  == 11

State          == UNDEFINED .. DONE
SubscribeState == {SUBSCRIBE_BALANCES, SUBSCRIBE_POSITIONS, SUBSCRIBE_ORDERS,
                   SUBSCRIBE_TRADES}
GetState       == {GET_ACCOUNT, GET_BALANCES, GET_CURRENT_POSITIONS,
                   GET_OPEN_ORDERS, GET_LOST_ORDERS, GET_TRADES}

Topics    == {"account", "position", "order", "fill"}
Snapshots == {"account", "balances", "positions", "open_orders", "trades"}
Requests  == Snapshots \cup {"lost_orders"}

TopicOf(s) == CASE s = SUBSCRIBE_BALANCES  -> "account"
                [] s = SUBSCRIBE_POSITIONS -> "position"
                [] s = SUBSCRIBE_ORDERS    -> "order"
                [] s = SUBSCRIBE_TRADES    -> "fill"

RequestOf(s) == CASE s = GET_ACCOUNT           -> "account"
                  [] s = GET_BALANCES          -> "balances"
                  [] s = GET_CURRENT_POSITIONS -> "positions"
                  [] s = GET_OPEN_ORDERS       -> "open_orders"
                  [] s = GET_LOST_ORDERS       -> "lost_orders"
                  [] s = GET_TRADES            -> "trades"

Ready   == dl = DONE
Running == fatal = "none"

\* Mutant of After: the snapshot of the open orders before their subscription.
AfterSwapped(s, L) == CASE s = GET_CURRENT_POSITIONS -> GET_OPEN_ORDERS
                        [] s = GET_OPEN_ORDERS       -> SUBSCRIBE_ORDERS
                        [] s = SUBSCRIBE_ORDERS      -> GET_LOST_ORDERS
                        [] OTHER                     -> s + 1

\* The state the download stops in after s, when the lost orders are L: a
\* handler that returns 0 hands over to the next state.
After(s, L) == CASE s = GET_OPEN_ORDERS /\ L = {}           -> SUBSCRIBE_TRADES
                 [] s = SUBSCRIBE_TRADES /\ ~TradesLookback -> DONE
                 [] OTHER                                   -> s + 1

\* core::limit::Request::request on the members of R.
Request(R) == /\ queued' = queued \cup R
              /\ answered' = answered \ R
              /\ asks' = [k \in Snapshots |-> IF k \in R THEN asks[k] + 1 ELSE asks[k]]

\* What the handler of the state the download stops in does, given the topics
\* whose subscription is open: it subscribes, requests, or is done.
RequestsOn(s)  == {RequestOf(x) : x \in {s} \cap GetState}
Enter(s, open) == /\ dl' = s
                  /\ subs' = open \cup {TopicOf(x) : x \in {s} \cap SubscribeState}

\* core::limit::Request::commit: whether the answer counts.
Commits(k) == EagerCommit \/ k \notin queued
Commit(k)  == answered' = IF Commits(k) THEN answered \cup {k} ELSE answered

-----------------------------------------------------------------------------
(* DropCopy: the web socket. *)

WsConnected ==
  /\ Running /\ ws = "down" /\ sessions < MaxSessions
  /\ ws' = "connected"
  /\ sessions' = sessions + 1
  /\ UNCHANGED <<code, subs, flight, asked, oms, hist, drops, stales>>

\* The web socket is ready: send_login.
WsReady ==
  /\ Running /\ ws = "connected"
  /\ ws' = "login"
  /\ UNCHANGED <<code, subs, flight, asked, oms, hist, spent>>

\* Mutants of WsDisconnected: it clears the request queue, it keeps the download.
WsDisconnectedClears ==
  /\ Running /\ ws # "down" /\ sessions < MaxSessions
  /\ ws' = "down" /\ dl' = UNDEFINED /\ subs' = {} /\ confirmed' = {}
  /\ queued' = {}
  /\ UNCHANGED <<oe, answered, lost, counter, fatal, flight, asked, oms, asks, answer,
                 spent>>

WsDisconnectedKeeps ==
  /\ Running /\ ws # "down" /\ sessions < MaxSessions
  /\ ws' = "down" /\ subs' = {} /\ confirmed' = {}
  /\ UNCHANGED <<code, flight, asked, oms, asks, answer, spent>>

\* Resets the download, and nothing that DropCopy shares with OrderEntry.  The
\* last connection the bound allows is not lost.
WsDisconnected ==
  /\ Running /\ ws # "down" /\ sessions < MaxSessions
  /\ ws' = "down"
  /\ dl' = UNDEFINED
  /\ subs' = {}
  /\ confirmed' = {}
  /\ UNCHANGED <<oe, queued, answered, lost, counter, fatal, flight, asked, oms,
                 asks, answer, spent>>

Login ==
  /\ Running /\ ws = "login"
  /\ ws' = "up"
  /\ Enter(GET_ACCOUNT, subs)
  /\ Request(RequestsOn(GET_ACCOUNT))
  /\ UNCHANGED <<oe, lost, counter, fatal, flight, asked, oms, answer, confirmed, spent>>

\* An error event with a log-on code instead: close, or give up.
LoginError ==
  /\ Running /\ ws = "login" /\ "login" \in Faults /\ sessions < MaxSessions
  /\ ws' = IF RetryLogon THEN "closing" ELSE ws
  /\ fatal' = IF RetryLogon THEN fatal ELSE "login"
  /\ UNCHANGED <<dl, oe, queued, answered, lost, counter, subs, flight, asked, oms,
                 hist, spent>>

\* The answer to the log-on with a code other than 0: no retry.
LoginRejected ==
  /\ Running /\ ws = "login" /\ "login" \in Faults
  /\ fatal' = "login"
  /\ UNCHANGED <<dl, oe, queued, answered, lost, counter, net, oms, hist, spent>>

\* The answer to a subscription.  Its code is logged and otherwise ignored.
Subscribe(t) ==
  /\ Running /\ t \in subs
  /\ confirmed' = confirmed \cup {t}
  /\ IF dl \in SubscribeState /\ TopicOf(dl) = t
     THEN /\ Enter(After(dl, lost), subs \ {t})
          /\ Request(RequestsOn(After(dl, lost)))
     ELSE /\ subs' = subs \ {t}
          /\ UNCHANGED <<dl, queued, answered, asks>>
  /\ UNCHANGED <<ws, oe, lost, counter, fatal, flight, asked, oms, answer, spent>>

\* The exchange answers a subscription by an error event, which is only logged.
SubscribeError(t) ==
  /\ Running /\ t \in subs /\ "subscribe" \in Faults
  /\ subs' = subs \ {t}
  /\ UNCHANGED <<code, ws, flight, asked, oms, hist, spent>>

\* The order channel updates o, which is thereby no longer stale.
OrderPush(o) ==
  /\ Running /\ "order" \in confirmed /\ o \in stale
  /\ stale' = stale \ {o}
  /\ UNCHANGED <<code, net, known, hist, spent>>

(* DropCopy: its timer.  check_request_queue moves the download on when the   *)
(* request it waits for is answered; a READY master then looks for stale      *)
(* orders every CHECK_STALE_ORDERS_FREQ (due).                                *)

\* Mutants of Answered: any request will do, no answer is awaited.
AnsweredAny  == answered # {}
AnsweredSoon == dl \in GetState

Answered == dl \in GetState /\ RequestOf(dl) \in answered

\* check_stale_orders before the download leaves GET_OPEN_ORDERS.
Swept == IF Answered /\ dl = GET_OPEN_ORDERS THEN stale ELSE {}

NextState == IF Answered THEN After(dl, lost \cup Swept) ELSE dl

\* check_request_queue calls log::fatal.
Unexpected == Answered /\ dl = GET_LOST_ORDERS /\ lost # {}

\* The timed check_stale_orders requests details when it finds new ones.
NewStale(due) == IF due /\ NextState = DONE THEN stale \ lost ELSE {}
TimedRequest(new) == IF new = {} THEN {} ELSE {"lost_orders"}

DropCopyTimer ==
  /\ Running /\ ws = "up"
  /\ IF Unexpected
     THEN /\ fatal' = "lost_orders"
          /\ UNCHANGED <<dl, queued, answered, lost, subs, asks>>
     ELSE \E due \in BOOLEAN :
            /\ IF Answered THEN Enter(NextState, subs) ELSE UNCHANGED <<dl, subs>>
            /\ lost' = lost \cup Swept \cup NewStale(due)
            /\ Request((IF Answered THEN RequestsOn(NextState) ELSE {})
                         \cup TimedRequest(NewStale(due)))
            /\ UNCHANGED fatal
  /\ UNCHANGED <<oe, counter, ws, flight, asked, oms, answer, confirmed, spent>>

-----------------------------------------------------------------------------
(* OrderEntry *)

RestConnected ==
  /\ Running /\ oe = "down"
  /\ oe' = "ready"
  /\ UNCHANGED <<dl, queued, answered, lost, counter, fatal, net, oms, hist, spent>>

\* Mutant of RestDisconnected: it resets the counter.
RestDisconnectedResets ==
  /\ Running /\ oe = "ready" /\ drops < MaxRestDrops
  /\ oe' = "down" /\ counter' = 0
  /\ drops' = drops + 1
  /\ UNCHANGED <<dl, queued, answered, lost, fatal, net, oms, hist, sessions, stales>>

\* Requests in flight stay there: their callbacks get the network error, as
\* an answer like any other.
RestDisconnected ==
  /\ Running /\ oe = "ready" /\ drops < MaxRestDrops
  /\ oe' = "down"
  /\ drops' = drops + 1
  /\ UNCHANGED <<dl, queued, answered, lost, counter, fatal, net, oms, hist,
                 sessions, stales>>

UsedBatches   == {b \in Batches : \E o \in Orders : <<o, b>> \in asked}
NextBatch(b)  == /\ b \notin UsedBatches
                 /\ \A c \in Batches : c < b => c \in UsedBatches

\* Mutants of SendRequests: a round is counted when it is complete only, the
\* lost orders are not cleared.
SendRequestsLate(R, S) ==
  /\ queued' = queued \ R
  /\ flight' = flight \cup {<<k, asks[k]>> : k \in R \ {"lost_orders"}}
  /\ lost' = IF "lost_orders" \in R THEN {} ELSE lost
  /\ \E b \in Batches : NextBatch(b) /\ asked' = asked \cup (S \X {b})
  /\ counter' = IF "lost_orders" \in R THEN counter + Cardinality(S) ELSE counter

SendRequestsKeep(R, S) ==
  /\ queued' = queued \ R
  /\ flight' = flight \cup {<<k, asks[k]>> : k \in R \ {"lost_orders"}}
  /\ \E b \in Batches : NextBatch(b) /\ asked' = asked \cup (S \X {b})
  /\ counter' = counter + Cardinality(S)
  /\ UNCHANGED lost

\* check_request_queue sends the requests R; of the lost orders, it has asked
\* the exchange for the orders S by the time it returns or throws.
SendRequests(R, S) ==
  /\ queued' = queued \ R
  /\ flight' = flight \cup {<<k, asks[k]>> : k \in R \ {"lost_orders"}}
  /\ lost' = IF "lost_orders" \in R THEN {} ELSE lost
  /\ \E b \in Batches : NextBatch(b) /\ asked' = asked \cup (S \X {b})
  /\ counter' = counter + Cardinality(S)

\* Orders that find_order no longer finds are skipped with a warning.
Found == lost \cap known

\* The timer sends what the rate limiter lets through (R).
OrderEntryTimer ==
  /\ Running /\ oe = "ready"
  /\ \E R \in SUBSET queued :
       SendRequests(R, IF "lost_orders" \in R THEN Found ELSE {})
  /\ UNCHANGED <<dl, oe, answered, fatal, ws, subs, oms, hist, spent>>

\* The timer swallows NotConnected: thrown between two order-details requests
\* it leaves the round half sent.  Thrown by a snapshot request it leaves that
\* request queued, which is OrderEntryTimer with a smaller R.
OrderEntryTimerThrows ==
  /\ Running /\ oe = "ready" /\ "lost_orders" \in queued
  /\ \E R \in SUBSET (queued \ {"lost_orders", "trades"}), S \in SUBSET Found :
       S # Found /\ SendRequests(R, S)
  /\ UNCHANGED <<dl, oe, answered, fatal, ws, subs, oms, hist, spent>>

\* Mutant of SnapshotAck: only a success commits.
SnapshotAckSuccess(k, n) ==
  /\ Running /\ <<k, n>> \in flight
  /\ flight' = flight \ {<<k, n>>}
  /\ answered' \in {answered, answered \cup {k}}
  /\ UNCHANGED <<dl, oe, queued, lost, counter, fatal, ws, subs, asked, oms, hist, spent>>

\* The answer to a snapshot request, or its error: both commit.  Open orders
\* that the answer lists are no longer stale; an error lists none.
SnapshotAck(k, n) ==
  /\ Running /\ <<k, n>> \in flight
  /\ flight' = flight \ {<<k, n>>}
  /\ \E listed \in SUBSET stale :
       /\ k # "open_orders" => listed = {}
       /\ stale' = stale \ listed
  /\ Commit(k)
  /\ answer' = IF Commits(k) THEN [answer EXCEPT ![k] = n] ELSE answer
  /\ UNCHANGED <<dl, oe, queued, lost, counter, fatal, ws, subs, asked, known, asks,
                 confirmed, spent>>

\* Mutant of OrderDetailsAck: each answer commits.
OrderDetailsAckEach(o, b, resolved) ==
  /\ Running /\ <<o, b>> \in asked
  /\ asked' = asked \ {<<o, b>>}
  /\ stale' = IF resolved THEN stale \ {o} ELSE stale
  /\ counter' = counter - 1
  /\ Commit("lost_orders")
  /\ UNCHANGED <<dl, oe, queued, lost, fatal, ws, subs, flight, known, hist, spent>>

\* The answer to an order-details request.  It resolves the order, unless it
\* is an error.
OrderDetailsAck(o, b, resolved) ==
  /\ Running /\ <<o, b>> \in asked
  /\ asked' = asked \ {<<o, b>>}
  /\ stale' = IF resolved THEN stale \ {o} ELSE stale
  /\ IF counter = 0
     THEN fatal' = "counter" /\ UNCHANGED <<counter, answered>>
     ELSE /\ counter' = counter - 1
          /\ IF counter = 1 THEN Commit("lost_orders") ELSE UNCHANGED answered
          /\ UNCHANGED fatal
  /\ UNCHANGED <<dl, oe, queued, lost, ws, subs, flight, known, hist, spent>>

-----------------------------------------------------------------------------
(* The order management system *)

\* A stream of the order was lost, or a request for it timed out.
GoStale(o) ==
  /\ Running /\ o \in known \ stale /\ stales < MaxStale
  /\ stale' = stale \cup {o}
  /\ stales' = stales + 1
  /\ UNCHANGED <<code, net, known, hist, sessions, drops>>

Forget(o) ==
  /\ Running /\ "forget" \in Faults /\ o \in known
  /\ known' = known \ {o}
  /\ stale' = stale \ {o}
  /\ UNCHANGED <<code, net, hist, spent>>

-----------------------------------------------------------------------------
Init ==
  /\ ws = "down" /\ dl = UNDEFINED /\ oe = "down"
  /\ queued = {} /\ answered = {} /\ lost = {} /\ counter = 0 /\ fatal = "none"
  /\ subs = {} /\ flight = {} /\ asked = {}
  /\ known = Orders /\ stale = {}
  /\ asks = [k \in Snapshots |-> 0] /\ answer = [k \in Snapshots |-> 0]
  /\ confirmed = {}
  /\ sessions = 0 /\ drops = 0 /\ stales = 0

\* log::fatal ends the process.
Terminated == ~Running /\ UNCHANGED vars

DropCopyStep   == \/ WsConnected \/ WsReady \/ WsDisconnected
                  \/ Login \/ LoginError \/ LoginRejected
                  \/ \E t \in Topics : Subscribe(t) \/ SubscribeError(t)
                  \/ \E o \in Orders : OrderPush(o)
                  \/ DropCopyTimer
OrderEntryStep == \/ RestConnected \/ RestDisconnected
                  \/ OrderEntryTimer \/ OrderEntryTimerThrows
                  \/ \E t \in flight : SnapshotAck(t[1], t[2])
                  \/ \E t \in asked, r \in BOOLEAN : OrderDetailsAck(t[1], t[2], r)
OmsStep        == \E o \in Orders : GoStale(o) \/ Forget(o)

Next == DropCopyStep \/ OrderEntryStep \/ OmsStep \/ Terminated

Spec == Init /\ [][Next]_vars

\* The timers fire, connections are retried (always_reconnect), the exchange
\* answers what it received, every REST request gets its callback, the rate
\* limiter lets a queued request through in the end, and an order-details
\* request that is repeated for ever does not fail for ever.
Sends(k) == OrderEntryTimer /\ k \in queued /\ k \notin queued'

Fairness ==
  /\ WF_vars(WsConnected) /\ WF_vars(WsReady) /\ WF_vars(Login)
  /\ WF_vars(ws = "closing" /\ WsDisconnected)
  /\ \A t \in Topics : WF_vars(Subscribe(t))
  /\ WF_vars(DropCopyTimer) /\ WF_vars(RestConnected)
  /\ \A k \in Requests : SF_vars(Sends(k))
  /\ \A k \in Snapshots : WF_vars(\E t \in flight : t[1] = k /\ SnapshotAck(k, t[2]))
  /\ \A o \in Orders : /\ WF_vars(\E t \in asked, r \in BOOLEAN :
                                    t[1] = o /\ OrderDetailsAck(o, t[2], r))
                       /\ SF_vars(\E t \in asked : t[1] = o /\ OrderDetailsAck(o, t[2], TRUE))

FairSpec == Spec /\ Fairness

-----------------------------------------------------------------------------
(* Properties *)

TypeOK ==
  /\ ws \in {"down", "connected", "login", "closing", "up"}
  /\ dl \in State
  /\ oe \in {"down", "ready"}
  /\ queued \subseteq Requests
  /\ answered \subseteq Requests
  /\ lost \subseteq Orders
  /\ counter \in Nat
  /\ fatal \in {"none", "login", "counter", "lost_orders"}
  /\ subs \subseteq Topics
  /\ flight \subseteq Snapshots \X Nat
  /\ asked \subseteq Orders \X Batches
  /\ known \subseteq Orders
  /\ stale \subseteq known
  /\ asks \in [Snapshots -> Nat]
  /\ answer \in [Snapshots -> Nat]
  /\ confirmed \subseteq Topics
  /\ sessions \in Nat /\ drops \in Nat /\ stales \in Nat

\* download_lost_orders_counter_ counts the order-details requests in flight,
\* over reconnects of either connection, rounds that overlap and rounds cut
\* short by NotConnected (order_entry.cpp:608-616 relies on it).
CounterIsInFlight == counter = Cardinality(asked)

\* So the answer to an order-details request never finds the counter at zero,
\* where get_order_details_ack calls log::fatal.
NoAckUnexpected == fatal # "counter"

\* details_lost_orders is never left behind: while an order is in it the
\* request that will empty it is queued, also when the web socket was lost
\* after the order was found (DropCopy resets neither).
LostOrdersAreQueued == lost # {} => "lost_orders" \in queued

\* When lost_orders counts as answered no order is waiting to be asked about
\* and no question is open, so the download never leaves GET_LOST_ORDERS with
\* an order unaccounted for ...
LostOrdersComplete ==
  ~EagerCommit /\ "lost_orders" \in answered => lost = {} /\ asked = {}

\* ... and check_request_queue never calls log::fatal there.
NoDownloadUnexpected == ~EagerCommit => fatal # "lost_orders"

\* What they rest on: a request is never both queued and answered.  Together
\* they are inductive (AccountSyncProofs).
AnsweredNotQueued == ~EagerCommit => answered \cap queued = {}

LostOrdersInv == /\ TypeOK
                 /\ IsFiniteSet(asked)
                 /\ CounterIsInFlight
                 /\ NoAckUnexpected
                 /\ LostOrdersAreQueued
                 /\ AnsweredNotQueued
                 /\ LostOrdersComplete
                 /\ NoDownloadUnexpected

\* A download past a subscription has had the exchange's answer to it on this
\* web socket, and waits for at most the subscription it is in.
SubscribedInSession ==
  /\ subs \subseteq {TopicOf(s) : s \in {dl} \cap SubscribeState}
  /\ \A s \in SubscribeState : dl > s => TopicOf(s) \in confirmed

\* The download does not pass a request that is still in the queue: what an
\* earlier session left there is sent before this session's READY.  (The details of
\* lost orders are also asked for after it.)
NothingLeftQueued ==
  ~EagerCommit =>
    \A s \in GetState \ {GET_LOST_ORDERS} :
      dl > s /\ (s = GET_TRADES => TradesLookback) => RequestOf(s) \notin queued

\* What #653 (CHANGELOG.md:13) is about: the snapshot that let the download go
\* on answers the request this session made, after it subscribed.
SnapshotFollowsSubscription ==
  \A s \in {GET_BALANCES, GET_CURRENT_POSITIONS, GET_OPEN_ORDERS} :
    dl > s => answer[RequestOf(s)] = asks[RequestOf(s)]

\* The gateway implements AccountStream: READY only after this connection's
\* subscriptions were answered and its snapshots requested in their order, and
\* never again before a disconnect.
StreamStatus == CASE dl = UNDEFINED -> "DISCONNECTED"
                  [] dl = DONE      -> "READY"
                  [] OTHER          -> "DOWNLOADING"

StateOf(k) == CHOOSE s \in GetState : RequestOf(s) = k

SnapshotsRequested ==
  {k \in Snapshots : StateOf(k) <= dl /\ (k = "trades" => TradesLookback)}

Stream == INSTANCE AccountStream
            WITH status <- StreamStatus, live <- confirmed, requested <- SnapshotsRequested

ImplementsAccountStream == Stream!Spec

\* What SubscribedInSession rests on: outside a session there is no download and
\* no confirmed topic.  Inductive with it (AccountSyncProofs).
SessionInv == /\ TypeOK
              /\ SubscribedInSession
              /\ ws # "up" => dl = UNDEFINED
              /\ dl = UNDEFINED => confirmed = {}

\* A session that logged in becomes READY, unless its web socket is lost.
LoginLeadsToReady == ws = "up" ~> (Ready \/ ws # "up" \/ ~Running)

\* A READY gateway clears up every stale order: the web socket updates it or an
\* order-details request does, also after earlier ones failed (#657).
StaleIsResolved ==
  \A o \in Orders :
    (Ready /\ o \in stale) ~> (o \notin stale \/ ~Ready \/ ~Running)

=============================================================================
