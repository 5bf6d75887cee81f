----------------------------- MODULE OrderActions -----------------------------
(***************************************************************************)
(* The requests of the order management system (OMS) for one account, the  *)
(* two paths they take to the exchange, and what the OMS is told of them.  *)
(*                                                                         *)
(*   REST  OrderEntry: one HTTP connection; the callback of a request      *)
(*         remembers the order and the version it was made for.  An error  *)
(*         is reported, a success is not: the private stream tells that.   *)
(*   WS    DropCopy (settings.ws_api): the id of the message carries a     *)
(*         prefix and the request, and comes back with the answer.  With   *)
(*         the connection the answers to its requests are lost.            *)
(*                                                                         *)
(* Which ready web socket is taken is the subject of RoundRobin; which     *)
(* becomes ready when, of AccountSync.                                     *)
(***************************************************************************)
EXTENDS Naturals, Sequences, FiniteSets

CONSTANTS
  Orders,        \* orders of the account
  Sockets,       \* its DropCopy connections
  LateServer,    \* BOOLEAN: a server error (502, 504) may follow an execution
  MaxVersion,    \* bound: requests per order
  MaxCancelAll,  \* bound: cancel-all requests
  MaxDrops       \* bound: connections lost

ASSUME ActionsAssumption ==
  /\ "rest" \notin Sockets /\ IsFiniteSet(Sockets) /\ "all" \notin Orders
  /\ LateServer \in BOOLEAN
  /\ MaxVersion \in Nat \ {0} /\ MaxCancelAll \in Nat /\ MaxDrops \in Nat

Links == Sockets \cup {"rest"}
Kind  == {"create", "modify", "cancel"}

\* A request of the OMS.  Order and version are what its request_id stands for;
\* the creation of an order is its version 1.
Requests == (Kind \X Orders \X (1 .. MaxVersion))
              \cup ({"cancel_all"} \X {"all"} \X (1 .. MaxCancelAll))

VARIABLES
  ws_api,    \* settings.ws_api: whether order actions take the web sockets
  ready,     \* links that can carry a request
  request,   \* [link -> queue of requests on their way to the exchange]
  response,  \* [link -> queue of answers on their way back]
  book,      \* the exchange: [order -> "none", "live" or "dead"]
  version,   \* the OMS: [order -> its last version], 0 before the creation
  told,      \* the OMS: what it was told of its requests, <<request, verdict>>
  sent,      \* history: requests and the links they took
  applied,   \* history: requests the exchange executed
  handled,   \* history: [order -> the last version the exchange looked at]
  before,    \* history: [cancel-all -> the orders created before it]
  orphans,   \* history: requests whose answer was lost with a web socket
  drops      \* how often a connection was lost

oms      == <<version, told>>
exchange == <<book, applied, handled>>
hist     == <<sent, before, orphans>>
vars == <<ws_api, ready, request, response, oms, exchange, hist, drops>>

Verdicts == {"accepted", "rejected", "failed"}

-----------------------------------------------------------------------------
(* The ids of the web socket API: Encoder. *)

Prefix(kind) == CASE kind = "create" -> "P"
                  [] kind = "modify" -> "M"
                  [] kind = "cancel" -> "C"

\* Mutant of ParseId: the prefix of a modification is not known.
ParseIdShort(id) == CASE id[1] = "P" -> "create"
                      [] id[1] = "C" -> "cancel"
                      [] OTHER       -> "undefined"

ParseId(id) == CASE id[1] = "P" -> "create"
                 [] id[1] = "M" -> "modify"
                 [] id[1] = "C" -> "cancel"
                 [] OTHER       -> "undefined"

\* Mutant of Encoded: the id names the creation of the order.
EncodedFirst(r) == [kind |-> r[1], id |-> <<Prefix(r[1]), r[2], 1>>]

\* What place_order_ws, modify_order_ws and cancel_order_ws make of r.
Encoded(r) == [kind |-> r[1], id |-> <<Prefix(r[1]), r[2], r[3]>>]

-----------------------------------------------------------------------------
(* The Controller's routes, and the requests that take them. *)

\* Mutant of Routes: a cancellation always takes REST, as cancel-all does.
RoutesMixed(r) == IF ws_api /\ r[1] \notin {"cancel", "cancel_all"} THEN Sockets ELSE {"rest"}

Routes(r) == IF ws_api /\ r[1] # "cancel_all" THEN Sockets ELSE {"rest"}

\* Mutant of Send: a cancel-all goes first.
SendUrgent(r) ==
  \E l \in Routes(r) \cap ready :
    /\ request' = [request EXCEPT ![l] = IF r[1] = "cancel_all" THEN <<r>> \o @
                                                                ELSE Append(@, r)]
    /\ sent' = sent \cup {<<r, l>>}
    /\ UNCHANGED <<ready, response, told, exchange, orphans, drops>>

\* With no ready link NotReady refuses the request, which changes nothing here.
Send(r) ==
  \E l \in Routes(r) \cap ready :
    /\ request' = [request EXCEPT ![l] = Append(@, r)]
    /\ sent' = sent \cup {<<r, l>>}
    /\ UNCHANGED <<ready, response, told, exchange, orphans, drops>>

CreateOrder(o) ==
  /\ version[o] = 0
  /\ version' = [version EXCEPT ![o] = 1]
  /\ Send(<<"create", o, 1>>)
  /\ UNCHANGED before

\* The OMS passes on a modification or cancellation of an order it created, also
\* before it has heard of the creation.
ModifyOrder(o) ==
  /\ version[o] \in 1 .. MaxVersion - 1
  /\ version' = [version EXCEPT ![o] = @ + 1]
  /\ Send(<<"modify", o, version[o] + 1>>)
  /\ UNCHANGED before

CancelOrder(o) ==
  /\ version[o] \in 1 .. MaxVersion - 1
  /\ version' = [version EXCEPT ![o] = @ + 1]
  /\ Send(<<"cancel", o, version[o] + 1>>)
  /\ UNCHANGED before

CancelAllOrders(n) ==
  /\ \A s \in sent : s[1][1] = "cancel_all" => s[1][3] < n
  /\ Send(<<"cancel_all", "all", n>>)
  /\ before' = [before EXCEPT ![n] = {o \in Orders : version[o] > 0}]
  /\ UNCHANGED version

-----------------------------------------------------------------------------
(* The exchange *)

\* The book after r was executed.
Executed(r) == CASE r[1] = "create"     -> [book EXCEPT ![r[2]] = "live"]
                 [] r[1] = "modify"     -> book
                 [] r[1] = "cancel"     -> [book EXCEPT ![r[2]] = "dead"]
                 [] r[1] = "cancel_all" -> [o \in Orders |-> IF book[o] = "live"
                                                             THEN "dead" ELSE book[o]]

CanExecute(r) == CASE r[1] = "create"              -> book[r[2]] = "none"
                   [] r[1] \in {"modify", "cancel"} -> book[r[2]] = "live"
                   [] OTHER                        -> TRUE

\* The HTTP answers to a request that was executed, or was not.
Results(yes) == {"network", "unreadable"}
                  \cup (IF yes THEN {"ok"} ELSE {"code", "limit", "client", "server"})
                  \cup (IF yes /\ LateServer THEN {"server"} ELSE {})

Answers(l, r, yes) ==
  IF l = "rest" THEN [request : {r}, result : Results(yes)]
                ELSE {[topic |-> IF yes THEN r[1] ELSE "error", id |-> Encoded(r).id]}

\* The exchange takes the next request of a link, executes it or not, and answers.
Handle(l) ==
  /\ request[l] # <<>>
  /\ LET r == Head(request[l])
     IN  \E yes \in BOOLEAN : \E a \in Answers(l, r, yes) :
           /\ yes => CanExecute(r)
           /\ book' = IF yes THEN Executed(r) ELSE book
           /\ applied' = IF yes THEN applied \cup {r} ELSE applied
           /\ handled' = [o \in Orders |-> IF r[2] = o THEN r[3] ELSE handled[o]]
           /\ response' = [response EXCEPT ![l] = Append(@, a)]
  /\ request' = [request EXCEPT ![l] = Tail(@)]
  /\ UNCHANGED <<ready, oms, hist, drops>>

\* An order is filled, or the exchange cancels it.
Expire(o) ==
  /\ book[o] = "live"
  /\ book' = [book EXCEPT ![o] = "dead"]
  /\ UNCHANGED <<ready, request, response, oms, applied, handled, hist, drops>>

-----------------------------------------------------------------------------
(* What comes back *)

\* Mutants of Verdict: an answer that did not arrive counts as a rejection; it
\* is not reported.
VerdictBlind(result)  == IF result = "ok" THEN "none" ELSE "rejected"
VerdictSilent(result) == IF result \in {"ok", "network"} THEN "none" ELSE "rejected"

\* OrderEntry::process_response and the success handlers: what is reported.
Verdict(result) == CASE result = "ok" -> "none"
                     [] result \in {"code", "limit", "client", "server"} -> "rejected"
                     [] result \in {"network", "unreadable"} -> "failed"

\* Mutants of RestAck: the callbacks remember version 1; they also report a
\* success.
RestAckAlways ==
  /\ response["rest"] # <<>>
  /\ response' = [response EXCEPT !["rest"] = Tail(@)]
  /\ LET a == Head(response["rest"])
     IN  told' = told \cup {<<a.request, Verdict(a.result)>>}
  /\ UNCHANGED <<ready, request, version, exchange, hist, drops>>

RestAckFirst ==
  /\ response["rest"] # <<>>
  /\ response' = [response EXCEPT !["rest"] = Tail(@)]
  /\ LET a == Head(response["rest"])
     IN  told' = IF Verdict(a.result) = "none" THEN told
                 ELSE told \cup {<<<<a.request[1], a.request[2], 1>>, Verdict(a.result)>>}
  /\ UNCHANGED <<ready, request, version, exchange, hist, drops>>

\* place_order_ack, modify_order_ack, cancel_order_ack and cancel_all_orders_ack.
\* The last one reports every failure as a rejection by the exchange.
RestAck ==
  /\ response["rest"] # <<>>
  /\ response' = [response EXCEPT !["rest"] = Tail(@)]
  /\ LET a       == Head(response["rest"])
         verdict == IF a.request[1] = "cancel_all" /\ a.result # "ok"
                    THEN "rejected" ELSE Verdict(a.result)
     IN  told' = IF verdict = "none" THEN told ELSE told \cup {<<a.request, verdict>>}
  /\ UNCHANGED <<ready, request, version, exchange, hist, drops>>

\* Mutant of SocketAnswer: an error accepts the request its id names.
SocketAnswerAccepts(c) ==
  /\ response[c] # <<>>
  /\ response' = [response EXCEPT ![c] = Tail(@)]
  /\ LET a == Head(response[c])
     IN  told' = told \cup {<<<<ParseId(a.id), a.id[2], a.id[3]>>, "accepted">>}
  /\ UNCHANGED <<ready, request, version, exchange, hist, drops>>

\* DropCopy: PlaceOrder, ModifyOrder and CancelOrder accept the request of their
\* topic; Error rejects the request its id names, if it names one.
SocketAnswer(c) ==
  /\ response[c] # <<>>
  /\ response' = [response EXCEPT ![c] = Tail(@)]
  /\ LET a    == Head(response[c])
         kind == IF a.topic = "error" THEN ParseId(a.id) ELSE a.topic
         r    == <<kind, a.id[2], a.id[3]>>
     IN  told' = IF kind = "undefined" THEN told
                 ELSE told \cup {<<r, IF a.topic = "error" THEN "rejected" ELSE "accepted">>}
  /\ UNCHANGED <<ready, request, version, exchange, hist, drops>>

-----------------------------------------------------------------------------
(* Connections *)

\* (A connection no request takes is left out.)
Connect(l) ==
  /\ l \notin ready /\ (ws_api \/ l = "rest")
  /\ ready' = ready \cup {l}
  /\ UNCHANGED <<request, response, oms, exchange, hist, drops>>

\* With a web socket its requests and answers are lost.
SocketLost(c) ==
  /\ c \in ready /\ drops < MaxDrops
  /\ ready' = ready \ {c} /\ drops' = drops + 1
  /\ request' = [request EXCEPT ![c] = <<>>]
  /\ response' = [response EXCEPT ![c] = <<>>]
  /\ orphans' = orphans \cup {s[1] : s \in {t \in sent : t[2] = c}}
  /\ UNCHANGED <<oms, exchange, sent, before>>

\* With the HTTP connection too, but every callback gets the network error.
RestLost ==
  /\ "rest" \in ready /\ drops < MaxDrops
  /\ ready' = ready \ {"rest"} /\ drops' = drops + 1
  /\ request' = [request EXCEPT !["rest"] = <<>>]
  /\ LET failed(r) == [request |-> r, result |-> "network"]
         waiting   == [i \in DOMAIN response["rest"] |-> response["rest"][i].request]
         open      == waiting \o request["rest"]
     IN  response' = [response EXCEPT !["rest"] = [i \in DOMAIN open |-> failed(open[i])]]
  /\ UNCHANGED <<oms, exchange, hist>>

-----------------------------------------------------------------------------
Init ==
  /\ ws_api \in BOOLEAN
  /\ ready = {}
  /\ request = [l \in Links |-> <<>>] /\ response = [l \in Links |-> <<>>]
  /\ book = [o \in Orders |-> "none"]
  /\ version = [o \in Orders |-> 0]
  /\ told = {} /\ sent = {} /\ applied = {} /\ orphans = {} /\ drops = 0
  /\ handled = [o \in Orders |-> 0]
  /\ before = [n \in 1 .. MaxCancelAll |-> {}]

Gateway  == \/ RestAck \/ RestLost
            \/ \E c \in Sockets : SocketAnswer(c) \/ SocketLost(c)
            \/ \E l \in Links : Connect(l)
Oms      == \/ \E o \in Orders : CreateOrder(o) \/ ModifyOrder(o) \/ CancelOrder(o)
            \/ \E n \in 1 .. MaxCancelAll : CancelAllOrders(n)
Exchange == \/ \E l \in Links : Handle(l)
            \/ \E o \in Orders : Expire(o)

Next == (Gateway \/ Oms \/ Exchange) /\ UNCHANGED ws_api

Spec == Init /\ [][Next]_vars

-----------------------------------------------------------------------------
(* Properties *)

TypeOK ==
  /\ ws_api \in BOOLEAN /\ ready \subseteq Links
  /\ \A l \in Links : \A i \in DOMAIN request[l] : request[l][i] \in Requests
  /\ book \in [Orders -> {"none", "live", "dead"}]
  /\ version \in [Orders -> 0 .. MaxVersion]
  /\ told \subseteq Requests \X Verdicts
  /\ sent \subseteq Requests \X Links
  /\ applied \subseteq Requests /\ orphans \subseteq Requests
  /\ handled \in [Orders -> 0 .. MaxVersion]
  /\ before \in [1 .. MaxCancelAll -> SUBSET Orders]
  /\ drops \in Nat

Sent     == {s[1] : s \in sent}
Answered == {t[1] : t \in told}

\* The OMS is told of a request it made, and never twice.
ToldOnce ==
  /\ Answered \subseteq Sent
  /\ \A s, t \in told : s[1] = t[1] => s = t

\* What it is told is what the exchange did: an accepted request was executed
\* and a rejected one was not, whichever path it took and whatever became of
\* the connection meanwhile.  (A cancel-all is rejected on any failure.)
ToldTheTruth ==
  ~LateServer =>
    \A t \in told :
      /\ t[2] = "accepted" => t[1] \in applied
      /\ t[2] = "rejected" /\ t[1][1] # "cancel_all" => t[1] \notin applied

\* No answer gets lost in the gateway: a request the OMS heard nothing of is on
\* its way, was executed by way of REST, or its web socket is gone.  These are
\* the ones the private stream and the stale orders must account for.
Waiting == (UNION {{request[l][i] : i \in DOMAIN request[l]} : l \in Links})
             \cup {response["rest"][i].request : i \in DOMAIN response["rest"]}

OnSocket(r) == \E c \in Sockets : \E i \in DOMAIN response[c] :
                 response[c][i].id = Encoded(r).id

Accounted ==
  \A s \in sent :
    LET r == s[1]
    IN  \/ r \in Answered \cup Waiting \cup orphans
        \/ s[2] = "rest" /\ r \in applied
        \/ s[2] # "rest" /\ OnSocket(r)

\* As long as no connection is lost, and one web socket carries all that does not
\* go by REST, the exchange looks at the requests for an order in the order they
\* were made.
InOrder ==
  drops = 0 /\ Cardinality({s[2] : s \in sent} \cap Sockets) <= 1 =>
    \A o \in Orders : \A l \in Links : \A i \in DOMAIN request[l] :
      request[l][i][2] = o => request[l][i][3] > handled[o]

\* Over REST a cancel-all reaches every order that was created before it.  (With
\* ws_api the creation may still be on its web socket.)
CancelAllReaches ==
  drops = 0 /\ ~ws_api =>
    \A n \in 1 .. MaxCancelAll : \A o \in before[n] :
      <<"cancel_all", "all", n>> \in applied => book[o] # "live"
=============================================================================
