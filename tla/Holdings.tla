-------------------------------- MODULE Holdings --------------------------------
(***************************************************************************)
(* What clients are shown of an account's funds and positions.  There are  *)
(* two sources of them, on two connections:                                *)
(*                                                                         *)
(*   DropCopy    the channels "account" and "position": a snapshot after   *)
(*               the subscription, which does not always come, and then    *)
(*               each change;                                              *)
(*   OrderEntry  a REST download that DropCopy asks for after it has       *)
(*               subscribed, because of that.                              *)
(*                                                                         *)
(* Nothing orders the two: an answer to the download may be older than a   *)
(* push that overtook it, and an answer to an earlier session's request    *)
(* may come in this one.  The exchange is external; what it does not hold  *)
(* it lists in no snapshot.  AccountSync models the order of the requests, *)
(* this module their values.                                               *)
(***************************************************************************)
EXTENDS Naturals, Sequences

CONSTANTS
  Keys,         \* currencies of the funds, or symbols of the positions
  MaxQuantity,  \* bound: size of a position, balance of a currency
  MaxEvents,    \* bound: changes at the exchange
  MaxSessions   \* bound: sessions of the private web socket

ASSUME HoldingsAssumption ==
  MaxQuantity \in Nat /\ MaxEvents \in Nat /\ MaxSessions \in Nat

VARIABLES
  kind,       \* what is looked at: the funds, or the positions in a hold mode
  held,       \* the exchange: [key -> its quantities so far, oldest first]
  session,    \* DropCopy: whether its channel is subscribed
  pushes,     \* messages on their way to DropCopy
  wanted,     \* Request: the download is queued
  flight,     \* OrderEntry: its requests in flight, with the answer once there
  shown,      \* the dispatcher: [key -> quantity on each side]
  age,        \* history: [key -> which of them is shown]
  newest,     \* history: [key -> the latest of them ever shown]
  synced,     \* history: this session brought a snapshot
  unlisted,   \* history: keys given up while no session told
  sessions, events

history == <<age, newest, synced, unlisted>>
vars == <<kind, held, session, pushes, wanted, flight, shown, history, sessions, events>>

\* In one-way mode the exchange calls a position long or short, or it calls it net.
Kinds == {"funds", "one_way_mode", "net", "hedge_mode"}

Sides == IF kind = "funds" THEN {"balance"} ELSE {"long", "short"}
Flat  == [d \in Sides |-> 0]

Quantities == [Sides -> 0 .. MaxQuantity]

\* Quantities the exchange can hold: in one-way mode there is one position.
Holding == {q \in Quantities :
              kind \in {"one_way_mode", "net"} => \E d \in Sides : \A e \in Sides \ {d} : q[e] = 0}

Version(k) == Len(held[k])
Held(k)    == held[k][Version(k)]

\* What a message of the exchange has of a key: one side.  (The version is history.)
Named(d) == IF kind = "net" THEN "net" ELSE d
Items  == [key : Keys, side : Sides \cup {"net"}, size : 0 .. MaxQuantity, version : Nat]
Listed == {i \in {[key |-> k, side |-> Named(d), size |-> Held(k)[d], version |-> Version(k)]
                   : k \in Keys, d \in Sides} : i.size > 0}

-----------------------------------------------------------------------------
(* FundsUpdate and PositionUpdate *)

\* Mutant of Quantity: the other side is left as it was.
QuantityKept(i) == [shown[i.key] EXCEPT ![i.side] = i.size]

\* What an update made of item i shows: its side, and nothing on the other one; nothing
\* on either if the side is net.
Quantity(i) == [d \in Sides |-> IF d = i.side THEN i.size ELSE 0]

\* One update per item, in any order: of two items of a key the last one stays.
Dispatch(items) ==
  \E last \in [{i.key : i \in items} -> items] :
    /\ \A k \in DOMAIN last : last[k].key = k
    /\ shown' = [k \in Keys |-> IF k \in DOMAIN last THEN Quantity(last[k]) ELSE shown[k]]
    /\ age' = [k \in Keys |-> IF k \in DOMAIN last THEN last[k].version ELSE age[k]]
    /\ newest' = [k \in Keys |-> IF age'[k] > newest[k] THEN age'[k] ELSE newest[k]]

Told(items) == {i.key : i \in items}

-----------------------------------------------------------------------------
(* DropCopy *)

\* The channel is subscribed: a snapshot comes or not, and the download goes on to
\* ask for another one.
Subscribe ==
  /\ ~session /\ sessions < MaxSessions
  /\ session' = TRUE /\ sessions' = sessions + 1
  /\ wanted' = TRUE
  /\ pushes' \in {<<>>, <<[snapshot |-> TRUE, items |-> Listed]>>}
  /\ synced' = FALSE
  /\ unlisted' = {k \in Keys : Held(k) = Flat /\ age[k] # Version(k)}
  /\ UNCHANGED <<kind, held, flight, shown, age, newest, events>>

Disconnected ==
  /\ session
  /\ session' = FALSE
  /\ pushes' = <<>>
  /\ UNCHANGED <<kind, held, wanted, flight, shown, history, sessions, events>>

\* Mutant of Push: an item without quantity is not dispatched.
PushOpen ==
  /\ pushes # <<>>
  /\ pushes' = Tail(pushes)
  /\ LET items == Head(pushes).items
     IN  /\ Dispatch({i \in items : i.size > 0})
         /\ unlisted' = unlisted \ Told(items)
  /\ synced' = (synced \/ Head(pushes).snapshot)
  /\ UNCHANGED <<kind, held, session, wanted, flight, sessions, events>>

\* operator()(Account), operator()(Position)
Push ==
  /\ pushes # <<>>
  /\ pushes' = Tail(pushes)
  /\ LET items == Head(pushes).items
     IN  /\ Dispatch(items)
         /\ unlisted' = unlisted \ Told(items)
  /\ synced' = (synced \/ Head(pushes).snapshot)
  /\ UNCHANGED <<kind, held, session, wanted, flight, sessions, events>>

-----------------------------------------------------------------------------
(* OrderEntry *)

\* check_request_queue: get_account_assets, get_current_positions.
Request ==
  /\ wanted
  /\ wanted' = FALSE
  /\ flight' = Append(flight, [answered |-> FALSE, items |-> {}, session |-> 0])
  /\ UNCHANGED <<kind, held, session, pushes, shown, history, sessions, events>>

\* Mutant of Ack: every item is taken for the side it is not on.
AckSwapped ==
  /\ flight # <<>> /\ Head(flight).answered
  /\ flight' = Tail(flight)
  /\ LET items == {[i EXCEPT !.side = IF @ = "long" THEN "short"
                                      ELSE IF @ = "short" THEN "long" ELSE @]
                     : i \in Head(flight).items}
     IN  /\ Dispatch(items)
         /\ UNCHANGED unlisted
  /\ synced' = (synced \/ (session /\ Head(flight).session = sessions))
  /\ UNCHANGED <<kind, held, session, pushes, wanted, sessions, events>>

\* operator()(AccountAssetsAck), operator()(CurrentPositionsAck)
Ack ==
  /\ flight # <<>> /\ Head(flight).answered
  /\ flight' = Tail(flight)
  /\ LET items == Head(flight).items
     IN  /\ Dispatch(items)
         /\ UNCHANGED unlisted
  /\ synced' = (synced \/ (session /\ Head(flight).session = sessions))
  /\ UNCHANGED <<kind, held, session, pushes, wanted, sessions, events>>

\* An error is logged, and commits the request like an answer.
AckError ==
  /\ flight # <<>>
  /\ flight' = Tail(flight)
  /\ UNCHANGED <<kind, held, session, pushes, wanted, shown, history, sessions, events>>

-----------------------------------------------------------------------------
(* The exchange *)

\* It answers the oldest request with what it holds.
Answer ==
  \E n \in DOMAIN flight :
    /\ \A m \in 1 .. n - 1 : flight[m].answered
    /\ ~flight[n].answered
    /\ flight' = [flight EXCEPT ![n] =
         [answered |-> TRUE, items |-> Listed, session |-> IF session THEN sessions ELSE 0]]
    /\ UNCHANGED <<kind, held, session, pushes, wanted, shown, history, sessions, events>>

\* The side the push of a change is about: the one there is, if there is one.
ChangedSide(q, r) ==
  LET changed == {d \in Sides : q[d] # r[d]}
  IN  CHOOSE d \in changed : r[d] > 0 \/ \A e \in changed : r[e] = 0

\* A trade or a transfer.  In hedge mode it acts on one side.
Change(k, q) ==
  /\ events < MaxEvents /\ q # Held(k)
  /\ kind = "hedge_mode" => \E d \in Sides : q[d] = Held(k)[d]
  /\ events' = events + 1
  /\ held' = [held EXCEPT ![k] = Append(@, q)]
  /\ LET d == ChangedSide(Held(k), q)
         i == [key |-> k, side |-> Named(d), size |-> q[d], version |-> Version(k) + 1]
     IN  pushes' = IF session THEN Append(pushes, [snapshot |-> FALSE, items |-> {i}])
                   ELSE pushes
  /\ UNCHANGED <<kind, session, wanted, flight, shown, history, sessions>>

-----------------------------------------------------------------------------
Init ==
  /\ kind \in Kinds
  /\ held = [k \in Keys |-> <<Flat>>]
  /\ session = FALSE /\ pushes = <<>> /\ wanted = FALSE /\ flight = <<>>
  /\ shown = [k \in Keys |-> Flat]
  /\ age = [k \in Keys |-> 1] /\ newest = [k \in Keys |-> 1]
  /\ synced = FALSE /\ unlisted = {}
  /\ sessions = 0 /\ events = 0

Next == \/ Subscribe \/ Disconnected \/ Push
        \/ Request \/ Ack \/ AckError \/ Answer
        \/ \E k \in Keys : \E q \in Holding : Change(k, q)

Spec == Init /\ [][Next]_vars

-----------------------------------------------------------------------------
(* Properties *)

TypeOK ==
  /\ kind \in Kinds
  /\ shown \in [Keys -> Holding]
  /\ session \in BOOLEAN /\ wanted \in BOOLEAN /\ sessions \in Nat
  /\ held \in [Keys -> Seq(Holding)] /\ age \in [Keys -> Nat]
  /\ \A k \in Keys : age[k] \in 1 .. Version(k)
  /\ \A n \in DOMAIN pushes : pushes[n].items \subseteq Items
  /\ \A n \in DOMAIN flight : flight[n].items \subseteq Items

\* What a source says is shown as the exchange had it at the time, never a mix of two
\* times or of two sides.  The exceptions: in hedge mode one side at a time is shown,
\* and of a position that the exchange calls net none of it.
ShownAsHeld ==
  \A k \in Keys :
    LET then == held[k][age[k]]
    IN  \/ shown[k] = then
        \/ kind = "hedge_mode" /\ \E d \in Sides : shown[k] = [Flat EXCEPT ![d] = then[d]]
        \/ kind = "net" /\ shown[k] = Flat

\* Every message has arrived, and a snapshot of this session was among them.
Settled ==
  /\ session /\ synced
  /\ pushes = <<>> /\ ~wanted /\ flight = <<>>

\* What a session that has settled shows is of the latest the exchange holds, through
\* whatever sessions, failed downloads and changes in between.  The exceptions are a
\* key that an answer older than what was shown brought back, and one given up
\* between two sessions, which no snapshot lists any more.
SettledIsLatest ==
  Settled =>
    \A k \in Keys : age[k] = Version(k) \/ age[k] < newest[k] \/ k \in unlisted
=============================================================================
