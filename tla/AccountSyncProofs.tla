-------------------------- MODULE AccountSyncProofs --------------------------
(***************************************************************************)
(* Proofs about AccountSync, for every set of orders, every bound and      *)
(* every combination of settings and faults.                               *)
(***************************************************************************)
EXTENDS AccountSync, FiniteSetTheorems, TLAPS

LEMMA InitTypeOK == Init => TypeOK
BY SyncAssumption DEF Init, TypeOK, State, UNDEFINED, DONE

-----------------------------------------------------------------------------
USE DEF UNDEFINED, GET_ACCOUNT, SUBSCRIBE_BALANCES, GET_BALANCES, SUBSCRIBE_POSITIONS,
        GET_CURRENT_POSITIONS, SUBSCRIBE_ORDERS, GET_OPEN_ORDERS, GET_LOST_ORDERS,
        SUBSCRIBE_TRADES, GET_TRADES, DONE, State, SubscribeState, GetState

\* The tables of the download: every state but the last has a next one, and a
\* state's topic or request is one of the account's.
LEMMA AfterType ==
  ASSUME NEW s \in State, s # DONE, NEW L
  PROVE  After(s, L) \in State /\ s < After(s, L)
BY SyncAssumption DEF After

LEMMA TopicType == ASSUME NEW s \in SubscribeState PROVE TopicOf(s) \in Topics
BY DEF TopicOf, Topics

LEMMA RequestType == ASSUME NEW s \in GetState PROVE RequestOf(s) \in Requests
BY DEF RequestOf, Requests, Snapshots

\* What the helpers of the actions keep typed.
LEMMA EnterType ==
  ASSUME NEW s \in State, NEW open \in SUBSET Topics, Enter(s, open)
  PROVE  dl' \in State /\ subs' \subseteq Topics
BY TopicType DEF Enter

LEMMA RequestKeepsType ==
  ASSUME TypeOK, NEW R \in SUBSET Requests, Request(R)
  PROVE  /\ queued' \subseteq Requests /\ answered' \subseteq Requests
         /\ asks' \in [Snapshots -> Nat]
BY DEF TypeOK, Request

LEMMA RequestsOnType == ASSUME NEW s \in State PROVE RequestsOn(s) \subseteq Requests
BY RequestType DEF RequestsOn

LEMMA SendType ==
  ASSUME TypeOK, NEW R \in SUBSET queued, NEW S \in SUBSET Orders, SendRequests(R, S)
  PROVE  /\ queued' \subseteq Requests /\ lost' \subseteq Orders /\ counter' \in Nat
         /\ flight' \subseteq Snapshots \X Nat
         /\ asked' \subseteq Orders \X Batches
<1>1. IsFiniteSet(S)
  BY SyncAssumption, FS_Subset
<1>2. Cardinality(S) \in Nat
  BY <1>1, FS_CardinalityType
<1>3. \A k \in R \ {"lost_orders"} : <<k, asks[k]>> \in Snapshots \X Nat
  BY DEF TypeOK, Requests
<1>4. QED
  BY <1>2, <1>3 DEF SendRequests, TypeOK

\* Every step keeps the variables typed.
LEMMA NextTypeOK == TypeOK /\ [Next]_vars => TypeOK'
<1> SUFFICES ASSUME TypeOK, [Next]_vars PROVE TypeOK'
  OBVIOUS
<1> USE DEF code, net, oms, hist, spent
<1>1. CASE WsConnected
  BY <1>1 DEF TypeOK, WsConnected
<1>2. CASE WsReady
  BY <1>2 DEF TypeOK, WsReady
<1>3. CASE WsDisconnected
  BY <1>3 DEF TypeOK, WsDisconnected
<1>4. CASE Login
  <2>1. GET_ACCOUNT \in State /\ subs \in SUBSET Topics
    BY DEF TypeOK
  <2>2. Enter(GET_ACCOUNT, subs) /\ Request(RequestsOn(GET_ACCOUNT))
    BY <1>4 DEF Login
  <2>3. dl' \in State /\ subs' \subseteq Topics
    BY <2>1, <2>2, EnterType
  <2>4. /\ queued' \subseteq Requests /\ answered' \subseteq Requests
        /\ asks' \in [Snapshots -> Nat]
    BY <2>1, <2>2, RequestsOnType, RequestKeepsType
  <2>5. QED
    BY <1>4, <2>3, <2>4 DEF TypeOK, Login
<1>5. CASE LoginError \/ LoginRejected
  BY <1>5 DEF TypeOK, LoginError, LoginRejected
<1>6. ASSUME NEW t \in Topics, Subscribe(t) PROVE TypeOK'
  <2>1. CASE dl \in SubscribeState /\ TopicOf(dl) = t
    <3>1. After(dl, lost) \in State
      BY <2>1, AfterType
    <3>2. Enter(After(dl, lost), subs \ {t}) /\ Request(RequestsOn(After(dl, lost)))
      BY <1>6, <2>1 DEF Subscribe
    <3>3. dl' \in State /\ subs' \subseteq Topics
      BY <3>1, <3>2, EnterType DEF TypeOK
    <3>4. /\ queued' \subseteq Requests /\ answered' \subseteq Requests
          /\ asks' \in [Snapshots -> Nat]
      BY <3>1, <3>2, RequestsOnType, RequestKeepsType
    <3>5. QED
      BY <1>6, <3>3, <3>4 DEF TypeOK, Subscribe
  <2>2. CASE ~(dl \in SubscribeState /\ TopicOf(dl) = t)
    BY <1>6, <2>2 DEF TypeOK, Subscribe
  <2>3. QED
    BY <2>1, <2>2
<1>7. ASSUME NEW t \in Topics, SubscribeError(t) PROVE TypeOK'
  BY <1>7 DEF TypeOK, SubscribeError
<1>8. ASSUME NEW o \in Orders, OrderPush(o) PROVE TypeOK'
  BY <1>8 DEF TypeOK, OrderPush
<1>9. CASE DropCopyTimer
  <2>1. CASE Unexpected
    BY <1>9, <2>1 DEF TypeOK, DropCopyTimer
  <2>2. CASE ~Unexpected
    <3>1. NextState \in State
      BY AfterType DEF TypeOK, NextState, Answered
    <3>2. PICK due \in BOOLEAN :
            /\ IF Answered THEN Enter(NextState, subs) ELSE UNCHANGED <<dl, subs>>
            /\ lost' = lost \cup Swept \cup NewStale(due)
            /\ Request((IF Answered THEN RequestsOn(NextState) ELSE {})
                         \cup TimedRequest(NewStale(due)))
            /\ UNCHANGED fatal
      BY <1>9, <2>2 DEF DropCopyTimer
    <3>3. dl' \in State /\ subs' \subseteq Topics
      BY <3>1, <3>2, EnterType DEF TypeOK
    <3>4. lost' \subseteq Orders
      BY <3>2 DEF TypeOK, Swept, NewStale
    <3>5. (IF Answered THEN RequestsOn(NextState) ELSE {})
            \cup TimedRequest(NewStale(due)) \in SUBSET Requests
      BY <3>1, RequestsOnType DEF TimedRequest, Requests
    <3>6. /\ queued' \subseteq Requests /\ answered' \subseteq Requests
          /\ asks' \in [Snapshots -> Nat]
      BY <3>2, <3>5, RequestKeepsType
    <3>7. QED
      BY <1>9, <3>2, <3>3, <3>4, <3>6 DEF TypeOK, DropCopyTimer
  <2>3. QED
    BY <2>1, <2>2
<1>10. CASE RestConnected
  BY <1>10 DEF TypeOK, RestConnected
<1>11. CASE RestDisconnected
  BY <1>11 DEF TypeOK, RestDisconnected
<1>12. CASE OrderEntryTimer
  <2>1. PICK R \in SUBSET queued :
          SendRequests(R, IF "lost_orders" \in R THEN Found ELSE {})
    BY <1>12 DEF OrderEntryTimer
  <2>2. (IF "lost_orders" \in R THEN Found ELSE {}) \in SUBSET Orders
    BY DEF TypeOK, Found
  <2>3. QED
    BY <1>12, <2>1, <2>2, SendType DEF TypeOK, OrderEntryTimer
<1>13. CASE OrderEntryTimerThrows
  <2>1. PICK R \in SUBSET (queued \ {"lost_orders", "trades"}), S \in SUBSET Found :
          SendRequests(R, S)
    BY <1>13 DEF OrderEntryTimerThrows
  <2>2. R \in SUBSET queued /\ S \in SUBSET Orders
    BY DEF TypeOK, Found
  <2>3. QED
    BY <1>13, <2>1, <2>2, SendType DEF TypeOK, OrderEntryTimerThrows
<1>14. ASSUME NEW t \in flight, SnapshotAck(t[1], t[2]) PROVE TypeOK'
  <2>1. t[1] \in Snapshots /\ t[2] \in Nat
    BY DEF TypeOK
  <2>2. answered' \subseteq Requests
    BY <1>14, <2>1 DEF TypeOK, SnapshotAck, Commit, Requests
  <2>3. answer' \in [Snapshots -> Nat]
    BY <1>14, <2>1 DEF TypeOK, SnapshotAck
  <2>4. QED
    BY <1>14, <2>2, <2>3 DEF TypeOK, SnapshotAck
<1>15. ASSUME NEW t \in asked, NEW r \in BOOLEAN, OrderDetailsAck(t[1], t[2], r)
       PROVE  TypeOK'
  <2>1. stale' \subseteq known'
    BY <1>15 DEF TypeOK, OrderDetailsAck
  <2>2. CASE counter = 0
    BY <1>15, <2>1, <2>2 DEF TypeOK, OrderDetailsAck
  <2>3. CASE counter # 0
    <3>1. counter - 1 \in Nat
      BY <2>3 DEF TypeOK
    <3>2. answered' \subseteq Requests
      BY <1>15, <2>3 DEF TypeOK, OrderDetailsAck, Commit, Requests
    <3>3. QED
      BY <1>15, <2>1, <2>3, <3>1, <3>2 DEF TypeOK, OrderDetailsAck
  <2>4. QED
    BY <2>2, <2>3
<1>16. ASSUME NEW o \in Orders, GoStale(o) PROVE TypeOK'
  BY <1>16 DEF TypeOK, GoStale
<1>17. ASSUME NEW o \in Orders, Forget(o) PROVE TypeOK'
  BY <1>17 DEF TypeOK, Forget
<1>18. CASE UNCHANGED vars
  BY <1>18 DEF TypeOK, vars
<1>19. QED
  BY <1>1, <1>2, <1>3, <1>4, <1>5, <1>6, <1>7, <1>8, <1>9, <1>10, <1>11, <1>12, <1>13,
     <1>14, <1>15, <1>16, <1>17, <1>18
     DEF Next, DropCopyStep, OrderEntryStep, OmsStep, Terminated

\* AccountSync is type correct: in particular the counter never wraps below
\* zero and only orders the OMS knows are ever stale.
THEOREM TypeCorrect == Spec => []TypeOK
<1>1. Init => TypeOK
  BY InitTypeOK
<1>2. TypeOK /\ [Next]_vars => TypeOK'
  BY NextTypeOK
<1>3. QED
  BY <1>1, <1>2, PTL DEF Spec

-----------------------------------------------------------------------------
(* The lost orders.  LostOrdersInv is inductive: the counter is the number of *)
(* order-details requests in flight, and an order waits in details_lost_orders *)
(* only while the request that collects it is queued.                         *)

LEMMA InitLostOrders == Init => LostOrdersInv
BY InitTypeOK, FS_EmptySet
   DEF Init, LostOrdersInv, CounterIsInFlight, NoAckUnexpected, LostOrdersAreQueued,
       AnsweredNotQueued, LostOrdersComplete, NoDownloadUnexpected

\* A round adds one order-details request for each order it asks about.
LEMMA RoundCount ==
  ASSUME TypeOK, IsFiniteSet(asked), CounterIsInFlight,
         NEW R, NEW S \in SUBSET Orders, SendRequests(R, S)
  PROVE  IsFiniteSet(asked') /\ CounterIsInFlight'
<1>1. PICK b \in Batches : NextBatch(b) /\ asked' = asked \cup (S \X {b})
  BY DEF SendRequests
<1>2. IsFiniteSet(S) /\ IsFiniteSet({b}) /\ Cardinality({b}) = 1
  BY SyncAssumption, FS_Subset, FS_Singleton
<1>3. IsFiniteSet(S \X {b}) /\ Cardinality(S \X {b}) = Cardinality(S) * 1
  BY <1>2, FS_Product
<1>4. asked \cap (S \X {b}) = {}
  <2>1. \A o \in Orders : <<o, b>> \notin asked
    BY <1>1 DEF NextBatch, UsedBatches
  <2>2. \A x \in S \X {b} : \E o \in Orders : x = <<o, b>>
    OBVIOUS
  <2>3. ASSUME NEW x \in asked \cap (S \X {b}) PROVE FALSE
    <3>1. PICK o \in Orders : x = <<o, b>>
      BY <2>2
    <3>2. QED
      BY <2>1, <3>1
  <2>4. QED
    BY <2>3
<1>5. Cardinality(S) \in Nat /\ Cardinality(asked) \in Nat
  BY <1>2, FS_CardinalityType
<1>6. IsFiniteSet(asked') /\ Cardinality(asked') = Cardinality(asked) + Cardinality(S)
  <2> DEFINE T == S \X {b}
  <2>1. IsFiniteSet(T) /\ Cardinality(T) = Cardinality(S)
    BY <1>3, <1>5
  <2>2. Cardinality(asked \cap T) = 0
    BY <1>4, FS_EmptySet
  <2> HIDE DEF T
  <2>3. /\ IsFiniteSet(asked \cup T)
        /\ Cardinality(asked \cup T)
             = Cardinality(asked) + Cardinality(T) - Cardinality(asked \cap T)
    BY <2>1, FS_Union
  <2>4. asked' = asked \cup T
    BY <1>1 DEF T
  <2>5. QED
    BY <1>5, <2>1, <2>2, <2>3, <2>4
<1>7. QED
  BY <1>6 DEF SendRequests, CounterIsInFlight

\* A round asked for by a queued request keeps the rest of the invariant.
LEMMA RoundKeeps ==
  ASSUME LostOrdersInv, NEW R \in SUBSET queued, NEW S \in SUBSET Orders,
         SendRequests(R, S), S # {} => "lost_orders" \in queued,
         UNCHANGED <<answered, fatal>>
  PROVE  /\ IsFiniteSet(asked') /\ CounterIsInFlight' /\ NoAckUnexpected'
         /\ LostOrdersAreQueued' /\ AnsweredNotQueued' /\ LostOrdersComplete'
         /\ NoDownloadUnexpected'
<1>1. IsFiniteSet(asked') /\ CounterIsInFlight'
  BY RoundCount DEF LostOrdersInv
<1>2. LostOrdersAreQueued' /\ AnsweredNotQueued'
  BY DEF LostOrdersInv, SendRequests, LostOrdersAreQueued, AnsweredNotQueued
<1>3. LostOrdersComplete'
  <2>1. CASE S = {}
    BY <2>1 DEF LostOrdersInv, SendRequests, LostOrdersComplete
  <2>2. CASE S # {}
    BY <2>2 DEF LostOrdersInv, AnsweredNotQueued, LostOrdersComplete
  <2>3. QED
    BY <2>1, <2>2
<1>4. NoAckUnexpected' /\ NoDownloadUnexpected'
  BY DEF LostOrdersInv, NoAckUnexpected, NoDownloadUnexpected
<1>5. QED
  BY <1>1, <1>2, <1>3, <1>4

\* Only these variables matter to the invariant.
LEMMA LostOrdersFrame ==
  ASSUME LostOrdersInv, TypeOK', UNCHANGED <<asked, counter, lost>>,
         fatal' \in {fatal, "login"},
         queued \subseteq queued', answered' \subseteq answered,
         AnsweredNotQueued'
  PROVE  LostOrdersInv'
BY DEF LostOrdersInv, CounterIsInFlight, NoAckUnexpected, LostOrdersAreQueued,
       LostOrdersComplete, NoDownloadUnexpected

\* Requesting keeps queued and answered apart.
LEMMA RequestKeepsApart ==
  ASSUME AnsweredNotQueued, NEW R, Request(R)
  PROVE  /\ AnsweredNotQueued'
         /\ queued \subseteq queued' /\ answered' \subseteq answered
         /\ R \subseteq queued' /\ R \cap answered' = {}
BY DEF AnsweredNotQueued, Request

LEMMA NextLostOrders == LostOrdersInv /\ [Next]_vars => LostOrdersInv'
<1> SUFFICES ASSUME LostOrdersInv, [Next]_vars PROVE LostOrdersInv'
  OBVIOUS
<1> USE DEF code, net, oms, hist, spent
<1>a. TypeOK /\ TypeOK'
  BY NextTypeOK DEF LostOrdersInv
<1>b. AnsweredNotQueued
  BY DEF LostOrdersInv
<1>c. ASSUME UNCHANGED <<asked, counter, lost, queued, answered>>, fatal' \in {fatal, "login"}
      PROVE  LostOrdersInv'
  BY <1>a, <1>c, LostOrdersFrame DEF LostOrdersInv, AnsweredNotQueued
<1>1. CASE WsConnected \/ WsReady \/ WsDisconnected \/ LoginError \/ LoginRejected
           \/ RestConnected \/ RestDisconnected \/ UNCHANGED vars
  BY <1>1, <1>c DEF WsConnected, WsReady, WsDisconnected, LoginError, LoginRejected, RestConnected,
                    RestDisconnected, vars
<1>2. CASE \/ \E t \in Topics : SubscribeError(t)
           \/ \E o \in Orders : OrderPush(o) \/ GoStale(o) \/ Forget(o)
  BY <1>2, <1>c DEF SubscribeError, OrderPush, GoStale, Forget
<1>3. CASE Login
  BY <1>3, <1>a, <1>b, LostOrdersFrame, RequestKeepsApart DEF Login
<1>4. ASSUME NEW t \in Topics, Subscribe(t) PROVE LostOrdersInv'
  <2>1. CASE dl \in SubscribeState /\ TopicOf(dl) = t
    <3>1. Request(RequestsOn(After(dl, lost)))
      BY <1>4, <2>1 DEF Subscribe
    <3>2. QED
      BY <1>4, <1>a, <1>b, <3>1, LostOrdersFrame, RequestKeepsApart DEF Subscribe
  <2>2. CASE ~(dl \in SubscribeState /\ TopicOf(dl) = t)
    BY <1>4, <1>c, <2>2 DEF Subscribe
  <2>3. QED
    BY <2>1, <2>2
<1>5. CASE DropCopyTimer
  <2>1. CASE Unexpected
    <3>1. EagerCommit
      BY <2>1 DEF Unexpected, Answered, RequestOf, LostOrdersInv, LostOrdersComplete
    <3>2. QED
      BY <1>5, <1>a, <2>1, <3>1
         DEF DropCopyTimer, LostOrdersInv, CounterIsInFlight, NoAckUnexpected,
             LostOrdersAreQueued, AnsweredNotQueued, LostOrdersComplete,
             NoDownloadUnexpected
  <2>2. CASE ~Unexpected
    <3> DEFINE R(due) == (IF Answered THEN RequestsOn(NextState) ELSE {})
                           \cup TimedRequest(NewStale(due))
    <3>1. PICK due \in BOOLEAN :
            /\ lost' = lost \cup Swept \cup NewStale(due)
            /\ Request(R(due))
            /\ UNCHANGED fatal
      BY <1>5, <2>2 DEF DropCopyTimer
    <3>2. lost' # lost => "lost_orders" \in R(due)
      <4>1. CASE NewStale(due) # {}
        BY <4>1 DEF TimedRequest
      <4>2. CASE Swept # {}
        <5>1. Answered /\ dl = GET_OPEN_ORDERS
          BY <4>2 DEF Swept
        <5>2. NextState = GET_LOST_ORDERS
          BY <4>2, <5>1 DEF NextState, After
        <5>3. RequestsOn(GET_LOST_ORDERS) = {"lost_orders"}
          BY DEF RequestsOn, RequestOf
        <5>4. QED
          BY <5>1, <5>2, <5>3
      <4>3. QED
        BY <3>1, <4>1, <4>2
    <3> HIDE DEF R
    <3>3. /\ AnsweredNotQueued' /\ queued \subseteq queued' /\ answered' \subseteq answered
          /\ R(due) \subseteq queued' /\ R(due) \cap answered' = {}
      BY <1>b, <3>1, RequestKeepsApart
    <3>4. LostOrdersAreQueued' /\ LostOrdersComplete'
      <4>1. CASE lost' = lost
        BY <1>5, <3>3, <4>1
           DEF DropCopyTimer, LostOrdersInv, LostOrdersAreQueued, LostOrdersComplete
      <4>2. CASE lost' # lost
        BY <3>2, <3>3, <4>2 DEF LostOrdersAreQueued, LostOrdersComplete
      <4>3. QED
        BY <4>1, <4>2
    <3>5. UNCHANGED <<asked, counter, fatal>>
      BY <1>5, <3>1 DEF DropCopyTimer
    <3>6. QED
      BY <1>a, <3>3, <3>4, <3>5
         DEF LostOrdersInv, CounterIsInFlight, NoAckUnexpected, NoDownloadUnexpected
  <2>3. QED
    BY <2>1, <2>2
<1>6. CASE OrderEntryTimer
  <2>1. PICK R \in SUBSET queued :
          SendRequests(R, IF "lost_orders" \in R THEN Found ELSE {})
    BY <1>6 DEF OrderEntryTimer
  <2>2. (IF "lost_orders" \in R THEN Found ELSE {}) \in SUBSET Orders
    BY <1>a DEF TypeOK, Found
  <2>3. QED
    BY <1>6, <1>a, <2>1, <2>2, RoundKeeps DEF OrderEntryTimer, LostOrdersInv
<1>7. CASE OrderEntryTimerThrows
  <2>1. PICK R \in SUBSET (queued \ {"lost_orders", "trades"}), S \in SUBSET Found :
          SendRequests(R, S)
    BY <1>7 DEF OrderEntryTimerThrows
  <2>2. R \in SUBSET queued /\ S \in SUBSET Orders
    BY <1>a DEF TypeOK, Found
  <2>3. QED
    BY <1>7, <1>a, <2>1, <2>2, RoundKeeps DEF OrderEntryTimerThrows, LostOrdersInv
<1>8. ASSUME NEW t \in flight, SnapshotAck(t[1], t[2]) PROVE LostOrdersInv'
  <2>1. t[1] # "lost_orders"
    BY <1>a DEF TypeOK, Snapshots
  <2>2. /\ UNCHANGED <<asked, counter, lost, queued, fatal>>
        /\ "lost_orders" \in answered' => "lost_orders" \in answered
    BY <1>8, <2>1 DEF SnapshotAck, Commit
  <2>3. AnsweredNotQueued'
    BY <1>8, <1>b DEF SnapshotAck, Commit, Commits, AnsweredNotQueued
  <2>4. QED
    BY <1>a, <2>2, <2>3
       DEF LostOrdersInv, CounterIsInFlight, NoAckUnexpected, LostOrdersAreQueued,
           LostOrdersComplete, NoDownloadUnexpected
<1>9. ASSUME NEW t \in asked, NEW r \in BOOLEAN, OrderDetailsAck(t[1], t[2], r)
      PROVE  LostOrdersInv'
  <2>1. t = <<t[1], t[2]>>
    BY <1>a DEF TypeOK
  <2>2. asked' = asked \ {t} /\ UNCHANGED <<lost, queued>>
    BY <1>9, <2>1 DEF OrderDetailsAck
  <2>3. /\ IsFiniteSet(asked') /\ Cardinality(asked') = counter - 1
        /\ counter \in Nat /\ counter # 0
    BY <2>2, FS_RemoveElement, FS_EmptySet, FS_CardinalityType
       DEF LostOrdersInv, CounterIsInFlight
  <2>4. counter' = counter - 1 /\ UNCHANGED fatal
    BY <1>9, <2>3 DEF OrderDetailsAck
  <2>5. AnsweredNotQueued' /\ LostOrdersComplete'
    <3>1. CASE counter = 1
      <4>1. Commit("lost_orders")
        BY <1>9, <3>1 DEF OrderDetailsAck
      <4>2. asked' = {}
        BY <2>3, <3>1, FS_EmptySet
      <4>3. QED
        BY <1>b, <2>2, <4>1, <4>2
           DEF Commit, Commits, AnsweredNotQueued, LostOrdersInv, LostOrdersAreQueued,
               LostOrdersComplete
    <3>2. CASE counter # 1
      <4>1. UNCHANGED answered
        BY <1>9, <2>3, <3>2 DEF OrderDetailsAck
      <4>2. QED
        BY <1>b, <2>2, <4>1 DEF AnsweredNotQueued, LostOrdersInv, LostOrdersComplete
    <3>3. QED
      BY <3>1, <3>2
  <2>6. QED
    BY <1>a, <2>2, <2>3, <2>4, <2>5
       DEF LostOrdersInv, CounterIsInFlight, NoAckUnexpected, LostOrdersAreQueued,
           NoDownloadUnexpected
<1>10. QED
  BY <1>1, <1>2, <1>3, <1>4, <1>5, <1>6, <1>7, <1>8, <1>9
     DEF Next, DropCopyStep, OrderEntryStep, OmsStep, Terminated

\* The lost-order bookkeeping of DropCopy and OrderEntry holds in every
\* reachable state.
THEOREM LostOrders == Spec => []LostOrdersInv
<1>1. QED
  BY InitLostOrders, NextLostOrders, PTL DEF Spec

\* The counter of OrderEntry counts the order-details requests in flight.
THEOREM CounterCorrect == Spec => []CounterIsInFlight
<1>1. LostOrdersInv => CounterIsInFlight
  BY DEF LostOrdersInv
<1>2. QED
  BY <1>1, LostOrders, PTL

\* No answer to an order-details request ends the process.
THEOREM AckNeverUnexpected == Spec => []NoAckUnexpected
<1>1. LostOrdersInv => NoAckUnexpected
  BY DEF LostOrdersInv
<1>2. QED
  BY <1>1, LostOrders, PTL

\* While an order waits to be looked up, the request to do so is queued.
THEOREM LostOrdersQueued == Spec => []LostOrdersAreQueued
<1>1. LostOrdersInv => LostOrdersAreQueued
  BY DEF LostOrdersInv
<1>2. QED
  BY <1>1, LostOrders, PTL

\* The download leaves GET_LOST_ORDERS with every lost order accounted for.
THEOREM LostOrdersDone == Spec => [](LostOrdersComplete /\ NoDownloadUnexpected)
<1>1. LostOrdersInv => LostOrdersComplete /\ NoDownloadUnexpected
  BY DEF LostOrdersInv
<1>2. QED
  BY <1>1, LostOrders, PTL

\* So its timer never finds one when lost_orders counts as answered.
THEOREM DownloadNeverUnexpected == Spec => []NoDownloadUnexpected
<1>1. QED
  BY LostOrdersDone, PTL

-----------------------------------------------------------------------------
(* The queue.  A handler requests what its own state waits for, and a state   *)
(* is left when its request is answered, hence no longer queued.              *)

\* The states whose request the download passes only when it was answered.
AwaitState == {s \in GetState \ {GET_LOST_ORDERS} : s = GET_TRADES => TradesLookback}

\* What a move of the download to state s requests is not behind it.
LEMMA NothingBehind ==
  ASSUME NEW s \in State, NEW x \in AwaitState, s > x
  PROVE  RequestOf(x) \notin RequestsOn(s) \cup {"lost_orders"}
<1>1. /\ x \in {GET_ACCOUNT, GET_BALANCES, GET_CURRENT_POSITIONS, GET_OPEN_ORDERS, GET_TRADES}
      /\ s # x
  BY DEF AwaitState, GetState
<1>2. RequestOf(x) # "lost_orders"
  BY <1>1 DEF RequestOf
<1>3. ASSUME NEW y \in {s} \cap GetState PROVE RequestOf(y) # RequestOf(x)
  BY <1>1, <1>3 DEF RequestOf, GetState
<1>4. QED
  BY <1>2, <1>3 DEF RequestsOn

\* No state the download passes without an answer awaits one.
LEMMA AfterSkipsNoAnswer ==
  ASSUME NEW s \in State, s # DONE, NEW L, NEW x \in AwaitState, After(s, L) > x
  PROVE  s >= x
BY SyncAssumption DEF After, AwaitState, GetState

LEMMA NextNothingLeft ==
  LostOrdersInv /\ NothingLeftQueued /\ [Next]_vars => NothingLeftQueued'
<1> SUFFICES ASSUME LostOrdersInv, NothingLeftQueued, [Next]_vars, ~EagerCommit
             PROVE  \A x \in AwaitState : dl' > x => RequestOf(x) \notin queued'
  BY DEF NothingLeftQueued, AwaitState
<1> USE DEF code, net, oms, hist, spent
<1>a. TypeOK /\ AnsweredNotQueued
  BY DEF LostOrdersInv
<1>b. \A x \in AwaitState : dl > x => RequestOf(x) \notin queued
  BY DEF NothingLeftQueued, AwaitState
<1>c. ASSUME UNCHANGED dl, queued' \subseteq queued
      PROVE  \A x \in AwaitState : dl' > x => RequestOf(x) \notin queued'
  BY <1>b, <1>c
<1>1. CASE RestConnected \/ RestDisconnected \/ UNCHANGED vars
  BY <1>1, <1>c DEF RestConnected, RestDisconnected, vars
<1>2. CASE \/ \E o \in Orders : OrderPush(o) \/ GoStale(o) \/ Forget(o)
           \/ \E t \in flight : SnapshotAck(t[1], t[2])
           \/ \E t \in asked, r \in BOOLEAN : OrderDetailsAck(t[1], t[2], r)
  BY <1>2, <1>c DEF OrderPush, GoStale, Forget, SnapshotAck, OrderDetailsAck
<1>3. CASE OrderEntryTimer \/ OrderEntryTimerThrows
  BY <1>3, <1>c DEF OrderEntryTimer, OrderEntryTimerThrows, SendRequests
<1>4. CASE \/ WsConnected \/ WsReady \/ LoginError \/ LoginRejected
           \/ \E t \in Topics : SubscribeError(t)
  BY <1>4, <1>c DEF WsConnected, WsReady, LoginError, LoginRejected, SubscribeError
<1>5. CASE WsDisconnected
  BY <1>5 DEF WsDisconnected, AwaitState, GetState
<1>6. CASE Login
  <2>1. dl' = GET_ACCOUNT
    BY <1>6 DEF Login, Enter
  <2>2. QED
    BY <2>1 DEF AwaitState, GetState
<1>7. ASSUME NEW s \in State \ {DONE}, NEW L, dl = s, dl' = After(s, L),
             queued' \subseteq queued \cup RequestsOn(dl') \cup {"lost_orders"},
             s \in AwaitState => RequestOf(s) \notin queued
      PROVE  \A x \in AwaitState : dl' > x => RequestOf(x) \notin queued'
  <2>1. SUFFICES ASSUME NEW x \in AwaitState, dl' > x PROVE RequestOf(x) \notin queued'
    OBVIOUS
  <2>2. dl' \in State
    BY <1>7, AfterType
  <2>3. RequestOf(x) \notin RequestsOn(dl') \cup {"lost_orders"}
    BY <2>1, <2>2, NothingBehind
  <2>4. s >= x
    BY <1>7, <2>1, AfterSkipsNoAnswer
  <2>5. s \in Int /\ x \in Int
    BY DEF AwaitState, GetState
  <2>6. RequestOf(x) \notin queued
    BY <1>7, <1>b, <2>4, <2>5
  <2>7. QED
    BY <1>7, <2>3, <2>6
<1>8. ASSUME NEW t \in Topics, Subscribe(t)
      PROVE  \A x \in AwaitState : dl' > x => RequestOf(x) \notin queued'
  <2>1. CASE dl \in SubscribeState /\ TopicOf(dl) = t
    <3>1. dl' = After(dl, lost) /\ queued' = queued \cup RequestsOn(dl')
      BY <1>8, <2>1 DEF Subscribe, Enter, Request
    <3>2. dl \in State \ {DONE} /\ dl \notin AwaitState
      BY <1>a, <2>1 DEF TypeOK, AwaitState, GetState, SubscribeState
    <3>3. QED
      BY <1>7, <3>1, <3>2
  <2>2. CASE ~(dl \in SubscribeState /\ TopicOf(dl) = t)
    BY <1>8, <2>2, <1>c DEF Subscribe
  <2>3. QED
    BY <2>1, <2>2
<1>9. CASE DropCopyTimer
  <2>1. CASE Unexpected
    BY <1>9, <2>1, <1>c DEF DropCopyTimer
  <2>2. CASE ~Unexpected
    <3>1. PICK due \in BOOLEAN :
            /\ IF Answered THEN Enter(NextState, subs) ELSE UNCHANGED <<dl, subs>>
            /\ Request((IF Answered THEN RequestsOn(NextState) ELSE {})
                         \cup TimedRequest(NewStale(due)))
      BY <1>9, <2>2 DEF DropCopyTimer
    <3>2. TimedRequest(NewStale(due)) \subseteq {"lost_orders"}
      BY DEF TimedRequest
    <3>3. CASE Answered
      <4>1. dl' = NextState
        BY <3>1, <3>3 DEF Enter
      <4>2. dl' = After(dl, lost \cup Swept)
        BY <3>3, <4>1 DEF NextState
      <4>3. queued' \subseteq queued \cup RequestsOn(dl') \cup {"lost_orders"}
        BY <3>1, <3>2, <3>3, <4>1 DEF Request
      <4>4. dl \in State \ {DONE}
        BY <1>a, <3>3 DEF TypeOK, Answered, GetState
      <4>5. RequestOf(dl) \notin queued
        BY <1>a, <3>3 DEF Answered, AnsweredNotQueued
      <4>6. QED
        BY <1>7, <4>2, <4>3, <4>4, <4>5
    <3>4. CASE ~Answered
      <4>1. UNCHANGED dl /\ queued' \subseteq queued \cup {"lost_orders"}
        BY <3>1, <3>2, <3>4 DEF Request
      <4>2. dl \in State
        BY <1>a DEF TypeOK
      <4>3. QED
        BY <1>b, <4>1, <4>2, NothingBehind
    <3>5. QED
      BY <3>3, <3>4
  <2>3. QED
    BY <2>1, <2>2
<1>10. QED
  BY <1>1, <1>2, <1>3, <1>4, <1>5, <1>6, <1>8, <1>9
     DEF Next, DropCopyStep, OrderEntryStep, OmsStep, Terminated

\* The download does not pass a request that an earlier session left queued.
THEOREM NothingLeft == Spec => []NothingLeftQueued
<1>1. Init => NothingLeftQueued
  BY DEF Init, NothingLeftQueued
<1>2. QED
  BY <1>1, LostOrders, NextNothingLeft, PTL DEF Spec

-----------------------------------------------------------------------------
(* The session.  SessionInv is inductive, and under it every step is one of   *)
(* AccountStream or leaves its variables alone.                               *)

LEMMA InitSession == Init => SessionInv
BY InitTypeOK DEF Init, SessionInv, SubscribedInSession

\* The answer to a subscription finds the download in the state that made it.
LEMMA SubscribeInState ==
  ASSUME SessionInv, NEW t \in Topics, Subscribe(t)
  PROVE  /\ dl \in SubscribeState /\ t = TopicOf(dl)
         /\ dl' = After(dl, lost) /\ confirmed' = confirmed \cup {t} /\ UNCHANGED ws
         /\ subs' = {TopicOf(x) : x \in {dl'} \cap SubscribeState}
<1>1. dl \in SubscribeState /\ t = TopicOf(dl)
  BY DEF SessionInv, SubscribedInSession, Subscribe
<1>2. Enter(After(dl, lost), subs \ {t}) /\ UNCHANGED ws /\ confirmed' = confirmed \cup {t}
  BY <1>1 DEF Subscribe
<1>3. subs \ {t} = {}
  BY <1>1 DEF SessionInv, SubscribedInSession
<1>4. QED
  BY <1>1, <1>2, <1>3 DEF Enter

\* The timer moves the download from a request that is answered, and only then.
LEMMA TimerMoves ==
  ASSUME SessionInv, DropCopyTimer
  PROVE  /\ UNCHANGED <<ws, confirmed>>
         /\ \/ UNCHANGED <<dl, subs>>
            \/ /\ dl \in GetState
               /\ dl' \in {After(dl, L) : L \in SUBSET Orders}
               /\ subs' = {TopicOf(x) : x \in {dl'} \cap SubscribeState}
<1>1. CASE Unexpected \/ ~Answered
  BY <1>1 DEF DropCopyTimer
<1>2. CASE ~Unexpected /\ Answered
  <2>1. Enter(NextState, subs) /\ UNCHANGED <<ws, confirmed>>
    BY <1>2 DEF DropCopyTimer
  <2>2. NextState = After(dl, lost \cup Swept) /\ dl \in GetState
    BY <1>2 DEF NextState, Answered
  <2>3. lost \cup Swept \in SUBSET Orders
    BY DEF SessionInv, TypeOK, Swept
  <2>4. subs = {}
    BY <2>2 DEF SessionInv, SubscribedInSession
  <2>5. QED
    BY <2>1, <2>2, <2>3, <2>4 DEF Enter
<1>3. QED
  BY <1>1, <1>2

\* No state between a state and the one after it subscribes, but itself.
LEMMA AfterSkipsNoTopic ==
  ASSUME NEW s \in State, s # DONE, NEW L, NEW x \in SubscribeState, After(s, L) > x
  PROVE  s >= x
BY SyncAssumption DEF After

LEMMA NextSession == SessionInv /\ [Next]_vars => SessionInv'
<1> SUFFICES ASSUME SessionInv, [Next]_vars PROVE SessionInv'
  OBVIOUS
<1> USE DEF code, net, oms, hist, spent
<1>a. TypeOK /\ TypeOK'
  BY NextTypeOK DEF SessionInv
<1>b. ASSUME UNCHANGED <<ws, dl, subs, confirmed>> PROVE SessionInv'
  BY <1>a, <1>b DEF SessionInv, SubscribedInSession
<1>1. CASE RestConnected \/ RestDisconnected \/ OrderEntryTimer \/ OrderEntryTimerThrows
           \/ UNCHANGED vars
  BY <1>1, <1>b DEF RestConnected, RestDisconnected, OrderEntryTimer,
                    OrderEntryTimerThrows, vars
<1>2. CASE \/ \E o \in Orders : OrderPush(o) \/ GoStale(o) \/ Forget(o)
           \/ \E t \in flight : SnapshotAck(t[1], t[2])
           \/ \E t \in asked, r \in BOOLEAN : OrderDetailsAck(t[1], t[2], r)
  BY <1>2, <1>b DEF OrderPush, GoStale, Forget, SnapshotAck, OrderDetailsAck
<1>3. CASE WsConnected \/ WsReady \/ LoginError \/ LoginRejected
  BY <1>3, <1>a DEF WsConnected, WsReady, LoginError, LoginRejected, SessionInv, SubscribedInSession
<1>4. CASE WsDisconnected
  BY <1>4, <1>a DEF WsDisconnected, SessionInv, SubscribedInSession
<1>5. CASE Login
  <2>1. dl = UNDEFINED /\ subs = {}
    BY <1>5 DEF Login, SessionInv, SubscribedInSession
  <2>2. dl' = GET_ACCOUNT /\ subs' = {} /\ ws' = "up" /\ UNCHANGED confirmed
    BY <1>5, <2>1 DEF Login, Enter
  <2>3. QED
    BY <1>a, <2>2 DEF SessionInv, SubscribedInSession
<1>6. ASSUME NEW t \in Topics, Subscribe(t) PROVE SessionInv'
  <2>1. /\ dl \in SubscribeState /\ t = TopicOf(dl)
        /\ dl' = After(dl, lost) /\ confirmed' = confirmed \cup {t} /\ UNCHANGED ws
        /\ subs' = {TopicOf(x) : x \in {dl'} \cap SubscribeState}
    BY <1>6, SubscribeInState
  <2>2. dl' # UNDEFINED
    BY <1>a, <2>1, AfterType DEF TypeOK
  <2>3. \A x \in SubscribeState : dl' > x => TopicOf(x) \in confirmed'
    <3>1. SUFFICES ASSUME NEW x \in SubscribeState, dl' > x PROVE TopicOf(x) \in confirmed'
      OBVIOUS
    <3>2. dl >= x
      BY <1>a, <2>1, <3>1, AfterSkipsNoTopic DEF TypeOK
    <3>3. CASE dl = x
      BY <2>1, <3>3
    <3>4. CASE dl > x
      BY <2>1, <3>4 DEF SessionInv, SubscribedInSession
    <3>5. dl \in Int /\ x \in Int
      BY <1>a DEF TypeOK
    <3>6. QED
      BY <3>2, <3>3, <3>4, <3>5
  <2>4. ws = "up"
    BY <2>1 DEF SessionInv
  <2>5. QED
    BY <1>a, <2>1, <2>2, <2>3, <2>4 DEF SessionInv, SubscribedInSession
<1>7. ASSUME NEW t \in Topics, SubscribeError(t) PROVE SessionInv'
  BY <1>7, <1>a DEF SubscribeError, SessionInv, SubscribedInSession
<1>8. CASE DropCopyTimer
  <2>1. CASE UNCHANGED <<dl, subs>>
    BY <1>8, <1>b, <2>1, TimerMoves
  <2>2. CASE ~UNCHANGED <<dl, subs>>
    <3>1. /\ UNCHANGED <<ws, confirmed>> /\ dl \in GetState
          /\ dl' \in {After(dl, L) : L \in SUBSET Orders}
          /\ subs' = {TopicOf(x) : x \in {dl'} \cap SubscribeState}
      BY <1>8, <2>2, TimerMoves
    <3>2. dl' # UNDEFINED
      BY <1>a, <3>1, AfterType DEF TypeOK
    <3>3. \A x \in SubscribeState : dl' > x => dl > x
      BY <1>a, <3>1, AfterSkipsNoTopic DEF TypeOK
    <3>4. ws = "up"
      BY <3>1 DEF SessionInv
    <3>5. QED
      BY <1>a, <3>1, <3>2, <3>3, <3>4 DEF SessionInv, SubscribedInSession
  <2>3. QED
    BY <2>1, <2>2
<1>9. QED
  BY <1>1, <1>2, <1>3, <1>4, <1>5, <1>6, <1>7, <1>8
     DEF Next, DropCopyStep, OrderEntryStep, OmsStep, Terminated

\* A download past a subscription has the exchange's answer to it on this
\* web socket: nothing of an earlier connection stands in for it.
THEOREM SubscribedThisSession == Spec => []SubscribedInSession
<1>1. SessionInv => SubscribedInSession
  BY DEF SessionInv
<1>2. QED
  BY <1>1, InitSession, NextSession, PTL DEF Spec

-----------------------------------------------------------------------------
(* The refinement.  A step that moves the download forward is a Progress step *)
(* of AccountStream, because SubscribedInSession holds after it.              *)

LEMMA StateOfSnapshot ==
  /\ StateOf("account") = GET_ACCOUNT
  /\ StateOf("balances") = GET_BALANCES
  /\ StateOf("positions") = GET_CURRENT_POSITIONS
  /\ StateOf("open_orders") = GET_OPEN_ORDERS
  /\ StateOf("trades") = GET_TRADES
BY DEF StateOf, RequestOf, GetState

LEMMA AfterIsLater ==
  ASSUME NEW s \in State, s # DONE, NEW L
  PROVE  After(s, L) \in State /\ After(s, L) > s
BY SyncAssumption DEF After, State

LEMMA MovesAreProgress ==
  ASSUME TypeOK, SessionInv', dl # UNDEFINED, dl # DONE, dl' > dl, confirmed \subseteq confirmed'
  PROVE  Stream!Progress
<1>a. TypeOK' /\ dl \in 0 .. 11 /\ dl' \in 0 .. 11
  BY DEF SessionInv, TypeOK, State
<1>1. StreamStatus = "DOWNLOADING" /\ StreamStatus' \in {"DOWNLOADING", "READY"}
  BY <1>a DEF StreamStatus
<1>2. confirmed' \subseteq Stream!Topic
  BY <1>a DEF TypeOK, Topics, Stream!Topic
<1>3. SnapshotsRequested \subseteq SnapshotsRequested'
  BY <1>a, StateOfSnapshot DEF SnapshotsRequested, Snapshots
<1>4. SnapshotsRequested' \subseteq Stream!Snapshot
  BY DEF SnapshotsRequested, Snapshots, Stream!Snapshot, Stream!Mandatory
<1>5. \A s \in SubscribeState : dl' > s => TopicOf(s) \in confirmed'
  BY DEF SessionInv, SubscribedInSession
<1>6. /\ dl' > SUBSCRIBE_BALANCES => "account" \in confirmed'
      /\ dl' > SUBSCRIBE_POSITIONS => "position" \in confirmed'
      /\ dl' > SUBSCRIBE_ORDERS => "order" \in confirmed'
      /\ dl' > SUBSCRIBE_TRADES => "fill" \in confirmed'
  BY <1>5 DEF SubscribeState, TopicOf
<1>7. \A k \in SnapshotsRequested' : Stream!Needs(k) \subseteq confirmed'
  BY <1>a, <1>6, StateOfSnapshot DEF SnapshotsRequested, Snapshots, Stream!Needs
<1>8. dl' = DONE => confirmed' = Stream!Topic /\ Stream!Mandatory \subseteq SnapshotsRequested'
  <2>1. dl' = DONE => Stream!Topic \subseteq confirmed'
    BY <1>6 DEF Stream!Topic
  <2>2. \A k \in Stream!Mandatory : k \in Snapshots /\ StateOf(k) <= DONE /\ k # "trades"
    BY StateOfSnapshot DEF Snapshots, Stream!Mandatory
  <2>3. dl' = DONE => Stream!Mandatory \subseteq SnapshotsRequested'
    BY <2>2 DEF SnapshotsRequested
  <2>4. QED
    BY <1>2, <2>1, <2>3
<1>9. StreamStatus' = "READY" => dl' = DONE
  BY <1>a DEF StreamStatus
<1>10. QED
  BY <1>1, <1>2, <1>3, <1>4, <1>7, <1>8, <1>9 DEF Stream!Progress

LEMMA RefinesInit == Init => Stream!Init
<1> SUFFICES ASSUME Init PROVE Stream!Init
  OBVIOUS
<1>1. StreamStatus = "DISCONNECTED"
  BY DEF Init, StreamStatus
<1>2. SnapshotsRequested = {}
  BY StateOfSnapshot DEF Init, SnapshotsRequested, Snapshots
<1>3. QED
  BY <1>1, <1>2 DEF Init, Stream!Init

LEMMA RefinesNext ==
  SessionInv /\ SessionInv' /\ [Next]_vars => [Stream!Next]_(Stream!vars)
<1> SUFFICES ASSUME SessionInv, SessionInv', [Next]_vars
             PROVE  Stream!Next \/ UNCHANGED Stream!vars
  OBVIOUS
<1> USE DEF code, net, oms, hist, spent
<1>a. TypeOK
  BY DEF SessionInv
<1>b. ASSUME UNCHANGED <<dl, confirmed>> PROVE UNCHANGED Stream!vars
  BY <1>b DEF Stream!vars, StreamStatus, SnapshotsRequested
<1>1. CASE UNCHANGED <<dl, confirmed>>
  BY <1>1, <1>b
<1>2. CASE WsDisconnected
  <2>1. dl' = UNDEFINED /\ confirmed' = {}
    BY <1>2 DEF WsDisconnected
  <2>2. StreamStatus' = "DISCONNECTED"
    BY <2>1 DEF StreamStatus
  <2>3. SnapshotsRequested' = {}
    BY <2>1, StateOfSnapshot DEF SnapshotsRequested, Snapshots
  <2>4. QED
    BY <2>1, <2>2, <2>3 DEF Stream!Next, Stream!Disconnect
<1>3. CASE Login
  <2>1. dl = UNDEFINED /\ confirmed = {}
    BY <1>3 DEF Login, SessionInv
  <2>2. dl' = GET_ACCOUNT /\ UNCHANGED confirmed
    BY <1>3 DEF Login, Enter
  <2>3. StreamStatus = "DISCONNECTED" /\ StreamStatus' = "DOWNLOADING"
    BY <2>1, <2>2 DEF StreamStatus
  <2>4. SnapshotsRequested' = {"account"}
    BY <2>2, StateOfSnapshot DEF SnapshotsRequested, Snapshots
  <2>5. QED
    BY <2>1, <2>2, <2>3, <2>4 DEF Stream!Next, Stream!Begin
<1>4. ASSUME NEW t \in Topics, Subscribe(t) PROVE Stream!Next
  <2>1. dl \in SubscribeState /\ dl' = After(dl, lost) /\ confirmed \subseteq confirmed'
    BY <1>4, SubscribeInState
  <2>2. dl # UNDEFINED /\ dl # DONE /\ dl' > dl
    BY <1>a, <2>1, AfterIsLater DEF TypeOK, SubscribeState
  <2>3. QED
    BY <1>a, <2>1, <2>2, MovesAreProgress DEF Stream!Next
<1>5. CASE DropCopyTimer
  <2>1. CASE dl \in GetState /\ dl' \in {After(dl, L) : L \in SUBSET Orders}
    <3>1. dl # UNDEFINED /\ dl # DONE /\ dl' > dl
      BY <1>a, <2>1, AfterIsLater DEF TypeOK, GetState
    <3>2. UNCHANGED confirmed
      BY <1>5 DEF DropCopyTimer
    <3>3. QED
      BY <1>a, <3>1, <3>2, MovesAreProgress DEF Stream!Next
  <2>2. CASE UNCHANGED <<dl, confirmed>>
    BY <2>2, <1>b
  <2>3. QED
    BY <1>5, <2>1, <2>2, TimerMoves
<1>6. CASE WsConnected \/ WsReady \/ LoginError \/ LoginRejected
  BY <1>6, <1>b DEF WsConnected, WsReady, LoginError, LoginRejected
<1>7. CASE \E t \in Topics : SubscribeError(t)
  BY <1>7, <1>b DEF SubscribeError
<1>8. CASE RestConnected \/ RestDisconnected \/ OrderEntryTimer \/ OrderEntryTimerThrows
           \/ UNCHANGED vars
  BY <1>8, <1>b DEF RestConnected, RestDisconnected, OrderEntryTimer,
                    OrderEntryTimerThrows, vars
<1>9. CASE \/ \E o \in Orders : OrderPush(o) \/ GoStale(o) \/ Forget(o)
           \/ \E t \in flight : SnapshotAck(t[1], t[2])
           \/ \E t \in asked, r \in BOOLEAN : OrderDetailsAck(t[1], t[2], r)
  BY <1>9, <1>b DEF OrderPush, GoStale, Forget, SnapshotAck, OrderDetailsAck
<1>10. QED
  BY <1>2, <1>3, <1>4, <1>5, <1>6, <1>7, <1>8, <1>9
     DEF Next, DropCopyStep, OrderEntryStep, OmsStep, Terminated

\* The gateway keeps the promise of AccountStream, for any number of orders,
\* sessions and losses of either connection.
THEOREM Refinement == Spec => ImplementsAccountStream
<1>1. SessionInv /\ [Next]_vars => [Stream!Next]_(Stream!vars)
  BY NextSession, RefinesNext
<1>2. QED
  BY <1>1, InitSession, NextSession, RefinesInit, PTL DEF Spec, ImplementsAccountStream, Stream!Spec
=============================================================================
