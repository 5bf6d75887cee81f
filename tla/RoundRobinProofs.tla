--------------------------- MODULE RoundRobinProofs ---------------------------
(***************************************************************************)
(* For any number of connections, whatever the order in which they become  *)
(* ready and are lost, the search never overtakes a ready connection.      *)
(***************************************************************************)
EXTENDS RoundRobin, TLAPS

(* Distance on the ring. *)

LEMMA DistanceType ==
  ASSUME NEW a \in Connection, NEW b \in Connection
  PROVE  /\ Distance(a, b) \in 0 .. N - 1
         /\ Distance(a, b) = 0 <=> a = b
BY SizeAssumption DEF Distance, Connection

\* The successor of c wraps round.
LEMMA Successor ==
  ASSUME NEW c \in Connection
  PROVE  (c + 1) % N = IF c = N - 1 THEN 0 ELSE c + 1
<1>1. CASE c = N - 1
  BY <1>1, SizeAssumption DEF Connection
<1>2. CASE c # N - 1
  BY <1>2, SizeAssumption DEF Connection
<1>3. QED
  BY <1>1, <1>2

\* One step nearer to every other connection, and once round from itself.
LEMMA StepNearer ==
  ASSUME NEW c \in Connection, NEW d \in Connection, c # d
  PROVE  /\ (c + 1) % N \in Connection
         /\ Distance((c + 1) % N, d) = Distance(c, d) - 1
BY Successor, SizeAssumption DEF Distance, Connection

-----------------------------------------------------------------------------
LEMMA InitRoundRobin == Init => RoundRobinInv
BY SizeAssumption DEF Init, RoundRobinInv, TypeOK, NoneOvertaken, Behind, Nobody, Connection

LEMMA NextRoundRobin == RoundRobinInv /\ [Next]_vars => RoundRobinInv'
<1> SUFFICES ASSUME RoundRobinInv, [Next]_vars PROVE RoundRobinInv'
  OBVIOUS
<1> USE DEF RoundRobinInv
<1>1. CASE UNCHANGED vars
  BY <1>1 DEF vars, TypeOK, NoneOvertaken, Behind
<1>2. ASSUME NEW c \in Connection, Ready(c) PROVE RoundRobinInv'
  <2>1. used[c] = Nobody
    BY <1>2 DEF Ready
  <2>2. TypeOK'
    BY <1>2 DEF Ready, TypeOK
  <2>3. NoneOvertaken'
    BY <1>2, <2>1 DEF Ready, NoneOvertaken, Nobody
  <2>4. Behind'
    BY <1>2, <2>1 DEF Ready, Behind, Nobody
  <2>5. QED
    BY <1>2, <2>2, <2>3, <2>4 DEF Ready
<1>3. ASSUME NEW c \in Connection, Disconnected(c) PROVE RoundRobinInv'
  <2>1. \A d \in Connection : used'[d] = IF d = c THEN Nobody ELSE used[d]
    BY <1>3 DEF Disconnected, TypeOK
  <2>2. TypeOK'
    BY <1>3 DEF Disconnected, TypeOK, Nobody
  <2>3. NoneOvertaken' /\ Behind'
    BY <1>3, <2>1 DEF Disconnected, NoneOvertaken, Behind, TypeOK
  <2>4. QED
    BY <1>3, <2>1, <2>2, <2>3 DEF Disconnected
<1>4. ASSUME NEW c \in Connection, GetNext(c) PROVE RoundRobinInv'
  <2>1. index \in Connection /\ index' = (c + 1) % N /\ index' \in Connection
    BY <1>4, Successor, SizeAssumption DEF GetNext, TypeOK, Connection
  <2>2. TypeOK'
    BY <1>4, <2>1 DEF GetNext, TypeOK, Nobody
  \* c is nearer to index than d is, so it has carried nothing while d waited.
  <2>3. ASSUME NEW d \in ready, d # c
        PROVE  /\ Distance(index, d) = Distance(index, c) + Distance(c, d)
               /\ used[d][c] = 0
    <3>1. d \in Connection /\ Distance(index, c) <= Distance(index, d)
      BY <1>4 DEF GetNext, Nearest, TypeOK
    <3>2. Distance(index, d) = Distance(index, c) + Distance(c, d)
      BY <2>1, <2>3, <3>1, SizeAssumption DEF Distance, Connection
    <3>3. ~(Distance(c, d) > Distance(index, d))
      BY <2>1, <3>1, <3>2, DistanceType
    <3>4. used[d][c] \in Nat
      BY <3>1 DEF TypeOK
    <3>5. QED
      BY <3>2, <3>3, <3>4 DEF Behind
  <2>4. \A d \in Connection, e \in Connection :
          used'[d][e] = IF d \in ready /\ d # c
                        THEN IF e = c THEN used[d][e] + 1 ELSE used[d][e]
                        ELSE 0
    BY <1>4 DEF GetNext, TypeOK, Nobody
  <2>5. NoneOvertaken'
    <3>1. SUFFICES ASSUME NEW d \in ready, NEW e \in Connection
                   PROVE  used'[d][e] <= 1
      BY <1>4 DEF GetNext, NoneOvertaken
    <3>2. d \in Connection
      BY DEF TypeOK
    <3>3. used[d][e] <= 1 /\ used[d][e] \in Nat
      BY <3>2 DEF NoneOvertaken, TypeOK
    <3>4. QED
      BY <2>3, <2>4, <3>2, <3>3
  <2>6. Behind'
    <3>1. SUFFICES ASSUME NEW d \in ready, NEW e \in Connection, used'[d][e] > 0
                   PROVE  Distance(e, d) > Distance(index', d)
      BY <1>4 DEF GetNext, Behind
    <3>2. d \in Connection /\ d # c
      BY <2>4, <3>1 DEF TypeOK
    <3>3. Distance(index', d) = Distance(c, d) - 1
      BY <2>1, <3>2, StepNearer
    <3>4. CASE e = c
      BY <3>2, <3>3, <3>4, DistanceType
    <3>5. CASE e # c
      <4>1. Distance(e, d) > Distance(index, d)
        BY <2>4, <3>1, <3>2, <3>5 DEF Behind
      <4>2. QED
        BY <2>1, <2>3, <3>2, <3>3, <4>1, DistanceType
    <3>6. QED
      BY <3>4, <3>5
  <2>7. \A d \in Connection \ ready : used'[d] = Nobody
    BY <1>4 DEF GetNext
  <2>8. QED
    BY <1>4, <2>2, <2>5, <2>6, <2>7 DEF GetNext
<1>5. QED
  BY <1>1, <1>2, <1>3, <1>4 DEF Next

\* The indices and counters keep their types.
THEOREM TypeCorrect == Spec => []TypeOK
<1>1. RoundRobinInv => TypeOK
  BY DEF RoundRobinInv
<1>2. QED
  BY <1>1, InitRoundRobin, NextRoundRobin, PTL DEF Spec

\* No web socket carries a second order action while another one has been
\* ready all the time and has carried none.
THEOREM NeverOvertaken == Spec => []NoneOvertaken
<1>1. RoundRobinInv => NoneOvertaken
  BY DEF RoundRobinInv
<1>2. QED
  BY <1>1, InitRoundRobin, NextRoundRobin, PTL DEF Spec
=============================================================================
