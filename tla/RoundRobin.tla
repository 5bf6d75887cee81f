------------------------------ MODULE RoundRobin ------------------------------
(***************************************************************************)
(* Controller::DropCopyRR: which of an account's web sockets carries the   *)
(* next order action, while sockets become ready and are lost.             *)
(***************************************************************************)
EXTENDS Naturals

CONSTANT N   \* settings.misc.number_of_order_entry_connections

ASSUME SizeAssumption == N \in Nat \ {0}

Connection == 0 .. N - 1

VARIABLES
  index,  \* DropCopyRR::index_, where the next search begins
  ready,  \* connections for which DropCopy::ready() holds
  used    \* history: used[d][c] counts the actions c has carried while d has
          \* been ready and has carried none

vars == <<index, ready, used>>

\* How far the search for a ready connection goes from a before it meets b.
Distance(a, b) == IF a <= b THEN b - a ELSE (b + N) - a

Nobody == [c \in Connection |-> 0]

Init ==
  /\ index = 0
  /\ ready = {}
  /\ used = [d \in Connection |-> Nobody]

\* A master that completed its download, another socket that logged in.
Ready(c) ==
  /\ c \notin ready
  /\ ready' = ready \cup {c}
  /\ UNCHANGED <<index, used>>

Disconnected(c) ==
  /\ c \in ready
  /\ ready' = ready \ {c}
  /\ used' = [used EXCEPT ![c] = Nobody]
  /\ UNCHANGED index

\* Mutant of Nearest: the search begins at the first connection.
NearestFirst(c) == \A d \in ready : c <= d

\* The first ready connection from index on.
Nearest(c) == \A d \in ready : Distance(index, c) <= Distance(index, d)

\* Mutant of GetNext: index_ is not wrapped.
GetNextPast(c) ==
  /\ c \in ready
  /\ Nearest(c)
  /\ index' = c + 1
  /\ UNCHANGED <<ready, used>>

\* get_next returns c.  With no connection ready it throws NotReady, and the
\* action is refused.
GetNext(c) ==
  /\ c \in ready
  /\ Nearest(c)
  /\ index' = (c + 1) % N
  /\ used' = [d \in Connection |->
                IF d \in ready \ {c} THEN [used[d] EXCEPT ![c] = @ + 1] ELSE Nobody]
  /\ UNCHANGED ready

Next == \E c \in Connection : Ready(c) \/ Disconnected(c) \/ GetNext(c)

Spec == Init /\ [][Next]_vars

-----------------------------------------------------------------------------
(* Properties *)

TypeOK ==
  /\ index \in Connection
  /\ ready \subseteq Connection
  /\ used \in [Connection -> [Connection -> Nat]]

\* However sockets come and go, none carries a second action while another
\* one has been ready all the time and has carried none: the load spreads.
NoneOvertaken ==
  \A d \in ready, c \in Connection : used[d][c] <= 1

\* Why: a connection that carried an action while d waited lies behind index,
\* so that the search meets d before it comes round to that one again.
Behind ==
  \A d \in ready, c \in Connection :
    used[d][c] > 0 => Distance(c, d) > Distance(index, d)

\* The inductive invariant (RoundRobinProofs).
RoundRobinInv ==
  /\ TypeOK
  /\ NoneOvertaken
  /\ Behind
  /\ \A d \in Connection \ ready : used[d] = Nobody
=============================================================================
