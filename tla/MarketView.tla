------------------------------- MODULE MarketView -------------------------------
(***************************************************************************)
(* What the gateway promises of the books and trades it shows: of a        *)
(* symbol's books a client sees one after the other, maybe not all of      *)
(* them, but never an older one than it saw already; its trades it sees in *)
(* their order and each at most once.  How updates come about, and over    *)
(* which connections, is left to PublicData.                               *)
(***************************************************************************)
EXTENDS Naturals, Sequences

CONSTANTS Symbols, Books, Empty

VARIABLES
  truth,    \* the exchange: [symbol -> its books so far, oldest first]
  count,    \* the exchange: [symbol -> number of its trades]
  view,     \* [symbol -> the book that is shown]
  at,       \* [symbol -> which of its books that is, 0 before the first]
  spoiled,  \* symbols shown with levels that should be gone
  tape      \* [symbol -> the trades that were told]

vars == <<truth, count, view, at, spoiled, tape>>

Last(s) == truth[s][Len(truth[s])]

Change(s) ==
  /\ \E b \in Books \ {Last(s)} : truth' = [truth EXCEPT ![s] = Append(@, b)]
  /\ UNCHANGED <<count, view, at, spoiled, tape>>

Trade(s) ==
  /\ count'[s] > count[s] /\ count' = [count EXCEPT ![s] = count'[s]]
  /\ UNCHANGED <<truth, view, at, spoiled, tape>>

\* One of the books is shown, not before the one that was; what is left over of a
\* symbol that is spoiled makes it another one.
Show(s) ==
  /\ \E n \in 1 .. Len(truth[s]) :
       /\ n >= at[s]
       /\ at' = [at EXCEPT ![s] = n]
       /\ \/ /\ view' = [view EXCEPT ![s] = truth[s][n]]
             /\ spoiled' = spoiled \ {s}
          \/ /\ s \in spoiled /\ view'[s] \in Books
             /\ view' = [view EXCEPT ![s] = view'[s]]
             /\ UNCHANGED spoiled
  /\ UNCHANGED <<truth, count, tape>>

\* The book became empty while it was not watched, which is not shown.
Spoil(s) ==
  /\ s \notin spoiled /\ view[s] # Empty
  /\ \E n \in 1 .. Len(truth[s]) : n >= at[s] /\ truth[s][n] = Empty
  /\ spoiled' = spoiled \cup {s}
  /\ UNCHANGED <<truth, count, view, at, tape>>

\* Trades are told that follow those told before.
Tell(s) ==
  /\ tape' = [tape EXCEPT ![s] = tape'[s]]
  /\ Len(tape'[s]) >= Len(tape[s])
  /\ \A i \in 1 .. Len(tape[s]) : tape'[s][i] = tape[s][i]
  /\ \A i \in 1 .. Len(tape'[s]) :
       /\ tape'[s][i] \in 1 .. count[s]
       /\ \A j \in 1 .. i - 1 : tape'[s][j] < tape'[s][i]
  /\ UNCHANGED <<truth, count, view, at, spoiled>>

Init ==
  /\ truth = [s \in Symbols |-> <<Empty>>] /\ count = [s \in Symbols |-> 0]
  /\ view = [s \in Symbols |-> Empty] /\ at = [s \in Symbols |-> 0] /\ spoiled = {}
  /\ tape = [s \in Symbols |-> <<>>]

Next == \E s \in Symbols : Change(s) \/ Trade(s) \/ Show(s) \/ Spoil(s) \/ Tell(s)

Spec == Init /\ [][Next]_vars
=============================================================================
