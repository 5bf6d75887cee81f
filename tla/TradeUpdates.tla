---------------------------- MODULE TradeUpdates ----------------------------
(***************************************************************************)
(* How a list of fills becomes trade updates: the loop that DropCopy runs  *)
(* over a fill message of its web socket and OrderEntry over the answer to *)
(* its trade-fills request.  Consecutive fills of one order are grouped.   *)
(***************************************************************************)
EXTENDS Naturals, Sequences

CONSTANTS
  Keys,      \* values of (symbol, order_id, client_oid, side, trade_side)
  NoKey,     \* their value before the first fill: empty
  MaxTime,   \* bound: times at which fills were executed
  MaxItems   \* bound: fills of a message

ASSUME UpdatesAssumption == MaxTime \in Nat /\ MaxItems \in Nat

Time == 0 .. MaxTime
Item == [key : Keys, time : Time]

VARIABLES
  items,    \* the fills of the message
  next,     \* the loop: the fill it looks at
  key,      \* symbol .. trade_side
  time,     \* exec_time, or created_time
  fills,    \* shared_.fills: the positions of the fills collected
  updates   \* the trade updates dispatched

vars == <<items, next, key, time, fills, updates>>

\* The message has been parsed and shared_.fills cleared.
Init ==
  /\ items \in UNION {[1 .. n -> Item] : n \in 0 .. MaxItems}
  /\ next = 1
  /\ key = NoKey /\ time = 0 /\ fills = <<>>
  /\ updates = <<>>

\* Mutant of Dispatched: also an empty group is sent.
DispatchedAlways == Append(updates, [key |-> key, time |-> time, fills |-> fills])

\* dispatch: the updates after the fills collected were sent, if there are any.
Dispatched == IF fills = <<>> THEN updates
              ELSE Append(updates, [key |-> key, time |-> time, fills |-> fills])

Later(a, b) == IF a < b THEN b ELSE a

\* Mutants of Add: the fills stay collected, the time is not reset.
AddKept(item) ==
  /\ updates' = IF item.key = key THEN updates ELSE Dispatched
  /\ key' = item.key
  /\ fills' = Append(fills, next)
  /\ time' = IF item.key = key THEN Later(time, item.time) ELSE item.time

AddOldTime(item) ==
  /\ updates' = IF item.key = key THEN updates ELSE Dispatched
  /\ key' = item.key
  /\ fills' = IF item.key = key THEN Append(fills, next) ELSE <<next>>
  /\ time' = Later(time, item.time)

\* One turn of the loop.  A fill of another order sends what was collected.
Add(item) ==
  /\ updates' = IF item.key = key THEN updates ELSE Dispatched
  /\ key' = item.key
  /\ fills' = IF item.key = key THEN Append(fills, next) ELSE <<next>>
  /\ time' = IF item.key = key THEN Later(time, item.time) ELSE item.time

Fill ==
  /\ next <= Len(items)
  /\ Add(items[next])
  /\ next' = next + 1
  /\ UNCHANGED items

\* Mutant of Finish: the last group is left in shared_.fills.
FinishEarly ==
  /\ next = Len(items) + 1
  /\ fills' = <<>>
  /\ next' = next + 1
  /\ UNCHANGED <<items, key, time, updates>>

\* After the loop: the last group.
Finish ==
  /\ next = Len(items) + 1
  /\ updates' = Dispatched
  /\ fills' = <<>>
  /\ next' = next + 1
  /\ UNCHANGED <<items, key, time>>

Next == Fill \/ Finish

Spec == Init /\ [][Next]_vars

-----------------------------------------------------------------------------
(* Properties *)

TypeOK ==
  /\ next \in Nat \ {0}
  /\ key \in Keys \cup {NoKey}
  /\ time \in Time
  /\ items \in Seq(Item)
  /\ fills \in Seq(1 .. Len(items))
  /\ updates \in Seq([key : Keys, time : Time, fills : Seq(1 .. Len(items))])

First(u) == u.fills[1]
Last(u)  == u.fills[Len(u.fills)]
Run(s)   == \A k \in 1 .. Len(s) : s[k] = s[1] + (k - 1)

\* No fill is lost, repeated or reordered: each update carries a run of the
\* message, the next one goes on where it ends, and the last ends with the
\* message.
EveryFillOnce ==
  /\ \A n \in 1 .. Len(updates) : updates[n].fills # <<>> /\ Run(updates[n].fills)
  /\ updates # <<>> => First(updates[1]) = 1
  /\ \A n \in 1 .. Len(updates) - 1 : First(updates[n + 1]) = Last(updates[n]) + 1
  /\ next > Len(items) + 1 /\ items # <<>> =>
       updates # <<>> /\ Last(updates[Len(updates)]) = Len(items)

\* An update speaks for the order of all its fills, and a neighbour for another.
OneOrderEach ==
  /\ \A n \in 1 .. Len(updates) : \A k \in 1 .. Len(updates[n].fills) :
       items[updates[n].fills[k]].key = updates[n].key
  /\ \A n \in 1 .. Len(updates) - 1 : updates[n].key # updates[n + 1].key

\* Its time is the latest of its own fills, not of the update before it.
OwnTime ==
  \A n \in 1 .. Len(updates) :
    /\ \A k \in 1 .. Len(updates[n].fills) :
         items[updates[n].fills[k]].time <= updates[n].time
    /\ \E k \in 1 .. Len(updates[n].fills) :
         items[updates[n].fills[k]].time = updates[n].time

\* What they rest on; inductive with them (TradeUpdatesProofs).  A group, sent or
\* not, is a run of fills of its order with the latest of their times, ...
Group(u) ==
  /\ u.fills # <<>> /\ Run(u.fills)
  /\ \A k \in 1 .. Len(u.fills) :
       items[u.fills[k]].key = u.key /\ items[u.fills[k]].time <= u.time
  /\ \E k \in 1 .. Len(u.fills) : items[u.fills[k]].time = u.time

Current == [key |-> key, time |-> time, fills |-> fills]

\* ... and the group collected goes on where the last update ends.
Begin == IF updates = <<>> THEN 1 ELSE Last(updates[Len(updates)]) + 1

Collected ==
  /\ fills # <<>> => /\ Group(Current)
                     /\ key \in Keys
                     /\ First(Current) = Begin
                     /\ Last(Current) = next - 1
                     /\ updates # <<>> => updates[Len(updates)].key # key
                     /\ next <= Len(items) + 1
  /\ fills = <<>> => (next = 1 /\ updates = <<>> /\ time = 0) \/ next = Len(items) + 2
  /\ next <= Len(items) + 2

UpdatesInv ==
  /\ TypeOK
  /\ Collected
  /\ \A n \in 1 .. Len(updates) : Group(updates[n])
  /\ EveryFillOnce
  /\ OneOrderEach
  /\ OwnTime
=============================================================================
