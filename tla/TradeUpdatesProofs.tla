-------------------------- MODULE TradeUpdatesProofs --------------------------
(***************************************************************************)
(* The trade updates carry every fill once, for its order and at its time. *)
(***************************************************************************)
EXTENDS TradeUpdates, SequenceTheorems, TLAPS

Update == [key : Keys, time : Time, fills : Seq(1 .. Len(items))]

\* What sending the group collected does to the updates.
LEMMA SendGroup ==
  ASSUME UpdatesInv, fills # <<>>, updates' = Append(updates, Current), items' = items
  PROVE  /\ updates' \in Seq(Update) /\ updates' # <<>>
         /\ Len(updates) \in Nat /\ Len(updates') = Len(updates) + 1
         /\ \A n \in 1 .. Len(updates) : updates'[n] = updates[n]
         /\ updates'[Len(updates')] = Current
         /\ \A n \in 1 .. Len(updates') : n \in 1 .. Len(updates) \/ n = Len(updates')
<1>1. Current \in Update  BY DEF UpdatesInv, TypeOK, Collected, Current, Update
<1>2. updates \in Seq(Update)  BY DEF UpdatesInv, TypeOK, Update
<1>3. /\ updates' \in Seq(Update) /\ updates' # <<>>
      /\ Len(updates) \in Nat /\ Len(updates') = Len(updates) + 1
      /\ \A n \in 1 .. Len(updates) : updates'[n] = updates[n]
      /\ updates'[Len(updates) + 1] = Current
  BY <1>1, <1>2, AppendProperties, LenProperties
<1> QED BY <1>3

\* The updates stay as they should be when the group collected joins them.
LEMMA SendKeeps ==
  ASSUME UpdatesInv, fills # <<>>, updates' = Append(updates, Current), items' = items
  PROVE  /\ \A n \in 1 .. Len(updates') : Group(updates'[n])
         /\ First(updates'[1]) = 1
         /\ \A n \in 1 .. Len(updates') - 1 : First(updates'[n + 1]) = Last(updates'[n]) + 1
         /\ \A n \in 1 .. Len(updates') - 1 : updates'[n].key # updates'[n + 1].key
         /\ Last(updates'[Len(updates')]) = next - 1
<1>1. /\ Len(updates) \in Nat /\ Len(updates') = Len(updates) + 1
      /\ \A n \in 1 .. Len(updates) : updates'[n] = updates[n]
      /\ updates'[Len(updates')] = Current
      /\ \A n \in 1 .. Len(updates') : n \in 1 .. Len(updates) \/ n = Len(updates')
  BY SendGroup
<1>2. /\ Group(Current) /\ First(Current) = Begin /\ Last(Current) = next - 1
      /\ updates # <<>> => updates[Len(updates)].key # Current.key
  BY DEF UpdatesInv, Collected, Current
<1>3. \A n \in 1 .. Len(updates') : Group(updates'[n])
  BY <1>1, <1>2 DEF UpdatesInv
<1>4. updates = <<>> <=> Len(updates) = 0
  BY EmptySeq DEF UpdatesInv, TypeOK
<1>5. First(updates'[1]) = 1
  <2>1. CASE updates = <<>>  BY <1>1, <1>2, <1>4, <2>1 DEF Begin
  <2>2. CASE updates # <<>>
    <3>1. 1 \in 1 .. Len(updates)  BY <1>1, <1>4, <2>2
    <3> QED BY <1>1, <2>2, <3>1 DEF UpdatesInv, EveryFillOnce
  <2> QED BY <2>1, <2>2
<1>6. ASSUME NEW n \in 1 .. Len(updates') - 1
      PROVE  /\ First(updates'[n + 1]) = Last(updates'[n]) + 1
             /\ updates'[n].key # updates'[n + 1].key
  <2>1. n \in 1 .. Len(updates) /\ updates'[n] = updates[n]  BY <1>1
  <2>2. CASE n + 1 \in 1 .. Len(updates)
    <3>1. updates'[n + 1] = updates[n + 1] /\ n \in 1 .. Len(updates) - 1  BY <1>1, <2>2
    <3> QED BY <2>1, <3>1 DEF UpdatesInv, EveryFillOnce, OneOrderEach
  <2>3. CASE n = Len(updates)
    <3>1. updates # <<>> /\ updates'[n + 1] = Current  BY <1>1, <1>4, <2>1, <2>3
    <3> QED BY <1>2, <2>1, <2>3, <3>1 DEF Begin
  <2> QED BY <1>1, <2>2, <2>3
<1> QED BY <1>1, <1>2, <1>3, <1>5, <1>6

LEMMA Times ==
  ASSUME TypeOK
  PROVE  /\ time \in Nat
         /\ \A i \in 1 .. Len(items) : items[i] \in Item /\ items[i].time \in Nat
<1>1. Time \subseteq Nat  BY UpdatesAssumption DEF Time
<1>2. \A i \in 1 .. Len(items) : items[i] \in Item  BY ElementOfSeq DEF TypeOK
<1>3. \A i \in 1 .. Len(items) : items[i].time \in Time  BY <1>2 DEF Item
<1> QED BY <1>1, <1>2, <1>3 DEF TypeOK

\* The two ways a fill joins: it begins a group, or goes on with one.
LEMMA Begins ==
  ASSUME NEW i \in 1 .. Len(items), NEW g,
         g = [key |-> items[i].key, time |-> items[i].time, fills |-> <<i>>],
         TypeOK
  PROVE  Group(g) /\ First(g) = i /\ Last(g) = i
<1>1. g.fills = <<i>> /\ Len(g.fills) = 1 /\ g.fills[1] = i /\ g.fills # <<>>  OBVIOUS
<1>2. items[i].time \in Nat  BY Times
<1>3. Run(g.fills)  BY <1>1 DEF Run
<1> QED BY <1>1, <1>2, <1>3 DEF Group, First, Last

LEMMA GoesOn ==
  ASSUME TypeOK, fills # <<>>, Group(Current), next \in 1 .. Len(items),
         Last(Current) = next - 1, items[next].key = key, NEW g,
         g = [key |-> key, time |-> Later(time, items[next].time),
              fills |-> Append(fills, next)]
  PROVE  Group(g) /\ First(g) = First(Current) /\ Last(g) = next
<1>1. /\ fills \in Seq(Nat) /\ Len(fills) \in Nat \ {0} /\ next \in Nat
      /\ \A k \in 1 .. Len(fills) : fills[k] \in 1 .. Len(items)
  <2>1. \A k \in 1 .. Len(fills) : fills[k] \in 1 .. Len(items)
    BY ElementOfSeq DEF TypeOK
  <2>2. fills \in Seq(1 .. Len(items)) /\ Len(fills) \in Nat \ {0}  BY EmptySeq DEF TypeOK
  <2>3. fills \in Seq(Nat)  BY <2>1, <2>2
  <2> QED BY <2>1, <2>2, <2>3
<1>2. /\ Append(fills, next) # <<>> /\ Len(Append(fills, next)) = Len(fills) + 1
      /\ \A k \in 1 .. Len(fills) : Append(fills, next)[k] = fills[k]
      /\ Append(fills, next)[Len(fills) + 1] = next
  BY <1>1, AppendProperties
<1>3. /\ g.fills # <<>> /\ Len(g.fills) = Len(fills) + 1
      /\ \A k \in 1 .. Len(fills) : g.fills[k] = fills[k]
      /\ g.fills[Len(fills) + 1] = next
      /\ g.key = key /\ g.time = Later(time, items[next].time)
  BY <1>2
<1>4. Run(fills) /\ fills[Len(fills)] = next - 1  BY DEF Group, Current, Last
<1>5. next = fills[1] + Len(fills)
  <2>1. fills[Len(fills)] = fills[1] + (Len(fills) - 1)  BY <1>1, <1>4 DEF Run
  <2> QED BY <1>1, <1>4, <2>1
<1>6. Run(g.fills)
  <2> SUFFICES ASSUME NEW k \in 1 .. Len(g.fills) PROVE g.fills[k] = g.fills[1] + (k - 1)
    BY DEF Run
  <2>1. g.fills[1] = fills[1]  BY <1>1, <1>3
  <2>2. CASE k \in 1 .. Len(fills)  BY <1>3, <1>4, <2>1, <2>2 DEF Run
  <2>3. CASE k = Len(fills) + 1  BY <1>1, <1>3, <1>5, <2>1, <2>3
  <2> QED BY <1>1, <1>3, <2>2, <2>3
<1>7. /\ time \in Nat /\ items[next].time \in Nat
      /\ \A k \in 1 .. Len(fills) : items[fills[k]].time \in Nat
  BY <1>1, Times
<1>8. \A k \in 1 .. Len(g.fills) :
        items[g.fills[k]].key = g.key /\ items[g.fills[k]].time <= g.time
  <2> SUFFICES ASSUME NEW k \in 1 .. Len(g.fills)
               PROVE  items[g.fills[k]].key = g.key /\ items[g.fills[k]].time <= g.time
    OBVIOUS
  <2>1. CASE k \in 1 .. Len(fills)
    <3>1. items[fills[k]].key = key /\ items[fills[k]].time <= time
      BY <2>1 DEF Group, Current
    <3> QED BY <1>3, <1>7, <2>1, <3>1 DEF Later
  <2>2. CASE k = Len(fills) + 1  BY <1>3, <1>7, <2>2 DEF Later
  <2> QED BY <1>1, <1>3, <2>1, <2>2
<1>9. \E k \in 1 .. Len(g.fills) : items[g.fills[k]].time = g.time
  <2>1. CASE time < items[next].time
    <3>1. Len(fills) + 1 \in 1 .. Len(g.fills)  BY <1>1, <1>3
    <3> QED BY <1>3, <2>1, <3>1 DEF Later
  <2>2. CASE ~(time < items[next].time)
    <3>1. PICK k \in 1 .. Len(fills) : items[fills[k]].time = time  BY DEF Group, Current
    <3>2. k \in 1 .. Len(g.fills)  BY <1>1, <1>3
    <3> QED BY <1>3, <2>2, <3>1, <3>2 DEF Later
  <2> QED BY <2>1, <2>2
<1>10. First(g) = First(Current) /\ Last(g) = next
  BY <1>1, <1>3 DEF First, Last, Current
<1> QED BY <1>3, <1>6, <1>8, <1>9, <1>10 DEF Group

-----------------------------------------------------------------------------

\* The types after a turn of the loop.
LEMMA FillTypes ==
  ASSUME UpdatesInv, Fill
  PROVE  TypeOK'
<1>1. /\ next \in 1 .. Len(items) /\ items' = items /\ next' = next + 1
      /\ key' = items[next].key
      /\ updates' = IF items[next].key = key THEN updates ELSE Dispatched
      /\ fills' = IF items[next].key = key THEN Append(fills, next) ELSE <<next>>
      /\ time' = IF items[next].key = key THEN Later(time, items[next].time)
                 ELSE items[next].time
  BY DEF UpdatesInv, TypeOK, Fill, Add
<1>2. TypeOK  BY DEF UpdatesInv
<1>3. items[next].key \in Keys /\ items[next].time \in Time
  BY <1>1, <1>2, Times DEF Item
<1>4. key' \in Keys \cup {NoKey} /\ time' \in Time
  BY <1>1, <1>2, <1>3 DEF TypeOK, Later
<1>5. fills' \in Seq(1 .. Len(items'))
  <2>1. Append(fills, next) \in Seq(1 .. Len(items))
    BY <1>1, <1>2, AppendProperties DEF TypeOK
  <2>2. <<next>> \in Seq(1 .. Len(items))  BY <1>1
  <2> QED BY <1>1, <2>1, <2>2
<1>6. updates' \in Seq(Update')
  <2>1. updates \in Seq(Update) /\ Update' = Update  BY <1>1, <1>2 DEF TypeOK, Update
  <2>2. CASE updates' = updates  BY <2>1, <2>2
  <2>3. CASE fills # <<>> /\ updates' = Append(updates, Current)
    BY <1>1, <2>1, <2>3, SendGroup
  <2> QED BY <1>1, <2>2, <2>3 DEF Dispatched, Current
<1> QED BY <1>1, <1>2, <1>4, <1>5, <1>6 DEF TypeOK, Update

\* The fill begins a group, after what was collected has been sent, ...
LEMMA FillBegins ==
  ASSUME UpdatesInv, Fill, updates' = Dispatched, fills' = <<next>>,
         time' = items[next].time, key # items[next].key \/ fills = <<>>
  PROVE  UpdatesInv'
<1>1. /\ next \in 1 .. Len(items) /\ items' = items /\ next' = next + 1
      /\ key' = items[next].key
  BY DEF UpdatesInv, TypeOK, Fill, Add
<1>2. TypeOK /\ TypeOK'  BY FillTypes DEF UpdatesInv
<1>3. Current' = [key |-> items[next].key, time |-> items[next].time, fills |-> <<next>>]
  BY <1>1 DEF Current
<1>4. Group(Current') /\ First(Current') = next /\ Last(Current') = next
  BY <1>1, <1>2, <1>3, Begins
<1>5. Group(Current)' /\ First(Current)' = next /\ Last(Current)' = next
  BY <1>1, <1>4 DEF Group, First, Last, Run
<1>6. key' \in Keys  BY <1>1, <1>2, Times DEF Item
<1>7. CASE fills = <<>>
  <2>1. next = 1 /\ updates = <<>> /\ updates' = <<>>
    BY <1>1, <1>7 DEF UpdatesInv, Collected, Dispatched
  <2>2. Len(updates') = 0  BY <2>1
  <2>3. Collected'
    BY <1>1, <1>5, <1>6, <2>1 DEF Collected, Begin
  <2> QED BY <1>1, <1>2, <2>1, <2>2, <2>3 DEF UpdatesInv, EveryFillOnce, OneOrderEach, OwnTime
<1>8. CASE fills # <<>>
  <2>1. updates' = Append(updates, Current)  BY <1>8 DEF Dispatched, Current
  <2>2. /\ updates' # <<>> /\ updates'[Len(updates')] = Current
    BY <1>1, <1>8, <2>1, SendGroup
  <2>3. /\ \A n \in 1 .. Len(updates') : Group(updates'[n])
        /\ First(updates'[1]) = 1
        /\ \A n \in 1 .. Len(updates') - 1 : First(updates'[n + 1]) = Last(updates'[n]) + 1
        /\ \A n \in 1 .. Len(updates') - 1 : updates'[n].key # updates'[n + 1].key
        /\ Last(updates'[Len(updates')]) = next - 1
    BY <1>1, <1>8, <2>1, SendKeeps
  <2>4. Collected'
    <3>1. fills' # <<>> /\ next' <= Len(items') + 1 /\ next' - 1 = next  BY <1>1, <1>2
    <3>2. Begin' = next  BY <1>1, <2>2, <2>3 DEF Begin, Last
    <3>3. (updates[Len(updates)].key # key)'
      BY <1>1, <1>8, <2>2 DEF Current
    <3> QED BY <1>1, <1>5, <1>6, <3>1, <3>2, <3>3 DEF Collected
  <2>5. \A n \in 1 .. Len(updates') : Group(updates[n])'
    BY <1>1, <2>3 DEF Group, Run
  <2>6. EveryFillOnce'
    BY <1>1, <2>2, <2>3, <2>5 DEF EveryFillOnce, Group, First, Last, Run
  <2>7. OwnTime'  BY <2>5 DEF OwnTime, Group
  <2>8. OneOrderEach'  BY <2>3, <2>5 DEF OneOrderEach, Group
  <2> QED BY <1>2, <2>4, <2>5, <2>6, <2>7, <2>8 DEF UpdatesInv
<1> QED BY <1>7, <1>8

\* ... or goes on with the group of its order.
LEMMA FillGoesOn ==
  ASSUME UpdatesInv, Fill, fills # <<>>, items[next].key = key
  PROVE  UpdatesInv'
<1>1. /\ next \in 1 .. Len(items) /\ items' = items /\ next' = next + 1
      /\ key' = key /\ updates' = updates
      /\ fills' = Append(fills, next) /\ time' = Later(time, items[next].time)
  BY DEF UpdatesInv, TypeOK, Fill, Add
<1>2. TypeOK /\ TypeOK'  BY FillTypes DEF UpdatesInv
<1>3. /\ Group(Current) /\ key \in Keys /\ First(Current) = Begin
      /\ Last(Current) = next - 1
      /\ updates # <<>> => updates[Len(updates)].key # key
  BY DEF UpdatesInv, Collected
<1>4. Current' = [key |-> key, time |-> Later(time, items[next].time),
                  fills |-> Append(fills, next)]
  BY <1>1 DEF Current
<1>5. Group(Current') /\ First(Current') = First(Current) /\ Last(Current') = next
  BY <1>1, <1>2, <1>3, <1>4, GoesOn
<1>6. Collected'
  <2>1. fills' # <<>>  BY <1>1, <1>2, AppendProperties DEF TypeOK
  <2>2. Group(Current)' /\ First(Current)' = Begin /\ Last(Current)' = next
    BY <1>1, <1>3, <1>5 DEF Group, First, Last, Run
  <2>3. Begin' = Begin  BY <1>1 DEF Begin, Last
  <2> QED BY <1>1, <1>2, <1>3, <2>1, <2>2, <2>3 DEF Collected
<1>7. \A n \in 1 .. Len(updates') : Group(updates[n])'
  BY <1>1 DEF UpdatesInv, Group, Run
<1>8. EveryFillOnce'
  BY <1>1 DEF UpdatesInv, EveryFillOnce, First, Last, Run
<1>9. OneOrderEach' /\ OwnTime'
  BY <1>1 DEF UpdatesInv, OneOrderEach, OwnTime
<1> QED BY <1>2, <1>6, <1>7, <1>8, <1>9 DEF UpdatesInv

\* A turn of the loop keeps the invariant.
LEMMA FillKeeps ==
  ASSUME UpdatesInv, Fill
  PROVE  UpdatesInv'
<1>1. /\ next \in 1 .. Len(items)
      /\ updates' = IF items[next].key = key THEN updates ELSE Dispatched
      /\ fills' = IF items[next].key = key THEN Append(fills, next) ELSE <<next>>
      /\ time' = IF items[next].key = key THEN Later(time, items[next].time)
                 ELSE items[next].time
  BY DEF UpdatesInv, TypeOK, Fill, Add
<1>2. CASE items[next].key # key  BY <1>1, <1>2, FillBegins
<1>3. CASE items[next].key = key /\ fills # <<>>  BY <1>3, FillGoesOn
<1>4. CASE items[next].key = key /\ fills = <<>>
  <2>1. next = 1 /\ updates = <<>> /\ time = 0
    BY <1>1, <1>4 DEF UpdatesInv, Collected
  <2>2. updates' = Dispatched  BY <1>1, <1>4 DEF Dispatched
  <2>3. fills' = <<next>>  BY <1>1, <1>4
  <2>4. items[next].time \in Nat  BY <1>1, Times DEF UpdatesInv
  <2>5. time' = items[next].time  BY <1>1, <1>4, <2>1, <2>4 DEF Later
  <2> QED BY <1>4, <2>2, <2>3, <2>5, FillBegins
<1> QED BY <1>2, <1>3, <1>4

\* So does the end of the loop.
LEMMA FinishKeeps ==
  ASSUME UpdatesInv, Finish
  PROVE  UpdatesInv'
<1>1. /\ next = Len(items) + 1 /\ next' = next + 1 /\ items' = items
      /\ key' = key /\ time' = time /\ fills' = <<>> /\ updates' = Dispatched
  BY DEF Finish
<1>2. TypeOK /\ Len(items) \in Nat  BY DEF UpdatesInv, TypeOK
<1>3. Collected'  BY <1>1, <1>2 DEF Collected
<1>4. fills' \in Seq(1 .. Len(items'))  BY <1>1
<1>5. CASE fills = <<>>
  <2>1. items = <<>> /\ updates = <<>> /\ updates' = <<>>
    <3>1. next = 1 /\ updates = <<>>  BY <1>1, <1>2, <1>5 DEF UpdatesInv, Collected
    <3>2. Len(items) = 0  BY <1>1, <1>2, <3>1
    <3> QED BY <1>1, <1>2, <1>5, <3>1, <3>2, EmptySeq DEF TypeOK, Dispatched
  <2>2. TypeOK'  BY <1>1, <1>2, <1>4, <2>1 DEF TypeOK
  <2> QED BY <1>1, <1>3, <2>1, <2>2 DEF UpdatesInv, EveryFillOnce, OneOrderEach, OwnTime
<1>6. CASE fills # <<>>
  <2>1. updates' = Append(updates, Current)  BY <1>1, <1>6 DEF Dispatched, Current
  <2>2. updates' \in Seq(Update) /\ updates' # <<>>
    BY <1>1, <1>6, <2>1, SendGroup
  <2>3. TypeOK'  BY <1>1, <1>2, <1>4, <2>2 DEF TypeOK, Update
  <2>4. /\ \A n \in 1 .. Len(updates') : Group(updates'[n])
        /\ First(updates'[1]) = 1
        /\ \A n \in 1 .. Len(updates') - 1 : First(updates'[n + 1]) = Last(updates'[n]) + 1
        /\ \A n \in 1 .. Len(updates') - 1 : updates'[n].key # updates'[n + 1].key
        /\ Last(updates'[Len(updates')]) = Len(items)
    BY <1>1, <1>2, <1>6, <2>1, SendKeeps
  <2>5. \A n \in 1 .. Len(updates') : Group(updates[n])'
    BY <1>1, <2>4 DEF Group, Run
  <2>6. EveryFillOnce'
    BY <1>1, <2>2, <2>4, <2>5 DEF EveryFillOnce, Group, First, Last, Run
  <2>7. OneOrderEach' /\ OwnTime'
    BY <1>1, <2>4 DEF OneOrderEach, OwnTime, Group
  <2> QED BY <1>3, <2>3, <2>5, <2>6, <2>7 DEF UpdatesInv
<1> QED BY <1>5, <1>6

-----------------------------------------------------------------------------

LEMMA InitHolds == Init => UpdatesInv
<1> SUFFICES ASSUME Init PROVE UpdatesInv
  OBVIOUS
<1>1. PICK n \in 0 .. MaxItems : items \in [1 .. n -> Item]  BY DEF Init
<1>2. items \in Seq(Item)  BY <1>1, UpdatesAssumption, SeqDef
<1>3. Len(items) \in Nat  BY <1>2
<1>4. TypeOK  BY <1>2, UpdatesAssumption DEF Init, TypeOK, Time
<1> QED BY <1>3, <1>4 DEF Init, UpdatesInv, Collected, EveryFillOnce, OneOrderEach, OwnTime

LEMMA Invariance == Spec => []UpdatesInv
<1>1. UpdatesInv /\ [Next]_vars => UpdatesInv'
  <2> SUFFICES ASSUME UpdatesInv, [Next]_vars PROVE UpdatesInv'
    OBVIOUS
  <2>1. CASE Fill  BY <2>1, FillKeeps
  <2>2. CASE Finish  BY <2>2, FinishKeeps
  <2>3. CASE UNCHANGED vars
    BY <2>3 DEF vars, UpdatesInv, TypeOK, Collected, Current, Begin, Group, Run, First, Last,
                EveryFillOnce, OneOrderEach, OwnTime
  <2> QED BY <2>1, <2>2, <2>3 DEF Next
<1> QED BY <1>1, InitHolds, PTL DEF Spec

\* For messages of any length, any keys and any times: no fill of a message is lost,
\* repeated or moved by the grouping of drop_copy.cpp and order_entry.cpp.
THEOREM FillsKept == Spec => []EveryFillOnce
BY Invariance, PTL DEF UpdatesInv

\* Each update speaks for one order, neighbours for different ones.
THEOREM OrdersKept == Spec => []OneOrderEach
BY Invariance, PTL DEF UpdatesInv

\* Each update bears the latest time of its own fills.
THEOREM TimesKept == Spec => []OwnTime
BY Invariance, PTL DEF UpdatesInv

\* The loop's variables keep their types.
THEOREM TypeCorrect == Spec => []TypeOK
BY Invariance, PTL DEF UpdatesInv
=============================================================================
