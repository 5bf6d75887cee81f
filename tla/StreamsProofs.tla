----------------------------- MODULE StreamsProofs -----------------------------
(***************************************************************************)
(* What clients are shown of their account and of the market, whatever     *)
(* the connections bring and in whatever order.                            *)
(*                                                                         *)
(* Of the account: what the exchange held at some time (but of a position  *)
(* it calls net nothing), and the latest of it once a session has settled. *)
(* For every set of keys and every bound.                                  *)
(*                                                                         *)
(* Of the market: a book the exchange had, its top, and every trade once.  *)
(* For every set of symbols, finite sets of prices and every bound.  What  *)
(* is proved of Public!Spec and of Spec holds of StreamsSpec, which is     *)
(* both.                                                                   *)
(***************************************************************************)
EXTENDS MCStreams, SequenceTheorems, FiniteSetTheorems, WellFoundedInduction, TLAPS

(* Holdings: the invariant behind TypeOK and ShownAsHeld: what is on the way is true. *)

\* An item that says what the exchange held: a side, and in one-way mode the only one,
\* unless it calls it net.
TrueItem(i) ==
  /\ i \in Items
  /\ i.version \in DOMAIN held[i.key]
  /\ kind = "net" => i.side = "net"
  /\ kind # "net" => /\ i.side \in Sides
                     /\ i.size = held[i.key][i.version][i.side]
  /\ kind \notin {"net", "hedge_mode"} =>
       \A d \in Sides \ {i.side} : held[i.key][i.version][d] = 0

TrueItems == {i \in Items : TrueItem(i)}

HoldingsInv ==
  /\ TypeOK
  /\ pushes \in Seq([snapshot : BOOLEAN, items : SUBSET TrueItems])
  /\ flight \in Seq([answered : BOOLEAN, items : SUBSET TrueItems, session : Nat])
  /\ ShownAsHeld

(* The invariant behind SettledIsLatest: in a session the latest of a key has been *)
(* shown, or a push of it is on the way, or it is in every download of the session *)
(* that could be its first snapshot.                                               *)

OfOneTime(items)  == \A i, j \in items : i.key = j.key => i.version = j.version
Has(items, k, v)  == \E i \in items : i.key = k /\ i.version = v
Coming(k) == \E n \in DOMAIN pushes : Has(pushes[n].items, k, Version(k))
Known(k)  == newest[k] = Version(k) \/ k \in unlisted \/ Coming(k)

Downloaded(k) ==
  /\ ~synced /\ Held(k) # Flat
  /\ \A n \in DOMAIN flight : flight[n].session = sessions => Has(flight[n].items, k, Version(k))

Ages ==
  /\ newest \in [Keys -> Nat]
  /\ \A k \in Keys : age[k] <= newest[k] /\ newest[k] <= Version(k)
  /\ \A n \in DOMAIN pushes : OfOneTime(pushes[n].items)
  /\ \A n \in DOMAIN flight : OfOneTime(flight[n].items) /\ flight[n].session <= sessions
  /\ IF session THEN sessions >= 1 ELSE pushes = <<>>

\* A key that is pushed is pushed up to its latest.
PushedToTheEnd ==
  \A n \in DOMAIN pushes : \A i \in pushes[n].items :
    \E m \in DOMAIN pushes : m >= n /\ Has(pushes[m].items, i.key, Version(i.key))

LatestInv ==
  /\ HoldingsInv /\ Ages /\ PushedToTheEnd
  /\ session => \A k \in Keys : Known(k) \/ Downloaded(k)
  /\ session => \A n \in DOMAIN pushes : pushes[n].snapshot => \A k \in Keys : Known(k)

-----------------------------------------------------------------------------
\* What is appended joins a sequence, and what is left of one is of its elements.
LEMMA AppendKeeps ==
  ASSUME NEW S, NEW s \in Seq(S), NEW e \in S
  PROVE  /\ Append(s, e) \in Seq(S)
         /\ Len(s) \in Nat /\ Len(Append(s, e)) = Len(s) + 1
         /\ \A n \in 1 .. Len(s) : Append(s, e)[n] = s[n]
         /\ Append(s, e)[Len(s) + 1] = e
BY AppendProperties, LenProperties

LEMMA TailKeeps ==
  ASSUME NEW S, NEW s \in Seq(S), s # <<>>
  PROVE  Head(s) \in S /\ Tail(s) \in Seq(S)
BY HeadTailProperties

LEMMA FewElements ==
  ASSUME NEW S, NEW e \in S
  PROVE  <<>> \in Seq(S) /\ <<e>> \in Seq(S)
OBVIOUS

LEMMA SeqGrows ==
  ASSUME NEW S, NEW T, S \subseteq T, NEW s \in Seq(S)
  PROVE  s \in Seq(T)
OBVIOUS

-----------------------------------------------------------------------------
(* What the exchange holds *)

LEMMA HeldType ==
  ASSUME HoldingsInv, NEW k \in Keys
  PROVE  /\ held[k] \in Seq(Holding)
         /\ Version(k) \in Nat /\ Version(k) >= 1 /\ DOMAIN held[k] = 1 .. Version(k)
         /\ \A v \in 1 .. Version(k) : held[k][v] \in Holding
         /\ Held(k) \in Holding /\ Held(k) = held[k][Version(k)]
<1>1. held[k] \in Seq(Holding) /\ age[k] \in 1 .. Version(k)  BY DEF HoldingsInv, TypeOK
<1>2. /\ Version(k) \in Nat /\ DOMAIN held[k] = 1 .. Version(k)
      /\ \A v \in 1 .. Version(k) : held[k][v] \in Holding
  BY <1>1, ElementOfSeq, LenProperties DEF Version
<1>3. Version(k) >= 1  BY <1>1, <1>2
<1> QED BY <1>1, <1>2, <1>3 DEF Held

LEMMA HoldingType ==
  ASSUME NEW q \in Holding
  PROVE  /\ q \in [Sides -> 0 .. MaxQuantity]
         /\ kind \in {"one_way_mode", "net"} => \E d \in Sides : \A e \in Sides \ {d} : q[e] = 0
BY DEF Holding, Quantities

\* A snapshot is true.
LEMMA ListedTrue == ASSUME HoldingsInv PROVE Listed \subseteq TrueItems
<1> SUFFICES ASSUME NEW i \in Listed PROVE i \in TrueItems
  OBVIOUS
<1>1. PICK k \in Keys, d \in Sides :
        /\ i = [key |-> k, side |-> Named(d), size |-> Held(k)[d], version |-> Version(k)]
        /\ i.size > 0
  BY DEF Listed
<1>2. /\ i.key = k /\ i.side = Named(d) /\ i.size = Held(k)[d] /\ i.version = Version(k)
      /\ Version(k) \in Nat /\ Version(k) >= 1 /\ DOMAIN held[k] = 1 .. Version(k)
      /\ Held(k) \in Holding /\ Held(k) = held[k][Version(k)]
  BY <1>1, HeldType
<1>3. Held(k)[d] \in 1 .. MaxQuantity
  <2>1. Held(k)[d] \in 0 .. MaxQuantity  BY <1>1, <1>2, HoldingType
  <2> QED BY <1>1, <1>2, <2>1, HoldingsAssumption
<1>4. i.side \in Sides \cup {"net"}  BY <1>1, <1>2 DEF Named
<1>5. i \in Items  BY <1>1, <1>2, <1>3, <1>4, HoldingsAssumption DEF Items
<1>6. i.version \in DOMAIN held[i.key]  BY <1>2
<1>7. /\ kind = "net" => i.side = "net"
      /\ kind # "net" => i.side = d
  BY <1>2 DEF Named
<1>8. kind \notin {"net", "hedge_mode"} => \A e \in Sides \ {d} : Held(k)[e] = 0
  <2>1. CASE kind = "funds"  BY <1>1, <2>1 DEF Sides
  <2>2. CASE kind = "one_way_mode"
    <3>1. PICK c \in Sides : \A e \in Sides \ {c} : Held(k)[e] = 0
      BY <1>2, <2>2, HoldingType
    <3>2. Held(k)[d] # 0  BY <1>3
    <3> QED BY <1>1, <3>1, <3>2
  <2> QED BY <2>1, <2>2 DEF HoldingsInv, TypeOK, Kinds
<1> QED BY <1>2, <1>5, <1>6, <1>7, <1>8 DEF TrueItems, TrueItem

-----------------------------------------------------------------------------
(* What is shown *)

\* What an item makes of its key, when it is true.
LEMMA QuantityShows ==
  ASSUME HoldingsInv, NEW i \in TrueItems
  PROVE  /\ i.key \in Keys /\ i.version \in 1 .. Version(i.key) /\ i.version \in Nat
         /\ Quantity(i) \in Holding
         /\ \/ Quantity(i) = held[i.key][i.version]
            \/ /\ kind = "hedge_mode"
               /\ \E d \in Sides : Quantity(i) = [Flat EXCEPT ![d] = held[i.key][i.version][d]]
            \/ kind = "net" /\ Quantity(i) = Flat
<1>1. /\ i \in Items /\ i.version \in DOMAIN held[i.key]
      /\ kind = "net" => i.side = "net"
      /\ kind # "net" => i.side \in Sides /\ i.size = held[i.key][i.version][i.side]
      /\ kind \notin {"net", "hedge_mode"} =>
           \A d \in Sides \ {i.side} : held[i.key][i.version][d] = 0
  BY DEF TrueItems, TrueItem
<1>2. i.key \in Keys /\ i.size \in 0 .. MaxQuantity  BY <1>1 DEF Items
<1>3. /\ Version(i.key) \in Nat /\ DOMAIN held[i.key] = 1 .. Version(i.key)
      /\ held[i.key][i.version] \in Holding
  BY <1>1, <1>2, HeldType
<1>4. i.version \in 1 .. Version(i.key) /\ i.version \in Nat  BY <1>1, <1>3
<1>5. held[i.key][i.version] \in [Sides -> 0 .. MaxQuantity]  BY <1>3, HoldingType
<1>6. Quantity(i) \in Holding
  <2>1. Quantity(i) \in [Sides -> 0 .. MaxQuantity]
    BY <1>1, <1>2, HoldingsAssumption DEF Quantity
  <2>2. \A e \in Sides \ {i.side} : Quantity(i)[e] = 0  BY DEF Quantity
  <2>3. \E d \in Sides : \A e \in Sides \ {d} : Quantity(i)[e] = 0
    <3>1. CASE i.side \in Sides  BY <2>2, <3>1
    <3>2. CASE i.side \notin Sides
      <4>1. \A e \in Sides : Quantity(i)[e] = 0  BY <2>2, <3>2
      <4>2. Sides # {}  BY DEF Sides
      <4> QED BY <4>1, <4>2
    <3> QED BY <3>1, <3>2
  <2> QED BY <2>1, <2>3 DEF Holding, Quantities
<1>7. CASE kind \notin {"net", "hedge_mode"}
  <2>1. \A d \in Sides : Quantity(i)[d] = held[i.key][i.version][d]
    BY <1>1, <1>7 DEF Quantity
  <2>2. Quantity(i) = held[i.key][i.version]
    BY <1>5, <1>6, <2>1, HoldingType
  <2> QED BY <1>2, <1>4, <1>6, <2>2
<1>8. CASE kind = "hedge_mode"
  <2>1. Quantity(i) = [Flat EXCEPT ![i.side] = held[i.key][i.version][i.side]]
    BY <1>1, <1>8 DEF Quantity, Flat
  <2> QED BY <1>1, <1>2, <1>4, <1>6, <1>8, <2>1
<1>9. CASE kind = "net"
  <2>1. i.side \notin Sides  BY <1>1, <1>9 DEF Sides
  <2>2. Quantity(i) = Flat  BY <2>1 DEF Quantity, Flat
  <2> QED BY <1>2, <1>4, <1>6, <1>9, <2>2
<1> QED BY <1>7, <1>8, <1>9

LEMMA DispatchShows ==
  ASSUME HoldingsInv, NEW items \in SUBSET TrueItems, Dispatch(items),
         kind' = kind, held' = held
  PROVE  /\ shown' \in [Keys -> Holding] /\ age' \in [Keys -> Nat]
         /\ \A k \in Keys : age'[k] \in 1 .. Version(k)
         /\ ShownAsHeld'
<1>1. PICK last \in [{i.key : i \in items} -> items] :
        /\ \A k \in DOMAIN last : last[k].key = k
        /\ shown' = [k \in Keys |-> IF k \in DOMAIN last THEN Quantity(last[k]) ELSE shown[k]]
        /\ age' = [k \in Keys |-> IF k \in DOMAIN last THEN last[k].version ELSE age[k]]
  BY DEF Dispatch
<1>2. ASSUME NEW k \in Keys
      PROVE  /\ shown'[k] \in Holding /\ age'[k] \in Nat /\ age'[k] \in 1 .. Version(k)
             /\ \/ shown'[k] = held[k][age'[k]]
                \/ /\ kind = "hedge_mode"
                   /\ \E d \in Sides : shown'[k] = [Flat EXCEPT ![d] = held[k][age'[k]][d]]
                \/ kind = "net" /\ shown'[k] = Flat
  <2>1. CASE k \in DOMAIN last
    <3>1. last[k] \in TrueItems /\ last[k].key = k  BY <1>1, <2>1
    <3>2. shown'[k] = Quantity(last[k]) /\ age'[k] = last[k].version  BY <1>1, <2>1
    <3> QED BY <3>1, <3>2, QuantityShows
  <2>2. CASE k \notin DOMAIN last
    <3>1. shown'[k] = shown[k] /\ age'[k] = age[k]  BY <1>1, <2>2
    <3>2. shown[k] \in Holding /\ age[k] \in Nat /\ age[k] \in 1 .. Version(k)
      BY DEF HoldingsInv, TypeOK
    <3>3. \/ shown[k] = held[k][age[k]]
          \/ /\ kind = "hedge_mode"
             /\ \E d \in Sides : shown[k] = [Flat EXCEPT ![d] = held[k][age[k]][d]]
          \/ kind = "net" /\ shown[k] = Flat
      BY DEF HoldingsInv, ShownAsHeld
    <3> QED BY <3>1, <3>2, <3>3
  <2> QED BY <2>1, <2>2
<1>3. shown' \in [Keys -> Holding] /\ age' \in [Keys -> Nat]  BY <1>1, <1>2
<1>4. Sides' = Sides /\ Flat' = Flat  BY DEF Sides, Flat
<1>5. ShownAsHeld'  BY <1>2, <1>4 DEF ShownAsHeld
<1> QED BY <1>2, <1>3, <1>5

-----------------------------------------------------------------------------
(* A change at the exchange *)

\* The push of a change is about a side that is all there is in one-way mode: the
\* position may have turned from one side to the other.
LEMMA SideOfChange ==
  ASSUME NEW q \in Holding, NEW r \in Holding, q # r, kind \in Kinds
  PROVE  /\ ChangedSide(q, r) \in Sides
         /\ kind \notin {"net", "hedge_mode"} =>
              \A e \in Sides \ {ChangedSide(q, r)} : r[e] = 0
<1> DEFINE changed == {d \in Sides : q[d] # r[d]}
           d == ChangedSide(q, r)
<1>1. q \in [Sides -> 0 .. MaxQuantity] /\ r \in [Sides -> 0 .. MaxQuantity]
  BY HoldingType
<1>2. changed # {}  BY <1>1
<1>3. \E c \in changed : r[c] > 0 \/ \A e \in changed : r[e] = 0
  <2>1. CASE \E c \in changed : r[c] > 0  BY <2>1
  <2>2. CASE \A c \in changed : ~(r[c] > 0)
    <3>1. \A c \in changed : r[c] = 0  BY <1>1, <2>2, HoldingsAssumption
    <3> QED BY <1>2, <3>1
  <2> QED BY <2>1, <2>2
<1>4. d \in changed /\ (r[d] > 0 \/ \A e \in changed : r[e] = 0)
  BY <1>3 DEF ChangedSide
<1>5. CASE kind = "funds"  BY <1>4, <1>5 DEF Sides
<1>6. CASE kind = "one_way_mode"
  <2>1. PICK a \in Sides : \A e \in Sides \ {a} : q[e] = 0  BY <1>6, HoldingType
  <2>2. PICK b \in Sides : \A e \in Sides \ {b} : r[e] = 0  BY <1>6, HoldingType
  <2>3. ASSUME NEW e \in Sides \ {d}, r[e] # 0 PROVE FALSE
    <3>1. e = b  BY <2>2, <2>3
    <3>2. r[d] = 0  BY <1>4, <2>2, <2>3, <3>1
    <3>3. \A c \in changed : r[c] = 0  BY <1>4, <3>2
    <3>4. q[e] = r[e]  BY <2>3, <3>3
    <3>5. e = a  BY <2>1, <2>3, <3>4
    <3>6. q[d] = 0  BY <1>4, <2>1, <2>3, <3>5
    <3> QED BY <1>4, <3>2, <3>6
  <2> QED BY <1>4, <2>3
<1>7. CASE kind \in {"net", "hedge_mode"}  BY <1>4, <1>7
<1> QED BY <1>5, <1>6, <1>7 DEF Kinds

\* What was true stays true, and the push of the change is true.
LEMMA ChangeTrue ==
  ASSUME HoldingsInv, NEW k \in Keys, NEW q \in Holding, q # Held(k), kind' = kind,
         held' = [held EXCEPT ![k] = Append(@, q)], NEW i,
         i = [key |-> k, side |-> Named(ChangedSide(Held(k), q)),
              size |-> q[ChangedSide(Held(k), q)], version |-> Version(k) + 1]
  PROVE  /\ held' \in [Keys -> Seq(Holding)]
         /\ \A j \in Keys : Version(j)' \in Nat /\ Version(j)' >= Version(j)
         /\ \A j \in Keys : \A v \in 1 .. Version(j) : held'[j][v] = held[j][v]
         /\ TrueItems \subseteq TrueItems'
         /\ i \in TrueItems'
<1>1. held \in [Keys -> Seq(Holding)]  BY DEF HoldingsInv, TypeOK
<1>2. /\ held[k] \in Seq(Holding) /\ Version(k) \in Nat /\ Version(k) = Len(held[k])
      /\ Held(k) \in Holding
  BY HeldType DEF Version
<1>3. held'[k] = Append(held[k], q) /\ \A j \in Keys \ {k} : held'[j] = held[j]
  BY <1>1
<1>4. /\ held'[k] \in Seq(Holding) /\ Version(k)' = Version(k) + 1
      /\ \A v \in 1 .. Version(k) : held'[k][v] = held[k][v]
      /\ held'[k][Version(k) + 1] = q
  BY <1>2, <1>3, AppendKeeps DEF Version
<1>5. held' \in [Keys -> Seq(Holding)]  BY <1>1, <1>4
<1>6. \A j \in Keys \ {k} : Version(j)' = Version(j)  BY <1>3 DEF Version
<1>7. \A j \in Keys : /\ Version(j)' \in Nat /\ Version(j)' >= Version(j)
                      /\ DOMAIN held[j] = 1 .. Version(j)
                      /\ DOMAIN held'[j] = 1 .. Version(j)'
  <2>1. SUFFICES ASSUME NEW j \in Keys
                 PROVE  /\ Version(j)' \in Nat /\ Version(j)' >= Version(j)
                        /\ DOMAIN held[j] = 1 .. Version(j)
                        /\ DOMAIN held'[j] = 1 .. Version(j)'
    OBVIOUS
  <2>2. Version(j) \in Nat /\ DOMAIN held[j] = 1 .. Version(j)  BY HeldType
  <2>3. held'[j] \in Seq(Holding)  BY <1>5
  <2>4. Version(j)' \in Nat /\ DOMAIN held'[j] = 1 .. Version(j)'
    BY <2>3, LenProperties DEF Version
  <2>5. Version(j)' >= Version(j)
    <3>1. CASE j = k  BY <1>4, <2>2, <3>1
    <3>2. CASE j # k  BY <1>6, <2>2, <3>2
    <3> QED BY <3>1, <3>2
  <2> QED BY <2>2, <2>4, <2>5
<1>8. \A j \in Keys : \A v \in 1 .. Version(j) : held'[j][v] = held[j][v]
  BY <1>3, <1>4
<1>9. Sides' = Sides /\ Items' = Items  BY DEF Sides, Items
<1>10. ASSUME NEW t \in TrueItems PROVE t \in TrueItems'
  <2>1. /\ t \in Items /\ t.version \in DOMAIN held[t.key]
        /\ kind = "net" => t.side = "net"
        /\ kind # "net" => t.side \in Sides /\ t.size = held[t.key][t.version][t.side]
        /\ kind \notin {"net", "hedge_mode"} =>
             \A d \in Sides \ {t.side} : held[t.key][t.version][d] = 0
    BY DEF TrueItems, TrueItem
  <2>2. t.key \in Keys /\ t.version \in Nat  BY <2>1 DEF Items
  <2>3. t.version \in 1 .. Version(t.key)  BY <1>7, <2>1, <2>2
  <2>4. held'[t.key][t.version] = held[t.key][t.version]  BY <1>8, <2>2, <2>3
  <2>5. Version(t.key) \in Nat  BY <2>2, HeldType
  <2>6. t.version \in DOMAIN held'[t.key]  BY <1>7, <2>2, <2>3, <2>5
  <2> QED BY <1>9, <2>1, <2>4, <2>6 DEF TrueItems, TrueItem
<1>11. i \in TrueItems'
  <2> DEFINE d == ChangedSide(Held(k), q)
  <2>1. kind \in Kinds  BY DEF HoldingsInv, TypeOK
  <2>2. /\ d \in Sides
        /\ kind \notin {"net", "hedge_mode"} => \A e \in Sides \ {d} : q[e] = 0
    BY <1>2, <2>1, SideOfChange
  <2>3. i.side = Named(d) /\ i.key = k /\ i.size = q[d] /\ i.version = Version(k) + 1
    OBVIOUS
  <2> HIDE DEF d
  <2>4. q[d] \in 0 .. MaxQuantity  BY <2>2, HoldingType
  <2>5. i.version \in Nat /\ i.version \in DOMAIN held'[k] /\ held'[k][i.version] = q
    BY <1>2, <1>4, <1>7, <2>3
  <2>6. (kind = "net" => i.side = "net") /\ (kind # "net" => i.side = d)
    BY <2>3 DEF Named
  <2>7. i \in Items
    <3>1. i.side \in Sides \cup {"net"}  BY <2>2, <2>6
    <3>2. i = [key |-> k, side |-> i.side, size |-> i.size, version |-> i.version]
      OBVIOUS
    <3> QED BY <2>3, <2>4, <2>5, <3>1, <3>2 DEF Items
  <2> QED BY <1>9, <2>2, <2>3, <2>5, <2>6, <2>7 DEF TrueItems, TrueItem
<1> QED BY <1>5, <1>7, <1>8, <1>10, <1>11

-----------------------------------------------------------------------------
(* The invariant *)

Messages  == [snapshot : BOOLEAN, items : SUBSET TrueItems]
Downloads == [answered : BOOLEAN, items : SUBSET TrueItems, session : Nat]

\* What is on the way is typed because it is true.
LEMMA ItemsTyped ==
  ASSUME NEW T, NEW I, T \subseteq I,
         NEW p \in Seq([snapshot : BOOLEAN, items : SUBSET T]),
         NEW f \in Seq([answered : BOOLEAN, items : SUBSET T, session : Nat])
  PROVE  /\ \A n \in DOMAIN p : p[n].items \subseteq I
         /\ \A n \in DOMAIN f : f[n].items \subseteq I
<1>1. ASSUME NEW n \in DOMAIN p PROVE p[n].items \subseteq I
  <2>1. p[n] \in [snapshot : BOOLEAN, items : SUBSET T]  BY ElementOfSeq, LenProperties
  <2> QED BY <2>1
<1>2. ASSUME NEW n \in DOMAIN f PROVE f[n].items \subseteq I
  <2>1. f[n] \in [answered : BOOLEAN, items : SUBSET T, session : Nat]
    BY ElementOfSeq, LenProperties
  <2> QED BY <2>1
<1> QED BY <1>1, <1>2

LEMMA Unmoved ==
  ASSUME kind' = kind, held' = held
  PROVE  /\ Sides' = Sides /\ Flat' = Flat /\ Holding' = Holding /\ Items' = Items
         /\ TrueItems' = TrueItems /\ Messages' = Messages /\ Downloads' = Downloads
         /\ \A k \in Keys : Version(k)' = Version(k)
<1>1. Sides' = Sides /\ Flat' = Flat  BY DEF Sides, Flat
<1>2. Quantities' = Quantities  BY <1>1 DEF Quantities
<1>3. Holding' = Holding  BY <1>1, <1>2 DEF Holding
<1>4. Items' = Items  BY <1>1 DEF Items
<1>5. \A i : TrueItem(i)' <=> TrueItem(i)  BY <1>1, <1>4 DEF TrueItem
<1>6. TrueItems' = TrueItems  BY <1>4, <1>5 DEF TrueItems
<1> QED BY <1>1, <1>3, <1>4, <1>6 DEF Messages, Downloads, Version

\* A step of the gateway or an answer: the exchange holds what it held.
LEMMA StepUnmoved ==
  ASSUME HoldingsInv, kind' = kind, held' = held,
         session' \in BOOLEAN, wanted' \in BOOLEAN, sessions' \in Nat,
         pushes' \in Seq(Messages), flight' \in Seq(Downloads),
         \/ shown' = shown /\ age' = age
         \/ \E items \in SUBSET TrueItems : Dispatch(items)
  PROVE  HoldingsInv'
<1>1. /\ Sides' = Sides /\ Flat' = Flat /\ Holding' = Holding /\ Items' = Items
      /\ TrueItems' = TrueItems /\ Messages' = Messages /\ Downloads' = Downloads
      /\ \A k \in Keys : Version(k)' = Version(k)
  BY Unmoved
<1>2. /\ shown' \in [Keys -> Holding] /\ age' \in [Keys -> Nat]
      /\ \A k \in Keys : age'[k] \in 1 .. Version(k)
      /\ ShownAsHeld'
  <2>1. CASE shown' = shown /\ age' = age
    BY <1>1, <2>1 DEF HoldingsInv, TypeOK, ShownAsHeld
  <2>2. CASE \E items \in SUBSET TrueItems : Dispatch(items)
    BY <2>2, DispatchShows
  <2> QED BY <2>1, <2>2
<1>3. /\ \A n \in DOMAIN pushes' : pushes'[n].items \subseteq Items'
      /\ \A n \in DOMAIN flight' : flight'[n].items \subseteq Items'
  <2>1. TrueItems' \subseteq Items'  BY <1>1 DEF TrueItems
  <2>2. /\ pushes' \in Seq([snapshot : BOOLEAN, items : SUBSET TrueItems'])
        /\ flight' \in Seq([answered : BOOLEAN, items : SUBSET TrueItems', session : Nat])
    BY <1>1 DEF Messages, Downloads
  <2> QED BY <2>1, <2>2, ItemsTyped
<1>4. TypeOK'  BY <1>1, <1>2, <1>3 DEF HoldingsInv, TypeOK
<1> QED BY <1>1, <1>2, <1>4 DEF HoldingsInv, Messages, Downloads

LEMMA InvInit == Init => HoldingsInv
<1> SUFFICES ASSUME Init PROVE HoldingsInv
  OBVIOUS
<1>1. Flat \in Holding
  <2>1. Flat \in Quantities  BY HoldingsAssumption DEF Flat, Quantities
  <2>2. \E d \in Sides : \A e \in Sides \ {d} : Flat[e] = 0  BY DEF Flat, Sides
  <2> QED BY <2>1, <2>2 DEF Holding
<1>2. held \in [Keys -> Seq(Holding)]  BY <1>1 DEF Init
<1>3. \A k \in Keys : Version(k) = 1 /\ age[k] = 1 /\ held[k][1] = Flat /\ shown[k] = Flat
  BY DEF Init, Version
<1>4. /\ pushes = <<>> /\ flight = <<>>
      /\ pushes \in Seq(Messages) /\ flight \in Seq(Downloads)
  BY DEF Init
<1>5. TypeOK
  <2>1. /\ \A n \in DOMAIN pushes : pushes[n].items \subseteq Items
        /\ \A n \in DOMAIN flight : flight[n].items \subseteq Items
    BY <1>4
  <2>2. /\ shown \in [Keys -> Holding] /\ age \in [Keys -> Nat]
        /\ \A k \in Keys : age[k] \in 1 .. Version(k)
    BY <1>1, <1>3 DEF Init
  <2> QED BY <1>2, <2>1, <2>2 DEF Init, TypeOK
<1>6. ShownAsHeld  BY <1>3 DEF ShownAsHeld
<1> QED BY <1>4, <1>5, <1>6 DEF HoldingsInv, Messages, Downloads

LEMMA InvNext == HoldingsInv /\ [Next]_vars => HoldingsInv'
<1> SUFFICES ASSUME HoldingsInv, [Next]_vars PROVE HoldingsInv'
  OBVIOUS
<1> USE DEF history
<1>0. /\ session \in BOOLEAN /\ wanted \in BOOLEAN /\ sessions \in Nat
      /\ pushes \in Seq(Messages) /\ flight \in Seq(Downloads)
  BY DEF HoldingsInv, TypeOK, Messages, Downloads
<1>1. CASE Subscribe
  <2>1. Listed \subseteq TrueItems  BY ListedTrue
  <2>2. pushes' \in Seq(Messages)
    <3> DEFINE m == [snapshot |-> TRUE, items |-> Listed]
    <3>1. m \in Messages  BY <2>1 DEF Messages
    <3>2. pushes' = <<>> \/ pushes' = <<m>>  BY <1>1 DEF Subscribe
    <3> HIDE DEF m
    <3>3. <<>> \in Seq(Messages) /\ <<m>> \in Seq(Messages)  BY <3>1, FewElements
    <3> QED BY <3>2, <3>3
  <2> QED BY <1>0, <1>1, <2>2, StepUnmoved DEF Subscribe
<1>2. CASE Disconnected
  <2>1. pushes' \in Seq(Messages)  BY <1>2 DEF Disconnected
  <2> QED BY <1>0, <1>2, <2>1, StepUnmoved DEF Disconnected
<1>3. CASE Push
  <2>1. Head(pushes) \in Messages /\ Tail(pushes) \in Seq(Messages)
    BY <1>0, <1>3, TailKeeps DEF Push
  <2>2. Head(pushes).items \in SUBSET TrueItems  BY <2>1 DEF Messages
  <2>3. Dispatch(Head(pushes).items)  BY <1>3 DEF Push
  <2> QED BY <1>0, <1>3, <2>1, <2>2, <2>3, StepUnmoved DEF Push
<1>4. CASE Request
  <2>1. [answered |-> FALSE, items |-> {}, session |-> 0] \in Downloads  BY DEF Downloads
  <2>2. flight' \in Seq(Downloads)  BY <1>0, <1>4, <2>1, AppendKeeps DEF Request
  <2> QED BY <1>0, <1>4, <2>2, StepUnmoved DEF Request
<1>5. CASE Ack
  <2>1. Head(flight) \in Downloads /\ Tail(flight) \in Seq(Downloads)
    BY <1>0, <1>5, TailKeeps DEF Ack
  <2>2. Head(flight).items \in SUBSET TrueItems  BY <2>1 DEF Downloads
  <2>3. Dispatch(Head(flight).items)  BY <1>5 DEF Ack
  <2> QED BY <1>0, <1>5, <2>1, <2>2, <2>3, StepUnmoved DEF Ack
<1>6. CASE AckError
  <2>1. Tail(flight) \in Seq(Downloads)  BY <1>0, <1>6, TailKeeps DEF AckError
  <2> QED BY <1>0, <1>6, <2>1, StepUnmoved DEF AckError
<1>7. CASE Answer
  <2> DEFINE a == [answered |-> TRUE, items |-> Listed,
                   session |-> IF session THEN sessions ELSE 0]
  <2>1. a \in Downloads  BY <1>0, ListedTrue DEF Downloads
  <2>2. PICK n \in DOMAIN flight : flight' = [flight EXCEPT ![n] = a]
    BY <1>7 DEF Answer
  <2> HIDE DEF a
  <2>3. n \in 1 .. Len(flight)  BY <1>0, <2>2, LenProperties
  <2>4. flight' \in Seq(Downloads)  BY <1>0, <2>1, <2>2, <2>3, ExceptSeq
  <2> QED BY <1>0, <1>7, <2>4, StepUnmoved DEF Answer
<1>8. ASSUME NEW k \in Keys, NEW q \in Holding, Change(k, q) PROVE HoldingsInv'
  <2> DEFINE i == [key |-> k, side |-> Named(ChangedSide(Held(k), q)),
                   size |-> q[ChangedSide(Held(k), q)], version |-> Version(k) + 1]
  <2>1. /\ q # Held(k) /\ kind' = kind /\ held' = [held EXCEPT ![k] = Append(@, q)]
        /\ session' = session /\ wanted' = wanted /\ sessions' = sessions
        /\ shown' = shown /\ age' = age /\ flight' = flight
        /\ pushes' = IF session THEN Append(pushes, [snapshot |-> FALSE, items |-> {i}])
                     ELSE pushes
    BY <1>8 DEF Change
  <2>2. /\ held' \in [Keys -> Seq(Holding)]
        /\ \A j \in Keys : Version(j)' \in Nat /\ Version(j)' >= Version(j)
        /\ \A j \in Keys : \A v \in 1 .. Version(j) : held'[j][v] = held[j][v]
        /\ TrueItems \subseteq TrueItems'
        /\ i \in TrueItems'
    BY <2>1, ChangeTrue
  <2> HIDE DEF i
  <2>3. Sides' = Sides /\ Flat' = Flat  BY <2>1 DEF Sides, Flat
  <2>4. Holding' = Holding  BY <2>1, <2>3 DEF Holding, Quantities
  <2>5. /\ Messages \subseteq Messages' /\ Downloads \subseteq Downloads'
        /\ [snapshot |-> FALSE, items |-> {i}] \in Messages'
    BY <2>2 DEF Messages, Downloads
  <2>6. pushes \in Seq(Messages') /\ flight \in Seq(Downloads')
    BY <1>0, <2>5, SeqGrows
  <2>7. pushes' \in Seq(Messages') /\ flight' \in Seq(Downloads')
    BY <2>1, <2>5, <2>6, AppendKeeps
  <2>8. /\ \A n \in DOMAIN pushes' : pushes'[n].items \subseteq Items'
        /\ \A n \in DOMAIN flight' : flight'[n].items \subseteq Items'
    <3>1. TrueItems' \subseteq Items'  BY DEF TrueItems
    <3>2. /\ pushes' \in Seq([snapshot : BOOLEAN, items : SUBSET TrueItems'])
          /\ flight' \in Seq([answered : BOOLEAN, items : SUBSET TrueItems', session : Nat])
      BY <2>7 DEF Messages, Downloads
    <3> QED BY <3>1, <3>2, ItemsTyped
  <2>9. /\ shown \in [Keys -> Holding] /\ age \in [Keys -> Nat] /\ kind \in Kinds
        /\ \A j \in Keys : age[j] \in 1 .. Version(j)
    BY DEF HoldingsInv, TypeOK
  <2>10. \A j \in Keys : Version(j) \in Nat  BY HeldType
  <2>11. \A j \in Keys : age[j] \in 1 .. Version(j)' /\ held'[j][age[j]] = held[j][age[j]]
    BY <2>2, <2>9, <2>10
  <2>12. TypeOK'
    BY <1>0, <2>1, <2>2, <2>4, <2>8, <2>9, <2>11 DEF TypeOK
  <2>13. ShownAsHeld'
    <3>1. SUFFICES ASSUME NEW j \in Keys
                   PROVE  \/ shown'[j] = held'[j][age'[j]]
                          \/ /\ kind' = "hedge_mode"
                             /\ \E d \in Sides' :
                                  shown'[j] = [Flat' EXCEPT ![d] = held'[j][age'[j]][d]]
                          \/ kind' = "net" /\ shown'[j] = Flat'
      BY DEF ShownAsHeld
    <3>2. shown'[j] = shown[j] /\ held'[j][age'[j]] = held[j][age[j]]  BY <2>1, <2>11
    <3>3. \/ shown[j] = held[j][age[j]]
          \/ /\ kind = "hedge_mode"
             /\ \E d \in Sides : shown[j] = [Flat EXCEPT ![d] = held[j][age[j]][d]]
          \/ kind = "net" /\ shown[j] = Flat
      BY DEF HoldingsInv, ShownAsHeld
    <3> QED BY <2>1, <2>3, <3>2, <3>3
  <2> QED BY <2>7, <2>12, <2>13 DEF HoldingsInv, Messages, Downloads
<1>9. CASE UNCHANGED vars  BY <1>0, <1>9, StepUnmoved DEF vars
<1> QED BY <1>1, <1>2, <1>3, <1>4, <1>5, <1>6, <1>7, <1>8, <1>9 DEF Next

-----------------------------------------------------------------------------
(* Sequences by their indices *)

LEMMA TailParts ==
  ASSUME NEW S, NEW s \in Seq(S), s # <<>>
  PROVE  /\ 1 \in DOMAIN s /\ Head(s) = s[1]
         /\ \A n \in DOMAIN Tail(s) : n \in Nat /\ n + 1 \in DOMAIN s /\ Tail(s)[n] = s[n + 1]
         /\ \A n \in DOMAIN s : /\ n \in Nat
                                /\ \/ n = 1
                                   \/ n - 1 \in DOMAIN Tail(s) /\ Tail(s)[n - 1] = s[n]
<1>1. Len(s) \in Nat \ {0} /\ DOMAIN s = 1 .. Len(s)  BY EmptySeq, LenProperties
<1>2. /\ Head(s) = s[1] /\ Tail(s) \in Seq(S) /\ Len(Tail(s)) = Len(s) - 1
      /\ \A n \in 1 .. Len(Tail(s)) : Tail(s)[n] = s[n + 1]
  BY HeadTailProperties
<1>3. DOMAIN Tail(s) = 1 .. Len(s) - 1  BY <1>2, LenProperties
<1> QED BY <1>1, <1>2, <1>3

LEMMA AppendParts ==
  ASSUME NEW S, NEW s \in Seq(S), NEW e \in S
  PROVE  /\ Len(s) + 1 \in DOMAIN Append(s, e) /\ Append(s, e)[Len(s) + 1] = e
         /\ \A n \in DOMAIN s : /\ n \in Nat /\ Len(s) + 1 >= n
                                /\ n \in DOMAIN Append(s, e) /\ Append(s, e)[n] = s[n]
         /\ \A n \in DOMAIN Append(s, e) :
              n = Len(s) + 1 \/ (n \in DOMAIN s /\ Append(s, e)[n] = s[n])
<1> DEFINE t == Append(s, e)
<1>1. Len(s) \in Nat /\ DOMAIN s = 1 .. Len(s)  BY LenProperties
<1>2. /\ t \in Seq(S) /\ Len(t) = Len(s) + 1
      /\ \A n \in 1 .. Len(s) : t[n] = s[n]
      /\ t[Len(s) + 1] = e
  BY AppendKeeps
<1> HIDE DEF t
<1>3. DOMAIN t = 1 .. (Len(s) + 1)  BY <1>2, LenProperties
<1>4. Len(s) + 1 \in DOMAIN t  BY <1>1, <1>3
<1>5. \A n \in DOMAIN s : n \in Nat /\ Len(s) + 1 >= n /\ n \in DOMAIN t /\ t[n] = s[n]
  BY <1>1, <1>2, <1>3
<1>6. \A n \in DOMAIN t : n = Len(s) + 1 \/ (n \in DOMAIN s /\ t[n] = s[n])
  <2>1. SUFFICES ASSUME NEW n \in DOMAIN t, n # Len(s) + 1
                 PROVE  n \in DOMAIN s /\ t[n] = s[n]
    OBVIOUS
  <2>2. n \in DOMAIN s  BY <1>1, <1>3, <2>1
  <2> QED BY <1>5, <2>2
<1>7. /\ Len(s) + 1 \in DOMAIN t /\ t[Len(s) + 1] = e
      /\ \A n \in DOMAIN s : /\ n \in Nat /\ Len(s) + 1 >= n
                             /\ n \in DOMAIN t /\ t[n] = s[n]
      /\ \A n \in DOMAIN t : n = Len(s) + 1 \/ (n \in DOMAIN s /\ t[n] = s[n])
  BY <1>2, <1>4, <1>5, <1>6
<1> QED BY <1>7 DEF t

-----------------------------------------------------------------------------
(* The latest *)

\* A snapshot lists every key that is held, as it is held now.
LEMMA ListedCurrent ==
  ASSUME HoldingsInv
  PROVE  /\ OfOneTime(Listed)
         /\ \A i \in Listed : i.key \in Keys /\ i.version = Version(i.key)
         /\ \A k \in Keys : Held(k) # Flat => Has(Listed, k, Version(k))
<1>1. \A i \in Listed : i.key \in Keys /\ i.version = Version(i.key)
  BY DEF Listed
<1>2. ASSUME NEW k \in Keys, Held(k) # Flat PROVE Has(Listed, k, Version(k))
  <2>1. Held(k) \in [Sides -> 0 .. MaxQuantity]  BY HeldType, HoldingType
  <2>2. PICK d \in Sides : Held(k)[d] # 0  BY <1>2, <2>1 DEF Flat
  <2>3. Held(k)[d] > 0  BY <2>1, <2>2, HoldingsAssumption
  <2> DEFINE i == [key |-> k, side |-> Named(d), size |-> Held(k)[d], version |-> Version(k)]
  <2>4. i \in Listed  BY <2>3 DEF Listed
  <2> QED BY <2>4 DEF Has
<1> QED BY <1>1, <1>2 DEF OfOneTime

\* A dispatch brings a key to its latest if an item does, and takes none of it away.
LEMMA DispatchAges ==
  ASSUME LatestInv, NEW items \in SUBSET TrueItems, Dispatch(items), OfOneTime(items)
  PROVE  /\ newest' \in [Keys -> Nat]
         /\ \A k \in Keys : age'[k] <= newest'[k] /\ newest'[k] <= Version(k)
         /\ \A k \in Keys : newest[k] = Version(k) => newest'[k] = Version(k)
         /\ \A k \in Keys : Has(items, k, Version(k)) => newest'[k] = Version(k)
<1>1. PICK last \in [{i.key : i \in items} -> items] :
        /\ \A k \in DOMAIN last : last[k].key = k
        /\ age' = [k \in Keys |-> IF k \in DOMAIN last THEN last[k].version ELSE age[k]]
        /\ newest' = [k \in Keys |-> IF age'[k] > newest[k] THEN age'[k] ELSE newest[k]]
  BY DEF Dispatch
<1>2. HoldingsInv /\ Ages  BY DEF LatestInv
<1>3. ASSUME NEW k \in Keys
      PROVE  /\ newest'[k] \in Nat /\ age'[k] <= newest'[k] /\ newest'[k] <= Version(k)
             /\ newest[k] = Version(k) => newest'[k] = Version(k)
             /\ Has(items, k, Version(k)) => newest'[k] = Version(k)
  <2>1. /\ Version(k) \in Nat /\ age[k] \in Nat /\ newest[k] \in Nat
        /\ age[k] <= newest[k] /\ newest[k] <= Version(k)
    BY <1>2, HeldType DEF HoldingsInv, TypeOK, Ages
  <2>2. newest'[k] = IF age'[k] > newest[k] THEN age'[k] ELSE newest[k]  BY <1>1
  <2>3. CASE k \in DOMAIN last
    <3>1. last[k] \in items /\ last[k].key = k /\ age'[k] = last[k].version  BY <1>1, <2>3
    <3>2. age'[k] \in Nat /\ age'[k] <= Version(k)  BY <1>2, <2>1, <3>1, QuantityShows
    <3>3. ASSUME Has(items, k, Version(k)) PROVE age'[k] = Version(k)
      BY <3>1, <3>3 DEF Has, OfOneTime
    <3> QED BY <2>1, <2>2, <3>2, <3>3
  <2>4. CASE k \notin DOMAIN last
    <3>1. age'[k] = age[k]  BY <1>1, <2>4
    <3>2. ~Has(items, k, Version(k))  BY <2>4 DEF Has
    <3> QED BY <2>1, <2>2, <3>1, <3>2
  <2> QED BY <2>3, <2>4
<1>4. newest' \in [Keys -> Nat]  BY <1>1, <1>3
<1> QED BY <1>3, <1>4

LEMMA LatestTypes ==
  ASSUME LatestInv
  PROVE  /\ HoldingsInv /\ Ages /\ PushedToTheEnd
         /\ pushes \in Seq(Messages) /\ flight \in Seq(Downloads)
         /\ session \in BOOLEAN /\ sessions \in Nat
         /\ \A k \in Keys : /\ Version(k) \in Nat /\ age[k] \in Nat /\ newest[k] \in Nat
                            /\ age[k] <= newest[k] /\ newest[k] <= Version(k)
         /\ \A n \in DOMAIN pushes : pushes[n].items \in SUBSET TrueItems
         /\ \A n \in DOMAIN flight : flight[n].items \in SUBSET TrueItems
                                     /\ flight[n].session \in Nat
<1>1. HoldingsInv /\ Ages /\ PushedToTheEnd  BY DEF LatestInv
<1>2. /\ pushes \in Seq(Messages) /\ flight \in Seq(Downloads)
      /\ session \in BOOLEAN /\ sessions \in Nat
  BY <1>1 DEF HoldingsInv, TypeOK, Messages, Downloads
<1>3. \A k \in Keys : /\ Version(k) \in Nat /\ age[k] \in Nat /\ newest[k] \in Nat
                      /\ age[k] <= newest[k] /\ newest[k] <= Version(k)
  BY <1>1, HeldType DEF HoldingsInv, TypeOK, Ages
<1>4. \A n \in DOMAIN pushes : pushes[n].items \in SUBSET TrueItems
  <2>1. SUFFICES ASSUME NEW n \in DOMAIN pushes PROVE pushes[n].items \in SUBSET TrueItems
    OBVIOUS
  <2>2. pushes[n] \in Messages  BY <1>2, ElementOfSeq, LenProperties
  <2> QED BY <2>2 DEF Messages
<1>5. \A n \in DOMAIN flight : /\ flight[n].items \in SUBSET TrueItems
                               /\ flight[n].session \in Nat
  <2>1. SUFFICES ASSUME NEW n \in DOMAIN flight
                 PROVE  flight[n].items \in SUBSET TrueItems /\ flight[n].session \in Nat
    OBVIOUS
  <2>2. flight[n] \in Downloads  BY <1>2, ElementOfSeq, LenProperties
  <2> QED BY <2>2 DEF Downloads
<1> QED BY <1>1, <1>2, <1>3, <1>4, <1>5

LEMMA SubscribeLatest ==
  ASSUME LatestInv, HoldingsInv', Subscribe
  PROVE  LatestInv'
<1>1. /\ HoldingsInv /\ Ages /\ sessions \in Nat
      /\ \A n \in DOMAIN flight : flight[n].session \in Nat
      /\ \A k \in Keys : /\ Version(k) \in Nat /\ age[k] \in Nat /\ newest[k] \in Nat
                         /\ age[k] <= newest[k] /\ newest[k] <= Version(k)
  BY LatestTypes
<1>2. /\ kind' = kind /\ held' = held /\ flight' = flight /\ newest' = newest /\ age' = age
      /\ session' = TRUE /\ sessions' = sessions + 1 /\ synced' = FALSE
      /\ unlisted' = {k \in Keys : Held(k) = Flat /\ age[k] # Version(k)}
      /\ pushes' = <<>> \/ pushes' = <<[snapshot |-> TRUE, items |-> Listed]>>
  BY DEF Subscribe
<1>3. /\ OfOneTime(Listed)
      /\ \A i \in Listed : i.key \in Keys /\ i.version = Version(i.key)
      /\ \A k \in Keys : Held(k) # Flat => Has(Listed, k, Version(k))
  BY <1>1, ListedCurrent
<1>4. /\ \A k \in Keys : Held(k)' = Held(k) /\ Version(k)' = Version(k)
      /\ Flat' = Flat
  BY <1>2 DEF Held, Version, Flat, Sides
<1>5. \A n \in DOMAIN pushes' : n = 1 /\ pushes'[n].items = Listed
  BY <1>2
<1>6. Ages'
  <2>1. \A n \in DOMAIN pushes' : OfOneTime(pushes'[n].items)  BY <1>3, <1>5
  <2>2. \A n \in DOMAIN flight : OfOneTime(flight[n].items) /\ flight[n].session <= sessions + 1
    BY <1>1 DEF Ages
  <2>3. sessions + 1 >= 1  BY <1>1
  <2> QED BY <1>1, <1>2, <1>4, <2>1, <2>2, <2>3 DEF Ages, OfOneTime
<1>7. PushedToTheEnd'
  <2>1. SUFFICES ASSUME NEW n \in DOMAIN pushes', NEW i \in pushes'[n].items
                 PROVE  \E m \in DOMAIN pushes' :
                          m >= n /\ Has(pushes'[m].items, i.key, Version(i.key)')
    BY DEF PushedToTheEnd
  <2>2. n = 1 /\ pushes'[n].items = Listed  BY <1>5
  <2>3. i.key \in Keys /\ i.version = Version(i.key)'  BY <1>3, <1>4, <2>1, <2>2
  <2>4. Has(pushes'[n].items, i.key, Version(i.key)')  BY <2>1, <2>3 DEF Has
  <2>5. n >= n  BY <2>2
  <2> QED BY <2>4, <2>5
<1>8. ASSUME NEW k \in Keys, Held(k) = Flat PROVE Known(k)'
  <2>1. CASE age[k] = Version(k)
    <3>1. newest[k] = Version(k)  BY <1>1, <2>1
    <3> QED BY <1>2, <1>4, <3>1 DEF Known
  <2>2. CASE age[k] # Version(k)  BY <1>2, <1>8, <2>2 DEF Known
  <2> QED BY <2>1, <2>2
<1>9. ASSUME NEW k \in Keys, Held(k) # Flat, pushes' # <<>> PROVE Known(k)'
  <2>1. pushes' = <<[snapshot |-> TRUE, items |-> Listed]>>  BY <1>2, <1>9
  <2>2. 1 \in DOMAIN pushes' /\ pushes'[1].items = Listed  BY <2>1
  <2>3. Has(pushes'[1].items, k, Version(k)')  BY <1>3, <1>4, <1>9, <2>2
  <2> QED BY <2>2, <2>3 DEF Known, Coming
<1>10. ASSUME NEW k \in Keys, Held(k) # Flat PROVE Downloaded(k)'
  <2>1. \A n \in DOMAIN flight : flight[n].session # sessions + 1  BY <1>1 DEF Ages
  <2> QED BY <1>2, <1>4, <1>10, <2>1 DEF Downloaded
<1>11. \A k \in Keys : Known(k)' \/ Downloaded(k)'  BY <1>8, <1>10
<1>12. \A n \in DOMAIN pushes' : \A k \in Keys : Known(k)'
  <2>1. SUFFICES ASSUME NEW n \in DOMAIN pushes', NEW k \in Keys PROVE Known(k)'
    OBVIOUS
  <2>2. pushes' # <<>>  BY <2>1
  <2> QED BY <1>8, <1>9, <2>2
<1> QED BY <1>6, <1>7, <1>11, <1>12 DEF LatestInv

\* The next push: what was coming is known now, or comes later.
LEMMA PushLatest ==
  ASSUME LatestInv, HoldingsInv', Push
  PROVE  LatestInv'
<1> DEFINE items == pushes[1].items
           P == pushes'
<1>1. /\ HoldingsInv /\ Ages /\ PushedToTheEnd
      /\ pushes \in Seq(Messages) /\ pushes # <<>>
      /\ \A n \in DOMAIN pushes : pushes[n].items \in SUBSET TrueItems
  BY LatestTypes DEF Push
<1>2. /\ kind' = kind /\ held' = held /\ flight' = flight
      /\ session' = session /\ sessions' = sessions
      /\ P = Tail(pushes)
      /\ Dispatch(Head(pushes).items) /\ unlisted' = unlisted \ Told(Head(pushes).items)
      /\ synced' = (synced \/ Head(pushes).snapshot)
  BY DEF Push
<1>3. /\ 1 \in DOMAIN pushes /\ Head(pushes) = pushes[1]
      /\ \A n \in DOMAIN P : n \in Nat /\ n + 1 \in DOMAIN pushes /\ P[n] = pushes[n + 1]
      /\ \A n \in DOMAIN pushes : /\ n \in Nat
                                  /\ \/ n = 1
                                     \/ n - 1 \in DOMAIN P /\ P[n - 1] = pushes[n]
  BY <1>1, <1>2, TailParts
<1> HIDE DEF P
<1>4. /\ \A k \in Keys : Held(k)' = Held(k) /\ Version(k)' = Version(k)
      /\ Flat' = Flat
  BY <1>2 DEF Held, Version, Flat, Sides
<1>5. /\ newest' \in [Keys -> Nat]
      /\ \A k \in Keys : age'[k] <= newest'[k] /\ newest'[k] <= Version(k)
      /\ \A k \in Keys : newest[k] = Version(k) => newest'[k] = Version(k)
      /\ \A k \in Keys : Has(items, k, Version(k)) => newest'[k] = Version(k)
  <2>1. items \in SUBSET TrueItems /\ OfOneTime(items)  BY <1>1, <1>3 DEF Ages
  <2>2. Dispatch(items)  BY <1>2, <1>3
  <2> HIDE DEF items
  <2> QED BY <2>1, <2>2, DispatchAges
<1>6. Ages'
  <2>1. \A n \in DOMAIN P : OfOneTime(P[n].items)  BY <1>1, <1>3 DEF Ages
  <2>2. session' => sessions' >= 1  BY <1>1, <1>2 DEF Ages
  <2>3. ~session' => P = <<>>  BY <1>1, <1>2 DEF Ages
  <2> QED BY <1>1, <1>2, <1>4, <1>5, <2>1, <2>2, <2>3 DEF Ages, OfOneTime, P
<1>7. PushedToTheEnd'
  <2>1. SUFFICES ASSUME NEW n \in DOMAIN P, NEW i \in P[n].items
                 PROVE  \E m \in DOMAIN P : m >= n /\ Has(P[m].items, i.key, Version(i.key)')
    BY DEF PushedToTheEnd, P
  <2>2. n \in Nat /\ n + 1 \in DOMAIN pushes /\ i \in pushes[n + 1].items  BY <1>3, <2>1
  <2>3. PICK m \in DOMAIN pushes :
          m >= n + 1 /\ Has(pushes[m].items, i.key, Version(i.key))
    BY <1>1, <2>2 DEF PushedToTheEnd
  <2>4. m - 1 \in DOMAIN P /\ P[m - 1] = pushes[m] /\ m - 1 >= n  BY <1>3, <2>2, <2>3
  <2>5. Version(i.key)' = Version(i.key)  BY <1>2 DEF Version
  <2> QED BY <2>3, <2>4, <2>5
<1>8. ASSUME NEW k \in Keys, Coming(k) PROVE Known(k)'
  <2>1. PICK n \in DOMAIN pushes : Has(pushes[n].items, k, Version(k))  BY <1>8 DEF Coming
  <2>2. CASE n = 1  BY <1>4, <1>5, <2>1, <2>2 DEF Known
  <2>3. CASE n # 1
    <3>1. n - 1 \in DOMAIN P /\ Has(P[n - 1].items, k, Version(k)')
      BY <1>3, <1>4, <2>1, <2>3
    <3> QED BY <3>1 DEF Known, Coming, P
  <2> QED BY <2>2, <2>3
<1>9. ASSUME NEW k \in Keys, Known(k) PROVE Known(k)'
  <2>1. CASE newest[k] = Version(k)  BY <1>4, <1>5, <2>1 DEF Known
  <2>2. CASE k \in unlisted
    <3>1. CASE k \in unlisted'  BY <3>1 DEF Known
    <3>2. CASE k \notin unlisted'
      <4>1. PICK i \in items : i.key = k  BY <1>2, <1>3, <2>2, <3>2 DEF Told
      <4>2. PICK m \in DOMAIN pushes : Has(pushes[m].items, i.key, Version(i.key))
        BY <1>1, <1>3, <4>1 DEF PushedToTheEnd
      <4>3. Coming(k)  BY <4>1, <4>2 DEF Coming
      <4> QED BY <1>8, <4>3
    <3> QED BY <3>1, <3>2
  <2>3. CASE Coming(k)  BY <1>8, <2>3
  <2> QED BY <1>9, <2>1, <2>2, <2>3 DEF Known
<1>10. ASSUME session', NEW k \in Keys PROVE Known(k)' \/ Downloaded(k)'
  <2>1. Known(k) \/ Downloaded(k)  BY <1>2, <1>10 DEF LatestInv
  <2>2. CASE Known(k)  BY <1>9, <2>2
  <2>3. CASE Downloaded(k) /\ ~pushes[1].snapshot
    BY <1>2, <1>3, <1>4, <2>3 DEF Downloaded
  <2>4. CASE pushes[1].snapshot
    <3>1. Known(k)  BY <1>2, <1>3, <1>10, <2>4 DEF LatestInv
    <3> QED BY <1>9, <3>1
  <2> QED BY <2>1, <2>2, <2>3, <2>4
<1>11. ASSUME session', NEW n \in DOMAIN P, P[n].snapshot, NEW k \in Keys PROVE Known(k)'
  <2>1. n + 1 \in DOMAIN pushes /\ pushes[n + 1].snapshot  BY <1>3, <1>11
  <2>2. Known(k)  BY <1>2, <1>11, <2>1 DEF LatestInv
  <2> QED BY <1>9, <2>2
<1> QED BY <1>6, <1>7, <1>10, <1>11 DEF LatestInv, P

\* A step that pushes nothing and shows no key less: what was known is known.
LEMMA KnownStays ==
  ASSUME LatestInv, kind' = kind, held' = held, pushes' = pushes, unlisted' = unlisted,
         \A k \in Keys : newest[k] = Version(k) => newest'[k] = Version(k)
  PROVE  /\ \A k \in Keys : Known(k) => Known(k)'
         /\ PushedToTheEnd'
         /\ \A k \in Keys : Held(k)' = Held(k) /\ Version(k)' = Version(k)
         /\ Flat' = Flat
<1>1. /\ \A k \in Keys : Held(k)' = Held(k) /\ Version(k)' = Version(k)
      /\ Flat' = Flat
  BY DEF Held, Version, Flat, Sides
<1>2. ASSUME NEW k \in Keys, Known(k) PROVE Known(k)'
  <2>1. CASE newest[k] = Version(k)  BY <1>1, <2>1 DEF Known
  <2>2. CASE k \in unlisted  BY <2>2 DEF Known
  <2>3. CASE Coming(k)  BY <1>1, <2>3 DEF Known, Coming
  <2> QED BY <1>2, <2>1, <2>2, <2>3 DEF Known
<1>3. \A k : Version(k)' = Version(k)  BY DEF Version
<1>4. PushedToTheEnd'
  <2>1. PushedToTheEnd  BY DEF LatestInv
  <2> QED BY <1>3, <2>1 DEF PushedToTheEnd
<1> QED BY <1>1, <1>2, <1>4

\* An answer or an error leaves the queue.
LEMMA AckLatest ==
  ASSUME LatestInv, HoldingsInv', Ack \/ AckError
  PROVE  LatestInv'
<1> DEFINE items == flight[1].items
           F == flight'
<1>1. /\ HoldingsInv /\ Ages /\ flight \in Seq(Downloads) /\ flight # <<>>
      /\ \A n \in DOMAIN flight : /\ flight[n].items \in SUBSET TrueItems
                                  /\ flight[n].session \in Nat
      /\ \A k \in Keys : age[k] <= newest[k] /\ newest[k] <= Version(k)
  BY LatestTypes DEF Ack, AckError
<1>2. /\ kind' = kind /\ held' = held /\ pushes' = pushes /\ unlisted' = unlisted
      /\ session' = session /\ sessions' = sessions
      /\ F = Tail(flight)
  BY DEF Ack, AckError, history
<1>3. /\ 1 \in DOMAIN flight /\ Head(flight) = flight[1]
      /\ \A n \in DOMAIN F : n \in Nat /\ n + 1 \in DOMAIN flight /\ F[n] = flight[n + 1]
  BY <1>1, <1>2, TailParts
<1> HIDE DEF F
<1>4. /\ newest' \in [Keys -> Nat]
      /\ \A k \in Keys : age'[k] <= newest'[k] /\ newest'[k] <= Version(k)
      /\ \A k \in Keys : newest[k] = Version(k) => newest'[k] = Version(k)
      /\ \/ synced' = (synced \/ (session /\ flight[1].session = sessions))
            /\ \A k \in Keys : Has(items, k, Version(k)) => newest'[k] = Version(k)
         \/ synced' = synced
  <2>1. CASE Ack
    <3>1. items \in SUBSET TrueItems /\ OfOneTime(items)  BY <1>1, <1>3 DEF Ages
    <3>2. Dispatch(items)  BY <1>3, <2>1 DEF Ack
    <3>3. synced' = (synced \/ (session /\ flight[1].session = sessions))
      BY <1>3, <2>1 DEF Ack
    <3> HIDE DEF items
    <3>4. /\ newest' \in [Keys -> Nat]
          /\ \A k \in Keys : age'[k] <= newest'[k] /\ newest'[k] <= Version(k)
          /\ \A k \in Keys : newest[k] = Version(k) => newest'[k] = Version(k)
          /\ \A k \in Keys : Has(items, k, Version(k)) => newest'[k] = Version(k)
      BY <3>1, <3>2, DispatchAges
    <3> QED BY <3>3, <3>4
  <2>2. CASE AckError
    <3>1. newest' = newest /\ age' = age /\ synced' = synced
      BY <2>2 DEF AckError, history
    <3> QED BY <1>1, <3>1 DEF Ages
  <2> QED BY <2>1, <2>2
<1>5. /\ \A k \in Keys : Known(k) => Known(k)'
      /\ PushedToTheEnd'
      /\ \A k \in Keys : Held(k)' = Held(k) /\ Version(k)' = Version(k)
      /\ Flat' = Flat
  BY <1>2, <1>4, KnownStays
<1>6. Ages'
  <2>1. \A n \in DOMAIN F : OfOneTime(F[n].items) /\ F[n].session <= sessions
    BY <1>1, <1>3 DEF Ages
  <2> QED BY <1>1, <1>2, <1>4, <1>5, <2>1 DEF Ages, OfOneTime, F
<1>7. ASSUME session', NEW k \in Keys PROVE Known(k)' \/ Downloaded(k)'
  <2>1. Known(k) \/ Downloaded(k)  BY <1>2, <1>7 DEF LatestInv
  <2>2. CASE Known(k)  BY <1>5, <2>2
  <2>3. CASE Downloaded(k)
    <3>1. \A n \in DOMAIN F : F[n].session = sessions => Has(F[n].items, k, Version(k))
      BY <1>3, <2>3 DEF Downloaded
    <3>2. CASE ~synced'
      BY <1>2, <1>5, <2>3, <3>1, <3>2 DEF Downloaded, F
    <3>3. CASE synced'
      <4>1. /\ flight[1].session = sessions
            /\ Has(items, k, Version(k)) => newest'[k] = Version(k)
        BY <1>4, <2>3, <3>3 DEF Downloaded
      <4>2. Has(items, k, Version(k))  BY <1>3, <2>3, <4>1 DEF Downloaded
      <4> QED BY <1>5, <4>1, <4>2 DEF Known
    <3> QED BY <3>2, <3>3
  <2> QED BY <2>1, <2>2, <2>3
<1>8. ASSUME session', NEW n \in DOMAIN pushes', pushes'[n].snapshot, NEW k \in Keys
      PROVE  Known(k)'
  <2>1. Known(k)  BY <1>2, <1>8 DEF LatestInv
  <2> QED BY <1>5, <2>1
<1> QED BY <1>5, <1>6, <1>7, <1>8 DEF LatestInv

\* A request joins the queue, or an answer takes a request's place in it: it lists
\* what is held.
LEMMA DownloadLatest ==
  ASSUME LatestInv, HoldingsInv', Request \/ Answer
  PROVE  LatestInv'
<1>1. /\ HoldingsInv /\ Ages /\ flight \in Seq(Downloads) /\ sessions \in Nat
      /\ \A k \in Keys : age[k] <= newest[k] /\ newest[k] <= Version(k)
  BY LatestTypes
<1>2. /\ kind' = kind /\ held' = held /\ pushes' = pushes /\ unlisted' = unlisted
      /\ session' = session /\ sessions' = sessions
      /\ newest' = newest /\ age' = age /\ synced' = synced
  BY DEF Request, Answer, history
<1>3. /\ \A k \in Keys : Known(k) => Known(k)'
      /\ PushedToTheEnd'
      /\ \A k \in Keys : Held(k)' = Held(k) /\ Version(k)' = Version(k)
      /\ Flat' = Flat
  BY <1>2, KnownStays
<1>4. ASSUME NEW n \in DOMAIN flight'
      PROVE  \/ n \in DOMAIN flight /\ flight'[n] = flight[n]
             \/ /\ flight'[n].items = {} /\ flight'[n].session = 0
             \/ /\ flight'[n].items = Listed
                /\ flight'[n].session = IF session THEN sessions ELSE 0
  <2>1. CASE Request
    <3> DEFINE r == [answered |-> FALSE, items |-> {}, session |-> 0]
    <3>1. r \in Downloads /\ r.items = {} /\ r.session = 0  BY DEF Downloads
    <3>2. flight' = Append(flight, r)  BY <2>1 DEF Request
    <3> HIDE DEF r
    <3>3. n = Len(flight) + 1 \/ (n \in DOMAIN flight /\ flight'[n] = flight[n])
      BY <1>1, <3>1, <3>2, AppendParts
    <3>4. flight'[Len(flight) + 1] = r  BY <1>1, <3>1, <3>2, AppendParts
    <3> QED BY <3>1, <3>3, <3>4
  <2>2. CASE Answer
    <3> DEFINE a == [answered |-> TRUE, items |-> Listed,
                     session |-> IF session THEN sessions ELSE 0]
    <3>1. PICK m \in DOMAIN flight : flight' = [flight EXCEPT ![m] = a]
      BY <2>2 DEF Answer
    <3>2. a.items = Listed /\ a.session = IF session THEN sessions ELSE 0  OBVIOUS
    <3> HIDE DEF a
    <3>3. n \in DOMAIN flight  BY <3>1
    <3>4. flight'[n] = IF n = m THEN a ELSE flight[n]  BY <3>1, <3>3
    <3> QED BY <3>2, <3>3, <3>4
  <2> QED BY <2>1, <2>2
<1>5. /\ OfOneTime(Listed)
      /\ \A k \in Keys : Held(k) # Flat => Has(Listed, k, Version(k))
  BY <1>1, ListedCurrent
<1>6. Ages'
  <2>1. ASSUME NEW n \in DOMAIN flight'
        PROVE  OfOneTime(flight'[n].items) /\ flight'[n].session <= sessions
    <3>1. CASE n \in DOMAIN flight /\ flight'[n] = flight[n]  BY <1>1, <3>1 DEF Ages
    <3>2. CASE flight'[n].items = {} /\ flight'[n].session = 0
      BY <1>1, <3>2 DEF OfOneTime
    <3>3. CASE /\ flight'[n].items = Listed
               /\ flight'[n].session = IF session THEN sessions ELSE 0
      BY <1>1, <1>5, <3>3
    <3> QED BY <1>4, <3>1, <3>2, <3>3
  <2> QED BY <1>1, <1>2, <1>3, <2>1 DEF Ages, OfOneTime
<1>7. ASSUME session', NEW k \in Keys PROVE Known(k)' \/ Downloaded(k)'
  <2>1. Known(k) \/ Downloaded(k)  BY <1>2, <1>7 DEF LatestInv
  <2>2. CASE Known(k)  BY <1>3, <2>2
  <2>3. CASE Downloaded(k)
    <3>1. ASSUME NEW n \in DOMAIN flight', flight'[n].session = sessions
          PROVE  Has(flight'[n].items, k, Version(k))
      <4>1. CASE n \in DOMAIN flight /\ flight'[n] = flight[n]
        BY <2>3, <3>1, <4>1 DEF Downloaded
      <4>2. CASE flight'[n].items = {} /\ flight'[n].session = 0
        BY <1>1, <1>2, <1>7, <3>1, <4>2 DEF Ages
      <4>3. CASE flight'[n].items = Listed  BY <1>5, <2>3, <4>3 DEF Downloaded
      <4> QED BY <1>4, <4>1, <4>2, <4>3
    <3> QED BY <1>2, <1>3, <2>3, <3>1 DEF Downloaded
  <2> QED BY <2>1, <2>2, <2>3
<1>8. ASSUME session', NEW n \in DOMAIN pushes', pushes'[n].snapshot, NEW k \in Keys
      PROVE  Known(k)'
  <2>1. Known(k)  BY <1>2, <1>8 DEF LatestInv
  <2> QED BY <1>3, <2>1
<1> QED BY <1>3, <1>6, <1>7, <1>8 DEF LatestInv

\* In a session a change is pushed after all that came before it.
LEMMA ChangeLatest ==
  ASSUME LatestInv, HoldingsInv', NEW k \in Keys, NEW q \in Holding, Change(k, q)
  PROVE  LatestInv'
<1> DEFINE i == [key |-> k, side |-> Named(ChangedSide(Held(k), q)),
                 size |-> q[ChangedSide(Held(k), q)], version |-> Version(k) + 1]
           e == [snapshot |-> FALSE, items |-> {i}]
<1>1. /\ HoldingsInv /\ Ages /\ PushedToTheEnd /\ pushes \in Seq(Messages)
      /\ session \in BOOLEAN
      /\ \A j \in Keys : /\ Version(j) \in Nat /\ newest[j] \in Nat
                         /\ age[j] <= newest[j] /\ newest[j] <= Version(j)
      /\ \A n \in DOMAIN pushes : pushes[n].items \in SUBSET TrueItems
  BY LatestTypes
<1>2. /\ q # Held(k) /\ kind' = kind /\ held' = [held EXCEPT ![k] = Append(@, q)]
      /\ session' = session /\ sessions' = sessions /\ flight' = flight
      /\ newest' = newest /\ age' = age /\ synced' = synced /\ unlisted' = unlisted
      /\ pushes' = IF session THEN Append(pushes, e) ELSE pushes
  BY DEF Change, history
<1>3. held \in [Keys -> Seq(Holding)]  BY <1>1 DEF HoldingsInv, TypeOK
<1>4. \A j \in Keys \ {k} : Version(j)' = Version(j) /\ Held(j)' = Held(j)
  BY <1>2, <1>3 DEF Version, Held
<1>5. Version(k)' = Version(k) + 1
  <2>1. held'[k] = Append(held[k], q) /\ held[k] \in Seq(Holding)  BY <1>2, <1>3
  <2> QED BY <2>1, AppendKeeps DEF Version
<1>6. Flat' = Flat  BY <1>2 DEF Flat, Sides
<1>7. i.key = k /\ i.version = Version(k) + 1 /\ e.items = {i} /\ e.snapshot = FALSE
  OBVIOUS
<1>8. e \in [snapshot : BOOLEAN, items : SUBSET {i}]  OBVIOUS
<1> HIDE DEF i, e
<1>9. ASSUME session
      PROVE  /\ Len(pushes) + 1 \in DOMAIN pushes' /\ pushes'[Len(pushes) + 1] = e
             /\ \A n \in DOMAIN pushes : /\ n \in Nat /\ Len(pushes) + 1 >= n
                                         /\ n \in DOMAIN pushes' /\ pushes'[n] = pushes[n]
             /\ \A n \in DOMAIN pushes' :
                  n = Len(pushes) + 1 \/ (n \in DOMAIN pushes /\ pushes'[n] = pushes[n])
  <2> DEFINE S == Messages \cup {e}
  <2>1. pushes \in Seq(S) /\ e \in S
    <3>1. Messages \subseteq S  OBVIOUS
    <3> HIDE DEF S
    <3>2. pushes \in Seq(S)  BY <1>1, <3>1, SeqGrows
    <3> QED BY <3>2 DEF S
  <2> HIDE DEF S
  <2> QED BY <1>2, <1>9, <2>1, AppendParts
<1>10. ASSUME ~session PROVE pushes = <<>> /\ pushes' = <<>>
  BY <1>1, <1>2, <1>10 DEF Ages
<1>11. Ages'
  <2>1. ASSUME NEW n \in DOMAIN pushes' PROVE OfOneTime(pushes'[n].items)
    <3>1. session  BY <1>10, <2>1
    <3>2. CASE n = Len(pushes) + 1  BY <1>7, <1>9, <3>1, <3>2 DEF OfOneTime
    <3>3. CASE n \in DOMAIN pushes /\ pushes'[n] = pushes[n]  BY <1>1, <3>3 DEF Ages
    <3> QED BY <1>9, <3>1, <3>2, <3>3
  <2>2. \A j \in Keys : age'[j] <= newest'[j] /\ newest'[j] <= Version(j)'
    <3>1. SUFFICES ASSUME NEW j \in Keys
                   PROVE  age'[j] <= newest'[j] /\ newest'[j] <= Version(j)'
      OBVIOUS
    <3>2. CASE j = k  BY <1>1, <1>2, <1>5, <3>2
    <3>3. CASE j # k  BY <1>1, <1>2, <1>4, <3>3
    <3> QED BY <3>2, <3>3
  <2>3. IF session' THEN sessions' >= 1 ELSE pushes' = <<>>
    BY <1>1, <1>2, <1>10 DEF Ages
  <2> QED BY <1>1, <1>2, <2>1, <2>2, <2>3 DEF Ages, OfOneTime
<1>12. ASSUME session PROVE Known(k)'
  <2>1. Has(e.items, k, Version(k)')  BY <1>5, <1>7 DEF Has
  <2> QED BY <1>9, <1>12, <2>1 DEF Known, Coming
<1>13. ASSUME session, NEW j \in Keys \ {k}, Known(j) PROVE Known(j)'
  <2>1. CASE newest[j] = Version(j)  BY <1>2, <1>4, <2>1 DEF Known
  <2>2. CASE j \in unlisted  BY <1>2, <2>2 DEF Known
  <2>3. CASE Coming(j)
    <3>1. PICK n \in DOMAIN pushes : Has(pushes[n].items, j, Version(j))
      BY <2>3 DEF Coming
    <3>2. n \in DOMAIN pushes' /\ Has(pushes'[n].items, j, Version(j)')
      BY <1>4, <1>9, <1>13, <3>1
    <3> QED BY <3>2 DEF Known, Coming
  <2> QED BY <1>13, <2>1, <2>2, <2>3 DEF Known
<1>14. PushedToTheEnd'
  <2>1. SUFFICES ASSUME NEW n \in DOMAIN pushes', NEW t \in pushes'[n].items
                 PROVE  \E m \in DOMAIN pushes' :
                          m >= n /\ Has(pushes'[m].items, t.key, Version(t.key)')
    BY DEF PushedToTheEnd
  <2>2. session  BY <1>10, <2>1
  <2>3. Has(pushes'[Len(pushes) + 1].items, k, Version(k)')
    BY <1>5, <1>7, <1>9, <2>2 DEF Has
  <2>4. CASE n = Len(pushes) + 1
    <3>1. t.key = k  BY <1>7, <1>9, <2>1, <2>2, <2>4
    <3>2. n >= n  BY <1>1, <2>4, LenProperties
    <3> QED BY <2>3, <2>4, <3>1, <3>2
  <2>5. CASE n \in DOMAIN pushes /\ pushes'[n] = pushes[n]
    <3>1. CASE t.key = k
      <4>1. Len(pushes) + 1 >= n /\ Len(pushes) + 1 \in DOMAIN pushes'
        BY <1>9, <2>2, <2>5
      <4> QED BY <2>3, <3>1, <4>1
    <3>2. CASE t.key # k
      <4>1. PICK m \in DOMAIN pushes :
              m >= n /\ Has(pushes[m].items, t.key, Version(t.key))
        BY <1>1, <2>1, <2>5 DEF PushedToTheEnd
      <4>2. t.key \in Keys  BY <1>1, <2>1, <2>5, QuantityShows
      <4>3. m \in DOMAIN pushes' /\ Has(pushes'[m].items, t.key, Version(t.key)')
        BY <1>4, <1>9, <2>2, <3>2, <4>1, <4>2
      <4> QED BY <4>1, <4>3
    <3> QED BY <3>1, <3>2
  <2> QED BY <1>9, <2>2, <2>4, <2>5
<1>15. ASSUME session', NEW j \in Keys PROVE Known(j)' \/ Downloaded(j)'
  <2>1. session /\ (Known(j) \/ Downloaded(j))  BY <1>2, <1>15 DEF LatestInv
  <2>2. CASE j = k  BY <1>12, <2>1, <2>2
  <2>3. CASE j # k /\ Known(j)  BY <1>13, <2>1, <2>3
  <2>4. CASE j # k /\ Downloaded(j)  BY <1>2, <1>4, <1>6, <2>4 DEF Downloaded
  <2> QED BY <2>1, <2>2, <2>3, <2>4
<1>16. ASSUME session', NEW n \in DOMAIN pushes', pushes'[n].snapshot, NEW j \in Keys
       PROVE  Known(j)'
  <2>1. session  BY <1>2, <1>16
  <2>2. n \in DOMAIN pushes /\ pushes'[n] = pushes[n]  BY <1>7, <1>9, <1>16, <2>1
  <2>3. Known(j)  BY <1>16, <2>1, <2>2 DEF LatestInv
  <2>4. CASE j = k  BY <1>12, <2>1, <2>4
  <2>5. CASE j # k  BY <1>13, <2>1, <2>3, <2>5
  <2> QED BY <2>4, <2>5
<1> QED BY <1>11, <1>14, <1>15, <1>16 DEF LatestInv

LEMMA LatestInit == Init => LatestInv
<1> SUFFICES ASSUME Init PROVE LatestInv
  OBVIOUS
<1>1. HoldingsInv  BY InvInit
<1>2. /\ pushes = <<>> /\ flight = <<>> /\ session = FALSE
      /\ newest = [k \in Keys |-> 1] /\ age = [k \in Keys |-> 1]
  BY DEF Init
<1>3. \A k \in Keys : Version(k) = 1  BY DEF Init, Version
<1>4. Ages  BY <1>2, <1>3 DEF Ages
<1>5. PushedToTheEnd  BY <1>2 DEF PushedToTheEnd
<1> QED BY <1>1, <1>2, <1>4, <1>5 DEF LatestInv

LEMMA LatestNext == LatestInv /\ [Next]_vars => LatestInv'
<1> SUFFICES ASSUME LatestInv, [Next]_vars PROVE LatestInv'
  OBVIOUS
<1>1. HoldingsInv'  BY InvNext DEF LatestInv
<1>2. CASE Subscribe  BY <1>1, <1>2, SubscribeLatest
<1>3. CASE Disconnected
  <2>1. /\ session' = FALSE /\ pushes' = <<>>
        /\ kind' = kind /\ held' = held /\ flight' = flight /\ sessions' = sessions
        /\ newest' = newest /\ age' = age
    BY <1>3 DEF Disconnected, history
  <2>2. Ages'  BY <2>1 DEF LatestInv, Ages, OfOneTime, Version
  <2>3. PushedToTheEnd'  BY <2>1 DEF PushedToTheEnd
  <2> QED BY <1>1, <2>1, <2>2, <2>3 DEF LatestInv
<1>4. CASE Push  BY <1>1, <1>4, PushLatest
<1>5. CASE Request \/ Answer  BY <1>1, <1>5, DownloadLatest
<1>6. CASE Ack \/ AckError  BY <1>1, <1>6, AckLatest
<1>7. ASSUME NEW k \in Keys, NEW q \in Holding, Change(k, q) PROVE LatestInv'
  BY <1>1, <1>7, ChangeLatest
<1>8. CASE UNCHANGED vars
  <2>1. /\ kind' = kind /\ held' = held /\ pushes' = pushes /\ unlisted' = unlisted
        /\ session' = session /\ sessions' = sessions /\ flight' = flight
        /\ newest' = newest /\ age' = age /\ synced' = synced
    BY <1>8 DEF vars, history
  <2>2. /\ \A k \in Keys : Known(k) => Known(k)'
        /\ PushedToTheEnd'
        /\ \A k \in Keys : Held(k)' = Held(k) /\ Version(k)' = Version(k)
        /\ Flat' = Flat
    BY <2>1, KnownStays
  <2>3. Ages'  BY <2>1, <2>2 DEF LatestInv, Ages, OfOneTime
  <2>4. \A k \in Keys : Downloaded(k) => Downloaded(k)'
    BY <2>1, <2>2 DEF Downloaded
  <2> QED BY <1>1, <2>1, <2>2, <2>3, <2>4 DEF LatestInv
<1> QED BY <1>2, <1>3, <1>4, <1>5, <1>6, <1>7, <1>8 DEF Next

\* With nothing left on the way, what is known is shown or was.
LEMMA SettledKnows == LatestInv => SettledIsLatest
<1> SUFFICES ASSUME LatestInv, Settled, NEW k \in Keys
             PROVE  age[k] = Version(k) \/ age[k] < newest[k] \/ k \in unlisted
  BY DEF SettledIsLatest
<1>1. session /\ synced /\ pushes = <<>>  BY DEF Settled
<1>2. Known(k)  BY <1>1 DEF LatestInv, Downloaded
<1>3. ~Coming(k)  BY <1>1 DEF Coming
<1>4. newest[k] = Version(k) \/ k \in unlisted  BY <1>2, <1>3 DEF Known
<1>5. age[k] \in Nat /\ newest[k] \in Nat /\ age[k] <= newest[k]  BY LatestTypes
<1> QED BY <1>4, <1>5

-----------------------------------------------------------------------------
(* Holdings: the theorems *)

\* What is shown and what is on the way stay well-formed: a currency or symbol has
\* quantities the exchange could hold, in one-way mode on one side only.
THEOREM TypeCorrect == Spec => []TypeOK
<1>1. HoldingsInv => TypeOK  BY DEF HoldingsInv
<1> QED BY InvInit, InvNext, <1>1, PTL DEF Spec

\* FundsUpdate and PositionUpdate, from either connection and in any order of
\* pushes, downloads, failed downloads and sessions, show what was held at one time;
\* in hedge mode one side of it, and of a position called net nothing.
THEOREM ShownCorrect == Spec => []ShownAsHeld
<1>1. HoldingsInv => ShownAsHeld  BY DEF HoldingsInv
<1> QED BY InvInit, InvNext, <1>1, PTL DEF Spec

\* A session that got a snapshot, by push or by download, and has nothing left on the
\* way shows what is of the latest that is held, however pushes and downloads of this and of
\* earlier sessions crossed; but for keys that an overtaken answer brought back or
\* that were given up between sessions.
THEOREM SettledCorrect == Spec => []SettledIsLatest
<1> QED BY LatestInit, LatestNext, SettledKnows, PTL DEF Spec

-----------------------------------------------------------------------------
(* PublicData: the invariant behind its properties, for each symbol. *)

\* What the exchange sends of a symbol whose books were p.
Sent(p) ==
  {Public!TickerMessage(b) : b \in Public!Books}
  \cup [topic : {"publicTrade"}, action : {"snapshot", "update"}, data : Seq(Nat)]
  \cup {Public!BooksMessage("snapshot", Public!Listed(p[n]), n) : n \in 1 .. Len(p)}
  \cup {Public!BooksMessage("update", Public!Changes(p[n - 1], p[n]), n) : n \in 2 .. Len(p)}

\* The messages of a queue with a topic.
With(q, topic) == {i \in DOMAIN q : q[i].topic = topic}

Resets(q) == \E i \in With(q, "books") : q[i].action = "snapshot"

\* The queue tells the books after the n-th, each in its turn.
TellsAfter(q, p, n) ==
  /\ n \in 0 .. Len(p)
  /\ \A i, j \in With(q, "books") : i < j => q[i].seq < q[j].seq
  /\ \A i \in With(q, "books") : q[i].seq \in n + 1 .. Len(p)
  /\ \A m \in n + 1 .. Len(p) : \E i \in With(q, "books") : q[i].seq = m
  /\ \A i \in With(q, "books") : q[i].action = "snapshot" => q[i].seq = n + 1

\* The last ticker, or the top that is shown when there is none, is that of the book.
TopLeads(q, p, t) ==
  /\ With(q, "ticker") = {} => t = Public!Top(p[Len(p)])
  /\ \A i \in With(q, "ticker") :
       (\A j \in With(q, "ticker") : j <= i) => q[i].top = Public!Top(p[Len(p)])

Live(q) == {i \in With(q, "publicTrade") : q[i].action = "update"}

\* r was reported, the trades in the queue follow it, m was missed.
TradesLead(q, r, m, count) ==
  /\ \A i, k \in DOMAIN r : i < k => r[i] < r[k]
  /\ \A i \in Live(q) : \A k, l \in DOMAIN q[i].data : k < l => q[i].data[k] < q[i].data[l]
  /\ \A i, j \in Live(q) : i < j =>
       \A k \in DOMAIN q[i].data, l \in DOMAIN q[j].data : q[i].data[k] < q[j].data[l]
  /\ \A i \in DOMAIN r : \A j \in Live(q) : \A l \in DOMAIN q[j].data : r[i] < q[j].data[l]
  /\ \A c \in 1 .. count :
       \/ c \in m
       \/ \E i \in DOMAIN r : r[i] = c
       \/ \E j \in Live(q) : \E l \in DOMAIN q[j].data : q[j].data[l] = c
  /\ m \subseteq 1 .. count
  /\ \A i \in DOMAIN r : r[i] \in 1 .. count /\ r[i] \notin m
  /\ \A j \in Live(q) : \A l \in DOMAIN q[j].data :
       q[j].data[l] \in 1 .. count /\ q[j].data[l] \notin m

\* Of a symbol: its books follow one another; the queue is true to them; the book that
\* is shown is the one of its sequence number and, when a connection is there, the one
\* before those in its queue.
SymbolInv(s) ==
  /\ Len(past[s]) >= 1 /\ \A n \in 2 .. Len(past[s]) : past[s][n - 1] # past[s][n]
  /\ incoming[s] \in Seq(Sent(past[s]))
  /\ sequence[s] \in 0 .. Len(past[s])
  /\ s \notin kept /\ sequence[s] > 0 => book[s] = past[s][sequence[s]]
  /\ IF status[s] = "READY"
     THEN /\ TopLeads(incoming[s], past[s], top[s])
          /\ \E n \in 0 .. Len(past[s]) :
               /\ TellsAfter(incoming[s], past[s], n) /\ sequence[s] <= n + 1
               /\ ~Resets(incoming[s]) => n >= 1 /\ (s \notin kept => book[s] = past[s][n])
     ELSE incoming[s] = <<>>
  /\ TradesLead(incoming[s], reported[s], missed[s], printed[s])

MarketTypes ==
  /\ status \in [Symbols -> {"DISCONNECTED", "READY"}]
  /\ DOMAIN incoming = Symbols /\ DOMAIN missed = Symbols
  /\ book \in [Symbols -> Public!Books]
  /\ top \in [Symbols -> [bid : Bids \cup {0}, ask : Asks \cup {0}]]
  /\ past \in [Symbols -> Seq(Public!Books)] /\ sequence \in [Symbols -> Nat]
  /\ printed \in [Symbols -> Nat] /\ reported \in [Symbols -> Seq(Nat)]
  /\ DOMAIN bids \subseteq Bids /\ DOMAIN asks \subseteq Asks

MarketInv == MarketTypes /\ \A s \in Symbols : SymbolInv(s)

-----------------------------------------------------------------------------
(* Finite sets of prices *)

\* A finite set of numbers has a greatest and a least element.
LEMMA HasGreatest ==
  ASSUME NEW S \in SUBSET Nat, IsFiniteSet(S), S # {}
  PROVE  \E m \in S : \A k \in S : k <= m
<1> DEFINE F == {{j \in S : j > m} : m \in S}
<1>1. IsWellFoundedOn(StrictSubsetOrdering(S), SUBSET S)
  BY FS_StrictSubsetOrderingWellFounded, FS_FiniteSubsetsOfFinite
<1>2. F \subseteq SUBSET S /\ F # {}  OBVIOUS
<1>3. PICK x \in F : \A y \in F : ~ (<<y, x>> \in StrictSubsetOrdering(S))
  BY <1>1, <1>2, WFMin
<1>4. PICK m \in S : x = {j \in S : j > m}  BY <1>3
<1>5. ASSUME NEW k \in S, k > m PROVE FALSE
  <2> DEFINE y == {j \in S : j > k}
  <2>1. \A j \in S : j > k => j > m  BY <1>5
  <2>2. y \subseteq x  BY <1>4, <2>1
  <2>3. k \in x /\ k \notin y /\ y \in F  BY <1>4, <1>5
  <2>4. <<y, x>> \in StrictSubsetOrdering(S)
    BY <1>2, <1>3, <2>2, <2>3 DEF StrictSubsetOrdering
  <2> QED BY <1>3, <2>3, <2>4
<1>6. \A k \in S : k <= m  BY <1>5
<1> QED BY <1>6

LEMMA HasLeast ==
  ASSUME NEW S \in SUBSET Nat, IsFiniteSet(S), S # {}
  PROVE  \E m \in S : \A k \in S : m <= k
<1> DEFINE F == {{j \in S : j < m} : m \in S}
<1>1. IsWellFoundedOn(StrictSubsetOrdering(S), SUBSET S)
  BY FS_StrictSubsetOrderingWellFounded, FS_FiniteSubsetsOfFinite
<1>2. F \subseteq SUBSET S /\ F # {}  OBVIOUS
<1>3. PICK x \in F : \A y \in F : ~ (<<y, x>> \in StrictSubsetOrdering(S))
  BY <1>1, <1>2, WFMin
<1>4. PICK m \in S : x = {j \in S : j < m}  BY <1>3
<1>5. ASSUME NEW k \in S, k < m PROVE FALSE
  <2> DEFINE y == {j \in S : j < k}
  <2>1. \A j \in S : j < k => j < m  BY <1>5
  <2>2. y \subseteq x  BY <1>4, <2>1
  <2>3. k \in x /\ k \notin y /\ y \in F  BY <1>4, <1>5
  <2>4. <<y, x>> \in StrictSubsetOrdering(S)
    BY <1>2, <1>3, <2>2, <2>3 DEF StrictSubsetOrdering
  <2> QED BY <1>3, <2>3, <2>4
<1>6. \A k \in S : m <= k  BY <1>5
<1> QED BY <1>6

-----------------------------------------------------------------------------
(* Books *)

\* Levels have a price and a quantity.
LEMMA LevelsArePrices ==
  /\ Public!Levels \subseteq Nat \ {0}
  /\ \A b \in Public!Books : \A p \in Public!Levels : b[p] \in 0 .. MaxLots
  /\ Public!Empty \in Public!Books
BY MarketAssumption DEF Public!Levels, Public!Books, Public!Empty

\* The top of a book has prices of it.
LEMMA TopType ==
  ASSUME NEW b \in Public!Books
  PROVE  Public!Top(b) \in [bid : Bids \cup {0}, ask : Asks \cup {0}]
<1> DEFINE bid == {p \in Bids : b[p] > 0}
           ask == {p \in Asks : b[p] > 0}
<1>1. Bids \subseteq Nat /\ Asks \subseteq Nat /\ IsFiniteSet(Bids) /\ IsFiniteSet(Asks)
  BY MarketAssumption
<1>2. bid # {} => \E p \in bid : \A q \in bid : q <= p
  <2>1. IsFiniteSet(bid)  BY <1>1, FS_Subset
  <2> QED BY <1>1, <2>1, HasGreatest
<1>3. ask # {} => \E p \in ask : \A q \in ask : p <= q
  <2>1. IsFiniteSet(ask)  BY <1>1, FS_Subset
  <2> QED BY <1>1, <2>1, HasLeast
<1> DEFINE high == IF bid = {} THEN 0 ELSE CHOOSE p \in bid : \A q \in bid : q <= p
           low  == IF ask = {} THEN 0 ELSE CHOOSE p \in ask : \A q \in ask : p <= q
<1>4. high \in Bids \cup {0}  BY <1>2
<1>5. low \in Asks \cup {0}  BY <1>3
<1>6. Public!Top(b) = [bid |-> high, ask |-> low]  BY DEF Public!Top
<1> HIDE DEF high, low
<1> QED BY <1>4, <1>5, <1>6

\* A snapshot lists a whole book, an increment turns a book into the next one.
LEMMA SnapshotTells ==
  ASSUME NEW b \in Public!Books
  PROVE  /\ Public!Over(Public!Listed(b), Public!Empty) = b
         /\ DOMAIN Public!Listed(b) \subseteq Public!Levels
         /\ DOMAIN Public!Listed(b) = {} => b = Public!Empty
<1> DEFINE f == Public!Listed(b)
<1>1. DOMAIN f = {q \in Public!Levels : b[q] > 0} /\ \A p \in DOMAIN f : f[p] = b[p]
  BY DEF Public!Listed
<1>2. \A p \in Public!Levels : b[p] \in 0 .. MaxLots /\ (~(b[p] > 0) => b[p] = 0)
  BY LevelsArePrices, MarketAssumption
<1>3. b = [p \in Public!Levels |-> b[p]]  BY DEF Public!Books
<1>4. Public!Over(f, Public!Empty) = [p \in Public!Levels |-> IF p \in DOMAIN f THEN f[p] ELSE 0]
  BY <1>1 DEF Public!Over, Public!Empty
<1>5. \A p \in Public!Levels : (IF p \in DOMAIN f THEN f[p] ELSE 0) = b[p]
  BY <1>1, <1>2
<1>6. Public!Over(f, Public!Empty) = b  BY <1>3, <1>4, <1>5
<1>7. DOMAIN f = {} => b = Public!Empty
  BY <1>1, <1>2, <1>3 DEF Public!Empty
<1> QED BY <1>1, <1>6, <1>7

LEMMA IncrementTells ==
  ASSUME NEW a \in Public!Books, NEW b \in Public!Books
  PROVE  /\ Public!Over(Public!Changes(a, b), a) = b
         /\ DOMAIN Public!Changes(a, b) \subseteq Public!Levels
         /\ DOMAIN Public!Changes(a, b) = {} => a = b
<1> DEFINE f == Public!Changes(a, b)
<1>1. DOMAIN f = {q \in Public!Levels : a[q] # b[q]} /\ \A p \in DOMAIN f : f[p] = b[p]
  BY DEF Public!Changes
<1>2. a = [p \in Public!Levels |-> a[p]] /\ b = [p \in Public!Levels |-> b[p]]
  BY DEF Public!Books
<1>3. Public!Over(f, a) = [p \in Public!Levels |-> IF p \in DOMAIN f THEN f[p] ELSE a[p]]
  BY <1>1, <1>2 DEF Public!Over
<1>4. \A p \in Public!Levels : (IF p \in DOMAIN f THEN f[p] ELSE a[p]) = b[p]
  BY <1>1
<1> QED BY <1>1, <1>2, <1>3, <1>4

\* The two sides of an update make up its levels.
LEMMA SidesMakeUp ==
  ASSUME NEW f, f = [p \in DOMAIN f |-> f[p]], DOMAIN f \subseteq Public!Levels
  PROVE  /\ Public!Over(Public!On(Bids, f), Public!On(Asks, f)) = f
         /\ DOMAIN Public!On(Bids, f) \cup DOMAIN Public!On(Asks, f) = DOMAIN f
         /\ DOMAIN Public!On(Bids, f) \subseteq Bids /\ DOMAIN Public!On(Asks, f) \subseteq Asks
<1>1. DOMAIN f = (Bids \cap DOMAIN f) \cup (Asks \cap DOMAIN f)
  BY DEF Public!Levels
<1> DEFINE x == Public!On(Bids, f)
           y == Public!On(Asks, f)
<1>2. /\ DOMAIN x = Bids \cap DOMAIN f /\ \A p \in DOMAIN x : x[p] = f[p]
      /\ DOMAIN y = Asks \cap DOMAIN f /\ \A p \in DOMAIN y : y[p] = f[p]
  BY DEF Public!On
<1>3. Public!Over(x, y) = [p \in DOMAIN f |-> IF p \in DOMAIN x THEN x[p] ELSE y[p]]
  BY <1>1, <1>2 DEF Public!Over
<1>4. \A p \in DOMAIN f : (IF p \in DOMAIN x THEN x[p] ELSE y[p]) = f[p]
  BY <1>1, <1>2
<1>5. [p \in DOMAIN f |-> IF p \in DOMAIN x THEN x[p] ELSE y[p]] = [p \in DOMAIN f |-> f[p]]
  BY <1>4
<1> QED BY <1>1, <1>2, <1>3, <1>5

-----------------------------------------------------------------------------
(* Queues *)

\* r is q without its first message: the others move up by one.
Shifted(q, r, topic) ==
  /\ \A i \in With(r, topic) :
       i \in Nat \ {0} /\ i + 1 \in With(q, topic) /\ r[i] = q[i + 1]
  /\ \A i \in With(q, topic) :
       i \in Nat \ {0} /\ (i # 1 => i - 1 \in With(r, topic) /\ r[i - 1] = q[i])
  /\ 1 \in With(q, topic) <=> q[1].topic = topic

LEMMA TailWith ==
  ASSUME NEW S, NEW q \in Seq(S), q # <<>>, NEW t
  PROVE  Shifted(q, Tail(q), t) /\ Head(q) = q[1]
<1>1. /\ Tail(q) \in Seq(S) /\ Len(Tail(q)) = Len(q) - 1
      /\ \A i \in 1 .. Len(Tail(q)) : Tail(q)[i] = q[i + 1]
  BY HeadTailProperties
<1>2. /\ Len(q) \in Nat /\ Len(q) >= 1 /\ DOMAIN q = 1 .. Len(q)
      /\ DOMAIN Tail(q) = 1 .. Len(q) - 1
  BY <1>1, EmptySeq, LenProperties
<1>3. Head(q) = q[1]  BY <1>2
<1>4. ASSUME NEW i \in With(Tail(q), t)
      PROVE  i \in Nat \ {0} /\ i + 1 \in With(q, t) /\ Tail(q)[i] = q[i + 1]
  <2>1. i \in 1 .. Len(q) - 1 /\ Tail(q)[i].topic = t  BY <1>2 DEF With
  <2>2. Tail(q)[i] = q[i + 1]  BY <1>1, <2>1
  <2>3. i + 1 \in 1 .. Len(q)  BY <1>2, <2>1
  <2> QED BY <1>2, <2>1, <2>2, <2>3 DEF With
<1>5. ASSUME NEW i \in With(q, t)
      PROVE  /\ i \in Nat \ {0}
             /\ i # 1 => i - 1 \in With(Tail(q), t) /\ Tail(q)[i - 1] = q[i]
  <2>1. i \in 1 .. Len(q) /\ q[i].topic = t  BY <1>2 DEF With
  <2>2. CASE i # 1
    <3>1. i - 1 \in 1 .. Len(q) - 1 /\ (i - 1) + 1 = i  BY <1>2, <2>1, <2>2
    <3>2. Tail(q)[i - 1] = q[i]  BY <1>1, <3>1
    <3> QED BY <1>2, <2>1, <3>1, <3>2 DEF With
  <2> QED BY <2>1, <2>2
<1>6. 1 \in With(q, t) <=> q[1].topic = t
  BY <1>2 DEF With
<1> QED BY <1>3, <1>4, <1>5, <1>6 DEF Shifted

\* r is q and after it message m.
Extended(q, r, m, topic) ==
  /\ Len(q) + 1 \in Nat
  /\ \A i \in With(q, topic) :
       i \in Nat \ {0} /\ i < Len(q) + 1 /\ i \in With(r, topic) /\ r[i] = q[i]
  /\ \A i \in With(r, topic) :
       i \in With(q, topic) \/ (i = Len(q) + 1 /\ m.topic = topic)
  /\ Len(q) + 1 \in With(r, topic) <=> m.topic = topic
  /\ r[Len(q) + 1] = m

LEMMA AppendWith ==
  ASSUME NEW S, NEW q \in Seq(S), NEW m \in S, NEW t
  PROVE  Extended(q, Append(q, m), m, t)
<1>1. /\ Len(q) \in Nat /\ DOMAIN q = 1 .. Len(q)
      /\ DOMAIN Append(q, m) = 1 .. Len(q) + 1
      /\ \A i \in 1 .. Len(q) : Append(q, m)[i] = q[i]
      /\ Append(q, m)[Len(q) + 1] = m
  BY AppendProperties, LenProperties
<1>2. ASSUME NEW i \in With(q, t)
      PROVE  /\ i \in Nat \ {0} /\ i < Len(q) + 1
             /\ i \in With(Append(q, m), t) /\ Append(q, m)[i] = q[i]
  <2>1. i \in 1 .. Len(q) /\ q[i].topic = t  BY <1>1 DEF With
  <2>2. i \in 1 .. Len(q) + 1 /\ Append(q, m)[i] = q[i]  BY <1>1, <2>1
  <2> QED BY <1>1, <2>1, <2>2 DEF With
<1>3. ASSUME NEW i \in With(Append(q, m), t)
      PROVE  i \in With(q, t) \/ (i = Len(q) + 1 /\ m.topic = t)
  <2>1. i \in 1 .. Len(q) + 1 /\ Append(q, m)[i].topic = t  BY <1>1 DEF With
  <2>2. i \in 1 .. Len(q) \/ i = Len(q) + 1  BY <1>1, <2>1
  <2> QED BY <1>1, <2>1, <2>2 DEF With
<1>4. Len(q) + 1 \in With(Append(q, m), t) <=> m.topic = t
  <2>1. Len(q) + 1 \in 1 .. Len(q) + 1  BY <1>1
  <2> QED BY <1>1, <2>1 DEF With
<1> QED BY <1>1, <1>2, <1>3, <1>4 DEF Extended


-----------------------------------------------------------------------------
(* Messages *)

\* What there is in a message.
LEMMA SentType ==
  ASSUME NEW p \in Seq(Public!Books), NEW m \in Sent(p)
  PROVE  /\ m.topic = "ticker" => \E b \in Public!Books : m.top = Public!Top(b)
         /\ m.topic = "publicTrade" => m.action \in {"snapshot", "update"} /\ m.data \in Seq(Nat)
         /\ m.topic = "books" =>
              /\ m.seq \in 1 .. Len(p)
              /\ \/ /\ m.action = "snapshot"
                    /\ m.bids = Public!On(Bids, Public!Listed(p[m.seq]))
                    /\ m.asks = Public!On(Asks, Public!Listed(p[m.seq]))
                 \/ /\ m.action = "update" /\ m.seq >= 2
                    /\ m.bids = Public!On(Bids, Public!Changes(p[m.seq - 1], p[m.seq]))
                    /\ m.asks = Public!On(Asks, Public!Changes(p[m.seq - 1], p[m.seq]))
<1>1. Len(p) \in Nat  BY LenProperties
<1>2. CASE m \in {Public!TickerMessage(b) : b \in Public!Books}
  BY <1>2 DEF Public!TickerMessage
<1>3. CASE m \in [topic : {"publicTrade"}, action : {"snapshot", "update"}, data : Seq(Nat)]
  BY <1>3
<1>4. CASE m \in {Public!BooksMessage("snapshot", Public!Listed(p[n]), n) : n \in 1 .. Len(p)}
  BY <1>1, <1>4 DEF Public!BooksMessage
<1>5. CASE m \in {Public!BooksMessage("update", Public!Changes(p[n - 1], p[n]), n)
                    : n \in 2 .. Len(p)}
  BY <1>1, <1>5 DEF Public!BooksMessage
<1> QED BY <1>2, <1>3, <1>4, <1>5 DEF Sent

\* What was sent stays true when the book changes, and so is the news of the change.
LEMMA SentGrows ==
  ASSUME NEW p \in Seq(Public!Books), Len(p) >= 1, NEW b \in Public!Books
  PROVE  /\ Sent(p) \subseteq Sent(Append(p, b))
         /\ Public!BooksMessage("update", Public!Changes(p[Len(p)], b), Len(p) + 1)
              \in Sent(Append(p, b))
         /\ Public!TickerMessage(b) \in Sent(Append(p, b))
<1> DEFINE r == Append(p, b)
<1>1. /\ Len(p) \in Nat /\ Len(r) = Len(p) + 1
      /\ \A n \in 1 .. Len(p) : r[n] = p[n]
      /\ r[Len(p) + 1] = b
  BY AppendProperties, LenProperties
<1> HIDE DEF r
<1>2. {Public!BooksMessage("snapshot", Public!Listed(p[n]), n) : n \in 1 .. Len(p)}
        \subseteq {Public!BooksMessage("snapshot", Public!Listed(r[n]), n) : n \in 1 .. Len(r)}
  BY <1>1
<1>3. {Public!BooksMessage("update", Public!Changes(p[n - 1], p[n]), n) : n \in 2 .. Len(p)}
        \subseteq {Public!BooksMessage("update", Public!Changes(r[n - 1], r[n]), n)
                     : n \in 2 .. Len(r)}
  <2>1. \A n \in 2 .. Len(p) : n \in 2 .. Len(r) /\ r[n] = p[n] /\ r[n - 1] = p[n - 1]
    BY <1>1
  <2> QED BY <2>1
<1>4. Sent(p) \subseteq Sent(r)
  BY <1>2, <1>3 DEF Sent
<1>5. /\ Len(p) + 1 \in 2 .. Len(r)
      /\ r[Len(p) + 1] = b /\ r[(Len(p) + 1) - 1] = p[Len(p)]
  BY <1>1
<1>6. Public!BooksMessage("update", Public!Changes(p[Len(p)], b), Len(p) + 1) \in Sent(r)
  BY <1>5 DEF Sent
<1>7. Public!TickerMessage(b) \in Sent(r)
  BY DEF Sent
<1> QED BY <1>4, <1>6, <1>7 DEF r

LEMMA TradeSent ==
  ASSUME NEW p, NEW action \in {"snapshot", "update"}, NEW data \in Seq(Nat)
  PROVE  Public!TradeMessage(action, data) \in Sent(p)
BY DEF Sent, Public!TradeMessage

-----------------------------------------------------------------------------
(* The books in a queue *)

\* The first message with a book is of the next one; only it can be a snapshot.
LEMMA TailTells ==
  ASSUME NEW p \in Seq(Public!Books), NEW q \in Seq(Sent(p)), q # <<>>,
         Head(q).topic = "books", NEW n \in 0 .. Len(p), TellsAfter(q, p, n)
  PROVE  /\ Head(q).seq = n + 1 /\ n + 1 \in 1 .. Len(p)
         /\ TellsAfter(Tail(q), p, n + 1) /\ ~Resets(Tail(q))
         /\ Head(q).action = "snapshot" \/ ~Resets(q)
<1> DEFINE r == Tail(q)
<1>0. Shifted(q, r, "books") /\ Head(q) = q[1]  BY TailWith
<1> HIDE DEF r
<1> DEFINE B == With(q, "books")
           C == With(r, "books")
<1>1. /\ \A i \in C : i \in Nat \ {0} /\ i + 1 \in B /\ r[i] = q[i + 1]
      /\ \A i \in B : i \in Nat \ {0} /\ (i # 1 => i - 1 \in C /\ r[i - 1] = q[i])
      /\ 1 \in B /\ Head(q) = q[1]
  BY <1>0 DEF Shifted
<1>2. /\ \A i, j \in B : i < j => q[i].seq < q[j].seq
      /\ \A i \in B : q[i].seq \in n + 1 .. Len(p)
      /\ \A m \in n + 1 .. Len(p) : \E i \in B : q[i].seq = m
      /\ \A i \in B : q[i].action = "snapshot" => q[i].seq = n + 1
  BY DEF TellsAfter
<1> HIDE DEF B, C
<1>3. n \in Nat /\ Len(p) \in Nat  BY LenProperties
<1>4. q[1].seq = n + 1 /\ n + 1 \in 1 .. Len(p)
  <2>1. q[1].seq \in n + 1 .. Len(p)  BY <1>1, <1>2
  <2>2. n + 1 \in n + 1 .. Len(p)  BY <1>3, <2>1
  <2>3. PICK i \in B : q[i].seq = n + 1  BY <1>2, <2>2
  <2>4. i = 1 \/ 1 < i  BY <1>1
  <2>5. 1 < i => q[1].seq < n + 1  BY <1>1, <1>2, <2>3
  <2> QED BY <1>3, <2>1, <2>2, <2>3, <2>4, <2>5
<1>5. \A i \in B : i # 1 => q[i].seq \in n + 2 .. Len(p) /\ q[i].action # "snapshot"
  <2>1. SUFFICES ASSUME NEW i \in B, i # 1
                 PROVE  q[i].seq \in n + 2 .. Len(p) /\ q[i].action # "snapshot"
    OBVIOUS
  <2>2. 1 < i  BY <1>1, <2>1
  <2>3. n + 1 < q[i].seq /\ q[i].seq \in n + 1 .. Len(p)  BY <1>1, <1>2, <1>4, <2>2
  <2> QED BY <1>2, <1>3, <2>3
<1>6. TellsAfter(r, p, n + 1)
  <2>1. n + 1 \in 0 .. Len(p)  BY <1>3, <1>4
  <2>2. ASSUME NEW i \in C, NEW j \in C, i < j PROVE r[i].seq < r[j].seq
    <3>1. i + 1 \in B /\ j + 1 \in B /\ i + 1 < j + 1  BY <1>1, <2>2
    <3> QED BY <1>1, <1>2, <3>1
  <2>3. ASSUME NEW i \in C
        PROVE  r[i].seq \in n + 2 .. Len(p) /\ r[i].action # "snapshot"
    <3>1. i + 1 \in B /\ i + 1 # 1 /\ r[i] = q[i + 1]  BY <1>1
    <3> QED BY <1>5, <3>1
  <2>4. ASSUME NEW m \in n + 2 .. Len(p) PROVE \E i \in C : r[i].seq = m
    <3>1. m \in n + 1 .. Len(p) /\ m # n + 1  BY <1>3
    <3>2. PICK i \in B : q[i].seq = m  BY <1>2, <3>1
    <3>3. i # 1  BY <1>4, <3>1, <3>2
    <3> QED BY <1>1, <3>2, <3>3
  <2>5. (n + 1) + 1 = n + 2  BY <1>3
  <2> QED BY <2>1, <2>2, <2>3, <2>4, <2>5 DEF TellsAfter, C
<1>7. ~Resets(r)
  <2>1. ASSUME NEW i \in C PROVE r[i].action # "snapshot"
    <3>1. i + 1 \in B /\ i + 1 # 1 /\ r[i] = q[i + 1]  BY <1>1
    <3> QED BY <1>5, <3>1
  <2> QED BY <2>1 DEF Resets, C
<1>8. Head(q).action = "snapshot" \/ ~Resets(q)
  BY <1>1, <1>5 DEF Resets, B
<1> QED BY <1>1, <1>4, <1>6, <1>7, <1>8 DEF r

\* Other messages tell nothing of the books.
LEMMA TailTellsOther ==
  ASSUME NEW p, NEW q \in Seq(Sent(p)), q # <<>>,
         Head(q).topic # "books", NEW n, TellsAfter(q, p, n)
  PROVE  TellsAfter(Tail(q), p, n) /\ (Resets(q) => Resets(Tail(q)))
<1> DEFINE r == Tail(q)
<1>0. Shifted(q, r, "books") /\ Head(q) = q[1]  BY TailWith
<1> HIDE DEF r
<1> DEFINE B == With(q, "books")
           C == With(r, "books")
<1>1. /\ \A i \in C : i \in Nat \ {0} /\ i + 1 \in B /\ r[i] = q[i + 1]
      /\ \A i \in B : i \in Nat \ {0} /\ i - 1 \in C /\ r[i - 1] = q[i]
  BY <1>0 DEF Shifted
<1>2. /\ n \in 0 .. Len(p)
      /\ \A i, j \in B : i < j => q[i].seq < q[j].seq
      /\ \A i \in B : q[i].seq \in n + 1 .. Len(p)
      /\ \A m \in n + 1 .. Len(p) : \E i \in B : q[i].seq = m
      /\ \A i \in B : q[i].action = "snapshot" => q[i].seq = n + 1
  BY DEF TellsAfter
<1>3. Resets(q) => Resets(r)
  BY <1>1 DEF Resets
<1> HIDE DEF B, C
<1>4. ASSUME NEW i \in C, NEW j \in C, i < j PROVE r[i].seq < r[j].seq
  <2>1. i + 1 \in B /\ j + 1 \in B /\ i + 1 < j + 1  BY <1>1, <1>4
  <2> QED BY <1>1, <1>2, <2>1
<1>5. ASSUME NEW m \in n + 1 .. Len(p) PROVE \E i \in C : r[i].seq = m
  <2>1. PICK i \in B : q[i].seq = m  BY <1>2
  <2>2. i - 1 \in C /\ r[i - 1] = q[i]  BY <1>1
  <2> QED BY <2>1, <2>2
<1>6. ASSUME NEW i \in C
      PROVE  r[i].seq \in n + 1 .. Len(p) /\ (r[i].action = "snapshot" => r[i].seq = n + 1)
  <2>1. i + 1 \in B /\ r[i] = q[i + 1]  BY <1>1
  <2> QED BY <1>2, <2>1
<1> QED BY <1>2, <1>3, <1>4, <1>5, <1>6 DEF TellsAfter, C, r

\* A change of the book appends the next one.
LEMMA AppendTells ==
  ASSUME NEW p \in Seq(Public!Books), NEW b \in Public!Books,
         NEW S, NEW q \in Seq(S), NEW m \in S,
         m.topic = "books", m.action = "update", m.seq = Len(p) + 1,
         NEW n, TellsAfter(q, p, n)
  PROVE  /\ TellsAfter(Append(q, m), Append(p, b), n)
         /\ Resets(q) => Resets(Append(q, m))
<1> DEFINE r == Append(q, m)
<1>0. Extended(q, r, m, "books")  BY AppendWith
<1> HIDE DEF r
<1> DEFINE B == With(q, "books")
           C == With(r, "books")
           l == Len(q) + 1
<1>1. /\ l \in Nat
      /\ \A i \in B : i \in Nat \ {0} /\ i < l /\ i \in C /\ r[i] = q[i]
      /\ \A i \in C : i \in B \/ i = l
      /\ l \in C /\ r[l] = m
  BY <1>0 DEF Extended
<1>2. /\ n \in 0 .. Len(p)
      /\ \A i, j \in B : i < j => q[i].seq < q[j].seq
      /\ \A i \in B : q[i].seq \in n + 1 .. Len(p)
      /\ \A k \in n + 1 .. Len(p) : \E i \in B : q[i].seq = k
      /\ \A i \in B : q[i].action = "snapshot" => q[i].seq = n + 1
  BY DEF TellsAfter
<1>3. Len(p) \in Nat /\ Len(Append(p, b)) = Len(p) + 1
  BY LenProperties, AppendProperties
<1>4. Resets(q) => Resets(r)
  BY <1>1 DEF Resets
<1> HIDE DEF B, C, l
<1>5. n \in Nat /\ n \in 0 .. Len(p) + 1 /\ Len(p) + 1 \in n + 1 .. Len(p) + 1
  BY <1>2, <1>3
<1>6. ASSUME NEW i \in C, NEW j \in C, i < j PROVE r[i].seq < r[j].seq
  <2>1. i # l  BY <1>1, <1>6
  <2>2. i \in B /\ r[i] = q[i] /\ q[i].seq \in n + 1 .. Len(p)  BY <1>1, <1>2, <2>1
  <2>3. CASE j \in B  BY <1>1, <1>2, <1>6, <2>2, <2>3
  <2>4. CASE j = l
    <3>1. r[j].seq = Len(p) + 1  BY <1>1, <2>4
    <3> QED BY <1>3, <1>5, <2>2, <3>1
  <2> QED BY <1>1, <2>3, <2>4
<1>7. ASSUME NEW i \in C
      PROVE  /\ r[i].seq \in n + 1 .. Len(p) + 1
             /\ r[i].action = "snapshot" => r[i].seq = n + 1
  <2>1. CASE i \in B
    <3>1. r[i] = q[i] /\ q[i].seq \in n + 1 .. Len(p)  BY <1>1, <1>2, <2>1
    <3>2. q[i].seq \in n + 1 .. Len(p) + 1  BY <1>3, <1>5, <3>1
    <3> QED BY <1>2, <2>1, <3>1, <3>2
  <2>2. CASE i = l
    <3>1. r[i] = m  BY <1>1, <2>2
    <3> QED BY <1>5, <3>1
  <2> QED BY <1>1, <2>1, <2>2
<1>8. ASSUME NEW k \in n + 1 .. Len(p) + 1 PROVE \E i \in C : r[i].seq = k
  <2>1. CASE k \in n + 1 .. Len(p)  BY <1>1, <1>2, <2>1
  <2>2. CASE k = Len(p) + 1  BY <1>1, <2>2
  <2> QED BY <1>3, <1>5, <2>1, <2>2
<1>9. TellsAfter(r, Append(p, b), n)
  BY <1>3, <1>5, <1>6, <1>7, <1>8 DEF TellsAfter, C
<1> QED BY <1>4, <1>9 DEF r

LEMMA AppendTellsOther ==
  ASSUME NEW p, NEW S, NEW q \in Seq(S), NEW m \in S, m.topic # "books",
         NEW n, TellsAfter(q, p, n)
  PROVE  TellsAfter(Append(q, m), p, n) /\ (Resets(q) => Resets(Append(q, m)))
<1> DEFINE r == Append(q, m)
<1>0. Extended(q, r, m, "books")  BY AppendWith
<1> HIDE DEF r
<1>1. /\ With(r, "books") = With(q, "books")
      /\ \A i \in With(q, "books") : r[i] = q[i]
  BY <1>0 DEF Extended
<1>2. Resets(q) => Resets(r)  BY <1>1 DEF Resets
<1>3. TellsAfter(r, p, n)  BY <1>1 DEF TellsAfter
<1> QED BY <1>2, <1>3 DEF r

-----------------------------------------------------------------------------
(* The tops in a queue *)

\* The last ticker stays the last, or becomes the top that is shown.
LEMMA TailTop ==
  ASSUME NEW S, NEW q \in Seq(S), q # <<>>, NEW p, NEW t, TopLeads(q, p, t)
  PROVE  TopLeads(Tail(q), p, IF Head(q).topic = "ticker" THEN Head(q).top ELSE t)
<1> DEFINE r == Tail(q)
<1>0. Shifted(q, r, "ticker") /\ Head(q) = q[1]  BY TailWith
<1> HIDE DEF r
<1> DEFINE B == With(q, "ticker")
           C == With(r, "ticker")
           now == Public!Top(p[Len(p)])
           u == IF Head(q).topic = "ticker" THEN Head(q).top ELSE t
<1>1. /\ \A i \in C : i \in Nat \ {0} /\ i + 1 \in B /\ r[i] = q[i + 1]
      /\ \A i \in B : i \in Nat \ {0} /\ (i # 1 => i - 1 \in C /\ r[i - 1] = q[i])
      /\ 1 \in B <=> Head(q).topic = "ticker"
      /\ Head(q) = q[1]
  BY <1>0 DEF Shifted
<1>2. /\ B = {} => t = now
      /\ \A i \in B : (\A j \in B : j <= i) => q[i].top = now
  BY DEF TopLeads
<1> HIDE DEF B, C, now
<1>3. C = {} => u = now
  <2>1. CASE C = {} /\ 1 \in B
    <3>1. \A j \in B : j <= 1  BY <1>1, <2>1
    <3> QED BY <1>1, <1>2, <2>1, <3>1
  <2>2. CASE C = {} /\ 1 \notin B
    <3>1. B = {}  BY <1>1, <2>2
    <3> QED BY <1>1, <1>2, <2>2, <3>1
  <2> QED BY <2>1, <2>2
<1>4. ASSUME NEW i \in C, \A j \in C : j <= i PROVE r[i].top = now
  <2>1. i \in Nat \ {0} /\ i + 1 \in B /\ r[i] = q[i + 1]  BY <1>1
  <2>2. ASSUME NEW j \in B PROVE j <= i + 1
    <3>1. CASE j = 1  BY <2>1, <3>1
    <3>2. CASE j # 1
      <4>1. j \in Nat /\ j - 1 \in C  BY <1>1, <3>2
      <4>2. j - 1 <= i  BY <1>4, <4>1
      <4> QED BY <2>1, <4>1, <4>2
    <3> QED BY <3>1, <3>2
  <2> QED BY <1>2, <2>1, <2>2
<1> QED BY <1>3, <1>4 DEF TopLeads, C, now, r

\* A new ticker tells the top of the new book.
LEMMA AppendTop ==
  ASSUME NEW S, NEW q \in Seq(S), NEW m \in S, NEW p, NEW t,
         \/ m.topic = "ticker" /\ m.top = Public!Top(p[Len(p)])
         \/ m.topic # "ticker" /\ TopLeads(q, p, t)
  PROVE  TopLeads(Append(q, m), p, t)
<1> DEFINE r == Append(q, m)
<1> SUFFICES TopLeads(r, p, t)
  OBVIOUS
<1>0. Extended(q, r, m, "ticker")  BY AppendWith
<1> HIDE DEF r
<1> DEFINE B == With(q, "ticker")
           C == With(r, "ticker")
           l == Len(q) + 1
           now == Public!Top(p[Len(p)])
<1>1. /\ l \in Nat
      /\ \A i \in B : i \in Nat \ {0} /\ i < l /\ i \in C /\ r[i] = q[i]
      /\ \A i \in C : i \in B \/ (i = l /\ m.topic = "ticker")
      /\ l \in C <=> m.topic = "ticker"
      /\ r[l] = m
  BY <1>0 DEF Extended
<1>2. CASE m.topic = "ticker"
  <2>1. m.top = now  BY <1>2
  <2>2. \A i \in C : (\A j \in C : j <= i) => i = l  BY <1>1, <1>2
  <2> QED BY <1>1, <1>2, <2>1, <2>2 DEF TopLeads
<1>3. CASE m.topic # "ticker"
  <2>1. C = B /\ \A i \in B : r[i] = q[i]  BY <1>1, <1>3
  <2>2. TopLeads(q, p, t)  BY <1>3
  <2>3. TopLeads(r, p, t)  BY <2>1, <2>2 DEF TopLeads
  <2> QED BY <2>3
<1> QED BY <1>2, <1>3

-----------------------------------------------------------------------------
(* The trades in a queue *)

\* A message other than live trades changes nothing, whether it is taken or added.
LEMMA TailTradesOther ==
  ASSUME NEW S, NEW q \in Seq(S), q # <<>>,
         Head(q).topic # "publicTrade" \/ Head(q).action # "update",
         NEW r, NEW m, NEW count, TradesLead(q, r, m, count)
  PROVE  TradesLead(Tail(q), r, m, count)
<1> DEFINE t == Tail(q)
<1> SUFFICES TradesLead(t, r, m, count)
  OBVIOUS
<1>0. Shifted(q, t, "publicTrade") /\ Head(q) = q[1]  BY TailWith
<1> HIDE DEF t
<1>1. /\ \A i \in Live(t) : i \in Nat /\ i + 1 \in Live(q) /\ t[i] = q[i + 1]
      /\ \A i \in Live(q) : i - 1 \in Live(t) /\ t[i - 1] = q[i]
  BY <1>0 DEF Shifted, Live
<1>2. /\ \A i, k \in DOMAIN r : i < k => r[i] < r[k]
      /\ m \subseteq 1 .. count
      /\ \A i \in DOMAIN r : r[i] \in 1 .. count /\ r[i] \notin m
  BY DEF TradesLead
<1>3. \A i \in Live(t) : \A k, l \in DOMAIN t[i].data : k < l => t[i].data[k] < t[i].data[l]
  BY <1>1 DEF TradesLead
<1>4. ASSUME NEW i \in Live(t), NEW j \in Live(t), i < j
      PROVE  \A k \in DOMAIN t[i].data, l \in DOMAIN t[j].data : t[i].data[k] < t[j].data[l]
  <2>1. i + 1 \in Live(q) /\ j + 1 \in Live(q) /\ i + 1 < j + 1  BY <1>1, <1>4
  <2>2. t[i] = q[i + 1] /\ t[j] = q[j + 1]  BY <1>1
  <2> QED BY <2>1, <2>2 DEF TradesLead
<1>5. \A i \in DOMAIN r : \A j \in Live(t) : \A l \in DOMAIN t[j].data : r[i] < t[j].data[l]
  BY <1>1 DEF TradesLead
<1>6. ASSUME NEW c \in 1 .. count, c \notin m, ~ \E i \in DOMAIN r : r[i] = c
      PROVE  \E j \in Live(t) : \E l \in DOMAIN t[j].data : t[j].data[l] = c
  <2>1. PICK j \in Live(q) : \E l \in DOMAIN q[j].data : q[j].data[l] = c
    BY <1>6 DEF TradesLead
  <2> QED BY <1>1, <2>1
<1>7. \A j \in Live(t) : \A l \in DOMAIN t[j].data :
        t[j].data[l] \in 1 .. count /\ t[j].data[l] \notin m
  BY <1>1 DEF TradesLead
<1> QED BY <1>2, <1>3, <1>4, <1>5, <1>6, <1>7 DEF TradesLead

LEMMA AppendTradesOther ==
  ASSUME NEW S, NEW q \in Seq(S), NEW x \in S, x.topic # "publicTrade",
         NEW r, NEW m, NEW count, TradesLead(q, r, m, count)
  PROVE  TradesLead(Append(q, x), r, m, count)
<1> DEFINE t == Append(q, x)
<1> SUFFICES TradesLead(t, r, m, count)
  OBVIOUS
<1>0. Extended(q, t, x, "publicTrade")  BY AppendWith
<1> HIDE DEF t
<1>1. Live(t) = Live(q) /\ \A i \in Live(q) : t[i] = q[i]
  BY <1>0 DEF Extended, Live
<1>2. /\ \A i, k \in DOMAIN r : i < k => r[i] < r[k]
      /\ m \subseteq 1 .. count
      /\ \A i \in DOMAIN r : r[i] \in 1 .. count /\ r[i] \notin m
  BY DEF TradesLead
<1>3. \A i \in Live(t) : \A k, l \in DOMAIN t[i].data : k < l => t[i].data[k] < t[i].data[l]
  BY <1>1 DEF TradesLead
<1>4. \A i, j \in Live(t) : i < j =>
        \A k \in DOMAIN t[i].data, l \in DOMAIN t[j].data : t[i].data[k] < t[j].data[l]
  BY <1>1 DEF TradesLead
<1>5. \A i \in DOMAIN r : \A j \in Live(t) : \A l \in DOMAIN t[j].data : r[i] < t[j].data[l]
  BY <1>1 DEF TradesLead
<1>6. ASSUME NEW c \in 1 .. count, c \notin m, ~ \E i \in DOMAIN r : r[i] = c
      PROVE  \E j \in Live(t) : \E l \in DOMAIN t[j].data : t[j].data[l] = c
  <2>1. PICK j \in Live(q) : \E l \in DOMAIN q[j].data : q[j].data[l] = c
    BY <1>6 DEF TradesLead
  <2> QED BY <1>1, <2>1
<1>7. \A j \in Live(t) : \A l \in DOMAIN t[j].data :
        t[j].data[l] \in 1 .. count /\ t[j].data[l] \notin m
  BY <1>1 DEF TradesLead
<1> QED BY <1>2, <1>3, <1>4, <1>5, <1>6, <1>7 DEF TradesLead

\* The trades that are taken from the queue are reported after all before them.
LEMMA TailTrades ==
  ASSUME NEW S, NEW q \in Seq(S), q # <<>>,
         Head(q).topic = "publicTrade", Head(q).action = "update", Head(q).data \in Seq(Nat),
         NEW r \in Seq(Nat), NEW m, NEW count \in Nat, TradesLead(q, r, m, count)
  PROVE  r \o Head(q).data \in Seq(Nat) /\ TradesLead(Tail(q), r \o Head(q).data, m, count)
<1> DEFINE t == Tail(q)
           d == Head(q).data
           e == r \o d
<1>0. Shifted(q, t, "publicTrade") /\ Head(q) = q[1]  BY TailWith
<1>a. d \in Seq(Nat) /\ q[1].data = d  BY <1>0
<1>b. /\ e \in Seq(Nat) /\ DOMAIN e = 1 .. Len(r) + Len(d)
      /\ \A i \in 1 .. Len(r) + Len(d) : e[i] = IF i <= Len(r) THEN r[i] ELSE d[i - Len(r)]
      /\ Len(r) \in Nat /\ Len(d) \in Nat /\ DOMAIN r = 1 .. Len(r) /\ DOMAIN d = 1 .. Len(d)
  <2>1. e \in Seq(Nat) /\ Len(e) = Len(r) + Len(d)  BY <1>a, ConcatProperties
  <2> HIDE DEF d
  <2>2. \A i \in 1 .. Len(r) + Len(d) : e[i] = IF i <= Len(r) THEN r[i] ELSE d[i - Len(r)]
    BY <1>a, ConcatProperties
  <2>3. Len(r) \in Nat /\ Len(d) \in Nat /\ DOMAIN r = 1 .. Len(r) /\ DOMAIN d = 1 .. Len(d)
    BY <1>a, LenProperties
  <2>4. DOMAIN e = 1 .. Len(r) + Len(d)  BY <2>1, LenProperties
  <2> QED BY <2>1, <2>2, <2>3, <2>4
<1> SUFFICES TradesLead(t, e, m, count)
  BY <1>b
<1>1. 1 \in Live(q)  BY <1>0 DEF Shifted, Live
<1> HIDE DEF t, d, e
<1>2. /\ \A i \in Live(t) : i \in Nat \ {0} /\ i + 1 \in Live(q) /\ t[i] = q[i + 1]
      /\ \A i \in Live(q) : i # 1 => i - 1 \in Live(t) /\ t[i - 1] = q[i]
  BY <1>0 DEF Shifted, Live
<1>3. \A i \in DOMAIN e : \/ i \in DOMAIN r /\ e[i] = r[i]
                          \/ /\ i \notin DOMAIN r /\ i - Len(r) \in DOMAIN d
                             /\ e[i] = d[i - Len(r)]
  BY <1>b
<1>4. /\ \A i \in DOMAIN r : i \in DOMAIN e /\ e[i] = r[i]
      /\ \A i \in DOMAIN d : i + Len(r) \in DOMAIN e /\ e[i + Len(r)] = d[i]
  <2>1. \A i \in 1 .. Len(r) : i \in DOMAIN e /\ e[i] = r[i]  BY <1>b
  <2>2. ASSUME NEW i \in 1 .. Len(d) PROVE i + Len(r) \in DOMAIN e /\ e[i + Len(r)] = d[i]
    <3>1. i + Len(r) \in 1 .. Len(r) + Len(d) /\ ~(i + Len(r) <= Len(r))
          /\ (i + Len(r)) - Len(r) = i
      BY <1>b
    <3> QED BY <1>b, <3>1
  <2> QED BY <1>b, <2>1, <2>2
<1>5. ASSUME NEW i \in DOMAIN e, NEW k \in DOMAIN e, i < k PROVE e[i] < e[k]
  <2>1. CASE i \in DOMAIN r /\ k \in DOMAIN r  BY <1>4, <1>5, <2>1 DEF TradesLead
  <2>2. CASE i \in DOMAIN r /\ k \notin DOMAIN r
    <3>1. e[i] = r[i] /\ k - Len(r) \in DOMAIN d /\ e[k] = d[k - Len(r)]  BY <1>3, <1>4, <2>2
    <3> QED BY <1>1, <1>a, <2>2, <3>1 DEF TradesLead
  <2>3. CASE i \notin DOMAIN r /\ k \notin DOMAIN r
    <3>1. /\ i - Len(r) \in DOMAIN d /\ e[i] = d[i - Len(r)]
          /\ k - Len(r) \in DOMAIN d /\ e[k] = d[k - Len(r)]
      BY <1>3, <2>3
    <3>2. i - Len(r) < k - Len(r)  BY <1>b, <1>5
    <3> QED BY <1>1, <1>a, <3>1, <3>2 DEF TradesLead
  <2>4. i \notin DOMAIN r => k \notin DOMAIN r  BY <1>b, <1>5
  <2> QED BY <2>1, <2>2, <2>3, <2>4
<1>6. \A i \in Live(t) : \A k, l \in DOMAIN t[i].data : k < l => t[i].data[k] < t[i].data[l]
  BY <1>2 DEF TradesLead
<1>7. ASSUME NEW i \in Live(t), NEW j \in Live(t), i < j
      PROVE  \A k \in DOMAIN t[i].data, l \in DOMAIN t[j].data : t[i].data[k] < t[j].data[l]
  <2>1. i + 1 \in Live(q) /\ j + 1 \in Live(q) /\ i + 1 < j + 1  BY <1>2, <1>7
  <2>2. t[i] = q[i + 1] /\ t[j] = q[j + 1]  BY <1>2
  <2> QED BY <2>1, <2>2 DEF TradesLead
<1>8. ASSUME NEW i \in DOMAIN e, NEW j \in Live(t), NEW l \in DOMAIN t[j].data
      PROVE  e[i] < t[j].data[l]
  <2>1. j + 1 \in Live(q) /\ t[j] = q[j + 1] /\ 1 < j + 1  BY <1>2
  <2>2. CASE i \in DOMAIN r  BY <1>4, <2>1, <2>2 DEF TradesLead
  <2>3. CASE i \notin DOMAIN r
    <3>1. i - Len(r) \in DOMAIN d /\ e[i] = d[i - Len(r)]  BY <1>3, <2>3
    <3> QED BY <1>1, <1>a, <2>1, <3>1 DEF TradesLead
  <2> QED BY <2>2, <2>3
<1>9. ASSUME NEW c \in 1 .. count, c \notin m, ~ \E i \in DOMAIN e : e[i] = c
      PROVE  \E j \in Live(t) : \E l \in DOMAIN t[j].data : t[j].data[l] = c
  <2>1. ~ \E i \in DOMAIN r : r[i] = c  BY <1>4, <1>9
  <2>2. PICK j \in Live(q) : \E l \in DOMAIN q[j].data : q[j].data[l] = c
    BY <1>9, <2>1 DEF TradesLead
  <2>3. j # 1  BY <1>4, <1>9, <1>a, <2>2
  <2> QED BY <1>2, <2>2, <2>3
<1>10. ASSUME NEW i \in DOMAIN e PROVE e[i] \in 1 .. count /\ e[i] \notin m
  <2>1. CASE i \in DOMAIN r  BY <1>4, <2>1 DEF TradesLead
  <2>2. CASE i \notin DOMAIN r
    <3>1. i - Len(r) \in DOMAIN d /\ e[i] = d[i - Len(r)]  BY <1>3, <2>2
    <3> QED BY <1>1, <1>a, <3>1 DEF TradesLead
  <2> QED BY <2>1, <2>2
<1>11. \A j \in Live(t) : \A l \in DOMAIN t[j].data :
        t[j].data[l] \in 1 .. count /\ t[j].data[l] \notin m
  BY <1>2 DEF TradesLead
<1>12. m \subseteq 1 .. count  BY DEF TradesLead
<1> QED BY <1>5, <1>6, <1>7, <1>8, <1>9, <1>10, <1>11, <1>12 DEF TradesLead

\* New trades follow all before them.
LEMMA AppendTrades ==
  ASSUME NEW S, NEW q \in Seq(S), NEW x \in S, NEW n \in Nat, NEW count \in Nat,
         x = Public!TradeMessage("update", [i \in 1 .. n |-> count + i]),
         NEW r, NEW m, TradesLead(q, r, m, count)
  PROVE  TradesLead(Append(q, x), r, m, count + n)
<1> DEFINE t == Append(q, x)
           w == Len(q) + 1
<1> SUFFICES TradesLead(t, r, m, count + n)
  OBVIOUS
<1>0. Extended(q, t, x, "publicTrade")  BY AppendWith
<1>1. /\ x.topic = "publicTrade" /\ x.action = "update" /\ DOMAIN x.data = 1 .. n
      /\ \A l \in 1 .. n : x.data[l] = count + l
  BY DEF Public!TradeMessage
<1> HIDE DEF t, w
<1>2. /\ \A i \in Live(q) : i \in Nat /\ i < w /\ i \in Live(t) /\ t[i] = q[i]
      /\ \A i \in Live(t) : i \in Live(q) \/ i = w
      /\ w \in Live(t) /\ t[w] = x /\ w \in Nat
  BY <1>0, <1>1 DEF Extended, Live, w
<1>3. \A c \in 1 .. count : c \in 1 .. count + n  OBVIOUS
<1>4. ASSUME NEW l \in DOMAIN t[w].data
      PROVE  /\ t[w].data[l] \in 1 .. count + n
             /\ \A c \in 1 .. count : c < t[w].data[l]
             /\ t[w].data[l] = count + l /\ l \in 1 .. n
  <2>1. l \in 1 .. n /\ t[w].data[l] = count + l  BY <1>1, <1>2
  <2> QED BY <2>1
<1>5. /\ \A i, k \in DOMAIN r : i < k => r[i] < r[k]
      /\ m \subseteq 1 .. count
      /\ \A i \in DOMAIN r : r[i] \in 1 .. count /\ r[i] \notin m
  BY DEF TradesLead
<1>6. \A j \in Live(q) : \A l \in DOMAIN q[j].data :
        q[j].data[l] \in 1 .. count /\ q[j].data[l] \notin m
  BY DEF TradesLead
<1>7. ASSUME NEW i \in Live(t), NEW k \in DOMAIN t[i].data, NEW l \in DOMAIN t[i].data, k < l
      PROVE  t[i].data[k] < t[i].data[l]
  <2>1. CASE i \in Live(q)  BY <1>2, <1>7, <2>1 DEF TradesLead
  <2>2. CASE i = w
    <3>1. /\ t[i].data[k] = count + k /\ k \in 1 .. n
          /\ t[i].data[l] = count + l /\ l \in 1 .. n
      BY <1>4, <2>2
    <3> QED BY <1>7, <3>1
  <2> QED BY <1>2, <2>1, <2>2
<1>8. ASSUME NEW i \in Live(t), NEW j \in Live(t), i < j,
             NEW k \in DOMAIN t[i].data, NEW l \in DOMAIN t[j].data
      PROVE  t[i].data[k] < t[j].data[l]
  <2>1. i \in Live(q) /\ t[i] = q[i]  BY <1>2, <1>8
  <2>2. CASE j \in Live(q)  BY <1>2, <1>8, <2>1, <2>2 DEF TradesLead
  <2>3. CASE j = w
    <3>1. t[i].data[k] \in 1 .. count  BY <1>6, <2>1
    <3> QED BY <1>4, <2>3, <3>1
  <2> QED BY <1>2, <2>2, <2>3
<1>9. ASSUME NEW i \in DOMAIN r, NEW j \in Live(t), NEW l \in DOMAIN t[j].data
      PROVE  r[i] < t[j].data[l]
  <2>1. CASE j \in Live(q)  BY <1>2, <2>1 DEF TradesLead
  <2>2. CASE j = w  BY <1>4, <1>5, <2>2
  <2> QED BY <1>2, <2>1, <2>2
<1>10. ASSUME NEW c \in 1 .. count + n, c \notin m, ~ \E i \in DOMAIN r : r[i] = c
       PROVE  \E j \in Live(t) : \E l \in DOMAIN t[j].data : t[j].data[l] = c
  <2>1. CASE c \in 1 .. count
    <3>1. PICK j \in Live(q) : \E l \in DOMAIN q[j].data : q[j].data[l] = c
      BY <1>10, <2>1 DEF TradesLead
    <3> QED BY <1>2, <3>1
  <2>2. CASE c \notin 1 .. count
    <3>1. c - count \in 1 .. n /\ c = count + (c - count)  BY <2>2
    <3>2. c - count \in DOMAIN t[w].data /\ t[w].data[c - count] = c  BY <1>1, <1>2, <3>1
    <3> QED BY <1>2, <3>2
  <2> QED BY <2>1, <2>2
<1>11. ASSUME NEW j \in Live(t), NEW l \in DOMAIN t[j].data
       PROVE  t[j].data[l] \in 1 .. count + n /\ t[j].data[l] \notin m
  <2>1. CASE j \in Live(q)  BY <1>2, <1>3, <1>6, <2>1
  <2>2. CASE j = w
    <3>1. t[j].data[l] \in 1 .. count + n /\ t[j].data[l] \notin 1 .. count
      BY <1>4, <2>2
    <3> QED BY <1>5, <3>1
  <2> QED BY <1>2, <2>1, <2>2
<1>12. m \subseteq 1 .. count + n /\ \A i \in DOMAIN r : r[i] \in 1 .. count + n /\ r[i] \notin m
  BY <1>3, <1>5
<1> QED BY <1>5, <1>7, <1>8, <1>9, <1>10, <1>11, <1>12 DEF TradesLead

LEMMA NothingLive == Live(<<>>) = {}
<1>1. DOMAIN <<>> = {}  OBVIOUS
<1> QED BY <1>1 DEF Live, With

\* Trades that are not sent are missed, and so are those lost with the connection.
LEMMA MissTrades ==
  ASSUME NEW n \in Nat, NEW count \in Nat, NEW r, NEW m, TradesLead(<<>>, r, m, count)
  PROVE  TradesLead(<<>>, r, m \cup {count + i : i \in 1 .. n}, count + n)
<1> DEFINE new == {count + i : i \in 1 .. n}
<1>1. /\ \A i, k \in DOMAIN r : i < k => r[i] < r[k]
      /\ m \subseteq 1 .. count
      /\ \A i \in DOMAIN r : r[i] \in 1 .. count /\ r[i] \notin m
  BY DEF TradesLead
<1>2. \A c \in 1 .. count : c \in m \/ \E i \in DOMAIN r : r[i] = c
  BY NothingLive DEF TradesLead
<1>3. \A c \in 1 .. count : c \in 1 .. count + n /\ c \notin new
  OBVIOUS
<1>4. new \subseteq 1 .. count + n  OBVIOUS
<1>5. ASSUME NEW c \in 1 .. count + n PROVE c \in 1 .. count \/ c \in new
  <2>1. c \notin 1 .. count => c - count \in 1 .. n /\ c = count + (c - count)  OBVIOUS
  <2> QED BY <2>1
<1> HIDE DEF new
<1>6. m \cup new \subseteq 1 .. count + n  BY <1>1, <1>3, <1>4
<1>7. \A i \in DOMAIN r : r[i] \in 1 .. count + n /\ r[i] \notin m \cup new
  BY <1>1, <1>3
<1>8. \A c \in 1 .. count + n : c \in m \cup new \/ \E i \in DOMAIN r : r[i] = c
  BY <1>2, <1>5
<1>9. TradesLead(<<>>, r, m \cup new, count + n)
  BY <1>1, <1>6, <1>7, <1>8, NothingLive DEF TradesLead
<1> QED BY <1>9 DEF new

Lost(q) == UNION {{q[i].data[k] : k \in DOMAIN q[i].data} : i \in Live(q)}

LEMMA LoseTrades ==
  ASSUME NEW q, NEW count \in Nat, NEW r, NEW m, TradesLead(q, r, m, count)
  PROVE  TradesLead(<<>>, r, m \cup Lost(q), count)
<1> DEFINE lost == Lost(q)
<1>1. /\ \A i, k \in DOMAIN r : i < k => r[i] < r[k]
      /\ m \subseteq 1 .. count
      /\ \A i \in DOMAIN r : r[i] \in 1 .. count /\ r[i] \notin m
  BY DEF TradesLead
<1>2. \A c : c \in lost <=> \E i \in Live(q) : \E k \in DOMAIN q[i].data : c = q[i].data[k]
  BY DEF Lost
<1> HIDE DEF lost
<1>3. lost \subseteq 1 .. count  BY <1>2 DEF TradesLead
<1>4. ASSUME NEW i \in DOMAIN r PROVE r[i] \notin lost
  <2>1. SUFFICES ASSUME NEW j \in Live(q), NEW k \in DOMAIN q[j].data, r[i] = q[j].data[k]
                 PROVE  FALSE
    BY <1>2
  <2>2. r[i] < q[j].data[k]  BY DEF TradesLead
  <2>3. r[i] \in Nat  BY <1>1
  <2> QED BY <2>1, <2>2, <2>3
<1>5. ASSUME NEW c \in 1 .. count, c \notin m \cup lost PROVE \E i \in DOMAIN r : r[i] = c
  BY <1>2, <1>5 DEF TradesLead
<1>6. TradesLead(<<>>, r, m \cup lost, count)
  BY <1>1, <1>3, <1>4, <1>5, NothingLive DEF TradesLead
<1> QED BY <1>6 DEF lost

LEMMA NoTrades ==
  ASSUME NEW q, Live(q) = {}, NEW count, NEW r, NEW m, TradesLead(<<>>, r, m, count)
  PROVE  TradesLead(q, r, m, count)
BY NothingLive DEF TradesLead

-----------------------------------------------------------------------------
(* After a subscription *)

\* The three snapshots are true, and say all there is to know.
LEMMA SnapshotQueue ==
  ASSUME NEW p \in Seq(Public!Books), Len(p) >= 1, NEW data \in Seq(Nat), NEW q,
         q = <<Public!TickerMessage(p[Len(p)]), Public!TradeMessage("snapshot", data),
               Public!BooksMessage("snapshot", Public!Listed(p[Len(p)]), Len(p))>>
  PROVE  /\ q \in Seq(Sent(p))
         /\ Live(q) = {} /\ Resets(q) /\ TellsAfter(q, p, Len(p) - 1)
         /\ \A t : TopLeads(q, p, t)
<1> DEFINE a == Public!TickerMessage(p[Len(p)])
           b == Public!TradeMessage("snapshot", data)
           c == Public!BooksMessage("snapshot", Public!Listed(p[Len(p)]), Len(p))
<1>1. Len(p) \in Nat /\ Len(p) \in 1 .. Len(p) /\ p[Len(p)] \in Public!Books
  BY LenProperties, ElementOfSeq
<1>2. a \in Sent(p) /\ b \in Sent(p) /\ c \in Sent(p)
  <2>1. a \in Sent(p)  BY <1>1 DEF Sent
  <2>2. b \in Sent(p)  BY TradeSent
  <2>3. c \in Sent(p)  BY <1>1 DEF Sent
  <2> QED BY <2>1, <2>2, <2>3
<1>3. /\ a.topic = "ticker" /\ a.top = Public!Top(p[Len(p)])
      /\ b.topic = "publicTrade" /\ b.action = "snapshot"
      /\ c.topic = "books" /\ c.action = "snapshot" /\ c.seq = Len(p)
  BY DEF Public!TickerMessage, Public!TradeMessage, Public!BooksMessage
<1> HIDE DEF a, b, c
<1>4. q = <<a, b, c>>  BY DEF a, b, c
<1>5. q \in Seq(Sent(p)) /\ DOMAIN q = {1, 2, 3} /\ q[1] = a /\ q[2] = b /\ q[3] = c
  BY <1>2, <1>4
<1>6. With(q, "books") = {3} /\ With(q, "ticker") = {1} /\ With(q, "publicTrade") = {2}
  BY <1>3, <1>5 DEF With
<1>7. Live(q) = {}  BY <1>3, <1>5, <1>6 DEF Live
<1>8. Resets(q)  BY <1>3, <1>5, <1>6 DEF Resets
<1>9. TellsAfter(q, p, Len(p) - 1)
  <2>1. Len(p) - 1 \in 0 .. Len(p) /\ (Len(p) - 1) + 1 = Len(p)  BY <1>1
  <2>2. q[3].seq = Len(p) /\ Len(p) .. Len(p) = {Len(p)}
    BY <1>1, <1>3, <1>5
  <2>3. \A i \in With(q, "books") : i = 3 /\ q[i].seq \in Len(p) .. Len(p)
    BY <1>6, <2>2
  <2>4. \A i, j \in With(q, "books") : ~(i < j)  BY <2>3
  <2>5. \A m \in Len(p) .. Len(p) : \E i \in With(q, "books") : q[i].seq = m
    BY <1>6, <2>2
  <2> QED BY <2>1, <2>2, <2>3, <2>4, <2>5 DEF TellsAfter
<1>10. \A t : TopLeads(q, p, t)  BY <1>3, <1>5, <1>6 DEF TopLeads
<1> QED BY <1>5, <1>7, <1>8, <1>9, <1>10

-----------------------------------------------------------------------------
(* The steps *)

\* What a step on another symbol leaves alone.
Rests(u) ==
  /\ status'[u] = status[u] /\ incoming'[u] = incoming[u] /\ past'[u] = past[u]
  /\ book'[u] = book[u] /\ top'[u] = top[u] /\ sequence'[u] = sequence[u]
  /\ reported'[u] = reported[u] /\ missed'[u] = missed[u] /\ printed'[u] = printed[u]
  /\ u \in kept' <=> u \in kept

\* A step is judged by its own symbol.
LEMMA OthersRest ==
  ASSUME MarketInv, NEW s \in Symbols, MarketTypes', SymbolInv(s)',
         \A u \in Symbols \ {s} : Rests(u)
  PROVE  MarketInv'
<1>1. ASSUME NEW u \in Symbols \ {s} PROVE SymbolInv(u)'
  <2>1. SymbolInv(u) /\ Rests(u)  BY DEF MarketInv
  <2> QED BY <2>1 DEF SymbolInv, Rests
<1> QED BY <1>1 DEF MarketInv

\* What the invariant says of the types of a symbol.
LEMMA SymbolTypes ==
  ASSUME MarketInv, NEW s \in Symbols
  PROVE  /\ past[s] \in Seq(Public!Books) /\ Len(past[s]) \in Nat /\ Len(past[s]) >= 1
         /\ \A n \in 1 .. Len(past[s]) : past[s][n] \in Public!Books
         /\ Public!Now(s) \in Public!Books /\ Public!Now(s) = past[s][Len(past[s])]
         /\ incoming[s] \in Seq(Sent(past[s]))
         /\ printed[s] \in Nat /\ reported[s] \in Seq(Nat) /\ book[s] \in Public!Books
         /\ SymbolInv(s)
<1>1. SymbolInv(s)  BY DEF MarketInv
<1>2. past[s] \in Seq(Public!Books) /\ printed[s] \in Nat /\ reported[s] \in Seq(Nat)
      /\ book[s] \in Public!Books
  BY DEF MarketInv, MarketTypes
<1>3. Len(past[s]) >= 1 /\ incoming[s] \in Seq(Sent(past[s]))  BY <1>1 DEF SymbolInv
<1>4. Len(past[s]) \in Nat  BY <1>2, LenProperties
<1>5. \A n \in 1 .. Len(past[s]) : past[s][n] \in Public!Books  BY <1>2, ElementOfSeq
<1>6. Public!Now(s) = past[s][Len(past[s])]  BY DEF Public!Now
<1> QED BY <1>1, <1>2, <1>3, <1>4, <1>5, <1>6

LEMMA MarketInit == Public!Init => MarketInv
<1> SUFFICES ASSUME Public!Init PROVE MarketInv
  OBVIOUS
<1>1. /\ status = [s \in Symbols |-> "DISCONNECTED"]
      /\ incoming = [s \in Symbols |-> <<>>] /\ bids = <<>> /\ asks = <<>>
      /\ book = [s \in Symbols |-> Public!Empty]
      /\ top = [s \in Symbols |-> Public!Top(Public!Empty)]
      /\ reported = [s \in Symbols |-> <<>>] /\ past = [s \in Symbols |-> <<Public!Empty>>]
      /\ printed = [s \in Symbols |-> 0] /\ sequence = [s \in Symbols |-> 0]
      /\ missed = [s \in Symbols |-> {}]
  BY DEF Public!Init
<1>2. Public!Empty \in Public!Books  BY LevelsArePrices
<1>3. Public!Top(Public!Empty) \in [bid : Bids \cup {0}, ask : Asks \cup {0}]
  BY <1>2, TopType
<1>4. <<Public!Empty>> \in Seq(Public!Books) /\ Len(<<Public!Empty>>) = 1
  BY <1>2
<1>5. DOMAIN <<>> = {} /\ <<>> \in Seq(Nat)  OBVIOUS
<1>6. MarketTypes
  <2>1. past \in [Symbols -> Seq(Public!Books)]  BY <1>1, <1>4
  <2>2. top \in [Symbols -> [bid : Bids \cup {0}, ask : Asks \cup {0}]]  BY <1>1, <1>3
  <2>3. book \in [Symbols -> Public!Books]  BY <1>1, <1>2
  <2>4. DOMAIN bids \subseteq Bids /\ DOMAIN asks \subseteq Asks  BY <1>1, <1>5
  <2>5. reported \in [Symbols -> Seq(Nat)]  BY <1>1, <1>5
  <2> QED BY <1>1, <2>1, <2>2, <2>3, <2>4, <2>5 DEF MarketTypes
<1>7. ASSUME NEW s \in Symbols PROVE SymbolInv(s)
  <2>1. /\ status[s] = "DISCONNECTED" /\ incoming[s] = <<>> /\ past[s] = <<Public!Empty>>
        /\ sequence[s] = 0 /\ reported[s] = <<>> /\ missed[s] = {} /\ printed[s] = 0
    BY <1>1
  <2>2. TradesLead(<<>>, <<>>, {}, 0)  BY <1>5, NothingLive DEF TradesLead
  <2>3. <<>> \in Seq(Sent(past[s]))  OBVIOUS
  <2>4. Len(past[s]) = 1  BY <1>4, <2>1
  <2>5. 2 .. Len(past[s]) = {} /\ sequence[s] \in 0 .. Len(past[s]) /\ ~(sequence[s] > 0)
    BY <2>1, <2>4
  <2> QED BY <2>1, <2>2, <2>3, <2>4, <2>5 DEF SymbolInv
<1> QED BY <1>6, <1>7 DEF MarketInv

\* A subscription: the queue says all that is known of the symbol.
LEMMA ReadyKeeps ==
  ASSUME MarketInv, NEW s \in Symbols, Public!Ready(s)
  PROVE  MarketInv'
<1> DEFINE p == past[s]
           data == IF printed[s] = 0 THEN <<>> ELSE <<printed[s]>>
           q == <<Public!TickerMessage(Public!Now(s)), Public!TradeMessage("snapshot", data),
                  Public!BooksMessage("snapshot", Public!Listed(Public!Now(s)), Len(past[s]))>>
<1>1. /\ status[s] = "DISCONNECTED" /\ status' = [status EXCEPT ![s] = "READY"]
      /\ incoming' = [incoming EXCEPT ![s] = q]
      /\ UNCHANGED <<bids, asks, trades, book, top, reported, past, printed, sequence, kept,
                     missed>>
  BY DEF Public!Ready, Public!buffers, Public!clients, Public!exchange, Public!hist
<1>2. /\ p \in Seq(Public!Books) /\ Len(p) \in Nat /\ Len(p) >= 1 /\ Public!Now(s) = p[Len(p)]
      /\ SymbolInv(s) /\ printed[s] \in Nat
  BY SymbolTypes
<1>3. data \in Seq(Nat)  BY <1>2
<1> HIDE DEF data
<1>4. /\ q \in Seq(Sent(p)) /\ Live(q) = {} /\ Resets(q) /\ TellsAfter(q, p, Len(p) - 1)
      /\ TopLeads(q, p, top[s])
  BY <1>2, <1>3, SnapshotQueue
<1> HIDE DEF q
<1>5. TradesLead(q, reported[s], missed[s], printed[s])
  <2>1. incoming[s] = <<>>  BY <1>1, <1>2 DEF SymbolInv
  <2>2. TradesLead(<<>>, reported[s], missed[s], printed[s])  BY <1>2, <2>1 DEF SymbolInv
  <2> QED BY <1>4, <2>2, NoTrades
<1>6. status'[s] = "READY" /\ incoming'[s] = q
  BY <1>1 DEF MarketInv, MarketTypes
<1>7. SymbolInv(s)'
  <2>1. Len(p) - 1 \in 0 .. Len(p) /\ sequence[s] <= (Len(p) - 1) + 1
    BY <1>2 DEF SymbolInv
  <2> QED BY <1>1, <1>2, <1>4, <1>5, <1>6, <2>1 DEF SymbolInv
<1>8. MarketTypes'  BY <1>1 DEF MarketInv, MarketTypes
<1>9. \A u \in Symbols \ {s} : Rests(u)  BY <1>1 DEF Rests, MarketInv, MarketTypes
<1> QED BY <1>7, <1>8, <1>9, OthersRest

\* A connection is lost, and the live trades in its queue are missed.
LEMMA LostKeeps ==
  ASSUME MarketInv, NEW s \in Symbols, Public!Disconnected(s)
  PROVE  MarketInv'
<1> DEFINE lost == Lost(incoming[s])
<1>0. Public!OnTheWay(s) = Live(incoming[s])
  BY DEF Public!OnTheWay, Live, With
<1>1. /\ status' = [status EXCEPT ![s] = "DISCONNECTED"]
      /\ incoming' = [incoming EXCEPT ![s] = <<>>]
      /\ missed' = [missed EXCEPT ![s] = @ \cup lost]
      /\ UNCHANGED <<bids, asks, trades, book, top, reported, past, printed, sequence, kept>>
  BY <1>0 DEF Public!Disconnected, Public!buffers, Public!clients, Public!exchange, Lost
<1>2. SymbolInv(s) /\ printed[s] \in Nat  BY SymbolTypes
<1>3. TradesLead(incoming[s], reported[s], missed[s], printed[s])  BY <1>2 DEF SymbolInv
<1>4. TradesLead(<<>>, reported[s], missed[s] \cup lost, printed[s])
  BY <1>2, <1>3, LoseTrades
<1> HIDE DEF lost
<1>5. status'[s] = "DISCONNECTED" /\ incoming'[s] = <<>> /\ missed'[s] = missed[s] \cup lost
  BY <1>1 DEF MarketInv, MarketTypes
<1>6. <<>> \in Seq(Sent(past[s]))  OBVIOUS
<1>7. SymbolInv(s)'  BY <1>1, <1>2, <1>4, <1>5, <1>6 DEF SymbolInv
<1>8. MarketTypes'  BY <1>1 DEF MarketInv, MarketTypes
<1>9. \A u \in Symbols \ {s} : Rests(u)  BY <1>1 DEF Rests, MarketInv, MarketTypes
<1> QED BY <1>7, <1>8, <1>9, OthersRest

\* The message that is taken from a queue.
LEMMA Arrived ==
  ASSUME MarketInv, NEW s \in Symbols, NEW topic, Public!Arrives(s, topic)
  PROVE  /\ incoming[s] # <<>> /\ Head(incoming[s]).topic = topic
         /\ Head(incoming[s]) \in Sent(past[s])
         /\ status[s] = "READY"
         /\ DOMAIN incoming' = Symbols
         /\ incoming'[s] = Tail(incoming[s]) /\ Tail(incoming[s]) \in Seq(Sent(past[s]))
         /\ \A u \in Symbols \ {s} : incoming'[u] = incoming[u]
<1>1. /\ incoming[s] # <<>> /\ Head(incoming[s]).topic = topic
      /\ incoming' = [incoming EXCEPT ![s] = Tail(@)]
  BY DEF Public!Arrives
<1>2. SymbolInv(s) /\ incoming[s] \in Seq(Sent(past[s]))  BY SymbolTypes
<1>3. status[s] = "READY"  BY <1>1, <1>2 DEF SymbolInv
<1>4. Head(incoming[s]) \in Sent(past[s]) /\ Tail(incoming[s]) \in Seq(Sent(past[s]))
  BY <1>1, <1>2, TailKeeps
<1>5. DOMAIN incoming = Symbols  BY DEF MarketInv, MarketTypes
<1> QED BY <1>1, <1>3, <1>4, <1>5

LEMMA TickerKeeps ==
  ASSUME MarketInv, NEW s \in Symbols, Public!Ticker(s)
  PROVE  MarketInv'
<1> DEFINE q == incoming[s]
           r == Tail(q)
<1>1. /\ Public!Arrives(s, "ticker") /\ top' = [top EXCEPT ![s] = Head(q).top]
      /\ UNCHANGED <<status, bids, asks, trades, book, reported, past, printed, sequence, kept,
                     missed>>
  BY DEF Public!Ticker, Public!buffers, Public!exchange, Public!hist
<1>2. /\ q # <<>> /\ Head(q).topic = "ticker" /\ Head(q) \in Sent(past[s])
      /\ status[s] = "READY" /\ incoming'[s] = r /\ r \in Seq(Sent(past[s]))
      /\ DOMAIN incoming' = Symbols
      /\ \A u \in Symbols \ {s} : incoming'[u] = incoming[u]
  BY <1>1, Arrived
<1>3. SymbolInv(s) /\ q \in Seq(Sent(past[s])) /\ past[s] \in Seq(Public!Books)
  BY SymbolTypes
<1>4. /\ TopLeads(q, past[s], top[s]) /\ TradesLead(q, reported[s], missed[s], printed[s])
      /\ \E n \in 0 .. Len(past[s]) :
           /\ TellsAfter(q, past[s], n) /\ sequence[s] <= n + 1
           /\ ~Resets(q) => n >= 1 /\ (s \notin kept => book[s] = past[s][n])
  BY <1>2, <1>3 DEF SymbolInv
<1>5. TopLeads(r, past[s], Head(q).top)
  BY <1>2, <1>3, <1>4, TailTop
<1>6. TradesLead(r, reported[s], missed[s], printed[s])
  BY <1>2, <1>3, <1>4, TailTradesOther
<1>7. \E n \in 0 .. Len(past[s]) :
        /\ TellsAfter(r, past[s], n) /\ sequence[s] <= n + 1
        /\ ~Resets(r) => n >= 1 /\ (s \notin kept => book[s] = past[s][n])
  <2>1. PICK n \in 0 .. Len(past[s]) :
          /\ TellsAfter(q, past[s], n) /\ sequence[s] <= n + 1
          /\ ~Resets(q) => n >= 1 /\ (s \notin kept => book[s] = past[s][n])
    BY <1>4
  <2>2. TellsAfter(r, past[s], n) /\ (Resets(q) => Resets(r))
    BY <1>2, <1>3, <2>1, TailTellsOther
  <2> QED BY <2>1, <2>2
<1>8. Head(q).top \in [bid : Bids \cup {0}, ask : Asks \cup {0}]
  <2>1. PICK b \in Public!Books : Head(q).top = Public!Top(b)  BY <1>2, <1>3, SentType
  <2> QED BY <2>1, TopType
<1> HIDE DEF q, r
<1>9. top'[s] = Head(q).top  BY <1>1 DEF MarketInv, MarketTypes
<1>10. SymbolInv(s)'  BY <1>1, <1>2, <1>3, <1>5, <1>6, <1>7, <1>9 DEF SymbolInv
<1>11. MarketTypes'  BY <1>1, <1>2, <1>8 DEF MarketInv, MarketTypes
<1>12. \A u \in Symbols \ {s} : Rests(u)  BY <1>1, <1>2 DEF Rests, MarketInv, MarketTypes
<1> QED BY <1>10, <1>11, <1>12, OthersRest

LEMMA PublicTradeKeeps ==
  ASSUME MarketInv, NEW s \in Symbols, Public!PublicTrade(s)
  PROVE  MarketInv'
<1> DEFINE q == incoming[s]
           r == Tail(q)
           live == Head(q).action = "update"
           all == reported[s] \o Head(q).data
<1>1. /\ Public!Arrives(s, "publicTrade")
      /\ ~live => reported' = reported
      /\ live => reported' = [reported EXCEPT ![s] = all]
      /\ UNCHANGED <<status, bids, asks, book, top, past, printed, sequence, kept, missed>>
  BY DEF Public!PublicTrade, Public!exchange, Public!hist
<1>2. /\ q # <<>> /\ Head(q).topic = "publicTrade" /\ Head(q) \in Sent(past[s])
      /\ status[s] = "READY" /\ incoming'[s] = r /\ r \in Seq(Sent(past[s]))
      /\ DOMAIN incoming' = Symbols
      /\ \A u \in Symbols \ {s} : incoming'[u] = incoming[u]
  BY <1>1, Arrived
<1>3. /\ SymbolInv(s) /\ q \in Seq(Sent(past[s])) /\ past[s] \in Seq(Public!Books)
      /\ reported[s] \in Seq(Nat) /\ printed[s] \in Nat
  BY SymbolTypes
<1>4. /\ TopLeads(q, past[s], top[s]) /\ TradesLead(q, reported[s], missed[s], printed[s])
      /\ \E n \in 0 .. Len(past[s]) :
           /\ TellsAfter(q, past[s], n) /\ sequence[s] <= n + 1
           /\ ~Resets(q) => n >= 1 /\ (s \notin kept => book[s] = past[s][n])
  BY <1>2, <1>3 DEF SymbolInv
<1>5. TopLeads(r, past[s], top[s])
  <2>1. TopLeads(r, past[s], IF Head(q).topic = "ticker" THEN Head(q).top ELSE top[s])
    BY <1>2, <1>3, <1>4, TailTop
  <2> QED BY <1>2, <2>1
<1>6. Head(q).data \in Seq(Nat)  BY <1>2, <1>3, SentType
<1>7. /\ live => all \in Seq(Nat) /\ TradesLead(r, all, missed[s], printed[s])
      /\ ~live => TradesLead(r, reported[s], missed[s], printed[s])
  <2>1. CASE live  BY <1>2, <1>3, <1>4, <1>6, <2>1, TailTrades
  <2>2. CASE ~live  BY <1>2, <1>3, <1>4, <2>2, TailTradesOther
  <2> QED BY <2>1, <2>2
<1>8. \E n \in 0 .. Len(past[s]) :
        /\ TellsAfter(r, past[s], n) /\ sequence[s] <= n + 1
        /\ ~Resets(r) => n >= 1 /\ (s \notin kept => book[s] = past[s][n])
  <2>1. PICK n \in 0 .. Len(past[s]) :
          /\ TellsAfter(q, past[s], n) /\ sequence[s] <= n + 1
          /\ ~Resets(q) => n >= 1 /\ (s \notin kept => book[s] = past[s][n])
    BY <1>4
  <2>2. TellsAfter(r, past[s], n) /\ (Resets(q) => Resets(r))
    BY <1>2, <1>3, <2>1, TailTellsOther
  <2> QED BY <2>1, <2>2
<1> HIDE DEF q, r, live, all
<1>9. /\ TradesLead(r, reported'[s], missed[s], printed[s]) /\ reported' \in [Symbols -> Seq(Nat)]
      /\ \A u \in Symbols \ {s} : reported'[u] = reported[u]
  <2>1. reported \in [Symbols -> Seq(Nat)]  BY DEF MarketInv, MarketTypes
  <2>2. CASE live
    <3>1. reported' = [reported EXCEPT ![s] = all]  BY <1>1, <2>2
    <3>2. reported'[s] = all  BY <2>1, <3>1
    <3> QED BY <1>7, <2>1, <2>2, <3>1, <3>2
  <2>3. CASE ~live
    <3>1. reported' = reported  BY <1>1, <2>3
    <3> QED BY <1>7, <2>1, <2>3, <3>1
  <2> QED BY <2>2, <2>3
<1>10. SymbolInv(s)'  BY <1>1, <1>2, <1>3, <1>5, <1>8, <1>9 DEF SymbolInv
<1>11. MarketTypes'  BY <1>1, <1>2, <1>9 DEF MarketInv, MarketTypes
<1>12. \A u \in Symbols \ {s} : Rests(u)  BY <1>1, <1>2, <1>9 DEF Rests, MarketInv, MarketTypes
<1> QED BY <1>10, <1>11, <1>12, OthersRest

\* What a message with a book makes of the book b that is shown.
LEMMA MessageApplies ==
  ASSUME NEW p \in Seq(Public!Books), \A n \in 2 .. Len(p) : p[n - 1] # p[n],
         NEW m \in Sent(p), m.topic = "books", NEW b \in Public!Books,
         NEW c, c = Public!Applied(b, m.action, Public!Over(m.bids, m.asks))
  PROVE  /\ m.seq \in 1 .. Len(p) /\ m.action \in {"snapshot", "update"}
         /\ DOMAIN m.bids \subseteq Bids /\ DOMAIN m.asks \subseteq Asks
         /\ c \in Public!Books
         /\ m.action = "snapshot" =>
              /\ c = p[m.seq]
              /\ DOMAIN m.bids \cup DOMAIN m.asks = {} => p[m.seq] = Public!Empty
         /\ m.action = "update" =>
              /\ DOMAIN m.bids \cup DOMAIN m.asks # {}
              /\ b = p[m.seq - 1] => c = p[m.seq]
<1>1. /\ m.seq \in 1 .. Len(p)
      /\ \/ /\ m.action = "snapshot"
            /\ m.bids = Public!On(Bids, Public!Listed(p[m.seq]))
            /\ m.asks = Public!On(Asks, Public!Listed(p[m.seq]))
         \/ /\ m.action = "update" /\ m.seq >= 2
            /\ m.bids = Public!On(Bids, Public!Changes(p[m.seq - 1], p[m.seq]))
            /\ m.asks = Public!On(Asks, Public!Changes(p[m.seq - 1], p[m.seq]))
  BY SentType
<1>2. Len(p) \in Nat /\ p[m.seq] \in Public!Books  BY <1>1, LenProperties, ElementOfSeq
<1>3. CASE m.action = "snapshot"
  <2> DEFINE f == Public!Listed(p[m.seq])
  <2>1. /\ Public!Over(f, Public!Empty) = p[m.seq]
        /\ DOMAIN f \subseteq Public!Levels
        /\ DOMAIN f = {} => p[m.seq] = Public!Empty
    BY <1>2, SnapshotTells
  <2>2. f = [l \in DOMAIN f |-> f[l]]  BY DEF Public!Listed
  <2>3. m.bids = Public!On(Bids, f) /\ m.asks = Public!On(Asks, f)  BY <1>1, <1>3
  <2> HIDE DEF f
  <2>4. /\ Public!Over(m.bids, m.asks) = f
        /\ DOMAIN m.bids \cup DOMAIN m.asks = DOMAIN f
        /\ DOMAIN m.bids \subseteq Bids /\ DOMAIN m.asks \subseteq Asks
    BY <2>1, <2>2, <2>3, SidesMakeUp
  <2>5. c = Public!Over(f, Public!Empty)  BY <1>3, <2>4 DEF Public!Applied
  <2> QED BY <1>1, <1>2, <1>3, <2>1, <2>4, <2>5
<1>4. CASE m.action = "update"
  <2> DEFINE a == p[m.seq - 1]
             f == Public!Changes(a, p[m.seq])
  <2>0. m.seq \in 2 .. Len(p) /\ m.seq - 1 \in 1 .. Len(p)  BY <1>1, <1>2, <1>4
  <2>1. a \in Public!Books /\ a # p[m.seq]  BY <2>0, ElementOfSeq
  <2>2. /\ Public!Over(f, a) = p[m.seq]
        /\ DOMAIN f \subseteq Public!Levels /\ DOMAIN f # {}
    BY <1>2, <2>1, IncrementTells
  <2>3. /\ f = [l \in DOMAIN f |-> f[l]]
        /\ \A l \in DOMAIN f : f[l] = p[m.seq][l]
    BY DEF Public!Changes
  <2>4. m.bids = Public!On(Bids, f) /\ m.asks = Public!On(Asks, f)  BY <1>1, <1>4
  <2> HIDE DEF f
  <2>5. /\ Public!Over(m.bids, m.asks) = f
        /\ DOMAIN m.bids \cup DOMAIN m.asks = DOMAIN f
        /\ DOMAIN m.bids \subseteq Bids /\ DOMAIN m.asks \subseteq Asks
    BY <2>2, <2>3, <2>4, SidesMakeUp
  <2>6. c = Public!Over(f, b)  BY <1>4, <2>5 DEF Public!Applied
  <2>7. c \in Public!Books
    <3>1. \A l \in Public!Levels : b[l] \in 0 .. MaxLots /\ p[m.seq][l] \in 0 .. MaxLots
      BY <1>2, LevelsArePrices
    <3>2. DOMAIN b = Public!Levels  BY DEF Public!Books
    <3>3. DOMAIN f \cup DOMAIN b = Public!Levels  BY <2>2, <3>2
    <3>4. c = [l \in Public!Levels |-> IF l \in DOMAIN f THEN f[l] ELSE b[l]]
      BY <2>6, <3>3 DEF Public!Over
    <3>5. \A l \in Public!Levels : (IF l \in DOMAIN f THEN f[l] ELSE b[l]) \in 0 .. MaxLots
      BY <2>3, <3>1
    <3> QED BY <3>4, <3>5 DEF Public!Books
  <2> QED BY <1>1, <1>4, <2>2, <2>5, <2>6, <2>7
<1> QED BY <1>1, <1>3, <1>4

\* An update tells the book after the n-th, and the buffers are filled from the message
\* alone, so that other symbols' do not matter: an empty snapshot changes nothing, any
\* other puts that book in place of the one before, an increment does if the one before
\* was right.
LEMMA BookArrives ==
  ASSUME MarketInv, NEW s \in Symbols, Public!BooksUpdate(s)
  PROVE  \E n \in 0 .. Len(past[s]), c \in Public!Books :
           /\ n + 1 \in 1 .. Len(past[s]) /\ sequence[s] <= n + 1
           /\ TellsAfter(Tail(incoming[s]), past[s], n + 1) /\ ~Resets(Tail(incoming[s]))
           /\ \/ /\ past[s][n + 1] = Public!Empty
                 /\ kept' = IF book[s] # Public!Empty THEN kept \cup {s} ELSE kept
                 /\ UNCHANGED <<book, sequence>>
              \/ /\ book' = [book EXCEPT ![s] = c]
                 /\ sequence' = [sequence EXCEPT ![s] = n + 1]
                 /\ \/ kept' = kept \ {s} /\ c = past[s][n + 1]
                    \/ kept' = kept /\ (s \notin kept => c = past[s][n + 1])
<1> DEFINE q == incoming[s]
           r == Tail(q)
           p == past[s]
           m == Head(q)
           empty == DOMAIN m.bids \cup DOMAIN m.asks = {}
           c == Public!Applied(book[s], m.action, Public!Over(m.bids, m.asks))
<1>1. /\ Public!Arrives(s, "books") /\ bids' = m.bids /\ asks' = m.asks
      /\ UNCHANGED <<status, top, reported, past, printed, missed>>
      /\ empty => /\ kept' = IF m.action = "snapshot" /\ book[s] # Public!Empty
                             THEN kept \cup {s} ELSE kept
                  /\ book' = book /\ sequence' = sequence
      /\ ~empty => /\ kept' = IF m.action = "snapshot" THEN kept \ {s} ELSE kept
                   /\ book' = [book EXCEPT ![s] = c]
                   /\ sequence' = [sequence EXCEPT ![s] = m.seq]
  BY DEF Public!BooksUpdate, Public!Updated, Public!exchange
<1>2. /\ q # <<>> /\ m.topic = "books" /\ m \in Sent(p)
      /\ status[s] = "READY" /\ incoming'[s] = r /\ r \in Seq(Sent(p))
      /\ DOMAIN incoming' = Symbols
      /\ \A u \in Symbols \ {s} : incoming'[u] = incoming[u]
  BY <1>1, Arrived
<1>3. /\ SymbolInv(s) /\ q \in Seq(Sent(p)) /\ p \in Seq(Public!Books) /\ Len(p) \in Nat
      /\ book[s] \in Public!Books
  BY SymbolTypes
<1>4. /\ TopLeads(q, p, top[s]) /\ TradesLead(q, reported[s], missed[s], printed[s])
      /\ \A k \in 2 .. Len(p) : p[k - 1] # p[k]
      /\ sequence[s] \in 0 .. Len(p)
      /\ s \notin kept /\ sequence[s] > 0 => book[s] = p[sequence[s]]
  BY <1>2, <1>3 DEF SymbolInv
<1>5. PICK n \in 0 .. Len(p) :
        /\ TellsAfter(q, p, n) /\ sequence[s] <= n + 1
        /\ ~Resets(q) => n >= 1 /\ (s \notin kept => book[s] = p[n])
  BY <1>2, <1>3 DEF SymbolInv
<1>6. /\ m.seq = n + 1 /\ n + 1 \in 1 .. Len(p)
      /\ TellsAfter(r, p, n + 1) /\ ~Resets(r)
      /\ m.action = "snapshot" \/ ~Resets(q)
  BY <1>2, <1>3, <1>5, TailTells
<1>7. /\ m.action \in {"snapshot", "update"}
      /\ DOMAIN m.bids \subseteq Bids /\ DOMAIN m.asks \subseteq Asks
      /\ c \in Public!Books
      /\ m.action = "snapshot" => c = p[n + 1] /\ (empty => p[n + 1] = Public!Empty)
      /\ m.action = "update" => ~empty /\ (book[s] = p[n] => c = p[n + 1])
  <2>1. (n + 1) - 1 = n  BY <1>3
  <2>2. c = Public!Applied(book[s], m.action, Public!Over(m.bids, m.asks))  OBVIOUS
  <2> HIDE DEF m, c, p
  <2>3. /\ m.action \in {"snapshot", "update"}
        /\ DOMAIN m.bids \subseteq Bids /\ DOMAIN m.asks \subseteq Asks
        /\ c \in Public!Books
        /\ m.action = "snapshot" =>
             /\ c = p[m.seq]
             /\ DOMAIN m.bids \cup DOMAIN m.asks = {} => p[m.seq] = Public!Empty
        /\ m.action = "update" =>
             /\ DOMAIN m.bids \cup DOMAIN m.asks # {}
             /\ book[s] = p[m.seq - 1] => c = p[m.seq]
    BY <1>2, <1>3, <1>4, <2>2, MessageApplies
  <2> QED BY <1>6, <2>1, <2>3
<1> HIDE DEF q, r, m, empty, c
<1>8. CASE empty
  <2>1. m.action = "snapshot" /\ p[n + 1] = Public!Empty  BY <1>7, <1>8
  <2>2. /\ kept' = IF book[s] # Public!Empty THEN kept \cup {s} ELSE kept
        /\ UNCHANGED <<book, sequence>>
    BY <1>1, <1>8, <2>1
  <2> QED BY <1>5, <1>6, <1>7, <2>1, <2>2 DEF q, r
<1>9. CASE ~empty
  <2>1. /\ kept' = IF m.action = "snapshot" THEN kept \ {s} ELSE kept
        /\ book' = [book EXCEPT ![s] = c] /\ sequence' = [sequence EXCEPT ![s] = n + 1]
    BY <1>1, <1>6, <1>9
  <2>2. \/ kept' = kept \ {s} /\ c = p[n + 1]
        \/ kept' = kept /\ (s \notin kept => c = p[n + 1])
    <3>1. CASE m.action = "snapshot"  BY <1>7, <2>1, <3>1
    <3>2. CASE m.action = "update"
      <4>1. kept' = kept /\ ~Resets(q)  BY <1>6, <2>1, <3>2
      <4> QED BY <1>5, <1>7, <3>2, <4>1
    <3> QED BY <1>7, <3>1, <3>2
  <2> QED BY <1>5, <1>6, <1>7, <2>1, <2>2 DEF q, r
<1> QED BY <1>8, <1>9

LEMMA BooksUpdateKeeps ==
  ASSUME MarketInv, NEW s \in Symbols, Public!BooksUpdate(s)
  PROVE  MarketInv'
<1> DEFINE q == incoming[s]
           r == Tail(q)
           p == past[s]
           m == Head(q)
<1>1. /\ Public!Arrives(s, "books") /\ bids' = m.bids /\ asks' = m.asks
      /\ UNCHANGED <<status, top, reported, past, printed, missed>>
  BY DEF Public!BooksUpdate, Public!exchange
<1>2. /\ q # <<>> /\ m.topic = "books" /\ m \in Sent(p)
      /\ status[s] = "READY" /\ incoming'[s] = r /\ r \in Seq(Sent(p))
      /\ DOMAIN incoming' = Symbols
      /\ \A u \in Symbols \ {s} : incoming'[u] = incoming[u]
  BY <1>1, Arrived
<1>3. /\ SymbolInv(s) /\ q \in Seq(Sent(p)) /\ p \in Seq(Public!Books) /\ Len(p) \in Nat
      /\ book[s] \in Public!Books
  BY SymbolTypes
<1>4. /\ TopLeads(q, p, top[s]) /\ TradesLead(q, reported[s], missed[s], printed[s])
      /\ \A k \in 2 .. Len(p) : p[k - 1] # p[k]
      /\ sequence[s] \in 0 .. Len(p)
      /\ s \notin kept /\ sequence[s] > 0 => book[s] = p[sequence[s]]
  BY <1>2, <1>3 DEF SymbolInv
<1>5. PICK n \in 0 .. Len(p), c \in Public!Books :
        /\ n + 1 \in 1 .. Len(p) /\ sequence[s] <= n + 1
        /\ TellsAfter(r, p, n + 1) /\ ~Resets(r)
        /\ \/ /\ p[n + 1] = Public!Empty
              /\ kept' = IF book[s] # Public!Empty THEN kept \cup {s} ELSE kept
              /\ UNCHANGED <<book, sequence>>
           \/ /\ book' = [book EXCEPT ![s] = c]
              /\ sequence' = [sequence EXCEPT ![s] = n + 1]
              /\ \/ kept' = kept \ {s} /\ c = p[n + 1]
                 \/ kept' = kept /\ (s \notin kept => c = p[n + 1])
  BY BookArrives
<1>6. DOMAIN m.bids \subseteq Bids /\ DOMAIN m.asks \subseteq Asks
  <2>1. \A k \in 2 .. Len(p) : p[k - 1] # p[k]  BY <1>4
  <2> HIDE DEF m, p
  <2> QED BY <1>2, <1>3, <2>1, MessageApplies
<1>7. TopLeads(r, p, top[s])
  <2>1. TopLeads(r, p, IF m.topic = "ticker" THEN m.top ELSE top[s])
    BY <1>2, <1>3, <1>4, TailTop
  <2> QED BY <1>2, <2>1
<1>8. TradesLead(r, reported[s], missed[s], printed[s])
  BY <1>2, <1>3, <1>4, TailTradesOther
<1> HIDE DEF q, r, m
<1>9. /\ book' \in [Symbols -> Public!Books] /\ sequence' \in [Symbols -> Nat]
      /\ sequence'[s] \in 0 .. Len(p) /\ sequence'[s] <= n + 1
      /\ \A u \in Symbols \ {s} : /\ book'[u] = book[u] /\ sequence'[u] = sequence[u]
                                  /\ u \in kept' <=> u \in kept
      /\ s \notin kept' /\ sequence'[s] > 0 => book'[s] = p[sequence'[s]]
      /\ s \notin kept' => book'[s] = p[n + 1]
  <2>1. book \in [Symbols -> Public!Books] /\ sequence \in [Symbols -> Nat]
    BY DEF MarketInv, MarketTypes
  <2>2. n + 1 \in Nat /\ n + 1 \in 0 .. Len(p)  BY <1>3, <1>5
  <2>3. CASE /\ p[n + 1] = Public!Empty
             /\ kept' = IF book[s] # Public!Empty THEN kept \cup {s} ELSE kept
             /\ UNCHANGED <<book, sequence>>
    <3>1. s \notin kept' => s \notin kept /\ book[s] = Public!Empty  BY <2>3
    <3>2. \A u \in Symbols \ {s} : u \in kept' <=> u \in kept  BY <2>3
    <3> QED BY <1>4, <1>5, <2>1, <2>3, <3>1, <3>2
  <2>4. CASE /\ book' = [book EXCEPT ![s] = c]
             /\ sequence' = [sequence EXCEPT ![s] = n + 1]
             /\ \/ kept' = kept \ {s} /\ c = p[n + 1]
                \/ kept' = kept /\ (s \notin kept => c = p[n + 1])
    <3>1. book'[s] = c /\ sequence'[s] = n + 1  BY <2>1, <2>4
    <3>2. s \notin kept' => c = p[n + 1]  BY <2>4
    <3>3. book' \in [Symbols -> Public!Books] /\ sequence' \in [Symbols -> Nat]
      BY <2>1, <2>2, <2>4
    <3>4. \A u \in Symbols \ {s} : /\ book'[u] = book[u] /\ sequence'[u] = sequence[u]
                                   /\ u \in kept' <=> u \in kept
      BY <2>1, <2>4
    <3> QED BY <2>2, <3>1, <3>2, <3>3, <3>4
  <2> QED BY <1>5, <2>3, <2>4
<1>10. SymbolInv(s)'
  <2>1. /\ incoming'[s] = r /\ status'[s] = "READY" /\ past'[s] = p /\ top'[s] = top[s]
        /\ reported'[s] = reported[s] /\ missed'[s] = missed[s] /\ printed'[s] = printed[s]
    BY <1>1, <1>2
  <2>2. /\ n + 1 \in 0 .. Len(p) /\ n + 1 >= 1
        /\ sequence'[s] <= (n + 1) + 1
    BY <1>3, <1>5, <1>9
  <2>3. \E k \in 0 .. Len(p) :
          /\ TellsAfter(r, p, k) /\ sequence'[s] <= k + 1
          /\ ~Resets(r) => k >= 1 /\ (s \notin kept' => book'[s] = p[k])
    BY <1>5, <1>9, <2>2
  <2>4. Len(p) >= 1  BY <1>3 DEF SymbolInv
  <2> HIDE DEF p
  <2> QED BY <1>2, <1>4, <1>7, <1>8, <1>9, <2>1, <2>3, <2>4 DEF SymbolInv
<1>11. MarketTypes'  BY <1>1, <1>2, <1>6, <1>9 DEF MarketInv, MarketTypes
<1>12. \A u \in Symbols \ {s} : Rests(u)
  BY <1>1, <1>2, <1>9 DEF Rests
<1> QED BY <1>10, <1>11, <1>12, OthersRest

\* The increment and the ticker of a change join the queue one after the other.
LEMMA TwoMore ==
  ASSUME NEW S, NEW q \in Seq(S), NEW x \in S, NEW y \in S
  PROVE  q \o <<x, y>> = Append(Append(q, x), y)
<1> DEFINE z == <<x, y>>
           r == Append(q, x)
<1>1. z \in Seq(S) /\ Len(z) = 2 /\ z[1] = x /\ z[2] = y  OBVIOUS
<1> HIDE DEF z
<1>2. /\ q \o z \in Seq(S) /\ Len(q \o z) = Len(q) + 2 /\ Len(q) \in Nat
      /\ \A i \in 1 .. Len(q) + 2 : (q \o z)[i] = IF i <= Len(q) THEN q[i] ELSE z[i - Len(q)]
  <2>1. Len(q) \in Nat  BY LenProperties
  <2>2. q \o z \in Seq(S)  BY <1>1, ConcatProperties
  <2>3. Len(q \o z) = Len(q) + Len(z)  BY <1>1, ConcatProperties
  <2>4. \A i \in 1 .. Len(q) + Len(z) :
          (q \o z)[i] = IF i <= Len(q) THEN q[i] ELSE z[i - Len(q)]
    BY <1>1, ConcatProperties
  <2> QED BY <1>1, <2>1, <2>2, <2>3, <2>4
<1>3. /\ r \in Seq(S) /\ Len(r) = Len(q) + 1 /\ r[Len(q) + 1] = x
      /\ \A i \in 1 .. Len(q) : r[i] = q[i]
  BY AppendProperties
<1> HIDE DEF r
<1>4. /\ Append(r, y) \in Seq(S) /\ Len(Append(r, y)) = Len(q) + 2
      /\ Append(r, y)[Len(q) + 2] = y
      /\ \A i \in 1 .. Len(q) + 1 : Append(r, y)[i] = r[i]
  BY <1>2, <1>3, AppendProperties
<1>5. ASSUME NEW i \in 1 .. Len(q) + 2 PROVE (q \o z)[i] = Append(r, y)[i]
  <2>1. CASE i \in 1 .. Len(q)  BY <1>2, <1>3, <1>4, <2>1
  <2>2. CASE i = Len(q) + 1
    <3>1. i - Len(q) = 1 /\ ~(i <= Len(q)) /\ i \in 1 .. Len(q) + 1  BY <1>2, <2>2
    <3> QED BY <1>1, <1>2, <1>3, <1>4, <2>2, <3>1
  <2>3. CASE i = Len(q) + 2
    <3>1. i - Len(q) = 2 /\ ~(i <= Len(q))  BY <1>2, <2>3
    <3> QED BY <1>1, <1>2, <1>4, <2>3, <3>1
  <2>4. Len(q) \in Nat  BY LenProperties
  <2>5. i \in 1 .. Len(q) \/ i = Len(q) + 1 \/ i = Len(q) + 2  BY <2>4
  <2> QED BY <2>1, <2>2, <2>3, <2>5
<1>6. q \o z = Append(r, y)  BY <1>2, <1>4, <1>5, SeqEqual
<1> QED BY <1>6 DEF z, r

\* The books so far are left alone by the one that follows them.
LEMMA PastGrows ==
  ASSUME NEW p \in Seq(Public!Books), Len(p) >= 1, NEW b \in Public!Books, b # p[Len(p)],
         \A n \in 2 .. Len(p) : p[n - 1] # p[n], NEW r, r = Append(p, b)
  PROVE  /\ r \in Seq(Public!Books) /\ Len(r) = Len(p) + 1 /\ Len(r) >= 1
         /\ \A n \in 1 .. Len(p) : r[n] = p[n]
         /\ r[Len(r)] = b
         /\ \A n \in 2 .. Len(r) : r[n - 1] # r[n]
<1>1. /\ r \in Seq(Public!Books) /\ Len(p) \in Nat /\ Len(r) = Len(p) + 1
      /\ \A n \in 1 .. Len(p) : r[n] = p[n]
      /\ r[Len(p) + 1] = b
  BY AppendKeeps
<1>2. ASSUME NEW n \in 2 .. Len(r) PROVE r[n - 1] # r[n]
  <2>1. CASE n \in 2 .. Len(p)
    <3>1. n \in 1 .. Len(p) /\ n - 1 \in 1 .. Len(p)  BY <1>1, <2>1
    <3>2. r[n] = p[n] /\ r[n - 1] = p[n - 1]  BY <1>1, <3>1
    <3> QED BY <2>1, <3>2
  <2>2. CASE n = Len(p) + 1
    <3>1. n - 1 = Len(p) /\ Len(p) \in 1 .. Len(p)  BY <1>1, <2>2
    <3> QED BY <1>1, <2>2, <3>1
  <2> QED BY <1>1, <2>1, <2>2
<1> QED BY <1>1, <1>2

LEMMA ChangeKeepsMarket ==
  ASSUME MarketInv, NEW s \in Symbols, NEW b \in Public!Books, Public!Change(s, b)
  PROVE  MarketInv'
<1> DEFINE q == incoming[s]
           p == past[s]
           r == Append(p, b)
           x == Public!BooksMessage("update", Public!Changes(Public!Now(s), b), Len(p) + 1)
           y == Public!TickerMessage(b)
           t == Append(Append(q, x), y)
<1>1. /\ b # Public!Now(s) /\ past' = [past EXCEPT ![s] = r]
      /\ status[s] # "READY" => incoming' = incoming
      /\ status[s] = "READY" => incoming' = [incoming EXCEPT ![s] = q \o <<x, y>>]
      /\ UNCHANGED <<status, bids, asks, trades, book, top, reported, printed, sequence, kept,
                     missed>>
  BY DEF Public!Change, Public!buffers, Public!clients, Public!hist
<1>2. /\ p \in Seq(Public!Books) /\ Len(p) \in Nat /\ Len(p) >= 1
      /\ Public!Now(s) = p[Len(p)] /\ q \in Seq(Sent(p)) /\ SymbolInv(s)
  BY SymbolTypes
<1>3. /\ \A k \in 2 .. Len(p) : p[k - 1] # p[k]
      /\ sequence[s] \in 0 .. Len(p)
      /\ s \notin kept /\ sequence[s] > 0 => book[s] = p[sequence[s]]
      /\ TradesLead(q, reported[s], missed[s], printed[s])
  BY <1>2 DEF SymbolInv
<1>4. /\ r \in Seq(Public!Books) /\ Len(r) = Len(p) + 1 /\ Len(r) >= 1
      /\ \A k \in 1 .. Len(p) : r[k] = p[k]
      /\ r[Len(r)] = b
      /\ \A k \in 2 .. Len(r) : r[k - 1] # r[k]
  BY <1>1, <1>2, <1>3, PastGrows
<1>5. /\ Sent(p) \subseteq Sent(r) /\ x \in Sent(r) /\ y \in Sent(r)
  BY <1>2, SentGrows
<1>6. /\ q \in Seq(Sent(r)) /\ Append(q, x) \in Seq(Sent(r)) /\ t \in Seq(Sent(r))
      /\ q \o <<x, y>> = t
  <2>1. q \in Seq(Sent(r))  BY <1>2, <1>5, SeqGrows
  <2> HIDE DEF q, r, x, y
  <2>2. Append(q, x) \in Seq(Sent(r))  BY <1>5, <2>1, AppendProperties
  <2>3. t \in Seq(Sent(r))  BY <1>5, <2>2, AppendProperties
  <2>4. q \o <<x, y>> = t  BY <1>5, <2>1, TwoMore
  <2> QED BY <2>1, <2>2, <2>3, <2>4
<1>7. /\ x.topic = "books" /\ x.action = "update" /\ x.seq = Len(p) + 1
      /\ y.topic = "ticker" /\ y.top = Public!Top(r[Len(r)])
  BY <1>4 DEF Public!BooksMessage, Public!TickerMessage
<1> HIDE DEF q, x, y
<1>8. TopLeads(t, r, top[s])
  <2> HIDE DEF r
  <2> QED BY <1>5, <1>6, <1>7, AppendTop
<1>9. TradesLead(t, reported[s], missed[s], printed[s])
  <2> HIDE DEF r
  <2>1. TradesLead(Append(q, x), reported[s], missed[s], printed[s])
    BY <1>3, <1>5, <1>6, <1>7, AppendTradesOther
  <2> QED BY <1>5, <1>6, <1>7, <2>1, AppendTradesOther
<1>10. ASSUME status[s] = "READY"
       PROVE  \E n \in 0 .. Len(r) :
                /\ TellsAfter(t, r, n) /\ sequence[s] <= n + 1
                /\ ~Resets(t) => n >= 1 /\ (s \notin kept => book[s] = r[n])
  <2>1. PICK n \in 0 .. Len(p) :
          /\ TellsAfter(q, p, n) /\ sequence[s] <= n + 1
          /\ ~Resets(q) => n >= 1 /\ (s \notin kept => book[s] = p[n])
    BY <1>2, <1>10 DEF SymbolInv, q
  <2>2. /\ TellsAfter(Append(q, x), r, n)
        /\ Resets(q) => Resets(Append(q, x))
    BY <1>2, <1>5, <1>6, <1>7, <2>1, AppendTells
  <2>3. /\ TellsAfter(t, r, n)
        /\ Resets(Append(q, x)) => Resets(t)
    BY <1>5, <1>6, <1>7, <2>2, AppendTellsOther
  <2>4. n \in 0 .. Len(r) /\ (n >= 1 => r[n] = p[n])
    BY <1>2, <1>4
  <2> QED BY <2>1, <2>2, <2>3, <2>4
<1> HIDE DEF r, t, p
<1>11. /\ past'[s] = r /\ past' \in [Symbols -> Seq(Public!Books)]
       /\ \A u \in Symbols \ {s} : past'[u] = past[u]
  BY <1>1, <1>4 DEF MarketInv, MarketTypes
<1>12. /\ DOMAIN incoming' = Symbols
       /\ \A u \in Symbols \ {s} : incoming'[u] = incoming[u]
       /\ IF status[s] = "READY" THEN incoming'[s] = t ELSE incoming'[s] = q
  <2>1. DOMAIN incoming = Symbols  BY DEF MarketInv, MarketTypes
  <2>2. CASE status[s] = "READY"  BY <1>1, <1>6, <2>1, <2>2
  <2>3. CASE status[s] # "READY"  BY <1>1, <2>1, <2>3 DEF q
  <2> QED BY <2>2, <2>3
<1>13. SymbolInv(s)'
  <2>1. sequence[s] \in 0 .. Len(r)  BY <1>2, <1>3, <1>4
  <2>2. s \notin kept /\ sequence[s] > 0 => book[s] = r[sequence[s]]
    BY <1>2, <1>3, <1>4
  <2>3. CASE status[s] = "READY"
    <3>1. incoming'[s] = t  BY <1>12, <2>3
    <3> QED BY <1>1, <1>4, <1>6, <1>8, <1>9, <1>10, <1>11, <2>1, <2>2, <2>3, <3>1 DEF SymbolInv
  <2>4. CASE status[s] # "READY"
    <3>1. incoming'[s] = q /\ q = <<>>  BY <1>2, <1>12, <2>4 DEF SymbolInv, q
    <3> QED BY <1>1, <1>3, <1>4, <1>6, <1>11, <2>1, <2>2, <2>4, <3>1 DEF SymbolInv
  <2> QED BY <2>3, <2>4
<1>14. MarketTypes'  BY <1>1, <1>11, <1>12 DEF MarketInv, MarketTypes
<1>15. \A u \in Symbols \ {s} : Rests(u)
  BY <1>1, <1>11, <1>12 DEF Rests
<1> QED BY <1>13, <1>14, <1>15, OthersRest

LEMMA TradeKeeps ==
  ASSUME MarketInv, NEW s \in Symbols, NEW n \in 1 .. MaxBatch, Public!Trade(s, n)
  PROVE  MarketInv'
<1> DEFINE q == incoming[s]
           p == past[s]
           data == [i \in 1 .. n |-> printed[s] + i]
           x == Public!TradeMessage("update", data)
           new == {printed[s] + i : i \in 1 .. n}
<1>1. /\ printed' = [printed EXCEPT ![s] = @ + n]
      /\ status[s] = "READY" => /\ incoming' = [incoming EXCEPT ![s] = Append(@, x)]
                                /\ missed' = missed
      /\ status[s] # "READY" => /\ incoming' = incoming
                                /\ missed' = [missed EXCEPT ![s] = @ \cup new]
      /\ UNCHANGED <<status, bids, asks, trades, book, top, reported, past, sequence, kept>>
  <2>1. {data[i] : i \in 1 .. n} = new  OBVIOUS
  <2> QED BY <2>1 DEF Public!Trade, Public!buffers, Public!clients
<1>2. /\ q \in Seq(Sent(p)) /\ SymbolInv(s) /\ printed[s] \in Nat
  BY SymbolTypes
<1>3. TradesLead(q, reported[s], missed[s], printed[s])  BY <1>2 DEF SymbolInv
<1>4. n \in Nat /\ printed[s] + n \in Nat  BY <1>2, MarketAssumption
<1>5. data \in Seq(Nat)  BY <1>2, <1>4
<1>6. x \in Sent(p) /\ x.topic = "publicTrade"
  <2>1. x \in Sent(p)  BY <1>5, TradeSent
  <2> QED BY <2>1 DEF Public!TradeMessage
<1>7. Append(q, x) \in Seq(Sent(p))  BY <1>2, <1>6, AppendProperties
<1>8. TradesLead(Append(q, x), reported[s], missed[s], printed[s] + n)
  <2>1. x = Public!TradeMessage("update", [i \in 1 .. n |-> printed[s] + i])  OBVIOUS
  <2> HIDE DEF x, q
  <2> QED BY <1>2, <1>3, <1>4, <1>6, <2>1, AppendTrades
<1>9. q = <<>> => TradesLead(<<>>, reported[s], missed[s] \cup new, printed[s] + n)
  BY <1>2, <1>3, <1>4, MissTrades
<1> HIDE DEF data, x, new
<1>10. /\ printed'[s] = printed[s] + n /\ printed' \in [Symbols -> Nat]
       /\ \A u \in Symbols \ {s} : printed'[u] = printed[u]
  BY <1>1, <1>4 DEF MarketInv, MarketTypes
<1>11. /\ DOMAIN incoming = Symbols /\ DOMAIN missed = Symbols
  BY DEF MarketInv, MarketTypes
<1>12. CASE status[s] = "READY"
  <2>1. /\ DOMAIN incoming' = Symbols /\ incoming'[s] = Append(q, x) /\ missed' = missed
        /\ \A u \in Symbols \ {s} : incoming'[u] = incoming[u]
    BY <1>1, <1>11, <1>12
  <2>2. TopLeads(Append(q, x), p, top[s])
    <3>1. TopLeads(q, p, top[s])  BY <1>2, <1>12 DEF SymbolInv
    <3>2. x.topic # "ticker"  BY <1>6
    <3> QED BY <1>2, <1>6, <3>1, <3>2, AppendTop
  <2>3. \E k \in 0 .. Len(p) :
          /\ TellsAfter(Append(q, x), p, k) /\ sequence[s] <= k + 1
          /\ ~Resets(Append(q, x)) => k >= 1 /\ (s \notin kept => book[s] = p[k])
    <3>1. PICK k \in 0 .. Len(p) :
            /\ TellsAfter(q, p, k) /\ sequence[s] <= k + 1
            /\ ~Resets(q) => k >= 1 /\ (s \notin kept => book[s] = p[k])
      BY <1>2, <1>12 DEF SymbolInv
    <3>2. x.topic # "books"  BY <1>6
    <3>3. TellsAfter(Append(q, x), p, k) /\ (Resets(q) => Resets(Append(q, x)))
      BY <1>2, <1>6, <3>1, <3>2, AppendTellsOther
    <3> QED BY <3>1, <3>3
  <2> HIDE DEF q
  <2>4. SymbolInv(s)'
    BY <1>1, <1>2, <1>7, <1>8, <1>10, <1>12, <2>1, <2>2, <2>3 DEF SymbolInv
  <2>5. MarketTypes'  BY <1>1, <1>10, <1>11, <2>1 DEF MarketInv, MarketTypes
  <2>6. \A u \in Symbols \ {s} : Rests(u)  BY <1>1, <1>10, <2>1 DEF Rests
  <2> QED BY <2>4, <2>5, <2>6, OthersRest
<1>13. CASE status[s] # "READY"
  <2>1. /\ incoming' = incoming /\ DOMAIN missed' = Symbols
        /\ missed'[s] = missed[s] \cup new
        /\ \A u \in Symbols \ {s} : missed'[u] = missed[u]
    BY <1>1, <1>11, <1>13
  <2>2. q = <<>>  BY <1>2, <1>13 DEF SymbolInv
  <2>3. SymbolInv(s)'
    BY <1>1, <1>2, <1>9, <1>10, <1>13, <2>1, <2>2 DEF SymbolInv
  <2>4. MarketTypes'  BY <1>1, <1>10, <1>11, <2>1 DEF MarketInv, MarketTypes
  <2>5. \A u \in Symbols \ {s} : Rests(u)  BY <1>1, <1>10, <2>1 DEF Rests
  <2> QED BY <2>3, <2>4, <2>5, OthersRest
<1> QED BY <1>12, <1>13

LEMMA MarketNext == MarketInv /\ [Public!Next]_(Public!vars) => MarketInv'
<1> SUFFICES ASSUME MarketInv, [Public!Next]_(Public!vars) PROVE MarketInv'
  OBVIOUS
<1>1. ASSUME NEW s \in Symbols, Public!Ready(s) PROVE MarketInv'
  BY <1>1, ReadyKeeps
<1>2. ASSUME NEW s \in Symbols, Public!Disconnected(s) PROVE MarketInv'
  BY <1>2, LostKeeps
<1>3. ASSUME NEW s \in Symbols, Public!Ticker(s) PROVE MarketInv'
  BY <1>3, TickerKeeps
<1>4. ASSUME NEW s \in Symbols, Public!PublicTrade(s) PROVE MarketInv'
  BY <1>4, PublicTradeKeeps
<1>5. ASSUME NEW s \in Symbols, Public!BooksUpdate(s) PROVE MarketInv'
  BY <1>5, BooksUpdateKeeps
<1>6. ASSUME NEW s \in Symbols, NEW b \in Public!Books, Public!Change(s, b) PROVE MarketInv'
  BY <1>6, ChangeKeepsMarket
<1>7. ASSUME NEW s \in Symbols, NEW n \in 1 .. MaxBatch, Public!Trade(s, n) PROVE MarketInv'
  BY <1>7, TradeKeeps
<1>8. CASE UNCHANGED Public!vars
  <2>1. UNCHANGED <<status, incoming, bids, asks, book, top, reported, past, printed,
                    sequence, kept, missed>>
    BY <1>8 DEF Public!vars, Public!buffers, Public!clients, Public!exchange, Public!hist
  <2>2. MarketTypes'  BY <2>1 DEF MarketInv, MarketTypes
  <2>3. ASSUME NEW s \in Symbols PROVE SymbolInv(s)'
    <3>1. SymbolInv(s)  BY DEF MarketInv
    <3> QED BY <2>1, <3>1 DEF SymbolInv
  <2> QED BY <2>2, <2>3 DEF MarketInv
<1> QED BY <1>1, <1>2, <1>3, <1>4, <1>5, <1>6, <1>7, <1>8 DEF Public!Next

\* What the invariant says of what clients are shown.
LEMMA MarketShows == MarketInv => Public!TypeOK /\ Public!BookIsReal /\ TopAgrees /\ TradesOnce
<1> SUFFICES ASSUME MarketInv PROVE Public!TypeOK /\ Public!BookIsReal /\ TopAgrees /\ TradesOnce
  OBVIOUS
<1>1. \A s \in Symbols : SymbolInv(s)  BY DEF MarketInv
<1>2. Public!TypeOK
  <2>1. \A s \in Symbols : \A i \in DOMAIN reported[s] : reported[s][i] \in 1 .. printed[s]
    BY <1>1 DEF SymbolInv, TradesLead
  <2>2. \A s \in Symbols : sequence[s] \in 0 .. Len(past[s])  BY <1>1 DEF SymbolInv
  <2> QED BY <2>1, <2>2 DEF MarketInv, MarketTypes, Public!TypeOK
<1>3. Public!BookIsReal  BY <1>1 DEF SymbolInv, Public!BookIsReal
<1>4. DOMAIN <<>> = {} /\ \A topic : With(<<>>, topic) = {}
  <2>1. DOMAIN <<>> = {}  OBVIOUS
  <2> QED BY <2>1 DEF With
<1>5. TopAgrees
  <2> SUFFICES ASSUME NEW s \in Symbols \ kept, status[s] = "READY", incoming[s] = <<>>
               PROVE  top[s] = Public!Top(book[s])
    BY DEF TopAgrees, Public!TopAgrees
  <2>1. PICK n \in 0 .. Len(past[s]) :
          /\ TellsAfter(incoming[s], past[s], n)
          /\ ~Resets(incoming[s]) => n >= 1 /\ (s \notin kept => book[s] = past[s][n])
    BY <1>1 DEF SymbolInv
  <2>2. ~Resets(incoming[s])  BY <1>4 DEF Resets
  <2>3. n + 1 .. Len(past[s]) = {}
    BY <1>4, <2>1 DEF TellsAfter
  <2>4. Len(past[s]) \in Nat  BY SymbolTypes
  <2>5. n = Len(past[s])
    <3>1. ~(n + 1 <= Len(past[s]))  BY <2>3, <2>4
    <3> QED BY <2>4, <3>1
  <2>6. book[s] = past[s][Len(past[s])]  BY <2>1, <2>2, <2>5
  <2>7. TopLeads(incoming[s], past[s], top[s])  BY <1>1 DEF SymbolInv
  <2> QED BY <1>4, <2>6, <2>7 DEF TopLeads
<1>6. TradesOnce
  <2> SUFFICES ASSUME NEW s \in Symbols
               PROVE  /\ \A i, k \in DOMAIN reported[s] :
                           i < k => reported[s][i] < reported[s][k]
                      /\ incoming[s] = <<>> =>
                           1 .. printed[s] =
                             missed[s] \cup {reported[s][i] : i \in DOMAIN reported[s]}
                      /\ \A i \in DOMAIN reported[s] : reported[s][i] \notin missed[s]
    BY DEF TradesOnce, Public!TradesOnce
  <2>1. TradesLead(incoming[s], reported[s], missed[s], printed[s])  BY <1>1 DEF SymbolInv
  <2>2. /\ \A i, k \in DOMAIN reported[s] : i < k => reported[s][i] < reported[s][k]
        /\ \A i \in DOMAIN reported[s] :
             reported[s][i] \in 1 .. printed[s] /\ reported[s][i] \notin missed[s]
        /\ missed[s] \subseteq 1 .. printed[s]
    BY <2>1 DEF TradesLead
  <2>3. ASSUME incoming[s] = <<>>, NEW c \in 1 .. printed[s]
        PROVE  c \in missed[s] \/ \E i \in DOMAIN reported[s] : reported[s][i] = c
    BY <2>1, <2>3, NothingLive DEF TradesLead
  <2> QED BY <2>2, <2>3
<1> QED BY <1>2, <1>3, <1>5, <1>6

-----------------------------------------------------------------------------
(* The two together *)

\* A step of the two is a step of each, or leaves it alone.
LEMMA StreamsStep ==
  [StreamsNext]_<<public, vars, market>> => [Next]_vars /\ [Public!Next]_(Public!vars)
<1> SUFFICES ASSUME [StreamsNext]_<<public, vars, market>>
             PROVE  [Next]_vars /\ [Public!Next]_(Public!vars)
  OBVIOUS
<1>1. UNCHANGED market => UNCHANGED Public!vars
  BY DEF market, Public!vars, Public!buffers, Public!clients, Public!exchange, Public!hist
<1>2. CASE public /\ Public!Next /\ UNCHANGED <<public, vars>>  BY <1>2
<1>3. CASE ~public /\ Next /\ UNCHANGED <<public, market>>  BY <1>1, <1>3
<1>4. CASE UNCHANGED <<public, vars, market>>  BY <1>1, <1>4
<1> QED BY <1>2, <1>3, <1>4 DEF StreamsNext

\* The composition implements both of its parts: what clients are shown of their account
\* (FundsUpdate, PositionUpdate) is what Holdings allows, and what they are shown of the
\* market (TopOfBook, TradeSummary, MarketByPriceUpdate) what PublicData allows.
THEOREM StreamsAreBoth == StreamsSpec => Spec /\ Public!Spec
<1>1. StreamsInit => Init /\ Public!Init  BY DEF StreamsInit
<1> QED BY <1>1, StreamsStep, PTL DEF StreamsSpec, Spec, Public!Spec

\* Behind what MarketData shows: in every state of it, for each symbol, the queue of its
\* connection tells the books, tops and trades that follow the ones that are shown.
THEOREM MarketCorrect == Public!Spec => []MarketInv
<1> QED BY MarketInit, MarketNext, PTL DEF Public!Spec

\* Books, tops, sides and quantities stay well-formed, no trade is reported that was not
\* printed, and no book has a sequence number that is yet to come.
THEOREM StreamsTypesCorrect == StreamsSpec => []TypesOK
<1>1. MarketInv => Public!TypeOK  BY MarketShows
<1>2. TypeOK /\ Public!TypeOK => TypesOK  BY DEF TypesOK
<1> QED BY StreamsAreBoth, TypeCorrect, MarketCorrect, <1>1, <1>2, PTL

\* MarketData::operator()(Books) shows a book the exchange had, the one of its sequence
\* number, through reconnects, changes of any number of levels and of their quantities,
\* and updates of other connections in the same buffers; but for the levels that stay
\* after a snapshot without any.
THEOREM BookCorrect == StreamsSpec => []Public!BookIsReal
<1>1. MarketInv => Public!BookIsReal  BY MarketShows
<1> QED BY StreamsAreBoth, MarketCorrect, <1>1, PTL

\* MarketData::operator()(Ticker) and operator()(Books) show the same best prices once all
\* messages have arrived, however tickers and books were interleaved.
THEOREM TopCorrect == StreamsSpec => []TopAgrees
<1>1. MarketInv => TopAgrees  BY MarketShows
<1> QED BY StreamsAreBoth, MarketCorrect, <1>1, PTL

\* MarketData::operator()(PublicTrade) reports every trade in its place and once, unless
\* it was printed while the symbol was not streamed or was lost with the connection.
THEOREM TradesCorrect == StreamsSpec => []TradesOnce
<1>1. MarketInv => TradesOnce  BY MarketShows
<1> QED BY StreamsAreBoth, MarketCorrect, <1>1, PTL

-----------------------------------------------------------------------------
(* The refinement of MarketView *)

\* An update shows the book it tells, leaves what is left over where it must, or nothing.
LEMMA UpdateIsShow ==
  ASSUME MarketInv, NEW s \in Symbols, Public!BooksUpdate(s)
  PROVE  View!Show(s) \/ View!Spoil(s) \/ UNCHANGED View!vars
<1>1. UNCHANGED <<past, printed, reported>>  BY DEF Public!BooksUpdate, Public!exchange
<1>2. PICK n \in 0 .. Len(past[s]), c \in Public!Books :
        /\ n + 1 \in 1 .. Len(past[s]) /\ sequence[s] <= n + 1
        /\ TellsAfter(Tail(incoming[s]), past[s], n + 1) /\ ~Resets(Tail(incoming[s]))
        /\ \/ /\ past[s][n + 1] = Public!Empty
              /\ kept' = IF book[s] # Public!Empty THEN kept \cup {s} ELSE kept
              /\ UNCHANGED <<book, sequence>>
           \/ /\ book' = [book EXCEPT ![s] = c]
              /\ sequence' = [sequence EXCEPT ![s] = n + 1]
              /\ \/ kept' = kept \ {s} /\ c = past[s][n + 1]
                 \/ kept' = kept /\ (s \notin kept => c = past[s][n + 1])
  BY BookArrives
<1> DEFINE k == n + 1
<1>3. k \in 1 .. Len(past[s]) /\ sequence[s] \in Nat /\ k \in Nat /\ k >= sequence[s]
  BY <1>2, SymbolTypes DEF MarketInv, MarketTypes
<1>4. CASE /\ past[s][k] = Public!Empty
           /\ kept' = IF book[s] # Public!Empty THEN kept \cup {s} ELSE kept
           /\ UNCHANGED <<book, sequence>>
  <2>1. CASE book[s] # Public!Empty /\ s \notin kept
    <3> HIDE DEF k
    <3>1. \E j \in 1 .. Len(past[s]) : j >= sequence[s] /\ past[s][j] = Public!Empty
      BY <1>3, <1>4
    <3>2. kept' = kept \cup {s}  BY <1>4, <2>1
    <3> QED BY <1>1, <1>4, <2>1, <3>1, <3>2 DEF View!Spoil
  <2>2. CASE book[s] = Public!Empty \/ s \in kept
    <3>1. kept' = kept  BY <1>4, <2>2
    <3> QED BY <1>1, <1>4, <3>1 DEF View!vars
  <2> QED BY <2>1, <2>2
<1>5. CASE /\ book' = [book EXCEPT ![s] = c]
           /\ sequence' = [sequence EXCEPT ![s] = k]
           /\ \/ kept' = kept \ {s} /\ c = past[s][k]
              \/ kept' = kept /\ (s \notin kept => c = past[s][k])
  <2>1. book'[s] = c /\ c \in Public!Books
    BY <1>5 DEF MarketInv, MarketTypes
  <2>2. \/ book' = [book EXCEPT ![s] = past[s][k]] /\ kept' = kept \ {s}
        \/ s \in kept /\ book'[s] \in Public!Books /\ kept' = kept
           /\ book' = [book EXCEPT ![s] = book'[s]]
    <3>1. CASE kept' = kept \ {s} /\ c = past[s][k]  BY <1>5, <3>1
    <3>2. CASE kept' = kept /\ s \notin kept /\ c = past[s][k]
      <4>1. kept' = kept \ {s}  BY <3>2
      <4> QED BY <1>5, <3>2, <4>1
    <3>3. CASE kept' = kept /\ s \in kept  BY <1>5, <2>1, <3>3
    <3> QED BY <1>5, <3>1, <3>2, <3>3
  <2> HIDE DEF k
  <2> QED BY <1>1, <1>3, <1>5, <2>2 DEF View!Show
<1> QED BY <1>2, <1>4, <1>5

\* Trades are told that follow the ones before, or none.
LEMMA TradesAreTold ==
  ASSUME MarketInv, NEW s \in Symbols, Public!PublicTrade(s)
  PROVE  View!Tell(s) \/ UNCHANGED View!vars
<1> DEFINE d == Head(incoming[s]).data
           all == reported[s] \o d
           live == Head(incoming[s]).action = "update"
<1>1. /\ Public!Arrives(s, "publicTrade")
      /\ ~live => reported' = reported
      /\ live => reported' = [reported EXCEPT ![s] = all]
      /\ UNCHANGED <<past, printed, book, sequence, kept>>
  BY DEF Public!PublicTrade, Public!exchange, Public!hist
<1>2. /\ incoming[s] # <<>> /\ Head(incoming[s]).topic = "publicTrade"
      /\ Head(incoming[s]) \in Sent(past[s])
  BY <1>1, Arrived
<1>3. /\ SymbolInv(s) /\ incoming[s] \in Seq(Sent(past[s])) /\ past[s] \in Seq(Public!Books)
      /\ reported[s] \in Seq(Nat) /\ printed[s] \in Nat
  BY SymbolTypes
<1>4. TradesLead(incoming[s], reported[s], missed[s], printed[s])  BY <1>3 DEF SymbolInv
<1>5. d \in Seq(Nat)  BY <1>2, <1>3, SentType
<1>6. CASE ~live
  <2>1. reported' = reported  BY <1>1, <1>6
  <2> QED BY <1>1, <2>1 DEF View!vars
<1>7. CASE live
  <2>1. all \in Seq(Nat) /\ TradesLead(Tail(incoming[s]), all, missed[s], printed[s])
    BY <1>2, <1>3, <1>4, <1>5, <1>7, TailTrades
  <2>2. /\ Len(all) = Len(reported[s]) + Len(d)
        /\ \A i \in 1 .. Len(reported[s]) + Len(d) :
             all[i] = IF i <= Len(reported[s]) THEN reported[s][i] ELSE d[i - Len(reported[s])]
    BY <1>3, <1>5, ConcatProperties
  <2>3. Len(reported[s]) \in Nat /\ Len(d) \in Nat /\ DOMAIN all = 1 .. Len(all)
    BY <1>3, <1>5, <2>1, LenProperties
  <2> HIDE DEF all, d
  <2>4. Len(all) >= Len(reported[s]) /\ \A i \in 1 .. Len(reported[s]) : all[i] = reported[s][i]
    BY <2>2, <2>3
  <2>5. ASSUME NEW i \in 1 .. Len(all)
        PROVE  all[i] \in 1 .. printed[s] /\ \A j \in 1 .. i - 1 : all[j] < all[i]
    <3>1. \A j \in 1 .. i - 1 : j \in DOMAIN all /\ i \in DOMAIN all /\ j < i  BY <2>2, <2>3
    <3>2. i \in DOMAIN all  BY <2>3
    <3> QED BY <2>1, <3>1, <3>2 DEF TradesLead
  <2>6. reported' = [reported EXCEPT ![s] = all]  BY <1>1, <1>7
  <2>7. reported'[s] = all  BY <2>6 DEF MarketInv, MarketTypes
  <2> QED BY <1>1, <2>4, <2>5, <2>6, <2>7 DEF View!Tell
<1> QED BY <1>6, <1>7

\* Every step of the market is one of the view, or shows nothing.
LEMMA ViewNext ==
  MarketInv /\ [Public!Next]_(Public!vars) => [View!Next]_(View!vars)
<1> SUFFICES ASSUME MarketInv, [Public!Next]_(Public!vars) PROVE [View!Next]_(View!vars)
  OBVIOUS
<1>1. ASSUME NEW s \in Symbols, Public!Ready(s) \/ Public!Disconnected(s) \/ Public!Ticker(s)
      PROVE  UNCHANGED View!vars
  BY <1>1 DEF Public!Ready, Public!Disconnected, Public!Ticker, Public!clients,
              Public!exchange, Public!hist, View!vars
<1>2. ASSUME NEW s \in Symbols, Public!PublicTrade(s)
      PROVE  View!Tell(s) \/ UNCHANGED View!vars
  BY <1>2, TradesAreTold
<1>3. ASSUME NEW s \in Symbols, Public!BooksUpdate(s)
      PROVE  View!Show(s) \/ View!Spoil(s) \/ UNCHANGED View!vars
  BY <1>3, UpdateIsShow
<1>4. ASSUME NEW s \in Symbols, NEW b \in Public!Books, Public!Change(s, b)
      PROVE  View!Change(s)
  <2>1. /\ b # Public!Now(s) /\ past' = [past EXCEPT ![s] = Append(@, b)]
        /\ UNCHANGED <<printed, book, sequence, kept, reported>>
    BY <1>4 DEF Public!Change, Public!clients, Public!hist
  <2>2. Public!Now(s) = View!Last(s)  BY DEF Public!Now, View!Last
  <2> QED BY <2>1, <2>2 DEF View!Change
<1>5. ASSUME NEW s \in Symbols, NEW n \in 1 .. MaxBatch, Public!Trade(s, n)
      PROVE  View!Trade(s)
  <2>1. /\ printed' = [printed EXCEPT ![s] = @ + n]
        /\ UNCHANGED <<past, book, sequence, kept, reported>>
    BY <1>5 DEF Public!Trade, Public!clients
  <2>2. printed \in [Symbols -> Nat]  BY DEF MarketInv, MarketTypes
  <2>3. printed'[s] = printed[s] + n  BY <2>1, <2>2
  <2>4. printed[s] + n > printed[s]  BY <2>2, MarketAssumption
  <2> QED BY <2>1, <2>3, <2>4 DEF View!Trade
<1>6. CASE UNCHANGED Public!vars
  BY <1>6 DEF Public!vars, Public!clients, Public!exchange, Public!hist, View!vars
<1>7. ASSUME Public!Next PROVE View!Next \/ UNCHANGED View!vars
  <2>1. PICK s \in Symbols :
          \/ Public!Ready(s) \/ Public!Disconnected(s) \/ Public!Ticker(s)
          \/ Public!PublicTrade(s) \/ Public!BooksUpdate(s)
          \/ \E b \in Public!Books : Public!Change(s, b)
          \/ \E n \in 1 .. MaxBatch : Public!Trade(s, n)
    BY <1>7 DEF Public!Next
  <2>2. \/ View!Change(s) \/ View!Trade(s) \/ View!Show(s) \/ View!Spoil(s) \/ View!Tell(s)
        \/ UNCHANGED View!vars
    BY <1>1, <1>2, <1>3, <1>4, <1>5, <2>1
  <2> QED BY <2>2 DEF View!Next
<1> QED BY <1>6, <1>7

\* What MarketData shows of a symbol goes one way: its books in the order the exchange had
\* them, none before one that was shown, except while levels of before an empty snapshot
\* are left; and its trades in their order, each at most once.
THEOREM MarketRefinement == StreamsSpec => ImplementsMarketView
<1>1. Public!Init => View!Init  BY DEF Public!Init, View!Init
<1>2. Public!Spec => ImplementsMarketView
  BY MarketCorrect, ViewNext, <1>1, PTL DEF Public!Spec, ImplementsMarketView, View!Spec
<1> QED BY StreamsAreBoth, <1>2, PTL
=============================================================================
