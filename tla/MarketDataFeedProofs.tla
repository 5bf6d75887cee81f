------------------------- MODULE MarketDataFeedProofs -------------------------
(***************************************************************************)
(* Every symbol known is in one slice and subscribed once on its           *)
(* connection, however the updates fall between reconnects.  For every set *)
(* of symbols, every size of a slice and every bound.                      *)
(***************************************************************************)
EXTENDS MarketDataFeed, FiniteSetTheorems, SequenceTheorems, TLAPS

\* There are the symbols known, each once, and as many slices as they fill.
Known ==
  /\ all_symbols = ToSet(symbols) /\ IsInjective(symbols)
  /\ Len(slices) = Size(Len(symbols))

\* A request whose connection is up belongs to the one there is, and a download
\* ends with the instruments its connection found.
Downloaded ==
  /\ \A f \in flight : f.open => rest = "up"
  /\ status = "READY" => rest = "up" /\ baseline \ Discarded \subseteq all_symbols

FeedInv == TypeOK /\ Known /\ SubscribedOnce /\ Downloaded

-----------------------------------------------------------------------------
(* Slices *)

LEMMA Division ==
  ASSUME NEW n \in Nat, NEW m \in Nat, m > 0
  PROVE  n \div m \in Nat /\ (n \div m) * m <= n /\ n < (n \div m) * m + m
<1>1. n \div m \in Nat  BY SMT
<1>2. (n \div m) * m <= n  BY SMT
<1>3. n < (n \div m) * m + m  BY SMT
<1> QED BY <1>1, <1>2, <1>3

\* The positions of slice i, for a symbolic size of the slices.
LEMMA Ordered ==
  ASSUME NEW m \in Nat, NEW i \in Nat, NEW k \in Nat, i <= k
  PROVE  i * m <= k * m
BY SMT

\* There is room for n symbols in Size(n) slices, and none of them is empty.
LEMMA SizeFits ==
  ASSUME NEW n \in Nat
  PROVE  /\ Size(n) \in Nat
         /\ n <= Size(n) * MaxPerSlice
         /\ \A i \in 1 .. Size(n) : (i - 1) * MaxPerSlice < n
<1> DEFINE m == MaxPerSlice
           q == (n + m - 1) \div m
<1>1. m \in Nat /\ m > 0  BY FeedAssumption
<1>2. n + m - 1 \in Nat  BY <1>1
<1>3. q \in Nat /\ q * m <= n + m - 1 /\ n + m - 1 < q * m + m  BY <1>1, <1>2, Division
<1>4. Size(n) = q  BY DEF Size
<1> HIDE DEF q
<1>5. n <= q * m
  <2>1. q * m \in Nat  BY <1>1, <1>3
  <2> QED BY <1>1, <1>3, <2>1
<1>6. ASSUME NEW i \in 1 .. q PROVE (i - 1) * m < n
  <2>1. i \in Nat /\ i - 1 \in Nat  OBVIOUS
  <2>2. i * m <= q * m  BY <1>1, <1>3, Ordered
  <2>3. (i - 1) * m = i * m - m  BY <1>1, <2>1
  <2>4. i * m \in Nat /\ q * m \in Nat  BY <1>1, <1>3
  <2> QED BY <1>1, <1>3, <2>2, <2>3, <2>4
<1> QED BY <1>3, <1>4, <1>5, <1>6

\* Every position is in a slice, and in one only.
LEMMA SliceOf ==
  ASSUME NEW n \in Nat, NEW j \in 1 .. n
  PROVE  \E i \in 1 .. Size(n) : (i - 1) * MaxPerSlice < j /\ j <= i * MaxPerSlice
<1> DEFINE m == MaxPerSlice
           q == (j - 1) \div m
<1>1. m \in Nat /\ m > 0  BY FeedAssumption
<1>2. j - 1 \in Nat  OBVIOUS
<1>3. q \in Nat /\ q * m <= j - 1 /\ j - 1 < q * m + m  BY <1>1, <1>2, Division
<1>4. Size(n) \in Nat /\ n <= Size(n) * m  BY SizeFits
<1> HIDE DEF q
<1>5. q * m \in Nat /\ Size(n) * m \in Nat  BY <1>1, <1>3, <1>4
<1>6. (q + 1) * m = q * m + m  BY <1>1, <1>3
<1>7. q + 1 <= Size(n)
  <2>1. SUFFICES ASSUME Size(n) <= q PROVE FALSE  BY <1>3, <1>4
  <2>2. Size(n) * m <= q * m  BY <1>1, <1>3, <1>4, <2>1, Ordered
  <2> QED BY <1>3, <1>4, <1>5, <2>2
<1>8. q + 1 \in 1 .. Size(n) /\ (q + 1) - 1 = q  BY <1>3, <1>4, <1>7
<1>9. q * m < j /\ j <= (q + 1) * m  BY <1>3, <1>5, <1>6, <1>1
<1> QED BY <1>8, <1>9

LEMMA OneSlice ==
  ASSUME NEW i \in Nat, NEW k \in Nat, NEW j \in Nat,
         (i - 1) * MaxPerSlice < j, j <= i * MaxPerSlice,
         (k - 1) * MaxPerSlice < j, j <= k * MaxPerSlice
  PROVE  i = k
<1> DEFINE m == MaxPerSlice
<1>1. m \in Nat /\ m > 0  BY FeedAssumption
<1>2. (i - 1) * m = i * m - m /\ (k - 1) * m = k * m - m  BY <1>1
<1>3. i * m \in Nat /\ k * m \in Nat  BY <1>1
<1>4. ASSUME i < k PROVE FALSE
  <2>1. (i + 1) * m <= k * m  BY <1>1, <1>4, Ordered
  <2>2. (i + 1) * m = i * m + m  BY <1>1
  <2> QED BY <1>1, <1>2, <1>3, <2>1, <2>2
<1>5. ASSUME k < i PROVE FALSE
  <2>1. (k + 1) * m <= i * m  BY <1>1, <1>5, Ordered
  <2>2. (k + 1) * m = k * m + m  BY <1>1
  <2> QED BY <1>1, <1>2, <1>3, <2>1, <2>2
<1> QED BY <1>4, <1>5

-----------------------------------------------------------------------------
(* Updates of the symbols *)

\* A sequence of the elements of T has each of them once.
LEMMA InSomeOrder ==
  ASSUME NEW T, IsFiniteSet(T), NEW order \in SetToSeqs(T)
  PROVE  order \in Seq(T) /\ IsInjective(order) /\ ToSet(order) = T
<1> DEFINE n == Cardinality(T)
<1>1. n \in Nat  BY FS_CardinalityType
<1>2. order \in [1 .. n -> T] /\ \A i, j \in 1 .. n : i # j => order[i] # order[j]
  BY DEF SetToSeqs
<1>3. order \in Seq(T)  BY <1>1, <1>2
<1>4. IsInjective(order)  BY <1>2 DEF IsInjective
<1>5. order \in Injection(1 .. n, T)  BY <1>2, <1>4 DEF Injection
<1>6. Cardinality(1 .. n) = n  BY <1>1, FS_Interval
<1>7. order \in Surjection(1 .. n, T)  BY <1>5, <1>6, FS_Injection
<1>8. ToSet(order) = T  BY <1>2, <1>7 DEF Surjection, ToSet
<1> QED BY <1>3, <1>4, <1>8

\* Old and new symbols, one after the other.
LEMMA Joined ==
  ASSUME NEW old \in Seq(Symbols), NEW new \in Seq(Symbols),
         IsInjective(old), IsInjective(new), ToSet(old) \cap ToSet(new) = {}
  PROVE  /\ old \o new \in Seq(Symbols)
         /\ IsInjective(old \o new)
         /\ ToSet(old \o new) = ToSet(old) \cup ToSet(new)
<1> DEFINE all == old \o new
<1>1. /\ Len(old) \in Nat /\ Len(new) \in Nat
      /\ DOMAIN old = 1 .. Len(old) /\ DOMAIN new = 1 .. Len(new)
  BY LenProperties
<1>2. /\ all \in Seq(Symbols) /\ Len(all) = Len(old) + Len(new)
      /\ \A j \in 1 .. Len(old) + Len(new) :
           all[j] = IF j <= Len(old) THEN old[j] ELSE new[j - Len(old)]
  BY ConcatProperties
<1>3. DOMAIN all = 1 .. Len(old) + Len(new)  BY <1>2, LenProperties
<1> HIDE DEF all
<1>4. \A j \in 1 .. Len(old) : all[j] = old[j] /\ j \in DOMAIN all  BY <1>1, <1>2, <1>3
<1>5. \A j \in 1 .. Len(new) : all[j + Len(old)] = new[j] /\ j + Len(old) \in DOMAIN all
  BY <1>1, <1>2, <1>3
<1>6. \A j \in DOMAIN all : \/ j \in 1 .. Len(old)
                            \/ j > Len(old) /\ j - Len(old) \in 1 .. Len(new)
                                            /\ all[j] = new[j - Len(old)]
  BY <1>1, <1>2, <1>3
<1>7. ToSet(all) = ToSet(old) \cup ToSet(new)
  <2>1. ToSet(old) \subseteq ToSet(all)  BY <1>1, <1>4 DEF ToSet
  <2>2. ToSet(new) \subseteq ToSet(all)
    <3>1. SUFFICES ASSUME NEW j \in 1 .. Len(new) PROVE new[j] \in ToSet(all)
      BY <1>1 DEF ToSet
    <3> QED BY <1>5 DEF ToSet
  <2>3. ToSet(all) \subseteq ToSet(old) \cup ToSet(new)
    <3>1. SUFFICES ASSUME NEW j \in DOMAIN all PROVE all[j] \in ToSet(old) \cup ToSet(new)
      BY DEF ToSet
    <3> QED BY <1>1, <1>4, <1>6 DEF ToSet
  <2> QED BY <2>1, <2>2, <2>3
<1>8. IsInjective(all)
  <2>1. SUFFICES ASSUME NEW i \in DOMAIN all, NEW j \in DOMAIN all, all[i] = all[j]
                 PROVE  i = j
    BY DEF IsInjective
  <2>2. CASE i \in 1 .. Len(old) /\ j \in 1 .. Len(old)
    BY <1>1, <1>4, <2>1, <2>2 DEF IsInjective
  <2>3. CASE i \in 1 .. Len(old) /\ j \notin 1 .. Len(old)
    <3>1. old[i] \in ToSet(old) /\ new[j - Len(old)] \in ToSet(new)
      BY <1>1, <1>6, <2>3 DEF ToSet
    <3> QED BY <1>4, <1>6, <2>1, <2>3, <3>1
  <2>4. CASE i \notin 1 .. Len(old) /\ j \in 1 .. Len(old)
    <3>1. old[j] \in ToSet(old) /\ new[i - Len(old)] \in ToSet(new)
      BY <1>1, <1>6, <2>4 DEF ToSet
    <3> QED BY <1>4, <1>6, <2>1, <2>4, <3>1
  <2>5. CASE i \notin 1 .. Len(old) /\ j \notin 1 .. Len(old)
    <3>1. i - Len(old) = j - Len(old)  BY <1>1, <1>6, <2>1, <2>5 DEF IsInjective
    <3>2. i \in Int /\ j \in Int  BY <1>1, <1>3
    <3> QED BY <1>1, <3>1, <3>2
  <2> QED BY <2>2, <2>3, <2>4, <2>5
<1> QED BY <1>2, <1>7, <1>8 DEF all

\* A slice grows by the symbols an update adds to it, which are those subscribed.
LEMMA SliceGrows ==
  ASSUME NEW old \in Seq(Symbols), NEW new \in Seq(Symbols),
         ToSet(old) \cap ToSet(new) = {}, NEW i \in Nat
  PROVE  LET all == old \o new
         IN  /\ GetSlice(all, i, 0) = GetSlice(old, i, 0) \cup GetSlice(all, i, Len(old))
             /\ GetSlice(old, i, 0) \cap GetSlice(all, i, Len(old)) = {}
<1> DEFINE all == old \o new
           Here(j) == (i - 1) * MaxPerSlice < j /\ j <= i * MaxPerSlice
<1>1. /\ Len(old) \in Nat /\ Len(new) \in Nat
      /\ DOMAIN old = 1 .. Len(old) /\ DOMAIN new = 1 .. Len(new)
  BY LenProperties
<1>2. /\ all \in Seq(Symbols) /\ Len(all) = Len(old) + Len(new)
      /\ \A j \in 1 .. Len(old) + Len(new) :
           all[j] = IF j <= Len(old) THEN old[j] ELSE new[j - Len(old)]
  BY ConcatProperties
<1>3. DOMAIN all = 1 .. Len(old) + Len(new)  BY <1>2, LenProperties
<1> HIDE DEF all
<1>4. GetSlice(all, i, 0) = {all[j] : j \in {k \in DOMAIN all : 0 < k /\ Here(k)}}
  BY DEF GetSlice
<1>5. GetSlice(old, i, 0) = {old[j] : j \in {k \in DOMAIN old : 0 < k /\ Here(k)}}
  BY DEF GetSlice
<1>6. GetSlice(all, i, Len(old))
        = {all[j] : j \in {k \in DOMAIN all : Len(old) < k /\ Here(k)}}
  BY DEF GetSlice
<1> HIDE DEF Here
<1>7. \A j \in 1 .. Len(old) : all[j] = old[j] /\ j \in DOMAIN all /\ 0 < j
  BY <1>1, <1>2, <1>3
<1>8. \A j \in DOMAIN all : /\ 0 < j
                            /\ Len(old) < j => /\ j - Len(old) \in DOMAIN new
                                               /\ all[j] = new[j - Len(old)]
                            /\ ~(Len(old) < j) => j \in DOMAIN old
  BY <1>1, <1>2, <1>3
<1>9. GetSlice(old, i, 0) \subseteq GetSlice(all, i, 0)  BY <1>1, <1>4, <1>5, <1>7
<1>10. GetSlice(all, i, Len(old)) \subseteq GetSlice(all, i, 0)  BY <1>4, <1>6, <1>8
<1>11. ASSUME NEW j \in DOMAIN all, Here(j)
       PROVE  all[j] \in GetSlice(old, i, 0) \cup GetSlice(all, i, Len(old))
  <2>1. CASE Len(old) < j  BY <1>6, <1>11, <2>1
  <2>2. CASE ~(Len(old) < j)
    <3>1. j \in DOMAIN old /\ 0 < j /\ all[j] = old[j]  BY <1>1, <1>7, <1>8, <2>2
    <3> QED BY <1>5, <1>11, <3>1
  <2> QED BY <2>1, <2>2
<1>12. GetSlice(all, i, 0) \subseteq GetSlice(old, i, 0) \cup GetSlice(all, i, Len(old))
  BY <1>4, <1>11
<1>13. GetSlice(old, i, 0) \subseteq ToSet(old)  BY <1>5 DEF ToSet
<1>14. GetSlice(all, i, Len(old)) \subseteq ToSet(new)  BY <1>6, <1>8 DEF ToSet
<1> QED BY <1>9, <1>10, <1>12, <1>13, <1>14 DEF all

-----------------------------------------------------------------------------
(* Preservation *)

LEMMA UpdateKeeps ==
  ASSUME FeedInv, NEW S \in SUBSET Symbols, SymbolsUpdate(S)
  PROVE  /\ symbols' \in Seq(Symbols) /\ all_symbols' \subseteq Symbols
         /\ slices' \in Seq({"down", "ready"})
         /\ subscribed' \in Seq([Symbols -> Nat]) /\ Len(subscribed') = Len(slices')
         /\ Known' /\ SubscribedOnce'
         /\ all_symbols \subseteq all_symbols' /\ S \subseteq all_symbols'
<1>1. PICK order \in SetToSeqs(S \ all_symbols) :
        /\ symbols' = symbols \o order
        /\ all_symbols' = all_symbols \cup S
        /\ EnsureSymbolSlices(Size(Len(symbols')))
        /\ SubscribeSlices(symbols', Len(symbols))
  BY DEF SymbolsUpdate
<1>2. /\ symbols \in Seq(Symbols) /\ all_symbols \subseteq Symbols
      /\ slices \in Seq({"down", "ready"}) /\ subscribed \in Seq([Symbols -> Nat])
      /\ Len(subscribed) = Len(slices)
  BY DEF FeedInv, TypeOK
<1>3. all_symbols = ToSet(symbols) /\ IsInjective(symbols)  BY DEF FeedInv, Known
<1>4. IsFiniteSet(S \ all_symbols)  BY FeedAssumption, FS_Subset
<1>5. order \in Seq(S \ all_symbols) /\ IsInjective(order) /\ ToSet(order) = S \ all_symbols
  BY <1>1, <1>4, InSomeOrder
<1>6. order \in Seq(Symbols)  BY <1>5
<1>7. ToSet(symbols) \cap ToSet(order) = {}  BY <1>3, <1>5
<1>8. /\ symbols' \in Seq(Symbols) /\ IsInjective(symbols')
      /\ ToSet(symbols') = ToSet(symbols) \cup ToSet(order)
  BY <1>1, <1>2, <1>3, <1>5, <1>6, <1>7, Joined
<1>9. all_symbols' = ToSet(symbols')  BY <1>1, <1>3, <1>5, <1>8
<1> DEFINE n == Size(Len(symbols'))
<1>10. n \in Nat
  <2>1. Len(symbols') \in Nat  BY <1>8, LenProperties
  <2> QED BY <2>1, SizeFits
<1>11. slices' = [i \in 1 .. n |-> IF i \in DOMAIN slices THEN slices[i] ELSE "down"]
  BY <1>1 DEF EnsureSymbolSlices
<1> HIDE DEF n
<1>12. DOMAIN slices = 1 .. Len(slices) /\ \A i \in DOMAIN slices : slices[i] \in {"down", "ready"}
  BY <1>2, LenProperties, ElementOfSeq
<1>13. slices' \in Seq({"down", "ready"}) /\ Len(slices') = n /\ DOMAIN slices' = 1 .. n
  BY <1>10, <1>11, <1>12
<1>14. DOMAIN subscribed = DOMAIN slices /\ \A i \in DOMAIN slices : subscribed[i] \in [Symbols -> Nat]
  BY <1>2, LenProperties, ElementOfSeq
<1> DEFINE Before(i)   == IF i \in DOMAIN slices THEN subscribed[i] ELSE None
           Added(i, s) == slices'[i] = "ready" /\ s \in GetSlice(symbols', i, Len(symbols))
           After(i)    == [s \in Symbols |-> IF Added(i, s) THEN Before(i)[s] + 1
                                                            ELSE Before(i)[s]]
<1>15. subscribed' = [i \in 1 .. n |-> After(i)]
  BY <1>1, <1>13 DEF SubscribeSlices
<1>16. \A i \in 1 .. n : Before(i) \in [Symbols -> Nat]  BY <1>14 DEF None
<1> HIDE DEF Before, Added
<1>17. \A i \in 1 .. n : After(i) \in [Symbols -> Nat]  BY <1>16
<1> HIDE DEF After
<1>18. subscribed' \in Seq([Symbols -> Nat]) /\ Len(subscribed') = n
  BY <1>10, <1>15, <1>17
<1>19. SubscribedOnce'
  <2>1. SUFFICES ASSUME NEW i \in 1 .. n, NEW s \in Symbols
                 PROVE  subscribed'[i][s] =
                          IF slices'[i] = "ready" /\ s \in GetSlice(symbols', i, 0) THEN 1 ELSE 0
    BY <1>13 DEF SubscribedOnce
  <2>2. subscribed'[i][s] = IF Added(i, s) THEN Before(i)[s] + 1 ELSE Before(i)[s]
    BY <1>15 DEF After
  <2>3. CASE i \in DOMAIN slices
    <3>1. slices'[i] = slices[i]  BY <1>11, <2>3
    <3>2. Before(i)[s] = IF slices[i] = "ready" /\ s \in GetSlice(symbols, i, 0) THEN 1 ELSE 0
      BY <2>3 DEF Before, FeedInv, SubscribedOnce
    <3>3. /\ GetSlice(symbols', i, 0)
               = GetSlice(symbols, i, 0) \cup GetSlice(symbols', i, Len(symbols))
          /\ GetSlice(symbols, i, 0) \cap GetSlice(symbols', i, Len(symbols)) = {}
      <4>1. i \in Nat  BY <1>10
      <4>2. symbols' = symbols \o order  BY <1>1
      <4> QED BY <1>2, <1>6, <1>7, <4>1, <4>2, SliceGrows
    <3> QED BY <2>2, <3>1, <3>2, <3>3 DEF Added
  <2>4. CASE i \notin DOMAIN slices
    <3>1. slices'[i] = "down"  BY <1>11, <2>4
    <3>2. Before(i)[s] = 0  BY <2>4 DEF Before, None
    <3> QED BY <2>2, <3>1, <3>2 DEF Added
  <2> QED BY <2>3, <2>4
<1>20. Known'  BY <1>8, <1>9, <1>13 DEF Known, n
<1> QED BY <1>1, <1>2, <1>8, <1>13, <1>18, <1>19, <1>20

\* The feed as it was, whatever becomes of the download.
LEMMA FeedSame ==
  ASSUME FeedInv, UNCHANGED market_data
  PROVE  /\ symbols' \in Seq(Symbols) /\ all_symbols' \subseteq Symbols
         /\ slices' \in Seq({"down", "ready"})
         /\ subscribed' \in Seq([Symbols -> Nat]) /\ Len(subscribed') = Len(slices')
         /\ Known' /\ SubscribedOnce' /\ all_symbols' = all_symbols
<1>1. /\ symbols' = symbols /\ all_symbols' = all_symbols
      /\ slices' = slices /\ subscribed' = subscribed
  BY DEF market_data
<1> QED BY <1>1 DEF FeedInv, TypeOK, Known, SubscribedOnce

\* The download as it was, while the feed goes on.
LEMMA DownloadSame ==
  ASSUME FeedInv, UNCHANGED instruments, listed \subseteq listed', listed' \subseteq Symbols,
         all_symbols \subseteq all_symbols'
  PROVE  /\ rest' \in {"down", "up"}
         /\ download' \in {"UNDEFINED", "INSTRUMENTS", "DONE"}
         /\ status' \in {"DISCONNECTED", "DOWNLOADING", "READY"}
         /\ sequence' \in 0 .. MaxRequests
         /\ flight' \subseteq [sequence : 1 .. MaxRequests, open : BOOLEAN]
         /\ baseline' \subseteq listed' /\ listed' \subseteq Symbols /\ Downloaded'
<1>1. /\ rest' = rest /\ download' = download /\ status' = status
      /\ sequence' = sequence /\ flight' = flight /\ baseline' = baseline
  BY DEF instruments
<1>2. Downloaded'  BY <1>1 DEF FeedInv, Downloaded
<1> QED BY <1>1, <1>2 DEF FeedInv, TypeOK

\* A request for the instruments is the next one.
LEMMA RequestKeeps ==
  ASSUME FeedInv, NEW pending \in SUBSET flight, sequence < MaxRequests, GetInstruments(pending)
  PROVE  /\ sequence' \in 0 .. MaxRequests
         /\ flight' \subseteq [sequence : 1 .. MaxRequests, open : BOOLEAN]
         /\ download' = "INSTRUMENTS" /\ status' = "DOWNLOADING"
<1>1. sequence \in Nat /\ MaxRequests \in Nat  BY FeedAssumption DEF FeedInv, TypeOK
<1>2. sequence + 1 \in 1 .. MaxRequests  BY <1>1
<1>3. flight \subseteq [sequence : 1 .. MaxRequests, open : BOOLEAN]  BY DEF FeedInv, TypeOK
<1>4. [sequence |-> sequence + 1, open |-> TRUE] \in [sequence : 1 .. MaxRequests, open : BOOLEAN]
  BY <1>2
<1>5. /\ flight' = pending \cup {[sequence |-> sequence + 1, open |-> TRUE]}
      /\ sequence' = sequence + 1
      /\ download' = "INSTRUMENTS" /\ status' = "DOWNLOADING"
  BY DEF GetInstruments
<1>6. flight' \subseteq [sequence : 1 .. MaxRequests, open : BOOLEAN]  BY <1>3, <1>4, <1>5
<1>7. sequence' \in 0 .. MaxRequests  BY <1>1, <1>2, <1>5
<1> QED BY <1>5, <1>6, <1>7

LEMMA RestConnectedKeeps ==
  ASSUME FeedInv, RestConnected PROVE FeedInv'
<1>1. /\ rest' = "up" /\ sequence < MaxRequests /\ baseline' = listed /\ GetInstruments(flight)
      /\ UNCHANGED market_data /\ listed' = listed /\ drops' = drops
  BY DEF RestConnected
<1>2. /\ sequence' \in 0 .. MaxRequests
      /\ flight' \subseteq [sequence : 1 .. MaxRequests, open : BOOLEAN]
      /\ download' = "INSTRUMENTS" /\ status' = "DOWNLOADING"
  BY <1>1, RequestKeeps
<1>3. Downloaded'  BY <1>1, <1>2 DEF Downloaded
<1>4. TypeOK'  BY <1>1, <1>2, FeedSame DEF FeedInv, TypeOK
<1> QED BY <1>1, <1>3, <1>4, FeedSame DEF FeedInv

LEMMA RestDisconnectedKeeps ==
  ASSUME FeedInv, RestDisconnected PROVE FeedInv'
<1>1. /\ rest' = "down" /\ status' = "DISCONNECTED"
      /\ download' = (IF download = "INSTRUMENTS" THEN download ELSE "UNDEFINED")
      /\ flight' = {[f EXCEPT !.open = FALSE] : f \in flight}
      /\ sequence' = sequence /\ baseline' = baseline
      /\ UNCHANGED market_data /\ listed' = listed /\ drops' = drops
  BY DEF RestDisconnected
<1>2. flight \subseteq [sequence : 1 .. MaxRequests, open : BOOLEAN]  BY DEF FeedInv, TypeOK
<1>3. \A f \in flight : /\ [f EXCEPT !.open = FALSE].open = FALSE
                        /\ [f EXCEPT !.open = FALSE] \in [sequence : 1 .. MaxRequests, open : BOOLEAN]
  BY <1>2
<1>4. /\ flight' \subseteq [sequence : 1 .. MaxRequests, open : BOOLEAN]
      /\ \A f \in flight' : f.open = FALSE
  BY <1>1, <1>3
<1>5. Downloaded'  BY <1>1, <1>4 DEF Downloaded
<1>6. TypeOK'  BY <1>1, <1>4, FeedSame DEF FeedInv, TypeOK
<1> QED BY <1>1, <1>5, <1>6, FeedSame DEF FeedInv

LEMMA InstrumentsAckKeeps ==
  ASSUME FeedInv, NEW f \in flight, InstrumentsAck(f) PROVE FeedInv'
<1>1. /\ f.open /\ flight' = flight \ {f}
      /\ rest' = rest /\ sequence' = sequence /\ baseline' = baseline
      /\ listed' = listed /\ drops' = drops
  BY DEF InstrumentsAck
<1>2. rest = "up"  BY <1>1 DEF FeedInv, Downloaded
<1>3. CASE Skip(f)
  <2>1. UNCHANGED market_data /\ download' = download /\ status' = status
    BY <1>3 DEF InstrumentsAck
  <2>2. all_symbols' = all_symbols  BY <2>1, FeedSame
  <2>3. Downloaded'  BY <1>1, <1>2, <2>1, <2>2 DEF FeedInv, Downloaded
  <2>4. TypeOK'  BY <1>1, <2>1, FeedSame DEF FeedInv, TypeOK
  <2> QED BY <2>1, <2>3, <2>4, FeedSame DEF FeedInv
<1>4. CASE ~Skip(f)
  <2>1. SymbolsUpdate(listed \ Discarded) /\ download' = "DONE" /\ status' = "READY"
    BY <1>4 DEF InstrumentsAck
  <2>2. listed \ Discarded \in SUBSET Symbols  BY DEF FeedInv, TypeOK
  <2>3. /\ symbols' \in Seq(Symbols) /\ all_symbols' \subseteq Symbols
        /\ slices' \in Seq({"down", "ready"})
        /\ subscribed' \in Seq([Symbols -> Nat]) /\ Len(subscribed') = Len(slices')
        /\ Known' /\ SubscribedOnce' /\ listed \ Discarded \subseteq all_symbols'
    BY <2>1, <2>2, UpdateKeeps
  <2>4. baseline \subseteq listed  BY DEF FeedInv, TypeOK
  <2>5. Downloaded'  BY <1>1, <1>2, <2>3, <2>4 DEF Downloaded
  <2>6. TypeOK'  BY <1>1, <2>1, <2>3 DEF FeedInv, TypeOK
  <2> QED BY <2>3, <2>5, <2>6 DEF FeedInv
<1> QED BY <1>3, <1>4

LEMMA InstrumentsErrorKeeps ==
  ASSUME FeedInv, NEW f \in flight, InstrumentsError(f) PROVE FeedInv'
<1>1. /\ rest' = rest /\ baseline' = baseline
      /\ UNCHANGED market_data /\ listed' = listed /\ drops' = drops
  BY DEF InstrumentsError
<1>2. flight \ {f} \in SUBSET flight  OBVIOUS
<1>3. CASE download = "INSTRUMENTS" /\ rest = "up"
  <2>1. sequence < MaxRequests /\ GetInstruments(flight \ {f})  BY <1>3 DEF InstrumentsError
  <2>2. /\ sequence' \in 0 .. MaxRequests
        /\ flight' \subseteq [sequence : 1 .. MaxRequests, open : BOOLEAN]
        /\ download' = "INSTRUMENTS" /\ status' = "DOWNLOADING"
    BY <1>2, <2>1, RequestKeeps
  <2>3. Downloaded'  BY <1>1, <1>3, <2>2 DEF Downloaded
  <2>4. TypeOK'  BY <1>1, <2>2, FeedSame DEF FeedInv, TypeOK
  <2> QED BY <1>1, <2>3, <2>4, FeedSame DEF FeedInv
<1>4. CASE ~(download = "INSTRUMENTS" /\ rest = "up")
  <2>1. /\ flight' = flight \ {f} /\ download' = download /\ status' = status
        /\ sequence' = sequence
    BY <1>4 DEF InstrumentsError
  <2>2. all_symbols' = all_symbols  BY <1>1, FeedSame
  <2>3. Downloaded'  BY <1>1, <2>1, <2>2 DEF FeedInv, Downloaded
  <2>4. TypeOK'  BY <1>1, <2>1, FeedSame DEF FeedInv, TypeOK
  <2> QED BY <1>1, <2>3, <2>4, FeedSame DEF FeedInv
<1> QED BY <1>3, <1>4

LEMMA SubscribeKeeps ==
  ASSUME FeedInv, NEW S \in SUBSET Symbols, Subscribe(S) PROVE FeedInv'
<1>1. SymbolsUpdate(S) /\ UNCHANGED instruments /\ listed' = listed /\ drops' = drops
  BY DEF Subscribe
<1>2. /\ symbols' \in Seq(Symbols) /\ all_symbols' \subseteq Symbols
      /\ slices' \in Seq({"down", "ready"})
      /\ subscribed' \in Seq([Symbols -> Nat]) /\ Len(subscribed') = Len(slices')
      /\ Known' /\ SubscribedOnce' /\ all_symbols \subseteq all_symbols'
  BY <1>1, UpdateKeeps
<1>3. listed \subseteq listed' /\ listed' \subseteq Symbols  BY <1>1 DEF FeedInv, TypeOK
<1>4. TypeOK'  BY <1>1, <1>2, <1>3, DownloadSame DEF FeedInv, TypeOK
<1> QED BY <1>1, <1>2, <1>3, <1>4, DownloadSame DEF FeedInv

\* A connection comes or goes: only its own subscriptions change.
LEMMA MarketDataKeeps ==
  ASSUME FeedInv, NEW i \in DOMAIN slices, MarketDataReady(i) \/ MarketDataDisconnected(i)
  PROVE  FeedInv'
<1>1. /\ UNCHANGED instruments /\ listed' = listed
      /\ symbols' = symbols /\ all_symbols' = all_symbols
  BY DEF MarketDataReady, MarketDataDisconnected
<1>2. drops' \in 0 .. MaxDrops
  <2>1. drops \in 0 .. MaxDrops /\ MaxDrops \in Nat  BY FeedAssumption DEF FeedInv, TypeOK
  <2>2. drops' = drops \/ (drops < MaxDrops /\ drops' = drops + 1)
    BY DEF MarketDataReady, MarketDataDisconnected
  <2> QED BY <2>1, <2>2
<1>3. /\ slices \in Seq({"down", "ready"}) /\ subscribed \in Seq([Symbols -> Nat])
      /\ Len(subscribed) = Len(slices)
  BY DEF FeedInv, TypeOK
<1>4. /\ Len(slices) \in Nat /\ DOMAIN slices = 1 .. Len(slices)
      /\ DOMAIN subscribed = 1 .. Len(slices)
      /\ \A k \in DOMAIN slices : subscribed[k] \in [Symbols -> Nat]
  BY <1>3, LenProperties, ElementOfSeq
<1>5. \A s \in Symbols : subscribed[i][s] =
        IF slices[i] = "ready" /\ s \in GetSlice(symbols, i, 0) THEN 1 ELSE 0
  BY DEF FeedInv, SubscribedOnce
<1>6. PICK link \in {"down", "ready"}, open \in [Symbols -> Nat] :
        /\ slices' = [slices EXCEPT ![i] = link]
        /\ subscribed' = [subscribed EXCEPT ![i] = open]
        /\ \A s \in Symbols : open[s] =
             IF link = "ready" /\ s \in GetSlice(symbols, i, 0) THEN 1 ELSE 0
  <2>1. CASE MarketDataReady(i)
    <3> DEFINE new == [s \in Symbols |-> IF s \in GetSlice(symbols, i, 0)
                                         THEN subscribed[i][s] + 1 ELSE subscribed[i][s]]
    <3>1. slices[i] = "down" /\ slices' = [slices EXCEPT ![i] = "ready"]
      BY <2>1 DEF MarketDataReady
    <3>2. subscribed' = [subscribed EXCEPT ![i] = new]  BY <1>4, <2>1 DEF MarketDataReady
    <3>3. new \in [Symbols -> Nat]  BY <1>4
    <3>4. \A s \in Symbols : new[s] = IF s \in GetSlice(symbols, i, 0) THEN 1 ELSE 0
      BY <1>5, <3>1
    <3> HIDE DEF new
    <3> QED BY <3>1, <3>2, <3>3, <3>4
  <2>2. CASE MarketDataDisconnected(i)
    <3>1. slices' = [slices EXCEPT ![i] = "down"] /\ subscribed' = [subscribed EXCEPT ![i] = None]
      BY <2>2 DEF MarketDataDisconnected
    <3>2. None \in [Symbols -> Nat] /\ \A s \in Symbols : None[s] = 0  BY DEF None
    <3> QED BY <3>1, <3>2
  <2> QED BY <2>1, <2>2
<1>7. /\ slices' \in Seq({"down", "ready"}) /\ Len(slices') = Len(slices)
      /\ DOMAIN slices' = DOMAIN slices
      /\ \A k \in DOMAIN slices : slices'[k] = IF k = i THEN link ELSE slices[k]
  BY <1>3, <1>4, <1>6, ExceptSeq
<1>8. /\ subscribed' \in Seq([Symbols -> Nat]) /\ Len(subscribed') = Len(slices)
      /\ \A k \in DOMAIN slices : subscribed'[k] = IF k = i THEN open ELSE subscribed[k]
  BY <1>3, <1>4, <1>6, ExceptSeq
<1>9. SubscribedOnce'
  <2>1. SUFFICES ASSUME NEW k \in DOMAIN slices, NEW s \in Symbols
                 PROVE  subscribed'[k][s] =
                          IF slices'[k] = "ready" /\ s \in GetSlice(symbols, k, 0) THEN 1 ELSE 0
    BY <1>1, <1>7 DEF SubscribedOnce
  <2>2. CASE k = i  BY <1>6, <1>7, <1>8, <2>2
  <2>3. CASE k # i  BY <1>7, <1>8, <2>3 DEF FeedInv, SubscribedOnce
  <2> QED BY <2>2, <2>3
<1>10. Known'  BY <1>1, <1>7 DEF FeedInv, Known
<1>11. listed \subseteq listed' /\ listed' \subseteq Symbols /\ all_symbols \subseteq all_symbols'
  BY <1>1 DEF FeedInv, TypeOK
<1>12. symbols' \in Seq(Symbols) /\ all_symbols' \subseteq Symbols  BY <1>1 DEF FeedInv, TypeOK
<1>13. TypeOK'  BY <1>1, <1>2, <1>7, <1>8, <1>11, <1>12, DownloadSame DEF TypeOK
<1> QED BY <1>1, <1>9, <1>10, <1>11, <1>13, DownloadSame DEF FeedInv

LEMMA ListKeeps ==
  ASSUME FeedInv, NEW s \in Symbols, List(s) PROVE FeedInv'
<1>1. listed' = listed \cup {s} /\ UNCHANGED instruments /\ UNCHANGED market_data /\ drops' = drops
  BY DEF List
<1>2. listed \subseteq listed' /\ listed' \subseteq Symbols  BY <1>1 DEF FeedInv, TypeOK
<1>3. all_symbols \subseteq all_symbols'  BY <1>1, FeedSame
<1>4. TypeOK'  BY <1>1, <1>2, <1>3, FeedSame, DownloadSame DEF FeedInv, TypeOK
<1> QED BY <1>1, <1>2, <1>3, <1>4, FeedSame, DownloadSame DEF FeedInv

LEMMA FeedInit == Init => FeedInv
<1> SUFFICES ASSUME Init PROVE FeedInv  OBVIOUS
<1>1. Size(0) = 0
  <2>1. Size(0) \in Nat /\ \A i \in 1 .. Size(0) : (i - 1) * MaxPerSlice < 0  BY SizeFits
  <2>2. MaxPerSlice \in Nat  BY FeedAssumption
  <2>3. SUFFICES ASSUME Size(0) >= 1 PROVE FALSE  BY <2>1
  <2>4. (1 - 1) * MaxPerSlice < 0  BY <2>1, <2>3
  <2> QED BY <2>2, <2>4
<1>2. MaxRequests \in Nat /\ MaxDrops \in Nat  BY FeedAssumption
<1>3. TypeOK  BY <1>2 DEF Init, TypeOK
<1>4. Known  BY <1>1 DEF Init, Known, ToSet, IsInjective
<1>5. SubscribedOnce  BY DEF Init, SubscribedOnce
<1>6. Downloaded  BY DEF Init, Downloaded
<1> QED BY <1>3, <1>4, <1>5, <1>6 DEF FeedInv

LEMMA FeedNext == FeedInv /\ [Next]_vars => FeedInv'
<1> SUFFICES ASSUME FeedInv, [Next]_vars PROVE FeedInv'  OBVIOUS
<1>1. CASE RestConnected  BY <1>1, RestConnectedKeeps
<1>2. CASE RestDisconnected  BY <1>2, RestDisconnectedKeeps
<1>3. CASE \E f \in flight : InstrumentsAck(f)  BY <1>3, InstrumentsAckKeeps
<1>4. CASE \E f \in flight : InstrumentsError(f)  BY <1>4, InstrumentsErrorKeeps
<1>5. CASE \E S \in SUBSET Symbols : Subscribe(S)  BY <1>5, SubscribeKeeps
<1>6. CASE \E i \in DOMAIN slices : MarketDataReady(i) \/ MarketDataDisconnected(i)
  BY <1>6, MarketDataKeeps
<1>7. CASE \E s \in Symbols : List(s)  BY <1>7, ListKeeps
<1>8. CASE UNCHANGED vars
  <2>1. UNCHANGED instruments /\ UNCHANGED market_data /\ listed' = listed /\ drops' = drops
    BY <1>8 DEF vars
  <2>2. listed \subseteq listed' /\ listed' \subseteq Symbols  BY <2>1 DEF FeedInv, TypeOK
  <2>3. all_symbols \subseteq all_symbols'  BY <2>1, FeedSame
  <2>4. TypeOK'  BY <2>1, <2>2, <2>3, FeedSame, DownloadSame DEF FeedInv, TypeOK
  <2> QED BY <2>1, <2>2, <2>3, <2>4, FeedSame, DownloadSame DEF FeedInv
<1> QED BY <1>1, <1>2, <1>3, <1>4, <1>5, <1>6, <1>7, <1>8 DEF Next

LEMMA FeedAlways == Spec => []FeedInv
<1> QED BY FeedInit, FeedNext, PTL DEF Spec

-----------------------------------------------------------------------------
\* Rest, Controller and MarketData keep the types of their state.
THEOREM TypeCorrect == Spec => []TypeOK
<1>1. FeedInv => TypeOK  BY DEF FeedInv
<1> QED BY <1>1, FeedAlways, PTL

\* A connection that is ready has subscribed the symbols of its slice, each once:
\* MarketData::subscribe(start_from) goes on where its READY ended.
THEOREM SubscribedCorrect == Spec => []SubscribedOnce
<1>1. FeedInv => SubscribedOnce  BY DEF FeedInv
<1> QED BY <1>1, FeedAlways, PTL

\* ensure_symbol_slices opens a connection for every symbol, and none in vain.
THEOREM SlicesCorrect == Spec => []SlicedOnce
<1>1. ASSUME FeedInv PROVE SlicedOnce
  <2>1. /\ all_symbols = ToSet(symbols) /\ IsInjective(symbols)
        /\ Len(slices) = Size(Len(symbols))
    BY <1>1 DEF FeedInv, Known
  <2>2. symbols \in Seq(Symbols) /\ slices \in Seq({"down", "ready"})
    BY <1>1 DEF FeedInv, TypeOK
  <2> DEFINE n == Len(symbols)
  <2>3. n \in Nat /\ DOMAIN symbols = 1 .. n /\ DOMAIN slices = 1 .. Size(n)
    BY <2>1, <2>2, LenProperties
  <2>4. /\ Size(n) \in Nat /\ n <= Size(n) * MaxPerSlice
        /\ \A i \in 1 .. Size(n) : (i - 1) * MaxPerSlice < n
    BY <2>3, SizeFits
  <2> HIDE DEF n
  <2> DEFINE In(i, j) == (i - 1) * MaxPerSlice < j /\ j <= i * MaxPerSlice
  <2>5. \A i : GetSlice(symbols, i, 0) = {symbols[j] : j \in {k \in 1 .. n : In(i, k)}}
    <3>1. SUFFICES ASSUME NEW i
                   PROVE  GetSlice(symbols, i, 0) = {symbols[j] : j \in {k \in 1 .. n : In(i, k)}}
      OBVIOUS
    <3>2. \A k \in 1 .. n : 0 < k  BY <2>3
    <3> QED BY <2>3, <3>2 DEF GetSlice
  <2>6. ASSUME NEW s \in all_symbols
        PROVE  \E i \in DOMAIN slices :
                 /\ s \in GetSlice(symbols, i, 0)
                 /\ \A k \in DOMAIN slices \ {i} : s \notin GetSlice(symbols, k, 0)
    <3>1. PICK j \in 1 .. n : s = symbols[j]  BY <2>1, <2>3 DEF ToSet
    <3>2. PICK i \in 1 .. Size(n) : In(i, j)  BY <2>3, SliceOf
    <3>3. s \in GetSlice(symbols, i, 0)  BY <2>5, <3>1, <3>2
    <3>4. ASSUME NEW k \in 1 .. Size(n), s \in GetSlice(symbols, k, 0) PROVE k = i
      <4>1. PICK l \in 1 .. n : In(k, l) /\ symbols[l] = s  BY <2>5, <3>4
      <4>2. l = j  BY <2>1, <2>3, <3>1, <4>1 DEF IsInjective
      <4>3. i \in Nat /\ k \in Nat /\ j \in Nat  BY <2>3, <2>4
      <4> QED BY <3>2, <4>1, <4>2, <4>3, OneSlice
    <3> QED BY <2>3, <3>3, <3>4
  <2>7. ASSUME NEW i \in DOMAIN slices PROVE GetSlice(symbols, i, 0) # {}
    <3> DEFINE j == (i - 1) * MaxPerSlice + 1
    <3>1. i \in Nat /\ i - 1 \in Nat /\ i \in 1 .. Size(n)  BY <2>3, <2>4
    <3>2. MaxPerSlice \in Nat /\ MaxPerSlice > 0  BY FeedAssumption
    <3>3. (i - 1) * MaxPerSlice \in Nat  BY <3>1, <3>2
    <3>4. i * MaxPerSlice = (i - 1) * MaxPerSlice + MaxPerSlice  BY <3>1, <3>2
    <3>5. (i - 1) * MaxPerSlice < n  BY <2>4, <3>1
    <3>6. j \in 1 .. n /\ In(i, j)  BY <2>3, <3>2, <3>3, <3>4, <3>5
    <3> HIDE DEF j, In
    <3>7. symbols[j] \in GetSlice(symbols, i, 0)  BY <2>5, <3>6
    <3> QED BY <3>7
  <2> QED BY <2>1, <2>6, <2>7 DEF SlicedOnce
<1> QED BY <1>1, FeedAlways, PTL

\* Rest is READY only on a connection that has downloaded the instruments.
THEOREM ReadyCorrect == Spec => []ReadyKnowsInstruments
<1>1. FeedInv => ReadyKnowsInstruments  BY DEF FeedInv, Downloaded, ReadyKnowsInstruments
<1> QED BY <1>1, FeedAlways, PTL
=============================================================================
