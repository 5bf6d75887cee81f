--------------------------- MODULE MarketDataFeed ---------------------------
(***************************************************************************)
(* How the gateway comes to stream market data.                            *)
(*                                                                         *)
(*   Rest        downloads the instruments each time it connects and hands *)
(*               the new ones to Controller.                               *)
(*   Controller  appends them, and the symbols its clients subscribe, to   *)
(*               shared.symbols, which is cut into slices; it opens one    *)
(*               MarketData web socket per slice and tells all of them.    *)
(*   MarketData  subscribes its slice: all of it when its connection       *)
(*               becomes ready, and while it is ready what is added.       *)
(*                                                                         *)
(* core::Download2, core::Symbols and the exchange are external.           *)
(***************************************************************************)
EXTENDS Naturals, Sequences, SequencesExt, FiniteSets

CONSTANTS
  Symbols,      \* what the exchange may list and a client may subscribe
  Discarded,    \* symbols the configuration does not match: discard_symbol
  MaxPerSlice,  \* settings.ws.max_subscriptions_per_stream
  MaxRequests,  \* bound: requests for the instruments
  MaxDrops      \* bound: losses of market data connections

ASSUME FeedAssumption ==
  /\ IsFiniteSet(Symbols) /\ Discarded \subseteq Symbols
  /\ MaxPerSlice \in Nat \ {0}
  /\ MaxRequests \in Nat /\ MaxDrops \in Nat

VARIABLES
  rest,         \* the connection of Rest
  download,     \* Rest::download_.state()
  status,       \* Rest::connection_status_
  sequence,     \* Rest::download_.sequence(): the last request for the instruments
  flight,       \* the requests whose callback is still to come
  symbols,      \* shared.symbols
  all_symbols,  \* shared.all_symbols
  slices,       \* Controller::market_data_: the connection of each slice
  subscribed,   \* [slice -> [symbol -> subscriptions sent on its connection]]
  listed,       \* the exchange: its instruments
  baseline,     \* history: the instruments listed when Rest last connected
  drops

instruments == <<rest, download, status, sequence, flight, baseline>>
market_data == <<symbols, all_symbols, slices, subscribed>>
vars == <<instruments, market_data, listed, drops>>

None == [s \in Symbols |-> 0]

-----------------------------------------------------------------------------
(* core::Symbols, as Controller and MarketData use it. *)

\* The number of slices n symbols fill.
Size(n) == (n + MaxPerSlice - 1) \div MaxPerSlice

\* get_slice: what slice i holds of all, without the first start_from symbols.
GetSlice(all, i, start_from) ==
  {all[j] : j \in {k \in DOMAIN all : /\ start_from < k
                                      /\ (i - 1) * MaxPerSlice < k
                                      /\ k <= i * MaxPerSlice}}

-----------------------------------------------------------------------------
(* Controller and MarketData *)

\* Mutants of SubscribeSlices: a connection subscribes its slice all over; a new
\* slice is left out.
SubscribeSlicesAgain(all, start_from) ==
  subscribed' = [i \in DOMAIN slices' |->
    LET open == IF i \in DOMAIN slices THEN subscribed[i] ELSE None
    IN  [s \in Symbols |-> IF slices'[i] = "ready" /\ s \in GetSlice(all, i, 0)
                           THEN open[s] + 1 ELSE open[s]]]

SubscribeSlicesOld(all, start_from) ==
  subscribed' = [i \in DOMAIN slices |->
    [s \in Symbols |-> IF slices'[i] = "ready" /\ s \in GetSlice(all, i, start_from)
                       THEN subscribed[i][s] + 1 ELSE subscribed[i][s]]]

\* MarketData::subscribe(start_from) on every slice.
SubscribeSlices(all, start_from) ==
  subscribed' = [i \in DOMAIN slices' |->
    LET open == IF i \in DOMAIN slices THEN subscribed[i] ELSE None
    IN  [s \in Symbols |-> IF slices'[i] = "ready" /\ s \in GetSlice(all, i, start_from)
                           THEN open[s] + 1 ELSE open[s]]]

\* Mutant of EnsureSymbolSlices: one slice is always enough.
EnsureSymbolSlicesOne(size) ==
  slices' = [i \in 1 .. (IF size > 1 THEN 1 ELSE size) |->
               IF i \in DOMAIN slices THEN slices[i] ELSE "down"]

\* A slice is opened for the symbols that do not fit the ones there are.
EnsureSymbolSlices(size) ==
  slices' = [i \in 1 .. size |-> IF i \in DOMAIN slices THEN slices[i] ELSE "down"]

\* The symbols of S that are new, in the order they come.
SymbolsUpdate(S) ==
  \E order \in SetToSeqs(S \ all_symbols) :
    /\ symbols' = symbols \o order
    /\ all_symbols' = all_symbols \cup S
    /\ EnsureSymbolSlices(Size(Len(symbols')))
    /\ SubscribeSlices(symbols', Len(symbols))

\* Clients subscribe the symbols S.
Subscribe(S) ==
  /\ S # {}
  /\ SymbolsUpdate(S)
  /\ UNCHANGED <<instruments, listed, drops>>

\* Mutant of MarketDataReady: a connection that comes back waits for new symbols.
MarketDataReadyFirst(i) ==
  /\ slices[i] = "down"
  /\ slices' = [slices EXCEPT ![i] = "ready"]
  /\ IF drops > 0 THEN UNCHANGED subscribed
     ELSE subscribed' = [subscribed EXCEPT ![i] =
                           [s \in Symbols |-> IF s \in GetSlice(symbols, i, 0) THEN 1 ELSE 0]]
  /\ UNCHANGED <<instruments, symbols, all_symbols, listed, drops>>

MarketDataReady(i) ==
  /\ slices[i] = "down"
  /\ slices' = [slices EXCEPT ![i] = "ready"]
  /\ subscribed' = [subscribed EXCEPT ![i] =
                      [s \in Symbols |-> IF s \in GetSlice(symbols, i, 0)
                                         THEN @[s] + 1 ELSE @[s]]]
  /\ UNCHANGED <<instruments, symbols, all_symbols, listed, drops>>

\* The exchange forgets the subscriptions of a connection.
MarketDataDisconnected(i) ==
  /\ slices[i] = "ready" /\ drops < MaxDrops
  /\ slices' = [slices EXCEPT ![i] = "down"]
  /\ subscribed' = [subscribed EXCEPT ![i] = None]
  /\ drops' = drops + 1
  /\ UNCHANGED <<instruments, symbols, all_symbols, listed>>

-----------------------------------------------------------------------------
(* Rest *)

\* The handler of INSTRUMENTS: get_instruments.
GetInstruments(pending) ==
  /\ download' = "INSTRUMENTS"
  /\ status' = "DOWNLOADING"
  /\ sequence' = sequence + 1
  /\ flight' = pending \cup {[sequence |-> sequence + 1, open |-> TRUE]}

\* begin, or bump when the connection was lost during the download.
RestConnected ==
  /\ rest = "down" /\ sequence < MaxRequests
  /\ rest' = "up"
  /\ baseline' = listed
  /\ GetInstruments(flight)
  /\ UNCHANGED <<market_data, listed, drops>>

RestDisconnected ==
  /\ rest = "up"
  /\ rest' = "down"
  /\ status' = "DISCONNECTED"
  /\ download' = IF download = "INSTRUMENTS" THEN download ELSE "UNDEFINED"
  /\ flight' = {[f EXCEPT !.open = FALSE] : f \in flight}
  /\ UNCHANGED <<sequence, baseline, market_data, listed, drops>>

\* skip: whether an answer comes too late.
Skip(f) == \/ download # "INSTRUMENTS"
           \/ f.sequence # sequence

\* The answer lists the instruments.
InstrumentsAck(f) ==
  /\ f \in flight /\ f.open
  /\ flight' = flight \ {f}
  /\ IF Skip(f)
     THEN UNCHANGED <<market_data, download, status>>
     ELSE /\ SymbolsUpdate(listed \ Discarded)
          /\ download' = "DONE"
          /\ status' = "READY"
  /\ UNCHANGED <<rest, sequence, baseline, listed, drops>>

\* Mutant of InstrumentsError: an error lets the download go on.
InstrumentsErrorIgnored(f) ==
  /\ f \in flight
  /\ flight' = flight \ {f}
  /\ IF download = "INSTRUMENTS" /\ rest = "up"
     THEN download' = "DONE" /\ status' = "READY"
     ELSE UNCHANGED <<download, status>>
  /\ UNCHANGED <<rest, sequence, baseline, market_data, listed, drops>>

\* An error is the answer, also of a connection that was lost.  retry asks once
\* more, if the download is still there and its connection up.
InstrumentsError(f) ==
  /\ f \in flight
  /\ IF download = "INSTRUMENTS" /\ rest = "up"
     THEN sequence < MaxRequests /\ GetInstruments(flight \ {f})
     ELSE flight' = flight \ {f} /\ UNCHANGED <<download, status, sequence>>
  /\ UNCHANGED <<rest, baseline, market_data, listed, drops>>

\* The exchange lists another instrument.
List(s) ==
  /\ s \notin listed
  /\ listed' = listed \cup {s}
  /\ UNCHANGED <<instruments, market_data, drops>>

-----------------------------------------------------------------------------
Init ==
  /\ rest = "down" /\ download = "UNDEFINED" /\ status = "DISCONNECTED"
  /\ sequence = 0 /\ flight = {}
  /\ symbols = <<>> /\ all_symbols = {} /\ slices = <<>> /\ subscribed = <<>>
  /\ listed = {} /\ baseline = {}
  /\ drops = 0

Next ==
  \/ RestConnected \/ RestDisconnected
  \/ \E f \in flight : InstrumentsAck(f) \/ InstrumentsError(f)
  \/ \E S \in SUBSET Symbols : Subscribe(S)
  \/ \E i \in DOMAIN slices : MarketDataReady(i) \/ MarketDataDisconnected(i)
  \/ \E s \in Symbols : List(s)

Spec == Init /\ [][Next]_vars

\* Connections are retried for ever (always_reconnect).
Fairness == \A i \in 1 .. Size(Cardinality(Symbols)) :
              WF_vars(i \in DOMAIN slices /\ MarketDataReady(i))

FairSpec == Spec /\ Fairness

-----------------------------------------------------------------------------
(* Properties *)

TypeOK ==
  /\ rest \in {"down", "up"}
  /\ download \in {"UNDEFINED", "INSTRUMENTS", "DONE"}
  /\ status \in {"DISCONNECTED", "DOWNLOADING", "READY"}
  /\ sequence \in 0 .. MaxRequests
  /\ flight \subseteq [sequence : 1 .. MaxRequests, open : BOOLEAN]
  /\ symbols \in Seq(Symbols) /\ all_symbols \subseteq Symbols
  /\ slices \in Seq({"down", "ready"})
  /\ subscribed \in Seq([Symbols -> Nat]) /\ Len(subscribed) = Len(slices)
  /\ listed \subseteq Symbols /\ baseline \subseteq listed
  /\ drops \in 0 .. MaxDrops

\* Every connection that is ready has subscribed exactly the symbols of its
\* slice, each once, however reconnects, the download and the subscriptions of
\* clients fall: the start_from of an update never repeats or leaves out what
\* the connection's own READY covers.
SubscribedOnce ==
  \A i \in DOMAIN slices, s \in Symbols :
    subscribed[i][s] = IF slices[i] = "ready" /\ s \in GetSlice(symbols, i, 0) THEN 1 ELSE 0

\* Every symbol known is in exactly one slice, and no slice is opened in vain.
SlicedOnce ==
  /\ all_symbols = ToSet(symbols)
  /\ \A s \in all_symbols :
       \E i \in DOMAIN slices :
         /\ s \in GetSlice(symbols, i, 0)
         /\ \A k \in DOMAIN slices \ {i} : s \notin GetSlice(symbols, k, 0)
  /\ IsInjective(symbols)
  /\ \A i \in DOMAIN slices : GetSlice(symbols, i, 0) # {}

\* Rest says READY only on a connection that has downloaded the instruments: each
\* one listed when it connected is then known, or discarded.
ReadyKnowsInstruments ==
  status = "READY" => rest = "up" /\ baseline \ Discarded \subseteq all_symbols

\* A symbol once known is streamed in the end.
Streamed ==
  \A s \in Symbols :
    s \in all_symbols ~> \E i \in DOMAIN slices : subscribed[i][s] > 0
=============================================================================
