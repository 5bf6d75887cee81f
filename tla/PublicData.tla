------------------------------- MODULE PublicData -------------------------------
(***************************************************************************)
(* What clients are shown of a symbol's book, its top and its trades:      *)
(* MarketData from the subscription of a connection to the updates it      *)
(* dispatches.  Each connection carries one symbol here; which symbols it  *)
(* really carries is the subject of MarketDataFeed.  All connections       *)
(* assemble their updates in the same buffers of Shared.                   *)
(*                                                                         *)
(* The exchange and the dispatcher are external.  After a subscription the *)
(* exchange sends a snapshot, then each change, in order; what is on the   *)
(* way is lost with the connection.                                        *)
(***************************************************************************)
EXTENDS Naturals, Sequences

CONSTANTS
  Symbols,
  Bids, Asks,    \* prices of the book, positive numbers; no price is in both
  MaxLots,       \* bound: quantity at a price
  MaxChanges,    \* bound: changes of the books
  MaxTrades,     \* bound: messages with trades
  MaxBatch,      \* bound: trades of a message
  MaxDrops       \* bound: connections lost

VARIABLES
  status,       \* [symbol -> MarketData::connection_status_]
  incoming,     \* [symbol -> messages on their way to the gateway]
  bids, asks,   \* Shared: the sides of a book update
  trades,       \* Shared: the trades of a trade summary
  book,         \* the dispatcher: [symbol -> its market by price]
  top,          \* the dispatcher: [symbol -> its top of book]
  reported,     \* the dispatcher: [symbol -> the trades of its summaries]
  past,         \* the exchange: [symbol -> its books so far, oldest first]
  printed,      \* the exchange: [symbol -> number of its trades]
  sequence,     \* history: [symbol -> the sequence number of its last update]
  kept,         \* history: symbols with levels from before an empty snapshot
  missed,       \* history: [symbol -> trades printed while it was not streamed]
  drops, changes, prints

buffers  == <<bids, asks, trades>>
clients  == <<book, top, reported>>
exchange == <<past, printed, changes, prints>>
hist     == <<sequence, kept, missed>>
vars == <<status, incoming, buffers, clients, exchange, hist, drops>>

Levels == Bids \cup Asks
Books  == [Levels -> 0 .. MaxLots]      \* the quantity at each price
Empty  == [p \in Levels |-> 0]
Now(s) == past[s][Len(past[s])]

\* The best prices, 0 on an empty side.
Top(b) ==
  LET bid == {p \in Bids : b[p] > 0}
      ask == {p \in Asks : b[p] > 0}
  IN  [bid |-> IF bid = {} THEN 0 ELSE CHOOSE p \in bid : \A q \in bid : q <= p,
       ask |-> IF ask = {} THEN 0 ELSE CHOOSE p \in ask : \A q \in ask : p <= q]

On(side, f) == [p \in side \cap DOMAIN f |-> f[p]]

\* The levels of f, and those of g where f has none.
Over(f, g) == [p \in DOMAIN f \cup DOMAIN g |-> IF p \in DOMAIN f THEN f[p] ELSE g[p]]

-----------------------------------------------------------------------------
(* Messages of the exchange *)

TickerMessage(b) == [topic |-> "ticker", top |-> Top(b)]
TradeMessage(action, data) == [topic |-> "publicTrade", action |-> action, data |-> data]

\* seq numbers the books of the symbol.
BooksMessage(action, levels, seq) ==
  [topic |-> "books", action |-> action, bids |-> On(Bids, levels),
   asks |-> On(Asks, levels), seq |-> seq]

\* The levels a snapshot of b lists, and those that tell b from the book a.
Listed(b)     == [p \in {q \in Levels : b[q] > 0} |-> b[p]]
Changes(a, b) == [p \in {q \in Levels : a[q] # b[q]} |-> b[p]]

-----------------------------------------------------------------------------
(* MarketData: connection *)

\* operator()(Ready) subscribes; the exchange answers each topic with a snapshot:
\* the top, the latest trades, the book.
Ready(s) ==
  /\ status[s] = "DISCONNECTED"
  /\ status' = [status EXCEPT ![s] = "READY"]
  /\ incoming' = [incoming EXCEPT ![s] =
       <<TickerMessage(Now(s)),
         TradeMessage("snapshot", IF printed[s] = 0 THEN <<>> ELSE <<printed[s]>>),
         BooksMessage("snapshot", Listed(Now(s)), Len(past[s]))>>]
  /\ UNCHANGED <<buffers, clients, exchange, hist, drops>>

OnTheWay(s) == {i \in DOMAIN incoming[s] : /\ incoming[s][i].topic = "publicTrade"
                                           /\ incoming[s][i].action = "update"}

Disconnected(s) ==
  /\ status[s] = "READY" /\ drops < MaxDrops
  /\ status' = [status EXCEPT ![s] = "DISCONNECTED"]
  /\ incoming' = [incoming EXCEPT ![s] = <<>>]
  /\ missed' = [missed EXCEPT ![s] =
       @ \cup UNION {{incoming[s][i].data[k] : k \in DOMAIN incoming[s][i].data}
                       : i \in OnTheWay(s)}]
  /\ drops' = drops + 1
  /\ UNCHANGED <<buffers, clients, exchange, sequence, kept>>

-----------------------------------------------------------------------------
(* MarketData: the handlers Parser dispatches a message to *)

Arrives(s, topic) ==
  /\ incoming[s] # <<>>
  /\ Head(incoming[s]).topic = topic
  /\ incoming' = [incoming EXCEPT ![s] = Tail(@)]

\* The top of the book replaces the one before.
Ticker(s) ==
  /\ Arrives(s, "ticker")
  /\ top' = [top EXCEPT ![s] = Head(incoming[s]).top]
  /\ UNCHANGED <<status, buffers, book, reported, exchange, hist, drops>>

\* Mutant of PublicTrade: the snapshot is reported too.
PublicTradeAll(s) ==
  /\ Arrives(s, "publicTrade")
  /\ trades' = Head(incoming[s]).data
  /\ reported' = [reported EXCEPT ![s] = @ \o trades']
  /\ UNCHANGED <<status, bids, asks, book, top, exchange, hist, drops>>

\* The snapshot is dropped.
PublicTrade(s) ==
  /\ Arrives(s, "publicTrade")
  /\ LET m == Head(incoming[s])
     IN  IF m.action # "update" THEN UNCHANGED <<trades, reported>>
         ELSE /\ trades' = m.data
              /\ reported' = [reported EXCEPT ![s] = @ \o trades']
  /\ UNCHANGED <<status, bids, asks, book, top, exchange, hist, drops>>

\* What the dispatcher makes of an update: a snapshot replaces the book, an
\* increment its levels.
Applied(b, action, levels) == Over(levels, IF action = "snapshot" THEN Empty ELSE b)

\* The buffers are dispatched; without a level nothing is, not even a snapshot.
Updated(s, action, seq) ==
  IF DOMAIN bids' \cup DOMAIN asks' = {}
  THEN /\ kept' = IF action = "snapshot" /\ book[s] # Empty THEN kept \cup {s} ELSE kept
       /\ UNCHANGED <<book, sequence>>
  ELSE /\ book' = [book EXCEPT ![s] = Applied(@, action, Over(bids', asks'))]
       /\ sequence' = [sequence EXCEPT ![s] = seq]
       /\ kept' = IF action = "snapshot" THEN kept \ {s} ELSE kept

\* Mutants of BooksUpdate: every update is incremental; the buffers are not cleared.
BooksUpdateIncremental(s) ==
  /\ Arrives(s, "books")
  /\ LET m == Head(incoming[s])
     IN  /\ bids' = m.bids /\ asks' = m.asks
         /\ Updated(s, "update", m.seq)
  /\ UNCHANGED <<status, trades, top, reported, exchange, missed, drops>>

BooksUpdateKept(s) ==
  /\ Arrives(s, "books")
  /\ LET m == Head(incoming[s])
     IN  /\ bids' = Over(m.bids, bids) /\ asks' = Over(m.asks, asks)
         /\ Updated(s, m.action, m.seq)
  /\ UNCHANGED <<status, trades, top, reported, exchange, missed, drops>>

\* operator()(Books)
BooksUpdate(s) ==
  /\ Arrives(s, "books")
  /\ LET m == Head(incoming[s])
     IN  /\ bids' = m.bids /\ asks' = m.asks
         /\ Updated(s, m.action, m.seq)
  /\ UNCHANGED <<status, trades, top, reported, exchange, missed, drops>>

-----------------------------------------------------------------------------
(* The exchange *)

\* The book of s becomes b, in one step whatever the levels: an increment and a
\* ticker tell it.
Change(s, b) ==
  /\ changes < MaxChanges /\ b # Now(s)
  /\ changes' = changes + 1
  /\ past' = [past EXCEPT ![s] = Append(@, b)]
  /\ incoming' = IF status[s] # "READY" THEN incoming
       ELSE [incoming EXCEPT ![s] = @ \o
              <<BooksMessage("update", Changes(Now(s), b), Len(past[s]) + 1),
                TickerMessage(b)>>]
  /\ UNCHANGED <<status, buffers, clients, printed, prints, hist, drops>>

\* n trades of s are printed in one message.
Trade(s, n) ==
  /\ prints < MaxTrades
  /\ prints' = prints + 1
  /\ printed' = [printed EXCEPT ![s] = @ + n]
  /\ LET data == [i \in 1 .. n |-> printed[s] + i]
     IN  IF status[s] = "READY"
         THEN /\ incoming' = [incoming EXCEPT ![s] = Append(@, TradeMessage("update", data))]
              /\ UNCHANGED missed
         ELSE /\ missed' = [missed EXCEPT ![s] = @ \cup {data[i] : i \in 1 .. n}]
              /\ UNCHANGED incoming
  /\ UNCHANGED <<status, buffers, clients, past, changes, sequence, kept, drops>>

-----------------------------------------------------------------------------
Init ==
  /\ status = [s \in Symbols |-> "DISCONNECTED"]
  /\ incoming = [s \in Symbols |-> <<>>]
  /\ bids = <<>> /\ asks = <<>> /\ trades = <<>>
  /\ book = [s \in Symbols |-> Empty] /\ top = [s \in Symbols |-> Top(Empty)]
  /\ reported = [s \in Symbols |-> <<>>]
  /\ past = [s \in Symbols |-> <<Empty>>] /\ changes = 0
  /\ printed = [s \in Symbols |-> 0] /\ prints = 0
  /\ sequence = [s \in Symbols |-> 0] /\ kept = {}
  /\ missed = [s \in Symbols |-> {}]
  /\ drops = 0

Next == \E s \in Symbols :
          \/ Ready(s) \/ Disconnected(s)
          \/ Ticker(s) \/ PublicTrade(s) \/ BooksUpdate(s)
          \/ \E b \in Books : Change(s, b)
          \/ \E n \in 1 .. MaxBatch : Trade(s, n)

Spec == Init /\ [][Next]_vars

-----------------------------------------------------------------------------
(* Properties *)

TypeOK ==
  /\ status \in [Symbols -> {"DISCONNECTED", "READY"}]
  /\ book \in [Symbols -> Books] /\ top \in [Symbols -> [bid : Bids \cup {0}, ask : Asks \cup {0}]]
  /\ \A p \in DOMAIN bids : p \in Bids
  /\ \A p \in DOMAIN asks : p \in Asks
  /\ \A s \in Symbols : \A i \in DOMAIN reported[s] : reported[s][i] \in 1 .. printed[s]
  /\ \A s \in Symbols : sequence[s] \in 0 .. Len(past[s])

\* The book clients see is one the exchange had, as a whole, and the very one of
\* the sequence number they see with it: across reconnects, whatever other
\* connections receive in between, and although levels vanished while nothing
\* was received.  Not so after a snapshot without levels: those from before it
\* then stay.
BookIsReal ==
  \A s \in Symbols \ kept : sequence[s] > 0 => book[s] = past[s][sequence[s]]

\* The two ways to tell the best price agree once all messages have arrived.
TopAgrees ==
  \A s \in Symbols \ kept :
    status[s] = "READY" /\ incoming[s] = <<>> => top[s] = Top(book[s])

\* Every trade is reported in its place and once, or was printed while the
\* symbol was not streamed: the snapshot after a reconnect repeats none and fills
\* no gap.
TradesOnce ==
  \A s \in Symbols :
    /\ \A i, k \in DOMAIN reported[s] : i < k => reported[s][i] < reported[s][k]
    /\ incoming[s] = <<>> =>
         1 .. printed[s] = missed[s] \cup {reported[s][i] : i \in DOMAIN reported[s]}
    /\ \A i \in DOMAIN reported[s] : reported[s][i] \notin missed[s]
=============================================================================
