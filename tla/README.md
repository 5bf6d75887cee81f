# roq-bitget: verification project

TLA+ models of the Bitget gateway (`src/src/roq/bitget`), TLC runs on small
instances, and TLAPS proofs. `G/` below is `src/src/roq/bitget/gateway/`, `P/` is
`src/src/roq/bitget/protocol/json/`.

## 1. The system

The gateway connects clients of the Roq trading framework to the exchange. It is
one event loop: timers, socket callbacks and client requests run to their end, one
at a time. What is concurrent is everything outside: the exchange, the
connections, and the framework's order management system (OMS). The timer is
dispatched to Rest, OrderEntry, DropCopy and MarketData in this order
(`G/controller.cpp:271-285`).

| Component | State | Operations | Interacts with |
|---|---|---|---|
| Controller | streams, accounts, `index_` of each account's round robin | routes order actions, subscribes symbols, opens slices | owns all others |
| DropCopy (1 master + n per account) | private web socket, `download_`, connection status | log-on, download, stale-order check, order actions (ws_api), orders, fills, funds, positions | Request, OMS |
| OrderEntry (1 per account) | HTTP connection, `next_heartbeat_`, `download_lost_orders_counter_` | order actions, snapshots, order details, heartbeat | Request, OMS |
| Request (1 per account) | six `core::limit::Request`, `details_lost_orders` | request, check_pending, commit, has_response | written by DropCopy and OrderEntry |
| Rest | HTTP connection, `download_` | instruments download | Controller |
| MarketData (1 per slice) | public web socket | subscribe, ticker, trades, books | Shared |
| Shared | symbols, all_symbols, fills, rate limiter, throttle | | everybody |
| Encoder, Map, Parser, Utils | none | messages, tables | all streams |
| Throttle | back-off | suspends connections by HTTP status | connections |
| Account, Config, API, Application, bridges | keys, options | signatures, paths, start-up | |

What is hard: the two connections of an account come and go independently, and
the download is split between them; REST answers carry nothing that names the
session they were asked in; the timer of OrderEntry can be cut short by
`NotConnected` in the middle of a loop; three `log::fatal` checks depend on the
bookkeeping being right; order actions take two paths with different promises;
the exchange cancels orders by a clock of its own. What makes each part correct
is stated in section 3; PROJECT.json lists the hazards line by line.

## 2. Modules

| Module | Models | Checked by | Proofs in |
|---|---|---|---|
| `AccountSync` | DropCopy's log-on and download, Request, OrderEntry's request queue | `AccountSync*` | `AccountSyncProofs` |
| `AccountStream` | abstract: what the private stream of an account promises; `AccountSync` implements it | `AccountSyncSafety` | `AccountSyncProofs` |
| `MCAccountSync` | symmetry for TLC | | |
| `RoundRobin` | `DropCopyRR::get_next` | `RoundRobin` | `RoundRobinProofs` |
| `OrderActions` | create, modify, cancel, cancel-all over REST and web socket | `OrderActions` | `OrderActionsProofs` |
| `DeadManSwitch` | heartbeat and countdown | `DeadManSwitch*` | `DeadManSwitchProofs` |
| `MarketDataFeed` | instruments download, symbol slices, subscriptions | `MarketDataFeed` | `MarketDataFeedProofs` |
| `PublicData` | what clients see of books, tops and trades | `DataStreams` | `StreamsProofs` |
| `MarketView` | abstract: what is promised of books and trades; `PublicData` implements it | `DataStreams` | `StreamsProofs` |
| `Holdings` | what clients see of funds and positions | `DataStreams` | `StreamsProofs` |
| `MCStreams` | `PublicData` and `Holdings` side by side | `DataStreams` | `StreamsProofs` |
| `TradeUpdates` | grouping of fills into trade updates | `TradeUpdates` | `TradeUpdatesProofs` |
| `OrderTerms` | order terms through `map.cpp` out and back | `OrderTerms` | `OrderTermsProofs` |

How they fit together: `MarketDataFeed` says which symbols a connection carries,
`PublicData` what becomes of their messages. `AccountSync` says when a snapshot is
asked for and when its answer counts, `Holdings` what its values do to those shown.
`RoundRobin` says which web socket an order action takes, `OrderActions` what
becomes of the action, `OrderTerms` what its terms become, `TradeUpdates` what is
told of its fills. Each module leaves open (as a choice) what another one settles.

Left to do: the throttle, once the framework's `suspend` can be stated; several
accounts on one rate limiter.

## 3. What is modelled, and what the runs show

### AccountSync

One action per handler. `dl` is `DropCopy::download_.state()`, and a handler that
returns 0 hands over to the next state at once (`After`). `queued` and
`answered` are the two facts the code reads of a `core::limit::Request`; `lost` is
`details_lost_orders`; `flight` and `asked` are the requests on the HTTP
connection. `DropCopyTimer` is `check_request_queue` and, when READY, the timed
`check_stale_orders`. `OrderEntryTimer` sends any subset of the queue, the
rate limiter's choice; `OrderEntryTimerThrows` is the same timer cut short by
`NotConnected` between two order-details requests: orders asked so far have been
counted, the request stays queued and the set is not cleared. Errors commit like
successes (`SnapshotAck`). `asks`, `answer` and `confirmed` are history.

- `AccountSyncSafety` (2 orders, 2 sessions, 1 loss of REST, 2 stale events, 3
  concurrent rounds of order-details requests, every fault): the counter is the
  number of requests in flight, neither `log::fatal` of the lost-order protocol
  is reachable, no lost order is left behind, a download past a subscription had
  its answer on this web socket, and everything implements `AccountStream`.
- `AccountSyncLiveness`: a log-on leads to READY unless the web socket is lost,
  and a READY account resolves every stale order.
- `AccountSyncStale` is expected to fail: a snapshot asked for by the previous
  session completes the new session's download step (finding 1).

Bounds: two sessions are needed to see anything survive one, and the last of them
is not lost again; one loss of REST puts requests in flight across a reconnect;
two stale events on two orders let a round overlap the previous one. `Batches`
are only labels; three let three rounds be in flight at once.

`AccountStream` has three statuses, the topics live on this connection and the
snapshots asked for on it. The refinement mapping is `ImplementsAccountStream`.

### RoundRobin

`index_` and the set of ready connections, which changes at any time. `used`
records which connection carried actions while another one waited. N = 4 is
large enough for the search to pass several connections that are not ready.

### OrderActions

The OMS numbers its requests per order; the exchange executes or refuses; each
link is a queue of requests and one of answers. Whether order actions take the web
sockets (`ws_api`) is chosen initially. On REST, the callback
remembers the request and reports errors only. On a web socket the id
carries it, and the answers in flight are lost with the connection. A cancel-all
always takes REST.

- `OrderActions` (two sockets and REST): each request is answered at most once, and
  with the truth; none is lost without trace; over REST a cancel-all reaches all
  that was created before it; one socket keeps the order of the requests.

Not promised, and therefore conditions of the properties: the truth of a REJECTED
that stems from a 5xx answer (`LateServer`), the order of requests over several
sockets, a cancel-all over REST against a creation on a web socket, the origin of
a failed cancel-all. One order and three requests reach every combination of two
requests in flight behind a creation; one lost connection separates a request
from its answer. That the exchange processes a request after its connection was
lost is not modelled: what was on its way is dropped.

### DeadManSwitch

Time in steps of a fraction of a second. `Tick` lets time pass no further than
the promises in the constants: timers fire at least every `TimerPeriod`, a request
arrives within `Latency`, an outage is over within `MaxOutage`.
`DeadManSwitch.cfg` is the default ping frequency of 5 s with thirds of seconds as
steps; it satisfies `Timely`. `DeadManSwitchLong` is expected to fail: with
240 s the heartbeats are further apart than the longest countdown (finding 2).

### MarketDataFeed

`symbols` is `shared.symbols`, `slices` the MarketData connections, `subscribed`
counts per connection and symbol what was sent. `core::Download2` is external: an
answer is skipped when the state was passed or a later request was made; a retry
asks again only while the download is still at that state and the connection up.
Three symbols, two per slice, one of them discarded by the configuration: the
second slice opens in the middle of an update; three requests and two losses cover
a reconnect during the download and a slice that comes back twice.

### PublicData and Holdings

`PublicData`: one connection per symbol, with a queue of messages from the
exchange; the buffers of Shared (`bids`, `asks`, `trades`) are one for all
connections, as in the code, and every handler fills and dispatches them in one
step of the event loop. A snapshot of trades is dropped (`G/market_data.cpp:312`), an update of the
book without a level dispatches nothing (`G/market_data.cpp:380`), a snapshot included.

`Holdings`: one account's funds, or its positions: in hedge mode, or in one-way mode
with each position called long or short, or called `net` (the third value of
`posSide`; which of the two the exchange does, no test or comment says). Pushes come
on DropCopy's connection, the download on OrderEntry's, and nothing orders them.
An item carries one side of a position and shows zero for the other one; a `net` item
shows zero for both (`G/drop_copy.cpp:484-495`, `G/order_entry.cpp:434-445`). Every
version a key ever had is remembered (`held`), and `age` says which one is shown.

External, modelled from how the code uses it: a SNAPSHOT replaces the dispatcher's
book and an INCREMENTAL update its levels; the exchange sends a ticker with each
change of a book, and, after a subscription, a snapshot of each topic; the snapshot
of a private channel may be missing (for this reason the code downloads as well); a key
that is not held is in no snapshot; the `size` of a position push and the `total` of
the download (`G/order_entry.cpp:436`) are one quantity, and so are the `balance` of a
push of the account and that of the download, which the code marks with `???`
(`G/order_entry.cpp:372`). Were they not, what is shown would depend on the source, and
`ShownAsHeld` would not hold.

`DataStreams` runs both:

- what clients see of the market is what `MarketView` allows (`ImplementsMarketView`):
  the book of a symbol is the exchange's of the sequence number it is shown with, never
  an older one again, and its trades come in their order, with two symbols in the same
  buffers and reconnects at any time; top and book agree when all has arrived; each
  trade is told once or was printed in an outage;
- what is shown of a key is what the exchange held at some time, never a mix of two
  times or two sides (`ShownAsHeld`, with two exceptions); and what a session that has
  settled shows is of the latest.

What the code does not promise is excepted by name: after an empty book snapshot the old
levels stay (`kept`); trades of an outage are missing (`missed`); an answer that a
push overtook brings an older value back (`age < newest`); a position closed
between two sessions is in no snapshot and stays on display (`unlisted`); in hedge mode one
side at a time is shown; of a position called `net` nothing is shown, although it is held.

The two share no variable, so the run lets one move per behaviour. Two
symbols share the buffers; two changes and one loss give an increment, a loss and a
snapshot that lacks a level; two sessions and three changes give an answer of the
first session in the second one behind a push. A price has one quantity or none
(`MaxLots = 1`) and a message one or two trades (`MaxBatch = 2`). The proofs lift all
of these bounds.

`MarketView` has, for each symbol, the books and the number of trades of the exchange,
the book that is shown and which one it is, and the trades told. `Show` moves to a book
that is not before the one that is shown; `Spoil` is the empty snapshot that dispatches
nothing, after which levels are left over until the next snapshot with a level; `Tell`
adds later trades. The refinement mapping is `View` in `MCStreams`: `sequence` tells
which book is shown, `kept` the symbols that are spoiled.

### TradeUpdates

The loop shared by `DropCopy::operator()(Fill)` and
`OrderEntry::operator()(TradeFillsAck)`. Two keys, three times and messages of up
to four fills reach every pattern of group boundaries; the proofs lift the bounds.
Fees, and the second time (`updated_time`, which is treated alike), are left out.

### OrderTerms

The terms of an order through the encoder, an exchange that takes or refuses it, fills or
cancels it, and back through the two tables: `trade_side` on the order channel, `pos_side`
with `side` in the open orders (`UnfilledOrdersAck`) and the order details
(`OrderDetailsAck`). The details are a request and an answer in flight, on another
connection than a creation by web socket. An answer has the order as it was when the
exchange gave it; or code 25204, which `G/order_entry.cpp:594-597` and `627-632` turn
into a report REJECTED with blank side, type, time in force and effect; or any other
error, which is only logged.

`TermsKept` and `EffectKept` speak of the reports that have terms, not of the blank one.
`DoneIsDone`: who is reported COMPLETED, CANCELED or REJECTED is not filled any more. The
one exception has a name, `early`: the exchange answered 25204 while the creation was
still on its way, so that the order reported REJECTED may yet come to life. The code
asks only for orders that the OMS calls stale; whether one can be stale so soon is
not visible in src/.

What the exchange does is external: in hedge mode
an order needs a position side; a market order is reported as ioc; an unknown time
in force is refused or taken as gtc; in one-way mode `trade_side` is buy_single or
sell_single and `pos_side` is any (as in
`src/test/json_order_details_ack.cpp:37-41`); it answers 25204 for an order it does not
have yet, refused, or is done with. In one-way mode the order channel therefore tells no
effect (UNDEFINED) where the snapshots of the same order may tell OPEN or CLOSE;
`EffectKept` is about hedge mode only. All combinations of terms are initial
states, so the only bounds are the number of fills and one order-details request at a
time: an answer does not depend on other requests.

### Assumptions on what is not under src/

- `core::limit::Request`: `request` queues and clears the answer; `check_pending`
  dequeues after its callback has returned, so that an exception leaves the
  request queued; `commit` counts only when the request is not queued. The last
  is the constant `EagerCommit = FALSE`. Should a commit answer a request that is
  still queued, `G/drop_copy.cpp:787` could be reached after a round cut short by
  `NotConnected`; the properties that need it say `~EagerCommit`.
- A REST request whose connection is lost gets its callback with `NetworkError`.
- The exchange answers an order action on a web socket by its topic only if it executed
  it, with one element of `args`, and everything else by an error event, as in the tests.
  `G/drop_copy.cpp:651-715` does not look at the code: it reports ACCEPTED for each
  element, so `ToldTheTruth` rests on this.
- `get_all_stale_orders` reports an order until an update resolves it;
  `find_order` may cease to find it.

### Fairness

Timers fire, connections are retried (`always_reconnect = true`), the exchange
answers what it received: weak fairness. The rate limiter lets a queued request
through in the end although the REST connection may come and go: strong fairness
per request. An order-details request that is repeated for ever does not fail for
ever: strong fairness of the successful answer. The faults of the exchange
(a subscription that is refused, an order the OMS forgets) are off in the
liveness run, because the code then really waits until the connection is lost.
MarketDataFeed needs only that connections come back.

### Deadlock

Checked in AccountSync (a process that called `log::fatal` is allowed to stop, by
`Terminated`), RoundRobin and OrderTerms. The other runs say `CHECK_DEADLOCK FALSE`: they end
when their bounded orders, requests, time or message are used up.

## 4. What is proved

All for every value of the constants that satisfies the module's ASSUME; no
bound of a run is used.

- **AccountSyncProofs.** `TypeCorrect`. `LostOrders`: `LostOrdersInv` is
  inductive. Two of its parts need more than themselves: that `lost_orders` is
  answered only when nothing is open needs `AnsweredNotQueued` and
  `LostOrdersAreQueued`, because a timer that sends the round both empties `lost` and
  makes the answer possible again; the counter needs `asked` to be finite, and
  that a batch number is fresh, so that a round adds as many requests as it
  counts. `CounterCorrect`, `AckNeverUnexpected`, `LostOrdersQueued`,
  `LostOrdersDone` and `DownloadNeverUnexpected` follow. `NothingLeft`: a state is left when its
  request is answered, hence not queued, and no later state requests it again. `SubscribedThisSession` rests on `SessionInv` (no
  download and no confirmed topic outside a session). `Refinement` maps every step
  to `Begin`, `Progress`, `Disconnect` or a stutter of `AccountStream`.
- **RoundRobinProofs.** `NeverOvertaken` rests on `Behind`: a connection that
  carried an action while d waited lies further from d than the index does.
- **DeadManSwitchProofs.** `NotCancelled`, under `Timely`, an inequality between the
  settings and the delays. `HeartbeatInv` follows the chain of heartbeats:
  successive ones are at most an interval and a timer period apart (`Regular`),
  and after one loss either one interval is doubled (`OneFailed`) or the next one
  comes as soon as the connection is back (`OneOutage`).
- **TradeUpdatesProofs.** `FillsKept`, `OrdersKept`, `TimesKept` from `UpdatesInv`:
  each group, sent or still collected, is a run of fills of one order with the
  latest of their times, and goes on where the one before it ends.
- **StreamsProofs.** `StreamsAreBoth`: a behaviour of the composition is one of
  `Holdings` and one of `PublicData`, because a step of the one leaves the variables of
  the other alone. What is proved of either therefore holds of the run's specification.

  Of `Holdings`: `ShownCorrect` rests on `HoldingsInv`: every message and answer
  on its way says what the exchange held at its version, or calls it net. `SettledCorrect` rests on
  `LatestInv`: in a session the latest version of a key has been shown, or was given
  up, or a push of it is on its way, or it is in every download of the session that
  could be its first snapshot.

  Of `PublicData`: the properties speak of what is shown, and none of them is inductive
  without the queue of the connection, which a reconnect empties at any moment.
  `MarketCorrect` proves `MarketInv`, one `SymbolInv` per symbol: each message in the
  queue is true to a book the exchange had (`Sent`); there is an n such that the queue
  tells the books after the n-th, one by one, of which only the first may be a snapshot
  (`TellsAfter`), and if none is a snapshot the n-th is the one that is shown; the last
  ticker of the queue, or the top that is shown if there is none, is that of the latest
  book (`TopLeads`); trades that were told, trades in the queue and trades that were
  missed make up all that were printed, in this order and without overlap (`TradesLead`).
  That an increment turns the n-th book into the next one is `IncrementTells`, that the
  two buffers make up a whole update `SidesMakeUp`; what the buffers held before does not
  matter, because the handler fills both anew. That a side has a best
  price rests on prices being finitely many (`HasGreatest`, `HasLeast`).
  `StreamsTypesCorrect`, `BookCorrect`, `TopCorrect` and `TradesCorrect` follow.
  `MarketRefinement` maps every step to one of `MarketView` or a stutter: a book update is
  a `Show`, a `Spoil`, or nothing new. It needs one more conjunct of `SymbolInv`: the book
  that is told next, the one after the n-th, is not before the one that is shown.
- **OrderTermsProofs.** `TermsCorrect`, `EffectCorrect`, `MeantCorrect` and
  `DoneCorrect` from `TermsInv`: the message, the exchange's order and an order in the
  answer on its way carry what the tables make of the terms asked for. The tables are
  compared case by case. `DoneCorrect` needs `DetailsTrue`: an order that is done in an
  answer on its way, or that 25204 denies, is `Gone`, and stays so, or was asked for too
  early. Being not `Working` would not be inductive, as an order on its way is not yet.
- **MarketDataFeedProofs.** `SlicesCorrect` and `SubscribedCorrect` from `FeedInv`:
  the symbols are known once each, there are as many slices as they fill, and what
  a connection subscribed is what its slice had when it was last looked at. Most of
  it is the arithmetic of slices (`Division`, `SizeFits`, `OneSlice`, `SliceGrows`):
  each position belongs to one slice, and new symbols change no older position. `ReadyCorrect`:
  only an answer of this connection completes the download.
- **OrderActionsProofs.** `ActionsInv` says that each request took one link, is in
  at most one place of it (queue out, queue back, told), that versions on their way
  are no later than the OMS's, and that every answer on its way is true.
  `ToldOnceCorrect`, `ToldTruthCorrect` and `AccountedCorrect` follow. The ids of
  the web socket need `IdsKnown`: a prefix with the version names one request. `InOrderCorrect`
  adds that versions rise along each queue from the one handled last;
  `CancelAllCorrect`, that a creation is ahead of each cancel-all made after it.

The assumptions are those the ASSUMEs name: bounds are naturals; symbols and
sockets are finitely many where they are counted; the prices of a book are finitely
many positive numbers, and none is both a bid and an ask; `MaxVersion` is at least one,
the creation; `"rest"` and `"all"` name no socket and no order; `Timely` for DeadManSwitch.

Every invariant and every refinement the passing runs check is a theorem. Only
model-checked: liveness and everything under fairness (`LoginLeadsToReady`,
`StaleIsResolved`, `Streamed`). Fairness and ENABLED are beyond the prover.

## 5. What is not modelled

- Throttle: what a suspended connection does is the connection manager's.
- Parser beyond the public topics, and the generated messages: pure parsing. The
  dispatch of the other messages is in the guards of the actions that take them.
- Account, crypto, configuration, settings, API, application, bridges: tables, keys
  and start-up.
- Ping and pong, statistics that come with a ticker, latencies, metrics and logging: nothing
  of the gateway's state depends on them.
- Error events on a public connection: they end the process.
- The framework: dispatcher, OMS, `core::Download2`, `core::limit::Request`,
  connections. They are external definitions, listed under the assumptions.
- A rate limiter shared by several accounts: each account is modelled by itself,
  and its limiter is any delay that ends.

PROJECT.json gives the reason for each component, and notes the hazards that no property
covers.

## 6. Findings

1. `AccountSyncStale`: REST answers of an earlier session complete the download
   steps of a new one (CHANGELOG #653 says the synchronisation is fixed).
2. `DeadManSwitchLong`: with a long ping frequency the exchange cancels the orders
   of a gateway that was never disconnected.

## 7. Running

    tlc -workers 2 -config AccountSyncSafety.cfg MCAccountSync
    tlapm AccountSyncProofs.tla

The other runs are named after their .cfg in PROJECT.json.
