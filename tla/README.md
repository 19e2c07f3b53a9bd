# hqt in TLA+

Specifications, model-checking configurations and proofs for the Hybrid
Quantum-classical Trading system (hqt). The reference is the source under
`src/`; every definition that models code is mapped to its lines in
`PROJECT.json` ("map").

## 1. The system

hqt is five services and their infrastructure (Kafka, PostgreSQL with
TimescaleDB and AGE, Redis, Prometheus).

| Component | Source | State | Operations | Talks to |
|---|---|---|---|---|
| Order handlers | `module1_lob/lob_server.cpp` | books, order metadata, id counter, 16 stripe mutexes | POST, DELETE, PATCH `/lob/order`, GET `/lob/depth` | engine, publisher, depth stream |
| Book registry | same, `get_book`, `/lob/health` | four global maps from symbol to engine parts | look up, make, list | order handlers |
| Depth stream | same, `broadcast_depth`, `DepthStreamController` | subscribers per symbol | connect, disconnect, broadcast | order handlers, WebSocket clients |
| Trade publisher | same, `KafkaLogger`, worker thread | in-memory queue | log a fill, produce | Kafka `executed_trades` |
| Matching engine | external (`lob::BookCore`) | price levels | submit, cancel, top N | order handlers |
| Kraken feeder | `module1_lob/kraken_feeder.py` | none | forward Level 2 updates as orders | Kraken, order handlers |
| Kafka consumer | `module2_timescale/kafka_consumer.py` | batch, offsets | poll, insert, flush | Kafka, `raw_ticks` |
| Live streamer | `module2_timescale/live_streamer.py` | trade counter | receive, produce, reconnect | Kraken, Kafka |
| Smart backfiller | `module2_timescale/smart_backfiller.py` | counters | find gaps, fetch, insert, refresh | Kraken, `raw_ticks` |
| Edge weight updater | `module3_graph/edge_weight_updater.py` | fiat cache, edges of `fx_graph` | update round | LOB, database, FX services |
| Detector | `module3_graph/bellman_ford.py` | none | read rates, find a cycle, insert a signal | database |
| Quantum service | `module4_quantum/` | none | fetch rates, search, insert signals | graph service, database (it shares `arbitrage_signals` with the detector) |
| Security proxy | `module5_security/` | Redis counters, local windows | limit, filter, forward | all services |

What makes them correct, and where that is hard:

- **Order handlers.** A handler is several critical sections under two kinds of
  lock, and any of 64 threads can act between them. An order must be cancelled
  or replaced at most once, never trade after that, stay reachable by its id
  while it rests, and a book must never be changed under a running match or
  shown crossed.
- **Book registry.** An engine holds references to its levels and logger. It
  must be made once, and nobody may see it half made.
- **Depth stream.** Depth and subscribers are read under different locks and
  sent under none. A client must not miss the last change of the book.
- **Publisher, consumer, streamer.** Trades cross a memory queue, a broker and
  a batch before they are rows: loss, duplication and reordering at each.
- **Backfiller.** A gap must be filled with each trade once.
- **Updater and detector.** Two tasks share the graph; one awaits between
  statements that are committed one by one. A cycle reported should have been
  profitable at some rates that held together.
- **Quantum service.** Rates are used after an await; two signals are one round,
  in a table that the detector writes too.
- **Security proxy.** A limit counted in two calls to Redis, with a fallback
  that counts on its own; a forwarded request that times out may have happened.

`PROJECT.json` lists all components with their status, and under "hazards" each
place where this goes beyond what tests reach, with the property that covers it
or the reason why none does.

## 2. Modules

| Module | What it is |
|---|---|
| `BookCore` | operators for the engine: who faces whom, price-time priority, reduce, cancel. The engine's source (`module1_lob/engine`) is not in the repository, so these are modelled from how `lob_server.cpp` uses it and marked external. |
| `LobServer`, `LobServerProofs` | the order handlers: one action per request and per critical section |
| `Exchange` | what the order-entry interface promises, without threads, locks or steps |
| `DepthStream`, `DepthStreamProofs` | the WebSocket depth stream of one symbol |
| `BookRegistry`, `BookRegistryProofs` | the global maps, at the granularity of one map access |
| `LobCalls` | HTTP calls that place orders in the LOB, with time-outs and crashes |
| `KrakenFeeder`, `SecurityProxy` | the two callers: a Level 2 feed, and clients behind the proxy |
| `OrderEntry`, `OrderEntryProofs` | both of them on the same calls |
| `TradePipeline`, `TradePipelineProofs` | a trade's way through queue, broker and batch into `raw_ticks` |
| `RawTicks` | the table and Kraken's paged history, as the jobs below see them |
| `SmartBackfiller`, `HistoryLoader` | the task that fills gaps, and the processes that load history |
| `TickHistory`, `TickHistoryProofs` | consumer, backfiller and loaders writing `raw_ticks` at once |
| `BellmanFord` | the detector's algorithm |
| `GraphService` | the graph across restarts, the updater's rounds, the detector that reads between them, the queries |
| `Grover` | the circuit of Grover's search, with exact amplitudes |
| `QuantumService` | the quantum loop with its thread, and the requests beside it |
| `ArbitrageProofs` | the proofs about `BellmanFord`, `GraphService`, `Grover` and `QuantumService` |
| `RateLimiter`, `RateLimiterProofs` | the proxy's counter in Redis and its fallback |
| `MC...` | the instances TLC checks |

### LobServer

A thread is a worker of the pool; `pc[t]` is the section it enters next, and
`job[t]` the locals of its handler.

| Code | Model |
|---|---|
| POST: validate, `o.id = gid++` (248-281) | `PostOrder` |
| POST: take the stripe, `get_book` (283-285) | `SubmitOrder` |
| one trade of `submit_limit` / `submit_market`, `log_fill` (60-75) | `TradeOnce` |
| the engine call ends, the stripe is released | `EndMatch` |
| `order_meta_map` under `oid_mutex` (292-296, 362-366, 462-467) | `UpdateMeta` |
| DELETE: look the metadata up (316-344), cancel (346-360) | `DeleteOrder`, `CancelOrder` |
| PATCH: look the metadata up (378-430), cancel and re-place (432-460) | `ModifyOrder`, `ReplaceOrder` |
| 404 because the order is gone | `TargetGone` |
| `broadcast_depth` under the stripe (120-145) | `BroadcastDepth` |
| GET `/lob/depth` (482-509), which makes a book for any symbol | `GetDepth` |

A section that no other thread can observe from inside is one action. Matching
is not: `log_fill` hands each trade to the queue while the engine runs, and the
lock is what keeps others out, so `TradeOnce` is one trade and `BookIsGuarded`
says that the lock suffices. The variable `cancelled` is a history variable.
Requests that are refused without touching state (unparsable, price or quantity
not positive, unknown id) are not steps. Ids and prices are small numbers, a
quantity is a number of units of 1e-8.

`Exchange` has orders, trades, cancels, replaces and handles (the ids a client
may name). `LobServer!ImplementsExchange` maps a resting order, or the rest of
an order that is being matched, to an open order, `order_meta_map` to the
handles, and the queue to the trades. PATCH, four sections in the code, is one
`Replace` there: nobody sees the order gone and not yet replaced.

### DepthStream

A change of the book, `ws_subscribe`, the snapshot, the copy of the subscribers
and each send are actions; a top-5 depth is represented by the number of changes
before it. A connection's close callback follows its open callback, as drogon
runs a connection's events in order.

### BookRegistry

Each access to a map is an interval: a thread is inside it while `pc` names it.
`Race` says two threads are inside one map and one of them writes. What happens
after a race is undefined in C++, so a behaviour of the model ends there and
`OneEnginePerSymbol` and `NoHalfMadeBook` speak of what comes before.
`/lob/health` lists every symbol once per stripe, 16 times in all
(`lob_server.cpp:518-522`); the model shows the iteration, not the list.

### TradePipeline

From `log_fill`'s queue in the LOB's memory, or from Kraken's stream, through a
Kafka producer, a partition of `executed_trades` and the consumer's batch into a
row of `raw_ticks`. A message is a place in a partition, so a trade written
twice is two messages.

| Code | Model |
|---|---|
| `KafkaLogger::log_fill`, the worker thread (`lob_server.cpp` 54-75, 203-245) | `LogFill`, `Produce`, `ProduceNothing` (no producer, or its queue is full), `LobCrash` |
| `stream_trades` (`live_streamer.py`) | `StreamTrade`, `StreamNothing` |
| librdkafka and the broker | `Deliver`, `DeliverUnanswered` (the answer is lost, the message is written again), `Expire`, `AutoCommit` |
| `run_consumer`: connect, open, poll, time-out (`kafka_consumer.py` 130-204) | `Connect`, `Open`, `Poll`, `PollTimeout` |
| `_bulk_insert` (80-108), its exceptions, the `finally` block | `Insert`, `InsertFails`, `Close` |
| cancellation and the final flush (205-212), the lifespan (`analytics_api.py`) | `Cancel`, `CancelStreamer`, `Exit`, `Crash`, `Restart` |
| a cancel while the streamer waits to reconnect: no flush (`live_streamer.py` 149-152) | `CancelReconnecting` |

`consumer.poll` is followed by an await only at the end of a turn of the loop,
so a cancel finds the task at `connect`, `open` or `loop`. The acknowledgement
belongs to librdkafka's timer and may fall between any two steps.

### LobCalls, KrakenFeeder, SecurityProxy, OrderEntry

A call is `sent` once its connection is made, and from then on the LOB may
execute it at any time, or die with it, whether or not the caller still waits.
For these modules an order is a name: what the LOB does with it is
`LobServer`'s.

| Code | Model |
|---|---|
| `run_feeder`: connect, subscribe; Kraken's snapshot and updates (`kraken_feeder.py`) | `Connect`, `KrakenUpdates` |
| a message, its levels without the deletions, one task for each | `ReadUpdate` |
| `send_order`: its answer, its exceptions and its 2 seconds; `gather` | `PostOrder`, `OrderPlaced`, `OrderFails` |
| the handlers around `recv`, cancellation and a new process | `WebSocketError`, `FeederStops`, `FeederStarts` |
| `sql_firewall_middleware`, `_log_security_event`: 403 (`sql_firewall.py`) | `SqlFirewall`, `LogSecurityEvent` |
| `rate_limit_middleware`: 429 (`rate_limiter.py`) | `RateLimit` |
| `_proxy`: 201, 502, 504, and an exception it does not catch: 500 (`main.py`) | `Forward`, `UpstreamAnswers`, `Unavailable`, `UpstreamTimeout`, `ConnectionBreaks` |

The clients are ours: each wants one order placed, and tries again when the
answer says that it was not (429 or 502). They are the weakest users for which
"at most once" can be asked of the proxy.

### RawTicks, SmartBackfiller, HistoryLoader, TickHistory

A trade is named by its time, a row by its trade and its source. A row's time is
the trade's, rounded (a float times 1e9 for the cursor, microseconds in the
table), so a cursor made of a row's time may lie before or after the row's own
trade: `CursorsAt` leaves it open, and so does `FetchPage` for the ends of a gap.

| Code | Model |
|---|---|
| `detect_gaps`, the loop over the gaps (`smart_backfiller.py`) | `DetectGaps`, `NextGap` |
| `fetch_trades_for_range`: a page, an error in the answer, an exception | `FetchPage`, `ApiError`, `RequestFails`, `Retry` |
| `bulk_insert_dedup`, batch by batch, each committed | `InsertBatch`, `Commit`, `StatementFails` |
| `refresh_aggregates`, the cycle's return | `RefreshAggregates`, `RefreshFails`, `Return` |
| `run_backfiller`: connect, await the thread, add the counters, close | `StartCycle`, `ConnectFails`, `EndCycle`, `Cancel` |
| the thread of a cancelled task, exit, kill | `EndThread`, `Restart`, `Crash` |
| `fetch_real_data.py`: latest row, pages, COPY of full batches and of the rest | `StartLoader`, `GetLatest`, `LoadPage`, `InsertFull`, `InsertRest`, `RefreshCas`, `LoaderFails` |
| the consumer, as the others see it | `Consume` |

`raw_ticks` has no unique constraint (`init.sql:8`), so the insert's
`ON CONFLICT` (`smart_backfiller.py:185`) never finds a conflict: an insert
always adds rows.

### RateLimiter

Redis's key (`keys`, `count`, `expires`), the proxy's local windows and the
requests under way. `Incr` is INCR and what the proxy does with its answer;
`Expire` is the second call of the request that read 1; `IncrFails` and
`ExpireFails` fail before or after Redis executed them, and `LocalCheck` decides
then; `Bypass` is a proxy that never had a Redis client. `Tick` is the clock,
`RedisRestart` and `ProxyRestart` forget. `Evict` is the loop of `popleft`. The
histories `asked` and `served` count up to each tick, so what happened in an
interval is a difference of two entries.

### BellmanFord, GraphService

`BellmanFord` has the detector's algorithm as functions: a rate is represented
by its logarithm, an integer, so `-log(rate)` weights are exact and the tolerance
of 1e-12 has no role. `SimpleCycles` and `IsProfitable` define what a
profitable cycle is without the algorithm. `GraphService` is the updater and the
detector as two tasks of one event loop:

| Code | Model |
|---|---|
| the lifespan of `graph_api.py` (78-119), a kill | `Launch`, `Shutdown` |
| `init_graph`, `_build_all_pairs` (`graph_init.py`): one transaction | `InitGraph`, `InitGraphFails`, `AllBids` |
| one pair of a round (`edge_weight_updater.py` 330-344, 87-169) | `FromLob`, `FromTicks`, `NoQuote`, `UpdatePairFails` |
| fill in and cross rates (346-388) | `CrossRates`, `CrossRatesIncomplete`, `CrossRatesFail` |
| `_refresh_fiat_cache` (174-226) | `RefreshFiatCache`, `RefreshFails` |
| `_update_fiat_edges` (229-300) and its handler | `UpdateFiatEdges`, `UpdateFiatEdgesFails` |
| `commit`, `sleep`, the next round (399-406, 324-327) | `CommitFails`, `Wake` |
| `run_detector`, `_insert_signal` (`bellman_ford.py` 164-209) | `Detect` |
| the queries of `graph_queries.py` | `Find3HopCycles`, `Routes`, `ShortestPath` |

The updater's connection is in autocommit mode (`graph_api.py:84`), so every
statement is visible at once; the detector runs where the updater awaits, at
`pc` in `Awaiting`. Everything between two awaits is one action. The graph
outlives the service: `init_graph` merges edges into what an earlier life has
left, and a kill between two statements is a statement that fails and then
`Shutdown`. `missed`, `crossed` and `faults` are history variables that only the
properties read.

### Grover, QuantumService

In `Grover` every marked state keeps one amplitude and every other state another
(each step of the search treats them alike), so a circuit's state is two
integers, scaled by the same power of two at every step. Which index stands for
which basis state is modelled by the bits (`BuildOracle`, `Decode`), with the
ancilla that the code puts into the superposition too.

| Code | Model |
|---|---|
| `enumerate_cycles`, `is_profitable`, the iteration count (`run_grover.py`) | `EnumerateCycles`, `ProfitableIdxs`, `NData`, `NIter` |
| `build_oracle`, the diffuser | `BuildOracle`, `Repetition`, `Amplitudes` |
| measure, decode, profit | `Likeliest`, `Decode`, `RunGrover` |
| `quantum_loop`: fetch the rates, Bellman-Ford (`quantum_service.py`) | `FetchRates`, `FetchFails` |
| `_run_grover_sync` in the executor | `GroverDone`, `GroverFails`, `ThreadEnds` |
| the inserts and their handler, the sleep | `InsertClassical`, `InsertQuantum`, `InsertFails`, `WakeLoop` |
| the lifespan, a kill | `Cancel`, `Restart`, `Crash` |
| POST `/quantum/run_grover`, GET `/quantum/signals`, `/health` (`quantum_api.py`) | `PostRunGrover`, `RespondRunGrover`, `GetSignals`, `Health` |
| the graph service: other rates; its detector's `_insert_signal` (`bellman_ford.py` 176-209) | `Change`, `DetectorInserts` |

`arbitrage_signals` has two writers. Every half second the detector of the graph
service, another process on the same database, inserts a CLASSICAL row where it
finds a cycle; such a row can fall between the two inserts of a round of
`quantum_loop`, and GET `/quantum/signals` shows both writers' rows. `signals` is
the whole table in the order of `ts`. A row's `round` is a history, 0 for a row
of the detector (`Own` tells the loop's rows): the table has no such column, so a
reader of the page cannot tell which classical row belongs to a quantum one, and
`RoundsAreWhole` promises no more than that it is among the classical rows right
below it.

The inserts use a blocking driver in the event loop, so nothing else of the
service runs between them (`Blocked`); the graph service goes on. Its
rates are `matrix` here: no name of this module is one of `GraphService`'s, since
`ArbitrageProofs` extends both.

## 3. Runs

| Run | Instance | Properties |
|---|---|---|
| `lob_orders` | 2 threads, 3 order ids, 2 symbols on one stripe, 2 price levels, bodies that fill partly, fully or sweep two levels; fairness | `RestingHasMeta`, `CancelledIsFinal`, `NeverCrossed`, `BookIsGuarded`, `ImplementsExchange`, `EveryRequestAnswered` |
| `depth_stream` | 2 threads, 2 clients, 2 changes; fairness | `NoUpdateLost`, `EveryChangeArrives` |
| `book_registry` | 3 threads, 3 symbols, 2 stripes | `OneEnginePerSymbol`, `NoHalfMadeBook` |
| `book_registry_race` | the same | counterexample to `NoDataRace` |
| `order_entry` | 2 levels, 3 messages of Kraken; 2 clients, one of whom the filter refuses, 2 attempts each; 1 fault; fairness | `OnlyAbandonedAreOvertaken`, `ShownLevelsArePosted`, `AtMostOnce`, `NobodyWaitsForEver` |
| `trade_pipeline` | 2 fills (one does not parse, one is refused by the table), 1 streamed trade, 2 partitions, batches of 2, 1 failure, 1 drop, 1 repeat; fairness | `StoredOnce`, `FailureLosesABatch`, `RereadAfterFailure`, `EveryTradeIsStored` |
| `tick_history` | 4 trades of Kraken, 2 of which reach the consumer, 1 of the own book; pages of 2, batches of 1 and 2; 2 cycles of the backfiller, or 2 loaders, or one of each; 1 fault of either kind; fairness | `RowsRepeatOnlyAtEnds`, `FinishedCycleIsComplete`, `CancelledStoresOneBatch`, `LoadsLeaveNoHole`, `CyclesEnd` |
| `graph_service` | 2 cryptos, 1 fiat currency, USD: 12 edges; 2 quotes of the book, a crossed one of the ticks, 2 fiat rates, restarts at any point, 1 failing start or statement | `SettledRatesAreFair`, `RoundTripsLose`, `DetectorIsExact` |
| `graph_phantom` | the same without failures and without crossed quotes | counterexample to `NoPhantomArbitrage` |
| `quantum` | 3 assets (6 cycles, 8 indices, 16 basis states), 5 tables of rates, 2 rounds, 1 request (at the rates of one direction), 1 row of the detector, 1 change, 1 fault; fairness | `SignalsWereProfitable`, `RoundsAreWhole`, `AlgorithmsAgree`, `MarkedStandOut`, `ArbitrageIsSignalled` |
| `quantum_oracle` | the same | counterexample to `OracleFlipsProfitable` |
| `rate_limiter` | 1 client, 2 requests at a time, limit 2, window 2 ticks, time-out 1 tick, 6 requests in 5 ticks, 1 fault; requests are symmetric | `WindowsAreBounded`, `RefusalsAreFair` |

Every passing run also checks the type invariant of its module, except
`rate_limiter` and `quantum`. `PROJECT.json` says what each run shows, in a
sentence, and each property of a passing run has a mutant of the code there
(operators marked "Mutant" in the modules) under which TLC refutes it.

**Bounds.** Two threads let two handlers race for an order, or one match while the
other cancels, replaces or reads; three ids give a resting order, a taker and a
replacement. A thread draws at most one id per request, and `IdLeft` (the guard
that enforces `MaxOrders`) reserves one for every PATCH under way, so no handler
is cut off in the middle. More threads, symbols and stripes are the proofs' part.
`MaxChanges` = 2 is what a reordering needs. Two stripes and three symbols give
the same symbol, the same stripe and different stripes. Three messages of Kraken
are a snapshot and two updates, or two subscriptions with an update between; two
levels, one message whose orders overtake one another. In the pipeline a batch
fills up (2 of 3 messages), a partition has messages before and after the batch
that fails, and `MaxLog` is large enough for a repeat beside all the trades. With
every second trade stored, `raw_ticks` has two gaps at a time, a gap takes two
pages to fetch and two batches to insert, and a second cycle finds what the first
one left; the two loaders overlap, or follow one another after a cut. Two cryptos
and a fiat currency are the smallest graph that has every kind of edge (crypto and
USD, two cryptos, fiat and USD, crypto and fiat), and a phantom needs three
assets; two fiat currencies, and so their cross rates, are beyond this instance
and part of the proof. The detector reads the edges in one order: `RowOrders`
takes others, and more of them change which cycle is returned, not whether there
is one. Three assets are the smallest graph with a cycle of three, and leave two
of 8 indices without a cycle; one row of the detector can fall before, between and
after the two rows of a round, and with two rounds between their pairs. A window of two ticks has an inside and two ends,
and five ticks hold two lives of a key and the start of a third.

**Deadlock** is checked for the order handlers, the pipeline and the graph
service. The other runs do not check it: they stop when a bounded supply is used
up (changes and connections, messages and attempts, cycles and loaders, rounds,
ticks), and `BookRegistry` stops at a race.

**Fairness.**

- `LobServer`: a thread that can go on does (weak fairness of `Proceed`: a
  thread of the pool keeps running), and a thread that waits for a stripe that
  is released again and again gets it in the end (strong fairness of `Acquire`:
  `std::mutex` does not promise order, but the model assumes it does not starve
  one waiter for ever). Requests themselves are not fair.
- `DepthStream`: a thread inside `broadcast_depth` goes on.
- `OrderEntry`: the feeder's event loop and the proxy's go on (weak fairness of
  `FeederStep` and of `ProxyStep(r)` for each request). One of those steps has
  no time-out in the code: the INSERT of a security event (`sql_firewall.py`
  58-64), so `NobodyWaitsForEver` assumes that PostgreSQL answers or breaks the
  connection. Nothing is asked of the
  LOB: the time-outs of the callers are enough.
- `TradePipeline`: the worker's endless loop and librdkafka's threads go on
  (weak fairness of `Produce` or `ProduceNothing`, and of the delivery of each
  trade), so do the consumer's steps (`Connect`, `Open`, `PollTimeout`, the
  insert, `Close`), and a partition that has messages again and again while the
  consumer polls is read in the end (strong fairness of `Poll(p)`: librdkafka
  serves its partitions in turn). Nothing obliges trades to happen, failures to
  stop or a service to restart: `EveryTradeIsStored` is excused by a failure, a
  drop or a shutdown.
- `TickHistory`: the backfiller's thread and task go on (weak fairness of
  `CycleStep`), and Kraken answers now and then however often requests fail
  (strong fairness of `FetchPage`). The loaders are left out: no property needs
  them to go on.
- `QuantumService`: the fetch has a time-out and the search's thread ends (weak
  fairness of leaving `fetch` and `grover`, in whatever way), the inserts are
  made or fail, the sleep ends.

**What the counterexamples say.**

1. `book_registry_race`: two handlers of symbols on different stripes hold
   different locks and insert into, or search, the same `unordered_map`:
   striping protects the engines, not the maps they are found in.
2. `graph_phantom`: between two pairs of a round the detector reads the new rate
   of one crypto with the old rate of the other and the old rate between them:
   a profitable triangle that no quotes ever offered, inserted as a signal.
3. `quantum_oracle`: `build_oracle` writes an index most significant bit first
   and gives bit i of that string to qubit i, which counts from the least
   significant. With three assets and the cycles 0, 3 and 4 profitable it marks
   0, 6 and 1. What is stored is profitable all the same
   (`SignalsWereProfitable`), because the loop checks the profit of what it
   decodes; what is missed is a quantum signal where the cycle decoded does not
   gain, or where an index marked has no cycle and is taken modulo their number.

More that the models show and the code's words do not say, or say otherwise:

- `broadcast_depth` releases both locks before it sends, so two broadcasts may
  cross and a client shows the older depth until the next change. Every change,
  or a later one, is still delivered (`EveryChangeArrives`).
- One row the table refuses ends the consumer task, of which it is said that it
  "runs forever" (`kafka_consumer.py:129`); the service goes on without it. The
  batch it held is acknowledged by `close()` and lost (`FailureLosesABatch`).
- INCR makes the key, and if EXPIRE fails or the proxy restarts before it, no
  later request reads 1: the key never expires, and in the end the client is
  refused for ever. Hence the precondition of `RefusalsAreFair`.
- The rate limiter is called a sliding window (`rate_limiter.py:2`) and counts
  in fixed windows: twice the limit passes within one window
  (`WindowsAreBounded`).
- `SettledRatesAreFair` needs a rate of every fiat currency (`Known`): without
  it a finished round leaves a profitable cycle through a currency whose edges
  were not refreshed, since `_refresh_fiat_cache` replaces the whole cache with
  what it got (`edge_weight_updater.py:211` and `:222`).
- The insert of the backfiller is meant to skip rows that exist; without a
  constraint it never does, so the trades at the ends of a gap, and of every gap
  that is found again, get more rows (`RowsRepeatOnlyAtEnds`).
- What the LOB's producer refuses, or holds when the process ends, is gone
  (`lob_server.cpp:230`, `:58`): `EveryTradeIsStored` excuses it, and cannot forbid
  what the code allows.
- An updater that a database error ended (`edge_weight_updater.py:387`) never ends
  a round again: the edges stay as they are while the detector goes on, which no
  property about the end of a round can see.
- The second insert of a round may fail after the first one was committed: the
  classical signal stays without the quantum one. `RoundsAreWhole` excludes only
  the other half, the quantum one alone, and `ArbitrageIsSignalled` excuses a round
  cut short there; a search that raises it does not excuse.
- A POST answered with 504 may have been executed: a client that tries again then
  may place two orders, and `AtMostOnce` is about clients that do not.
- A refresh "wipes existing rows" (`analytics_api.py:362`); the loader it starts
  only appends, from the latest row on (`LoadsLeaveNoHole`).

## 4. Proofs

`LobServerProofs` proves for every set of threads, symbols and stripes, every
assignment of symbols to stripes and any number of orders:

- `TypeCorrect`: `Spec => []TypeOK`.
- `Invariance`: `Spec => []IInv`, and from it `RestingOrdersHaveMeta`,
  `CancelsAreFinal`, `BooksAreNeverCrossed`, `IdsNeverClash`.
- `BooksAreGuarded`: `Spec => BookIsGuarded`.

None of the four invariants is inductive. `CancelledIsFinal`, for instance,
needs to know that a handler which finds its order in the book is the first one
to do so. `IInv` adds:

- `LockHeld`: a thread that matches holds its symbol's stripe;
- `JobsWellFormed`: which ids a handler carries at which step;
- `IdsDrawn`: ids in books, metadata and history were drawn;
- `UnnamedBeforeRecorded`: until a handler records its order, no other handler,
  no metadata and no cancel knows the id;
- `WonIsCancelled`: a handler past its cancel did cancel its target.

The argument for a cancel: its target rests, so it was never cancelled, so no
other handler is past the cancel of it, so its metadata is there
(`RestingHasMeta`; a handler about to record it could not be named) and stays
until this handler erases it. There is one lemma per action, with one step per
conjunct of `IInv`. `NeverCrossed` needs that matching ends only when nothing
reachable faces the order, and `BookIsGuarded` that two matching threads of one
symbol would hold the same stripe.

`LobServerProofs` also proves `Spec => ImplementsExchange`: every step of the
server is a step of `Exchange` or leaves what clients may count on as it is.
Submitting opens an order, DELETE cancels one, PATCH's section under the lock
replaces one, each fill trades, the end of a market order's matching lets its
rest expire, and recording or erasing metadata changes which orders have a
handle. There is one such lemma per action. On top of `IInv` they need that the
ids still to be drawn are within `MaxOrders` (`IdsReserved`), that metadata knows
an id once (`OneMetaPerId`), and what a handler that waits for the lock has been
asked for: a quantity some request may name (`AskedFor`), on the side on which
its target rests (`AskedSide`).

`DepthStreamProofs` proves, for every number of threads, clients and changes,
`TypeCorrect` and `UpdatesAreNeverLost`. `NoUpdateLost` is inductive together
with `TypeOK` and `OpenIsSubscribed`: a thread that changed the book is at its
snapshot, which brings the change to whoever is subscribed, and an open client
is among the subscribers a later copy takes.

`BookRegistryProofs` proves, for every assignment of symbols to stripes,
`TypeCorrect`, `EnginesAreMadeOnce` and `BooksAreWhole`. The strengthening says
that a thread inside `get_book` holds its symbol's stripe (`LockHeld`); that one
which fills the maps makes the first book of its symbol, in the code's order
(`FirstMaker`); and that an engine is constructed exactly when its symbol enters
`books` (`BuiltWhenEntered`).

`TradePipelineProofs` proves, for all sets of trades and partitions, every batch
size and any number of failures and restarts, `TypeCorrect`,
`MessagesAreStoredOnce`, `RereadsAreBounded` and `LossesAreBounded`. `StoredOnce`
speaks of `position`, which a restart moves back to `committed`, so the invariant
adds where that leads: what is in the batch was read in this life
(`BatchWasRead`), a message that can still be read, now or by the next life, has
become a row once per failure at most (`SparedWhenUnread`,
`SparedWhenUncommitted`), and without failures the next life starts where this
one ended (`ResumesInPlace`). `StopsInOrder` is the order in which the lifespan
cancels its tasks. The loss bound adds one more: the batch of a consumer that is
doomed counts as lost before the acknowledgement makes it so (`Doomed`,
`LossBounded`).

`OrderEntryProofs` proves, for every number of levels, messages, clients,
attempts and faults, `TypeCorrect` and one theorem per safety property.
`MessagesKeepTheirOrder` rests on the inbox holding the messages in Kraken's
order, later than the one under way (`InboxInOrder`), on no order being sent
before its message is read (`SentInOrder`), and on a call that was sent being
awaited or given up (`SentIsAwaited`): `gather` settles all calls of a message
before the next one is read. `LevelsArePosted` adds that a level Kraken shows is
posted, under way or in a message that waits, and that the last message which
names it says so (`ShownIsPending`). `OrdersArePlacedOnce` says that of all the
calls of a client only the last one may have been sent, as long as its answers
invite it to try again (`OnlyLastWasSent`, `UnderWayIsAttempt`): 429 and 502 are
given before a call is sent, every other answer ends the attempts.

`ArbitrageProofs` proves of `GraphService`, for any assets, quotes, fiat rates,
faults and restarts: `TypeCorrect`; `RoundTripsNeverGain`, whose invariant
(`FairInv`) adds what a round has set so far of each pair and its inverse; and
`SettledRatesAreWorthTheirPrice`: when a round that had all its quotes and rates
ends, every asset has a worth (the ask of a crypto, the rate of a fiat currency,
nothing for USD, as logarithms) that no exchange raises. Its invariant
(`RoundInv`) follows the round statement by statement: which asks the graph keeps
(`AsksKept`), which pairs are refreshed (`Refreshed`, `Refreshing`), that cross
rates are made of them (`CrossedRates`) and that the fiat edges are those of the
cache (`FiatRatesSet`). No cycle gains where no exchange raises a worth, since the
worths telescope along it (`NoCycleGains`): hence `SettledRatesHaveNoArbitrage`,
which is `SettledRatesAreFair`.

The module also proves the detector correct, for any integer rates, any number of
assets and any order in which rows and nodes come: `SearchIsExact` says that
`BellmanFordArbitrage` returns a circuit that gains exactly if there is one, and
`DetectorIsAlwaysExact` is `DetectorIsExact`. What a recursive function computes
is followed by a lemma of its own (`Recursion`: a function that is defined from
its predecessor takes each step; `UpTo`: of the numbers that fail a property none
is least), since the library's induction theorems cannot be instantiated.

- *What is returned gains.* Relaxing grows a tree of predecessors (`Grown`): over
  the edge from its predecessor a node could only be nearer than its distance
  says (`Explained`), and an edge that closes a circle of predecessors makes it
  one that gains (`RelaxCyclesGain`). `ExtractCycle` returns such a circle, if the
  walk back has not ended at the source: among n+1 steps through n nodes two meet
  (`TwoMeet`, `ExtractFinds`).
- *What gains is found.* The code tries the sources in turn, so it is enough that
  one of them finds a cycle. Each pass reaches one more node of a circuit, at no
  more than minus what the circuit has gained there (`Near`, `Arrives`). After the
  last edge that is the source itself, at a distance below 0, so the source has a
  predecessor and no walk back ends (`SourceFinds`); and one of the circuit's
  edges can still be relaxed, since the distances would otherwise be worths.
  A circuit through all n nodes has n edges and the code makes n-1 passes. The
  first pass then has to follow two of them, which it does from the node where
  the first row of the circuit's edges begins (`Ascends`); begun there the circuit
  gains no less (`TurnedGains`, `SomeSourceFinds`).
- *The rows and nodes are all there*, in whatever order (`OnlyThese`, `AllAreRead`).
- *The queries gain nothing where the detector finds nothing*: a path of two or
  three exchanges and its way back is made of cycles of two to four assets
  (`QueriesGainNothing`), and a best route exists since the way back bounds what
  a route can gain (`BestRoute`).

Of `QuantumService` it proves, for any assets and tables of rates, any requests and
any number of rounds, failures and changes, the invariant `RoundsFitTogether`, and
from it `StoredSignalsGain`, `RoundsStoreWholePairs`, `SearchesAlwaysAgree` and
`MarkedStatesStandOut`.

- *Either search is honest.* Bellman-Ford's part is `SearchIsExact`, on the rows
  and nodes as the loop reads them (`MatrixIsRead`): a profit above 0 is that of a
  path that gains, and there is one wherever any path gains (`ClassicalGains`).
  Nothing is needed of the amplitudes here: whichever basis state is measured, the
  bits suffice to decode it to the index of a cycle (`BitsSuffice`,
  `DecodeIsIndex`), the cycles are triples of nodes (`CyclesAreTriples`), and only
  a cycle whose edges all have rates gets a profit (`SearchIsHonest`). A triple
  that gains is a circuit that gains (`ClosedGains`).
- *The table keeps its order.* Neither `RoundsAreWhole` nor `SignalsWereProfitable`
  is inductive. `Kept` adds that the signals are ordered by round and, in a round,
  by method, and that a quantum one comes right after the classical one of its
  round but for rows of the detector (`ClassicalLast`), unless Bellman-Ford raised
  in that round; `RoundKnown`, that while a round is under way its rates are the
  last fetched and Bellman-Ford's answer is that for them, unless it raised;
  `TableReady`, which signals of the round may be there before each insert. So
  when the search has a signal to insert, Bellman-Ford has inserted its own: an
  insert that fails ends the round. A row of the detector can be added to the table
  at any of these points and keeps all three (`DetectorInsertsKeeps`). On a page,
  rows and places are numbered from opposite ends (`PlacesMirrorRows`), which turns
  "after" into "right below" (`PagesShowPairs`). The eight steps that end a round or leave it ended keep the invariant by one
  lemma (`Quiet`).
- *The repetitions stand the marked states out.* `MarkedStatesStandOut` is
  `MarkedStandOut`, without sines: let s and d be the sum and the difference of
  the amplitudes of a marked state and of another one, h the data states, m the
  marked ones and k the repetitions. One repetition makes them
  2(h - m)s - hd and hs (`AmplitudeSteps`). They are compared with
  F(i) = i((k + 1)^2 + 1 - i^2) (`Bent`), which is positive up to i = k + 1 and
  bends enough as long as m(k + 1)^2 <= 3h (`BentEnough`): then s F(i) >= d F(i + 1)
  after i repetitions (`ApartStep`, `TurnedApart`), so s and d are positive and
  the squares differ by their product. The number the code chooses is small
  enough (`RepetitionsSuffice`), or it is 1, where m < h is needed: with m = h all
  states would be equally likely. That m = h never happens is a fact of the
  cycles: turning a triple of assets gives two others, so their number is divided
  by three (`TriplesInThrees`), and no power of two is (`PowerIsNoTriple`).
- *The model of the circuit fits the code's count.* `OracleMarksOnePerCycle`: the
  oracle reverses the bits of the indices but marks as many states as there are
  profitable cycles (`ReversedApart`), which is the m above; and
  `RepetitionsKeepTheNorm`: `Repetition` is unitary but for its factor.

`TickHistoryProofs` proves, for all trades, threshold, page and batch sizes and any
number of cycles, loaders, faults and restarts, `TypeCorrect`,
`CancelledCyclesStoreOneBatch`, `RowsRepeatAtEndsOnly`,
`FinishedCyclesAreComplete` and `LoadsLeaveNoHoles`. Rows are bounded by counting
those still owed: the rows of a trade, and the gaps still to be filled of which
it is an end, are together at most 1 more than the times it was an end
(`RowsAllowed`), since gaps have nothing but ends in common (`GapsApart`) and a
fetch stays within its gap (`FetchedWithin`); a loader makes a row of a trade as
it passes it (`LoadedOnce`). For completeness, what lies inside a gap that was
found is stored, or the gap is still to be filled, and what of it is not fetched
yet lies after the cursor (`FilledOrPending`); trades that wait for a refresh lie
in the present gap, between its first batch and its refresh (`StaleWhereFilled`).
For the loads, what is missing between a loader's start and its cursor is in its
batch (`NothingSkipped`), of which it stores the oldest part first, and what is
missing before its start no load reaches (`BeforeStart`): the start is the latest
row, so by `NoHoles` only another source's newer row can be the reason.

`RateLimiterProofs` proves, for any clients, limit, window, time-out and number of
requests and faults, `TypeCorrect`, `BothChecksBound` and `OnlyTheBusyAreRefused`.
The first two speak of what was let through in a window, and nothing in the
state says when a count was made; the invariant ties the histories to the
present counters. A key dies by itself only after some EXPIRE was executed for it
(`ExpiriesWait`), a window after that, so a window meets two lives of a key, the
one before and the present one, plus those Redis lost: `LivesBounded` bounds what
was let through since any tick by the limits of the past lives and what the
present one has counted, less the requests that still have to set its expiry.
For the fallback, what was let through since a tick is in the window or was
forgotten by a restart (`WindowRemembers`), which `Evict` keeps since the entries
are in order (`WindowSorted`). For fairness, the count of a key is the number of
requests since a tick from which its life is at most a window and a time-out
away (`KeyAsked`): the first request's deadline bounds how late EXPIRE comes.

Assumptions are those the modules state: `NobodyAssumption`, `StripeAssumption`
(a symbol has one stripe), `BodyAssumption` (accepted prices and quantities are
positive), `TradeAssumption`, `BatchAssumption`, `AssetAssumption`,
`OrderAssumption` (every pair of assets is in the order in which rows come, and
sorting the assets leaves none out), `MatrixAssumption` (rates are integers of
pairs of different assets), `UpdateAssumption`, `LimitAssumption`,
`RequestAssumption`, `BackfillAssumption`, `LoadAssumption` and their like; TLC
evaluates them in every run.

Only model-checked:

- the liveness properties (`EveryRequestAnswered`, `EveryChangeArrives`,
  `EveryTradeIsStored`, `CyclesEnd`, `ArbitrageIsSignalled`,
  `NobodyWaitsForEver`): liveness under fairness is out of the prover's reach.

## 5. Not modelled

- The engine's inside, and so an order whose quantity is truncated to zero, what
  several fills of one order share, and exceptions out of the engine (`catch
  (...)` of POST answers 400). Its source is not in the repository.
- The protocol of Kraken's WebSocket (subscription errors, heartbeats), and the
  trades the streamer misses while it reconnects: nothing in the code notices
  them.
- `gen_ticks.py`, seed scripts and benchmarks, with the endpoint that returns
  the file the benchmark script wrote: single-threaded scripts.
- Which texts the request filter refuses: matching patterns keeps no state, so a
  set of refused requests is given. The proxy's own endpoints return rows.
- The backfiller for a symbol without a Kraken pair (`SYMBOL_TO_PAIR`,
  `smart_backfiller.py:103-106`): it fetches nothing, counts no failure, and the
  gap stays. `FinishedCycleIsComplete` is about symbols that have a pair. And a page
  that raises after some of its trades were taken is fetched again, which takes
  those twice (136-163): what was fetched is a set here.
- A fiat currency whose bid and ask differ from its rate by more than the spread,
  or are not positive (`graph_init.py:221-253`): one rate per currency stands for
  the three numbers. The rounding of a route's rate to 8 digits
  (`graph_queries.py:113-114`), which may decide between routes that close.
- That the last insertion of `get_book` looks the symbol up in the other three maps
  (`lob_server.cpp:97-98`): the races found are fewer than there are, and
  `OneEnginePerSymbol` speaks of the time up to the first one found.
- The 4xx answers of the LOB that the proxy passes on: the orders of `OrderEntry`
  are valid.
- A message whose time stamp is no date (`kafka_consumer.py:57`): it would end the
  consumer's task, and no producer of the system writes one.
- Read-only endpoints of the analytics and graph services: one SQL query each,
  and the formatting of its rows.
- `_MAX_CYCLES`, the limit on enumerated cycles: the
  system's 20 assets have 6,840, and the limit is 32,768.
- Sampling noise: the shots are taken to tell a likelier basis state from a less
  likely one. The tolerances around zero (1e-12), since rates are integers here.
- Metrics, dashboards, log lines, the format of payloads.
- Vendored queue headers: used through enqueue and dequeue.

## 6. What is left

1. The feeder's direction that no code covers: levels that Kraken has removed
   stay in the book (`kraken_feeder.py:105`). A property needs a promise of the
   code to compare with, which neither it nor the documents give.
2. Two fiat currencies in `graph_service`: the states are beyond a run of a few
   minutes; `SettledRatesAreWorthTheirPrice` covers them.
