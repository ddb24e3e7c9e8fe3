# hft_system in TLA+

A TLA+ development kept beside the C++ code of `hft_system`: modules that model the
trading path from the exchange's byte stream to the strategy signals, what `main()` sets
up for it from its CSV file, and the storage of ticks; the TLC
configurations that check them on small instances, and TLAPS proofs of the central
invariants for every value of the constants. `PROJECT.json` maps every definition to
the lines it models and lists the runs, mutants, findings, hazards and theorems.

## 1. The system

One process, several threads; no locks but those of the CSV reader at startup:

```
 exchange --TLS/WebSocket--> ingester thread (one per venue)
                               read_frame -> SBEVenueParser -> SBEDecoder
                                  |  LFQueue<MarketUpdate>, one per venue
                                  v
                             OBM thread: OrderBookManager::run
                               OrderBook::addUpdate, then StrategyManager::onMarketData
                                  |  LFQueue<int32_t> of signals
                                  v
                             PCModel -> RiskModel -> order gateway   (not wired in)
```

### Inventory

| Component | State | Operations | Interacts by | What makes it correct |
|---|---|---|---|---|
| `LFQueue` | `store_`, two indexes, a counter (atomics) | `getNextToWriteTo`, `updateWriteIndex`, `getNextToRead`, `updateReadIndex` | shared memory, one producer and one consumer, elements used in place | FIFO, nothing lost, torn or repeated; the threads are never at one slot |
| `OrderBook` | per side: circular array of levels, best and worst index, count; exponents | `addUpdate`, getters, `getMidRaw` | called by the OBM thread, read by strategies | count and ends exact, an update changes its own price only, what may be dropped |
| Strategies, `StrategyManager` | momentum counters | `onMarketData` | read the book after the update, write signals | derived prices are prices of the book; signals in -1000..1000; windows not mixed |
| `OrderBookManager` | `running_`, queues, books, instrument map, histograms | `register_instrument`, `book_for`, `run`, `stop`, `passUpdateToOrderbook`, `report_latencies` | polls the queues in turn | each update applied once, in order, eventually, to its own book; `stop` ends `run` |
| `main` | thread handles | launch, join, stop | starts and joins the threads | the program ends when its feeds have ended; no queued update is abandoned |
| `MarketDataIngester` | `running` | `startReceiving`, `stopReceiving` | reads frames, feeds the parser | every update of a frame is enqueued in order |
| SBE parser and decoder | cursor over a payload | `parse`, `decode`, `measure` | enqueues updates | stays in the buffer, message boundaries kept, a bad message does not spoil others |
| `WebSocket` | receive buffer, stream position | `perform_handshake`, `read_frame`, `send_*` | blocking reads of a byte stream | frames stay in step with the stream |
| `TLSClient` | socket, TLS objects | `connect`, `send`, `recv`, destructor | library and system calls | whichever step fails, nothing is lost or released twice |
| `CSVReader` | three blocks of a buffer, a read-ahead thread, column order | `next_line`, `read_header`, `read_row` | mutex and two condition variables | the lines of the file, whole and in order; both threads end |
| `VenueRegistry`, `StreamConfig` | symbol and venue numbers | constructor, `lookup`, `loadCSV`, `buildBinanceURL` | startup only | one identifier per instrument, references to books stay valid |
| `LatencyHistogram` | 64 buckets | `record`, `report` | OBM and ingester threads | percentiles within a factor of two |
| `MemPool` | blocks, next free index | `allocate`, `deallocate` | unused so far | a free block is found whenever there is one |
| `HistoricalDataAggergator` | ring of ticks, volatility, database connection | `connectToDB`, `run`, `insert_tick_data`, `writeToDB`, `stop` | reads a queue, writes a database; not started by `main` | stored once and in order, over crashes; ring of recent prices; a failing database does not hold the queue up |
| PCM, risk, cost models, gateway, OMS | parameters | formulas, FIX callbacks | not wired in | - |

### What is hard here

* **Concurrency**: the queue's two threads access plain memory ordered only by two
  atomics each; the OBM thread serves several queues; start-up and shutdown flags race; the
  CSV reader's worker fills a block of the buffer the main thread reads lines from.
* **Failure**: connections that break off anywhere, any step of connecting, any database
  command, a crash between two of them.
* **Bounds**: the queue never tests whether it is full; the book is a window of
  `LOB_DEPTH` prices whose slots are shared by all prices congruent to them.
* **Long histories**: the book's ends and count are maintained incrementally by five
  branches; only a sequence of updates can make them drift.
* **Numbers**: steps cut to `int`, shifts tested on slot numbers, integer quotients.

`PROJECT.json` lists the hazards one by one, each at its line with the properties that
cover it, or with the reason why none does yet.

## 2. Modules

| Module | Models | Remarks |
|---|---|---|
| `FIFOQueue` | what a queue promises | abstract specification, with its liveness |
| `LFQueue` | `lock_free_queue.hpp` and its two threads | refines `FIFOQueue` |
| `ContainersProofs`, `ModArith` | - | proofs about `LFQueue` and `MemPool`; lemmas on remainders and least numbers |
| `PriceBook` | what a side of a book promises | abstract specification: price to quantity |
| `BookSide` | one side of `OrderBook` | refines `PriceBook`; `is_bid` chooses the side |
| `BookSideProofs` | - | proofs about `BookSide` |
| `OrderBook` | the whole book | two instances of `BookSide`, the exponents, `getMidRaw` |
| `StrategyManager`, `MCStrategyManager` | one instrument on the OBM thread | the book, then the three strategies |
| `StrategyManagerProofs` | - | proofs about the whole book and the strategies; instances of `BookSideProofs` for both sides |
| `SBEParser`, `MCSBEParser` | parser and decoder on one payload | payloads cut off after any byte |
| `TLSClient` | `tls_client.cpp` | what each step acquires and releases |
| `WebSocket`, `MCWebSocket` | handshake and `read_frame` in the ingester's loop | bytes that arrive in pieces; composes `TLSClient` |
| `IngesterProofs` | - | proofs about the frames, the composition with `TLSClient`, and the parser of their payloads |
| `TradingSystem`, `MCTradingSystem` | the threads of `main.cpp` | composes queues, ingesters and OBM thread |
| `TradingSystemProofs` | - | proofs about it |
| `LineReader`, `MCLineReader` | `csv.h`: `LineReader`, `AsynchronousReader` | two threads, a mutex, condition variables |
| `LatencyHistogram` | `latency_tracker.hpp` | operators |
| `Startup`, `MCStartup` | `main()` up to its threads: `CSVReader`, `StreamConfig`, `VenueRegistry`, registration, routing, reports | uses `LatencyHistogram` |
| `StartupProofs` | - | proofs about it, its latency reports and `LineReader` |
| `HistoricalAggregator` | `historical_aggregator.cpp` | with the database, crashes and restarts |
| `HistoricalAggregatorProofs` | - | proofs about it |
| `MemPool` | `memory_pool.hpp` | no run; proved in `ContainersProofs` |

**LFQueue.** An access to an element is split into a beginning and an end. While a slot
is filled it holds `Torn`; a consumer that finds the slot changed when it is done has
seen `Torn`. The two statements of `updateWriteIndex` and of `updateReadIndex` are steps
of their own, and a failed `ASSERT` ends the consumer. `sent` and `received` are
histories. The atomics are sequentially consistent in the code (plain operators), so
interleaving semantics is adequate.

**BookSide.** One action per branch of `addUpdate`, guards in the order of the code; the
early returns are `RemoveIgnored` and `SetIgnored`. The bid and the ask side are the
same code mirrored, so they are one module here. `ToInt` is `static_cast<int>` with
`2^31` as the constant `INT_HALF`. Prices are natural numbers: a negative price is no
price of this feed, so `std::abs` in the first branch does nothing. That `int`
arithmetic on a slot and a step near `-2^31` could itself overflow is left out.

**OrderBook, StrategyManager.** `addUpdate` is the side's action together with the
latching of exponents. `TopLevels` is the outcome of the two loops of `getMidRaw`.
`signals` is what one update puts on the signals queue. Integer division truncates, as
in C++. 128-bit intermediate results do not overflow for prices and quantities of a
feed, and TLC's integers do not either for the instances here.

**SBEParser.** Positions are byte offsets with the sizes of the real schemas; of the
bytes only lengths, template and symbol are kept. The exchange's layout (`WireLength`,
`MessageStart`) is written down separately from the code's arithmetic (`measure`, `decode`),
and an update is identified by the offset its price was read from, so a wrong offset
shows. Both sides of that comparison are functions over the groups and messages
(`GroupStarts`, `MessageStarts`). Time stamps, exponents and the integer encodings are left out: they are fields
at fixed places within the fixed block, whose presence the pre-scan tests.

**WebSocket, TLSClient.** The server's frames are a byte stream; `Deliver` makes some of it
arrive, each `Recv` is one `recv()` of `recv_exact`. `starts` is a history: where each frame
begins in the stream. Where no frame begins, a header is any header. `Connect` is one step of `TLSClient::connect`, each with its failure; `held` is
what the process has of the system and the library, `members` what the destructor will
find. The handshake's one `recv()` returns some of the response: less than the lines it
searches for fails. Applying the mask is left out.

**TradingSystem.** Each thread's program counter is a variable. A queue is the abstract
queue that `LFQueue` implements; what happens inside an update is `StrategyManager`'s
business, so an update is its instrument and its place in the feed. Reading a slot,
passing it on and releasing it are three steps, as in `run()`. The feeds never end, so that
a queue may never be empty. `published` and `applied` are histories per venue; to keep
them finite only the first `MaxUpdates` updates of a venue are numbered and noted there, the
others have place 0. Latency histograms and their reports are in `Startup`.

**LineReader.** The buffer is modelled byte by byte, with small blocks; a byte is a newline
`n`, a carriage return `r`, a byte of a byte order mark or other text. The worker holds the
mutex from the test of its condition to the end of its read, so a critical section of the
other thread waits while the worker is `reading` and is one step itself. A notification
wakes a thread that waits at that moment and is lost otherwise; a thread may also wake up
without one (`SpuriousWakeUp`, to which no fairness is given). The destructor may come
after any line. What the lines of a text are (`LinesFrom`) is written down for the whole
text, without blocks. `BlockLayout` says what the constants are: a block
is longer than the byte order mark, a file is a sequence of bytes.

**Startup.** A line is a sequence of cells without the blanks around them. Exceptions end
`main()`, as they do in the code. `moved` counts how often the vector of books was
reallocated, and a reference remembers the count it was taken at. The two loops over the
rows are functions of how many were taken (`RegistryAfter`, `ObmAfter`). The assertions on ids are
compiled in or not (`CheckIds`). One histogram stands for those of `OrderBookManager`;
percentiles are tenths of a percent, so the threshold is computed in integers. Powers of two
(`Pow2`, the shift `1ULL << b`) and the running sum of buckets (`Accumulated`) are recursive
functions; `SamplesUpTo` is the sum that they are compared with, over single cycles.

**HistoricalAggregator.** The database (`table`, `stored`) outlives a `Crash`; the queue and
the ring do not. A command succeeds, fails by an error without effect, or loses its connection:
then it may have taken effect although the code is told that it failed (`CreateReplyLost`,
`ConvertReplyLost`, `InsertReplyLost`). Nothing connects again. `creator` and `faulty` are
histories: the start that created the table, and the starts that met any fault in
`connectToDB()`. A command that a crashed process left behind has had its effect, or never
will, before the next start. Updates are numbered and a price has the number of the update it was taken
at. `tick_data[TICK_DATA_SIZE]` is outside the array: the member behind it is `write_index`,
so the model lets the write change the index or not. `running` is a plain `bool` that
`stop()` writes from another thread; the loop reads atomics between its reads of the flag,
so it is read again each time. `connectToDB()` and then `run()` is the order its callers
have to keep; `main.cpp` does not start it.

**MemPool.** `ended` says which `ASSERT` ended the process. The search for the next free
block is its outcome: the first free block going up around the end.

### Assumptions the code makes and does not check

* `Window <= Capacity` (LFQueue): the consumer keeps the producer within the capacity.
  `main.cpp` relies on 4096 slots being enough. In `TradingSystem` the guard of
  `Enqueue` on `QueueCapacity` is this assumption, not a wait in the code.
* `Spread < LOB_DEPTH` (BookSide): an update is less than 256 ticks from every price its
  side quotes. This is the window the documents describe.
* Frames fit `recv_buf` together with their header (WebSocket). A longer one is refused after
  its header was read, and its payload is then read as headers; every frame with a 64-bit
  length is one, although `docs/utils.md` says that length is supported.
* The handshake's `recv()` that has the lines searched for has the response and nothing
  else (`PiecesAssumption`): what came behind it would be lost, the rest of it read as a
  frame.
* Messages are laid out as the registered schemas say (`MessagesLaidOut` in SBEParser): length
  of the fixed block, header and number of groups.
* The file has at most 2^16 rows (`MaxRows <= IDX` in Startup): with more, the symbol number
  of a venue wraps around and ids repeat.
* No exchange has a colon in its name (Startup): the registry's key is `exchange:symbol`, which
  the model has as a pair. With a colon two instruments could have one key.

Without the first one the producer overwrites unread elements, as nothing tests for a full
queue; `book_alias` and `book_truncated` show what happens without the second. Within it,
a new best price is still dropped, however near, when its shift would leave the array
(`ExtendBest`), though `priceToIndex` could wrap it around.

## 3. Runs

| Run | Bounds | Result |
|---|---|---|
| `lfqueue` | 3 slots, 7 elements of 2 values | passes: FIFO order, exclusive slots, the inductive invariant, refinement of `FIFOQueue` with its liveness |
| `book_side` | asks, 8 levels, prices 5..14, spread 7 | passes: exact count and ends, inductive invariant, what may be dropped, refinement of `PriceBook`, effect of an update |
| `book_alias` | spread 9 | `RemoveAbsentIsNoop` fails: two prices share a slot |
| `book_truncated` | 4 levels, an `int` of 3 bits | `BeyondRangeIsDropped` fails: a cut step looks short |
| `strategy_manager` | 4 levels, prices 3..5, 2 quantities, windows of 2 | passes: both sides exact, mid and micro price within the quotes, momentum of one window, both sides refine `PriceBook` |
| `sbe_parser` | up to 3 messages of 6 kinds, cut after any byte | passes: cursor at message boundaries, whole messages or nothing, ends |
| `websocket` | 3 frames of 5 kinds, 7-bit limit 2, buffer 8, a response in one piece or two | passes: connecting releases what it acquired, headers read where they are, payloads whole and in order, pings answered, what arrived is handed over |
| `trading_system` | 2 venues with endless feeds, queues of 2, 3 numbered updates per venue | passes: feed order, nothing abandoned, every update applied and every queue served though the other may never be empty |
| `trading_stop` | 1 venue | `StopEndsRun` fails: `stop()` before `run()` is lost |
| `line_reader` | blocks of 3 bytes, all texts of up to 10 bytes, errors of the source | passes: lines exact, the third block used by one thread at a time, both threads end |
| `startup` | up to 4 rows, 2 venues with a shared symbol, 2 orders of columns, 6 updates, ids of 2 bits | passes: instruments and books agree with the file, books kept apart, references valid, percentiles |
| `aggregator` | ring of 3, queue of 2, 2 starts, 8 updates each | passes: stored in order, plain table only if its creator met a fault, recent prices, queue drained |

Why the bounds are enough: three slots and seven elements take every index around the
ring more than twice; eight levels are the smallest depth with a shift of more than one
tick (`MAX_SHIFT_STEP` = 2), and ten prices that cross a multiple of eight make the
window wrap, meet both ends of the array and fill a side; two venues are what the round
robin can treat unevenly, frames of zero, one and two updates meet all its steps, and three
numbered updates are one more than a queue holds, with the endless rest behind them;
the parser keeps nothing between messages but its cursor, so what follows a message of
each kind is seen with two and three of them; the limits of the frame reader are scaled
down with their order kept (7-bit limit, buffer size, 16-bit limit); a reader moves one
block at a time, so three blocks and a part of a fourth show a first, a middle and a
last hand-over; four rows have room for a duplicate and a second venue; a ring of three
goes around more than once between two starts, and a second start is what finds the
table of the first. All invariants of the runs are proved for all bounds
(section 4); what only the bounds support is liveness.

**Fairness.** Threads that can run are scheduled by the operating system: weak fairness
of the OBM thread, of `main`, and of an ingester inside a frame. The queue's consumer
polls for ever and a producer finishes the write it began; a parse and a frame reader
that can go on do; both threads of the CSV reader are scheduled and a read of the file
returns; the aggregator's thread is scheduled and a database command returns, if only with
an error. Nothing is assumed of the network: a connection may hang and a frame may never
come, so `Connect`, `ConnectFails` and `ReadFrame` of `TradingSystem` have no fairness.

**Deadlock** is checked except where the program really ends: a parse that has returned
and an ingester whose connection failed (`sbe_parser`, `websocket`). Elsewhere the process that
has ended stutters by an action of its own (`Returned`, `Destroyed`, `Finished`, `Over`). An
ingester that has begun to read never ends because a failed `read_frame()` is followed by the next one and nothing calls `stopReceiving()`.

Each property of a passing run has a mutant: a small change of a mapped definition, kept
next to it in the module, under which TLC finds the property violated.

### Findings

1. Removing a price that is not in the book can withdraw another price (`book_alias`).
2. A price more than `2^31` raw units away can be taken for a near one (`book_truncated`).
3. A failed connection can leave `main()` waiting for ever (`trading_stop`).

Met on the way and left at a remark: the message of `line_length_limit_exceeded` speaks of
2^24-1 bytes, where a block has 2^20; a blank line in the CSV file, at its end too, is a row
with too few columns and ends `main()`; a failed read of the file is taken for its end; no
later start of the aggregator converts a table that was left plain, and a connection lost after
the server committed `CREATE TABLE` is enough to leave it so. `order_book_manager.h:23` says that
the vector of books "is never resized after reserve()": room is reserved for the instruments, a
book is made for every row, so a duplicate row moves the vector (`moved` = 1 in `Startup`), and
references are valid only because `main()` takes them after all books are registered.
`docs/market_data.md:145` names the end of the frame and an unknown template as the ends of the
parser's loop; an unknown symbol ends it too.

## 4. Theorems

All proofs are checked by TLAPS (SMT, Zenon, and LS4 for the temporal steps).

**ContainersProofs**, for any capacity, values, window and bound with
`Window <= Capacity`:

* `QueueInvariant`: `Spec => []IInv`. `DeliveredInOrder` alone is not inductive: nothing
  in it says that the slot to be read holds the next element. `Tracks` adds that indexes
  are the history lengths modulo the capacity (one ahead between the two statements of
  an update), that the counter is their difference, and that every unread element is in
  its slot. Two different positions of the window never share a slot
  (`ModInjective` in `ModArith`), which is why a write leaves the unread elements alone.
* `QueueDeliversInOrder`, `QueueSlotsExclusive`: consequences of it.
* `QueueImplementsFifo`: the safety part of the refinement; only `Publish` and `Release`
  change the abstract queue.
* `PoolInvariant`, of `MemPool` with any number of blocks: with the type of `is_free_` it is
  inductive, as the search stops only at a free block, and `deallocate` frees no block that is
  next already.

**BookSideProofs**, for either side and any depth, prices and quantities with
`Spread < LOB_DEPTH`:

* `SideInvariant`: `Spec => []IInv`. The ends are exact only because a quoted price sits
  at the slot of its remainder (`SlotCongruent`) and quoted prices are less than
  `LOB_DEPTH` apart (`WithinDepth`): then going around the array from the best slot
  meets prices in their order, so the search after a removal finds the next one.
* `SideBestWorstExact`, `SideCountExact`, `SideOnlyOutsideDropped`: consequences of it.
* `SideUpdateTakesEffect` and `SideImplementsPriceBook`: the quote of every price before and
  after a step. With the invariant a price has one slot that can quote it, so a step that
  writes one slot changes one quote; the abstract book's step is then read off the branch.
* `SideVacant`: a level that is not active has quantity 0. It is inductive by itself, and the
  getters of an empty side rely on it.

**StrategyManagerProofs**, for any depth, prices, quantities, window and number of levels
averaged, with `Spread < LOB_DEPTH` (`MomentumIsOfWindow` without it):

* `SidesExact`, `SidesArePriceBooks`: every step of the book is a step of the side its update
  names and leaves the other one alone, so a behaviour of the book is one of each side
  (`BidsBehave`, `AsksBehave`), and the theorems of `BookSideProofs`, instantiated for both
  sides, carry over.
* `MomentumIsOfWindow`: the counters add up to the place in the window (`WindowInv`), so their
  difference is at most its length and the quotient is never clamped.
* `MicroPriceIsSound`: the count of a side is 0 just when its best level is vacant
  (`SideVacant`), and a weighted mean of two prices, rounded down, lies between them.
* `MidIsBetweenQuotes`: the sums that `getMidRaw` takes over the top levels are folds over a
  set. `IsSum` says what it is for a function on the subsets of a finite set to be such a
  fold, and `WeightedSums` bounds one by the other: were there subsets that break the bound, one
  of least size would, and with one element less it would not (`LeastNumber` in `ModArith`).
* `SignalsInRange`: the type invariant, whose point is the range of the three signals.

**IngesterProofs**, about `WebSocket` for any frames and bounds:

* `TLSResourcesReleased`: `Spec => []ResourcesReleased`. The property speaks of the end of
  connecting; `StepHolds` adds what is held after each step of it.
* `HeadersAtBoundaries`, `PayloadsHandedInOrder`, `AllPingsAnswered`, provided every frame fits
  the buffer (`MAX_FRAME_SIZE`; see the assumptions above). All three follow from
  `FrameInv`: there is a frame `i` that `read_frame()` is in, at a place in it that fits what
  is still needed (`Reading`), or the connection was lost within it (`Lost`); and what was
  handed over and answered is what the frames before `i` ask for (`Done`).

and about `SBEParser` (`ParseSpec`) for any messages
with `MessagesLaidOut`, any number of them in a payload and any byte it is cut off after:

* `ParserTypeOK`, `CursorStaysAtBoundaries`, `MessagesAreTakenWhole`. The reference definition
  `Expected` is a fold over the messages; `Flat(f)` says that `f[i]` is what the first `i` of them
  contribute, and the inductive invariant `ParserInv` that such an `f` exists, that `Expected` is
  its last value, and that the parser is at some message `k` (`At`): between messages exactly
  `f[k-1]` is enqueued, within one the levels before the current one as well, and the offset is
  that of this level. The lengths that `measure` and `decode` compute are sums over the groups
  (`IsSums`), equal to the layout's by comparing them group by group.

**TradingSystemProofs**, for any number of venues, any frames, queue capacity and bound:

* `UpdatesAppliedInFeedOrder`, `SystemTypeOK`: the numbered updates that a venue enqueued are
  those applied, followed by the first of those that wait in its queue, and behind them wait
  only updates that are not numbered (`Tracked`); the first element of the queue may have
  been applied and not yet released (`Waiting`), and the OBM thread works on the first element of
  the queue at its cursor (`AtCursor`). As the number of numbered updates is arbitrary, the order
  holds however far the feeds are followed.
* `NothingIsAbandoned`: needs how far each thread can be at each point of `main()`
  (`Lifecycle`). `stop()` is only called once every ingester has ended, and an ingester that
  ends has enqueued nothing.

**HistoricalAggregatorProofs**, for any sizes and any number of crashes and starts:

* `UpdatesStoredInOrder`: `Spec => []StoredInOrder`. The inductive invariant says that the
  queue holds the last numbers fed, in order (`QueueInv`), and that what is stored is older
  than the queue, or its first element between the insert and the release (`StoredInv`).
* `RingHoldsRecent`: `Spec => []VolatilityOfRecent`. Every slot but the first holds a price no
  older than its distance behind the write index (`RingInv`, `Age`). A turn around the ring is
  one write longer than the ring, as one goes past the end, and that write may or may not
  change the index.
* `TablePlainOnlyAfterFailure`: inductive as it stands.

**StartupProofs**, about `Startup` for any lines and headers, instruments and latencies, with
`MaxRows <= IDX`:

* `InstrumentsAreOfFile`, `BooksStayApart`, `StrategiesKeepTheirBook` follow from `StartupInv`. Its
  heart is `RegistryGood`: venues have different numbers below the number of venues, the
  symbols of a venue different numbers below its counter, and `pack` keeps the two apart, so
  that no two instruments share an id; then each id leads to the book of its own instrument
  (`LeadsToOwn`). What the loops over the rows compute is shown row by row, for the least
  number of rows at which it could fail.
* `PercentilesAreBracketed`: `LatencyInv` says that up to the end of each bucket the histogram
  has counted just what was recorded, `Accumulated(hist)[b] = SamplesUpTo[2^(b+1) - 1]`. A sample
  adds one on both sides from its bucket on (`RecordKeeps`), and that every update is sampled
  follows from `StartupInv`: its id leads to a book. The first bucket that reaches the threshold
  then contains the exact percentile.

and about `LineReader` (`CSVSpec`) for any files and size of the blocks with `BlockLayout`:

* `ThirdBlockExclusive`: `ControlInv` says at which points of the reading thread a read can be
  requested or finished, whichever notifications get lost, and how far the data reach there.
* `LinesAreExact`: `DataInv` says that the data in the buffer are the file from the start of the
  next line on, that the third block holds what follows them, and that the lines returned and
  the lines of the rest are those of the file (`Progress`). The end of a line found in the buffer
  is then that of the file's next line, so the line taken is the next one (`LinesInv`).

`StartupProofs` extends `Startup` and `LineReader`, and `IngesterProofs` extends `WebSocket` and
`SBEParser`, so their specifications have names of their own, and the theorems rest on the
assumptions that the modules state and TLC evaluates (`BlockAssumption`, `MessagesAssumption`).
Only the proof about `MemPool` is about an instance (`Pool`), whose constants and variables the
proof module declares; the assumption on them is a hypothesis of the theorem there.

Only model-checked: liveness (the fairness of `FifoSpec`, `EveryUpdateApplied`, `ParseEnds`,
`ArrivedIsHanded`, `ReaderEnds`, `QueueDrains`), which is out of the prover's reach. Every invariant
and every other action property or refinement of a passing run is a theorem, for all values of the
constants. Only proved, without a run of its own: `MemPool`, which the program does not use.

## 5. Not modelled, and the plan

Still to come: `TradingSystem` over `LFQueue`'s steps instead of the abstract queue. The refinement
(`QueueImplementsFifo`) justifies the abstraction; composing the two would show it in one run.

Not modelled:

* PCM, risk and cost models: floating-point formulas, not wired into `main.cpp`;
  `risk_model.cpp` is in no build target.
* Order gateway and OMS: FIX callbacks that print and are largely commented out; the OMS file
  is empty.
* HTTP client, environment loader, price utilities, TSC calibration: I/O and formulas without
  state of their own.
* Of `csv.h`: quoting, comments and number parsing, which the program does not instantiate,
  and the texts of its errors. `SynchronousReader` is for builds without threads.
* Of `WebSocket`: `send_frame`, which nothing calls, and the masking of bytes.
