# NanoTrade in TLA+

A verification project for NanoTrade, a low-latency trading system in C++: an
exchange (matching engine, order server, market data publisher) and a trading
client (market data consumer, order gateway, trade engine with strategies), all
threads of each joined by lock-free queues. The modules are translated from the
source under `src/`; definitions keep the names of the functions and members
they stand for, and `PROJECT.json` maps each of them to its lines.

## 1. The system

### Components, their state and operations

| Component | Source | State | Operations |
|---|---|---|---|
| `LFQueue` | `common/lf_queue.h` | slots, write index, read index, count | `getNextToWriteTo`, `updateWriteIndex`, `getNextToRead`, `updateReadIndex`, `size` |
| `MemPool` | `common/mem_pool.h` | blocks with a free flag, index of the next free block | `allocate`, `deallocate` |
| `Logger` | `common/logging.h` | an `LFQueue` and a flushing thread | `log`, `pushValue`, `flushQueue` |
| `MEOrderBook` | `exchange/matcher/me_order_book.*` | FIFO per price level, the levels linked per side from the best price, pointers by client and client order id, next market order id | `add`, `checkForMatch`, `match`, `cancel`, `addOrder`, `removeOrder`, `addOrdersAtPrice`, `removeOrdersAtPrice` |
| `MatchingEngine` | `exchange/matcher/matching_engine.*` | one book per instrument, three queues | `processClientRequest`, `sendClientResponse`, `sendMarketUpdate`, `run` |
| `MarketDataPublisher` | `exchange/market_data/market_data_publisher.*` | next incremental sequence number | `run` |
| `SnapshotSynthesizer` | `exchange/market_data/snapshot_synthesizer.*` | orders by instrument and market order id, last sequence number | `addToSnapshot`, `publishSnapshot`, `run` |
| `OrderServer`, `FIFOSequencer` | `exchange/order_server/*` | per client: socket, next incoming and outgoing sequence number; the requests of one poll | `recvCallback`, `recvFinishedCallback`, `sequenceAndPublish`, `run` |
| `OrderGateway` | `trading/order_gw/*` | socket, next incoming and outgoing sequence number | `run`, `recvCallback` |
| `MarketDataConsumer` | `trading/market_data/*` | next expected number, recovery flag, queued snapshot and incremental messages | `recvCallback`, `queueMessage`, `startSnapshotSync`, `checkSnapshotSync`, `run` |
| `MarketOrderBook` | `trading/strategy/market_order_book.*` | as `MEOrderBook`, by market order id, and the BBO | `onMarketUpdate`, `updateBBO` |
| `OrderManager`, `RiskManager` | `trading/strategy/order_manager.*`, `risk_manager.*` | one order per instrument and side, next order id | `moveOrders`, `moveOrder`, `newOrder`, `cancelOrder`, `onOrderUpdate`, `checkPreTradeRisk` |
| `PositionKeeper` | `trading/strategy/position_keeper.h` | position, open VWAP, realised and unrealised PnL | `addFill`, `updateBBO` |
| strategies | `market_maker.*`, `liquidity_taker.*`, `feature_engine.h` | features | `onOrderBookUpdate`, `onTradeUpdate`, `onOrderUpdate` |
| `TradeEngine` | `trade_engine.*` | two incoming queues, one outgoing | `run`, `sendClientRequest`, the dispatch functions, `stop` |
| replays | `backtest/lobster_replay.*`, `binance_aggtrades_replay.*` | order ids seen and their slots, or a synthetic best bid and ask; sequence number | `run`, `push` |
| `FillSimulator` | `backtest/fill_simulator.*` | pending orders with the queue ahead of each, priority watermark | `run`, `onSimMarketEvent`, `tryAggressiveFill`, `snapshotQueueAhead` |
| `EquityRecorder` | `backtest/equity_recorder.*` | samples of the profit | `run`, `stop`, `finalize` |
| backtest | `backtest/backtest_main.cpp` | the queues and threads of a backtest, number of idle polls | `main` |
| sockets | `common/tcp_*`, `mcast_socket.*` | kernel buffers | `sendAndRecv`, `poll`, ... |

### How they interact

A strategy calls `OrderManager::moveOrders`, which asks `RiskManager` and sends
requests through `TradeEngine` -> queue -> `OrderGateway` -> TCP ->
`OrderServer` -> `FIFOSequencer` -> queue -> `MatchingEngine` -> `MEOrderBook`.
The book answers in two directions. Responses go back through the order server
and gateway to `TradeEngine::onOrderUpdate`, which updates `PositionKeeper` and
the strategy (`OrderManager::onOrderUpdate`). Market updates go to the
publisher, which numbers and multicasts them and passes each on to the
synthesizer; the consumer rebuilds the stream from the two multicast groups and
feeds `MarketOrderBook`, whose changes reach the strategies. Each arrow between
two threads is an `LFQueue`.

A backtest replaces the exchange and the network. A replay thread reads a file
and writes updates to the consumer's queue and, in queue-aware mode, to
`FillSimulator`, which takes the place of gateway and exchange: it answers the
requests and reads the BBO of the trade engine's book, unlocked, to decide on
fills. `EquityRecorder` samples the position keeper's profit from a third thread.
`main` waits until the queues look idle and stops everyone.

### What is hard

* Two threads on one queue, three unsynchronised words each; a consumer that
  uses a slot after giving it back; a queue that never refuses a write; a queue
  that gets a second producer.
* Hand-written circular lists whose nodes are recycled through pools; one table
  of price levels for both sides of the book; pointers kept by client order id
  although clients choose these ids.
* Requests, fills and cancels that cross: the order manager identifies a
  response by its side alone, and the risk check sees a position that lags.
* Lost, duplicated and reordered multicast; snapshots that straddle recoveries;
  TCP sends cut short at any byte, reconnects, requests of equal receive time.
* Backtests that must neither hang (a producer that waits for two readers) nor
  end early (idleness is inferred from queue sizes read one after another); files
  with missing and repeated rows, and executions that remove no order; fills by trades, fills by the BBO and cancels of
  one order at once.
* Memory that is read before it is written (`open_vwap_`).

`PROJECT.json` lists these one by one under `hazards`, each at the line where
it bites and with the properties that would catch it.

### What makes each component correct

* `LFQueue`: every element delivered once, in order, intact, and eventually.
* Order book: never crossed; levels, lists and pointer table agree; fills by
  price, then time; every request ends.
* Exchange as a whole: updates reproduce the book; responses tell every client
  exactly what became of its orders.
* Order manager: a response changes only the order it is about; the position
  stays within its limit; no order waits for ever.
* Market data: the client's book is at every moment the exchange's book of an
  earlier moment, also after losses; every recovery ends.
* The client's book: exactly the orders the updates announce, by price and
  arrival; a BBO that is its top; no pointer to what was freed. (In replay mode,
  where the two sides may meet, and after a CLEAR only part of this holds.)
* Order session: requests and responses in order and none twice; as they were sent,
  and none lost, unless a send was cut short or a client restarted.
* Memory pool: a block has one owner; out of space means that every block is used.
* Position keeper: profit is cash plus the value of the position.
* Backtest: a book that follows the file; a simulator that behaves like the
  exchange and fills an order only behind the quantity it found at the best price
  when it came to rest there (elsewhere it assumes an empty queue); an end that
  comes, and comes only when everything is handled.

## 2. The modules

| Module | Models | Role |
|---|---|---|
| `FIFOQueue` | - | what a queue promises: the abstract specification |
| `LFQueue` | `lf_queue.h` and its callers' protocol | one access to an atomic or to a slot is one action |
| `LFQueueProofs` | | invariants of `LFQueue` and its refinement of `FIFOQueue`, for both pairs of threads |
| `MEOrderBook` | `me_order_book.*`, `matching_engine.h` | one instrument of the matching engine |
| `MemPool` | `mem_pool.h` | the pool under the lists |
| `PriceLevelList` | `addOrdersAtPrice`, `removeOrdersAtPrice` of both order books | extends `MemPool`: the lists at pointer level |
| `PriceLevelListProofs` | | the pool, the lists and their links for every size |
| `SnapshotSynthesizer` | `addToSnapshot` | operators |
| `Exchange` | engine + publisher + synthesizer + clients | composition |
| `ExchangeProofs` | | the book's invariants, price-time priority, snapshot and ledgers |
| `OrderManager` | `order_manager.*`, `risk_manager.h`, `position_keeper.h` (position), strategies, dispatch | the client's orders against an asynchronous exchange |
| `MarketDataFeed` | publisher, synthesizer, consumer, `mcast_socket.*` | market data over two unreliable multicast streams |
| `MarketOrderBook` | `market_order_book.*` | the client's copy of the book and the BBO |
| `MarketOrderBookProofs` | | the book, its pointers and the BBO, with CLEARs and with crossing orders |
| `OrderSession` | gateway, order server, sequencer, `tcp_*` | order entry over TCP |
| `OrderSessionProofs` | | what each side of a session accepts |
| `MarketReplay` | `lobster_replay.*`, `binance_aggtrades_replay.*`, the consumer in replay mode | files to updates to the client's book |
| `MarketReplayProofs` | | the book a replay leaves behind |
| `FillSimulator` | `fill_simulator.*` | extends `OrderManager`: the simulated exchange |
| `Backtest` | `backtest_main.cpp`, `trade_engine.*` | composition of replay, trade engine, simulator and `main`, shown to implement `OrderManager` |
| `BacktestProofs` | | the order manager against its exchange; the refinement, fills and the end of a backtest |
| `PositionKeeper` | `position_keeper.h` | profit and loss |
| `EquityRecorder` | `equity_recorder.*` | extends `PositionKeeper`: samples and summary |
| `ClientProofs` | | the feed with up to two faults, the profit and the summary |

`MCBacktest` gives `Backtest` its BBOs and events. No `.cfg` replaces a
definition, so TLC runs the same definitions the proofs are about.

### LFQueue

`store_`, `next_write_index_`, `next_read_index_` and `num_elements_` are the
class's members. The rest is where each thread is: `wpc`, `wslot`, `wload` for
the producers (`updateWriteIndex` loads the index, stores it and increments the
count in three accesses), `rpc`, `rslot`, `copied` for the consumer. All accesses
are sequentially consistent atomics except the slot itself, so interleaving
single accesses is exact as long as nobody races on a slot, which is a property
(`NoSlotRace`).

The users of the queue differ in two ways that come in pairs, and `publisher`,
chosen at the start, says which pair it is. Either the producer tests
`size() < HighWater` before a write begins, as the replay threads of the backtest
and the market data consumer do with 3/4 of the capacity, and the consumer is done
with a slot when it gives it back. Or the producer is
`MatchingEngine::sendMarketUpdate`, which tests nothing, and the consumer is
`MarketDataPublisher::run`, which dereferences the element once more after
`updateReadIndex()` to copy it to the synthesizer's queue. There nothing in the code
keeps the engine off the slot. What can be said is how far that is safe: `overrun`
records that the engine has begun a write with `size()` at `Capacity - 1` or above,
and until then the slot is intact, no slot is touched by both sides and the queue is a
FIFO. (The ASSERT of `updateReadIndex` needs no such condition.) `MaxElements` bounds
`size()` for TLC; it lies above the capacity, so the ring does overflow in the run.

### MEOrderBook

A level is the sequence of its orders (the circular list from `first_me_order_`
on), `by_price_` the set of prices linked on each side; that the linked list
really holds this set in order is the subject of `PriceLevelList`. A NEW request
is several steps, since responses and updates are visible to other threads as
soon as they are written: `Accept`, one `Match` per passive order, then `Rest`
or `FullyFilled`. `sent_responses` and `sent_updates` hold what the last step
wrote to the outgoing queues. `cid_oid_to_order_` holds market order ids in place
of pointers (0 for null): a pointer to a freed order is then an id no order of
the book has.

`ReuseIds` lets clients send the same client order id again, which the engine
does not refuse; `Quantities` may contain 0, which it does not refuse either.
The prices are those inside the window of `priceToIndex`. The requests are those a
gateway can send: NEW and CANCEL of clients inside the tables. (`processClientRequest`
ends the process for another type; `cancel` answers a client beyond its table like an
order it does not know, but the order server has indexed its own tables of that size
with the same number before.) The two tables of pointers are never initialised by a
constructor; they start as nullptr here, which is what the code relies on and fresh
pages hold.

### PriceLevelList

Nodes, their `prev_entry_` and `next_entry_`, the two heads and the price
table. Both order books have the same code with their own comments. Nodes come
from `MemPool`, whose block `next_free_index_` is the next node, with whatever
its constructor leaves in it. The exits of the search are those of the code,
including the one that stops when the walk has come back to the head. The pool
is found exhausted at the end of the allocation that takes its last block, and
the process ends there.

There is one level per price for both sides. `removeOrdersAtPrice` is given the side
of the order that left the level empty and looks at that side's head, whatever side
the level is linked on. In the exchange and in a live client the two are the same, as
these books never cross. In replay mode (`replay_mode_`) executions become TRADEs that
remove nothing, so an order may be added at a price where the other side rests:
`joinLevel`, at most `MaxCrossings` times. `leaveLevel` takes away the last order of
one of the two sides. If the last to leave the level is of the other side and the
level was its side's head, the head keeps pointing at the freed node (`headLost`), and
the other side's head is cleared if the level was alone on its list. `addOrdersAtPrice` has the test for a head
without `next_entry_` of the client's book; section 5 tells what it meets.

### Exchange

Each step of the engine is followed at once by the two readers: the
synthesizer's `addToSnapshot` and a `ledger` that a client could keep from its
responses. Doing this in the same step is justified by the refinement of
`FIFOQueue`: the queues deliver in order and the readers only read. The synthesizer's ASSERT on the sequence number is left out:
the publisher counts them and the queue loses none.

### OrderManager

One instrument with its two orders; `requests` and `responses` are the streams
to and from the exchange in which everything between strategy and matching
engine is collapsed (TCP keeps order; the queues do too). The exchange may at
any time take the next request, or fill a resting order partly or fully, so
every crossing of fills, cancels and new orders happens. Strategies choose
prices freely, since market data reaches the client over a separate path and can
lag arbitrarily. The loss test of the risk check depends on floating-point PnL
and is a free choice here (`PositionKeeper` has the figure).

The client runs one strategy, chosen when it starts (`algo`). `SimulatorFill` is
what only a backtest does: an order is ended with what the best level shows, in
one FILLED without leaves, even if that is less than the order.

### MarketOrderBook

A level is again the sequence of its orders and `by_price_` the prices linked
per side. CLEAR frees orders and levels but leaves the price table alone, so the
model keeps freed orders in their levels, marked: a pool hands out a freed block
only after its index has gone round all of its million blocks, and until then
the old contents are what the code finds.

A *live* client is fed by the exchange's book: never crossed, with growing ids,
quantities that only fall, and after a CLEAR the orders of the snapshot in the order
of their ids, some of them perhaps gone. A *replay* (`replay_mode_`) has no CLEAR, but
its orders come at any price and its MODIFYs set any quantity: LOBSTER executions
become TRADEs that remove no order (`lobster_replay.cpp:68`), and the Binance replay
moves its two synthetic sides one after the other
(`binance_aggtrades_replay.cpp:153`). So an order may join a level of the other side
(`mixed`), and the level may be taken off its list with the wrong head in hand. The
links of `PriceLevelList` are abstracted to which levels the pointer of each side leads
to (`by_price_`), the freed level it leads to instead (`freed_head`), and the lists
that neither leads to any more (`lost`).

### MarketDataFeed

The publisher numbers updates and multicasts them one by one (a batch that is
lost is its messages lost one after the other). The synthesizer applies them and
publishes its snapshot in the datagrams that `publishSnapshot` really cuts:
START, CLEAR and the first order together, each further order and END by itself.
Its 60-second timer is the action `publishSnapshot`: it may fire whenever the
synthesizer's queue is drained and the client has read the cycle before. The
consumer's recovery is `checkSnapshotSync` with each of its exits. `forwarded`
is what a reader ought to make of the updates forwarded (an ideal table of orders:
`MarketOrderBook` is the real one), `position` the number of the
last update it reflects (for the properties only). One instrument, since CLEAR
and numbering are per stream and instruments share only the datagrams.

The loss of the very last update goes unnoticed until the next one, for the
stream has no heartbeat; `RecoveryEnds` is about losses that are noticed.
Datagrams are lost on both streams; only messages of the incremental stream are
repeated. A *repeated* message makes the consumer recover, and the snapshot it recovers
from may be older than its book: `NeverGoesBack` holds for losses alone.

### OrderSession

`turn` is where `OrderServer::run` is in its round: one socket after the other,
then the sequencer, then the responses. A connection delivers messages: bytes of an
incomplete one wait in `inbound_data_` as if it had not arrived. A restart gives a
client a new process and a new socket, while what it had sent may or may not still be
read. The result of `::send` is ignored, so a send may be cut at any byte and the rest
is gone (`Sends`). A cut between two messages (`Arrives`) leaves a gap in the numbers.
A cut inside one (`ArrivesCut`) leaves a fragment (`rest`) that the first bytes of the
next buffer complete. Since both packed messages begin with `seq_num_`, the type and
`client_id_`, a fragment of 13 bytes or more is taken for the message that was cut,
with contents that nobody sent (`number` 0); a shorter one, and all that follows out of
frame, may be taken for any message (`Stray`), until another cut happens to restore the
frame. `torn` remembers the connections this has happened on. A `client_id_` beyond the
server's tables may end the exchange and does nothing else here; what the engine makes
of the contents of such a request is left out.
`std::sort` is any result that is sorted by receive time, and keeps the order of
equal times only up to `StableUpTo` requests: 16 in libstdc++, which sorts that
few by insertion.

### MarketReplay

A file is any sequence of rows, chosen row by row: orders announced before the
file begins, rows repeated, trades too small for the scale. The one assumption is
that a LOBSTER order is not announced again while it is live. `pushing` holds the
updates of the current row that wait for room in the queues. The client is the
consumer in replay mode and the book's table of orders by id, since what could go
wrong is an update of an order that is not there. `resting` and `collided` are
for the properties: the orders the rows leave, and whether `fresh_oid` has come
round to an id in use.

### FillSimulator and Backtest

`sim` is where `FillSimulator::run` is in its round; each read of `*bbo_` is a
step of its own, since the trade engine changes it meanwhile. `BBOs` is the set of
values a read may find; a torn read finds a value made of two, so it adds nothing
to a model in which the set is arbitrary. `Visit` is the body of the last loop for
one order of `pending_`, taken in any order (it is an `unordered_map`). The events
of the replay are any of `Events`, a counter (`md`, `sim_md`) says how many there
are. Events and BBOs are independent: the simulator reads its own copy of the stream,
and nothing ties its place in it to the trade engine's.

`level` is what `PassiveFillsBehindQueue` measures the simulator by, and is not taken
from the simulator's own figures: what really rests at the price and side of the order
when its queue is snapshotted (`resting`: the quantity of the BBO at the best price,
nothing in front of it, and *any* of `Hidden` behind it, which the BBO does not show),
the largest priority seen by then, and what has traded or gone since, apart for
priorities up to that one and later ones. The property holds an order at the best price
or better to the whole queue. Behind the best price `snapshotQueueAhead` takes the queue
as 0, so of such an order only that its fills are covered by events at its price can
be said (section 5).

ACCEPTED and the read of `*bbo_` that follows it are one step, and `main`'s sum of
five sizes is read from left to right, which C++ does not oblige a compiler to do.

The trade engine's two loops are `TradeEngineUpdate` and `TradeEngineResponse`,
interleaved freely. A strategy's prices come from the BBO as the code computes
them; the floating-point features that choose between them are free. `main` reads
one queue size per step (the two queues of market data as one: the consumer
writes to the second before it releases the first). The client's variables and
actions are those of `OrderManager`; its `open`, the orders of the client's
exchange, is `pending_` as the client sees it (`pendingOrders`), and the
exchange's actions are not used. `ImplementsOrderManager` says that the
simulator's steps are among them nevertheless: what that module shows of the
client against its exchange then holds in a backtest.

A sleep of 100 ms lets the simulator go round at least `Rounds` times; that is an
assumption on time which the code makes, and it is needed: a fill that a new BBO
causes is in no queue when `main` looks, and with one round per sleep
`StopLosesNothing` fails. `main` asks for 20 idle polls in a row; `IdlePolls = 1`
is the harder case.

### PositionKeeper and EquityRecorder

Doubles are integers counted in units of `1/Scale`, chosen so that every division
comes out even; rounding is not modelled. A fill divides what the position has
cost by the position, and what is left may be divided by the next one: so `Scale`
and `InitialVwaps` are multiples of `power[MaxFills]`, a `Divisor` that every
position divides, to the number of fills. `open_vwap_` starts with any of
`InitialVwaps`. `cash`, `mark`, `initial_vwap` and `first_side` are for the
property. The recorder samples whenever it likes, which includes its 100 ms.

## 3. The runs

| Run | Instance | What TLC shows |
|---|---|---|
| `queue_spsc` | capacity 4, one producer; a mark of 3, or up to 5 elements unchecked and late reads; fairness | until the ring is within a slot of full, the buffer implements `FIFOQueue` with liveness, no slot is touched by both sides and the publisher finds a released slot intact; the ASSERT never fires; a producer at the mark gets through |
| `exchange` | engine, synthesizer and clients; 2 clients, ids reused, 3 prices, quantity 0, 3 orders, fairness | never crossed, levels consistent, no dangling pointer, price-time priority, every request ends, snapshot equals book without an ASSERT, ledgers exact and fills within limits |
| `levels` | 4 blocks, 4 prices, 1 order that joins the other side's level | lists sorted and complete until a head is lost, mutually linked even then; the pool fails only when full |
| `order_manager` | maker or taker, clip 2, position limit 3, 4 orders, fairness | exposure bounded, no response hits the wrong order, books agree at rest, no pending order for ever |
| `market_book` | 3 prices, 2 quantities, 3 orders; live with 2 CLEARs, or replay with crossing orders | levels are exact wherever no CLEAR freed one, ids never lead to freed memory; lists are exact, and the BBO exact or invalid, until an order joins the other side's (the BBO also only until a CLEAR) |
| `market_book_clear` | 1 CLEAR | **violation**: the book is not what the updates say after a CLEAR |
| `feed_recovery` | 3 updates, 2 faults (loss on either stream, repetition of an incremental), live and replay, fairness | the book is always one of the exchange's, losses never take it back, every recovery ends |
| `feed_mixed` | 3 faults | **violation**: the remains of two snapshots pass for one |
| `session` | 2 clients, 3 requests, 2 responses, a restart or a send cut anywhere, sort stable for 1, 2 pending at most, fairness | the engine gets the numbers of one connection once, in order but within a large poll, contents as sent unless a message was cut; responses likewise; everything delivered if nothing failed |
| `replay` | both formats, 5 rows, few ids so that slots run out and synthetic ids come round, queues of small mark, fairness | only updates the book can apply, book as the rows say, the replay finishes |
| `backtest` | both strategies and fill modes, 3 updates, 2 orders, 2 BBOs, 4 events, a hidden quantity of 1, fairness | fills behind the queue at the best price, refinement of `OrderManager`, nothing lost at the end, the end comes |
| `position` | 4 fills, samples at any moment, arbitrary initial `open_vwap_` | profit is cash plus position; summary is that of the curve |

**Bounds.** Indices of a queue of 3 or 4 slots wrap arbitrarily often, so no
behaviour of the ring is cut off. Three prices and three orders let an aggressive
order sweep two levels or two orders of one, one of them cancelled before; the
theorems cover the rest. Market order ids and client order ids are the only
counters that grow; `MaxOrders` bounds them. Four blocks and four prices give
lists of up to four levels with insertions at the front, in the middle and at
the end, and let a node move from one side to the other; one crossing order is enough
to lose a head while its list and the other side's go on. A clip of 2 under a
limit of 3 makes partial fills, a cancel that crosses with a fill, and a refused
order all happen. Two faults in the feed are a loss and a loss or repetition
during the recovery from it; the third that breaks the property is the subject of
`feed_mixed`, so the bound is tight. Two CLEARs let a level freed by the first be
filled and cleared again. Positions up to 3 have the `Divisor` 6, and four fills
the `Scale` 6^4 = 1296. Three requests exceed both the number up to which the
sort is stable (1) and the limit of pending requests (2), so the unstable sort
and the FATAL happen; stray numbers 1 and 2 are those the receivers expect. Five rows let an order be announced, changed, deleted,
deleted again and its slot number passed; three updates let a client's order be
sent, rest, and meet a trade or a new BBO on its way out; the second top hides a level
at price 1, where the fourth event trades. Each bound is a named
constant.

**Deadlock** is checked except where the system may stop: a replay ends with its
data (`feed_recovery`, `replay`, `backtest`, `position`), FATAL ends the exchange
(`session`) and an exhausted pool the process (`levels`). No bound makes another
model stop: a full book still answers cancels, and a strategy out of ids still
makes calls of `moveOrders` that send nothing new.

**Fairness.** Every thread is a busy loop on its own core, so each gets its next
step: weak fairness on the consumer's steps and on a write once begun
(`LFQueue`), on the engine's handling of a request once accepted
(`MEOrderBook`, `Exchange`), on handling a waiting response, answering a waiting
NEW and answering a waiting CANCEL (`OrderManager`), on each step of synthesizer
and consumer and on the snapshot timer (`MarketDataFeed`), on the server's round
and on each gateway's socket (`OrderSession`), on replay, consumer and simulator
(`MarketReplay`), and on each thread and each loop of the trade engine, which end
because the replay does (`Backtest`). Nothing obliges clients to send,
producers to begin a write, orders to be filled or markets to move.

**Mutants.** Each property of each passing run has a mutated definition beside
the original (`Mut_...`), a plausible bug that makes TLC report the property.
They are part of no specification.

## 4. The proofs

`tlapm` checks every obligation of the eight proof modules; nothing is assumed
beyond the named assumptions on the constants and the hypotheses below.

**LFQueueProofs.** Hypotheses: `SafeMark` (the mark of the producers that have one is
at most the capacity) and `SingleProducer`. Under them, for every
capacity, mark and set of values, and for either pair of threads: type correctness,
`NoSlotRace`, `NoReadAssert`, `ReleasedSlotStable`, and the refinement of `FIFOQueue`
(its safety part), where the unchecked producer is concerned until it begins a write
within a slot of a full ring (`overrun`). The inductive invariant `IInv` says without
that condition only what the ASSERT needs (`TakenInv`). Up to there (`InRoom`) it ties
the three words together: the
write index is the read index plus the count, corrected by the element each side
has indexed but not yet counted, modulo the capacity; the count is at most the
mark, or `Capacity - 1` for the engine; and each program counter fixes which slot its
thread holds. `NoSlotRace`
alone is not inductive: it needs the distance between the indices, and that needs
both corrections. `WrapIsPos` replaces `%` by a case distinction on the range
that occurs. `Contents` says that the slots of the abstract queue lie between the
indices; `StepRefines` then maps every step to a step of `FIFOQueue` or to
stuttering.

**ExchangeProofs, the book.** For every set of clients, ids, prices and quantities and
every bound, ids reused or not: `TypeOK`, `NotCrossed`, `LevelsConsistent`,
`NoDanglingOrder`, `PrioritiesFollowTime`, and the action property
`PriceTimePriority`. `IInv` is the conjunction of these invariants with
`IdsBounded` (market order ids in the book are below the next one and below
that of the order being matched) and `AggressorBounded` (so is that id). With the
growth of ids along each FIFO they make time priority a comparison of ids, and
they keep the order that comes to rest last in its level. That the book is not
crossed needs the levels to be consistent, since an order rests only when the
best opposite level is out of its reach, and the consistency of the levels needs
the book not to be crossed, since one table serves both sides; hence the
conjunction. One lemma per way of changing the book (`RemoveKeeps`,
`PartialKeeps`, `RestKeeps`, `BookUnchangedKeeps`), one per action on top.

**ExchangeProofs, its readers.** Under the same assumptions: `SnapshotMirrorsBook`
and `LedgerExact`. `XInv` adds to the book's `IInv` that the ids of resting orders
are distinct (`Unique`), that the synthesizer holds exactly the resting orders
(`Snap`), and that the ledger has an entry for each id given out, with the quantity
still open equal to what rests or is being matched (`Told`). `LedgerExact` alone is
not inductive: a fill reaches the ledger through its id only, so the entry must be
known to be of that order's side and limit; and the ASSERTs of `addToSnapshot` hold
because ids are distinct and given out in order. A step sends at most two messages,
so a fold over them is one or two applications (`SnapshotOfTwo`, `LedgerOfTwo`).
Then one lemma per message (what it does to the snapshot or the ledger), one per way
of changing the book, and one per action.

**PriceLevelListProofs.** For every number of blocks and every history of
`allocate` and `deallocate`: `PoolExhaustedOnlyWhenFull`. It is inductive with the
type invariant, since `allocate` ends by establishing it and `deallocate` only
frees. The search of `updateNextFreeIndex` enters as the first free block on the
way round, with `steps` as the distance. On top of the pool, for any prices:
`ListsHoldLevels` and `BackLinksMirror`, and again that the pool is out of space
only when every block holds a level. What a property sees by following
`next_entry_` the invariant names outright: for each side there is an enumeration
of its levels in use, from best to worst, along which the links go round
(`Listed`), and the price table leads to the node of each price (`Indexed`).
`addOrdersAtPrice` inserts into the enumeration, `removeOrdersAtPrice` takes one
element out, and the other side's enumeration is untouched because nodes belong to
one side. `Listed` lasts until a head is lost, which takes an order that joined the
other side's level; nothing else is assumed of the orders. What lasts for good
(`Linked`) is that blocks in use are linked in rings and free ones with nothing. That
suffices for `BackLinksMirror` and for a search that ends between two neighbours. That the search stops at the right place, and that walking from the head
yields the enumeration, is proved of the first node at which it would fail, in place of
an induction along the list.

**MarketOrderBookProofs.** For any prices, quantities, numbers of orders and of
CLEARs: `NoFreedOrderReached`, `BBOExactOrInvalid` and `MirrorsFeedWhereNotFreed`.
`BInv` tells live orders from freed ones, which share the levels after a CLEAR:
the live orders are exactly those of the feed, in the order of their ids, and the
pointers lead to them (`Held`), crossing orders or not. Until an order has joined
orders of the other side, the lists link exactly the levels in which no order is
freed, each on its side, and no head is lost (`Good`, `NoneLost`); bid and ask may
cross before that. In a live client it never happens, and the levels never mix sides:
that rests on the exchange's book not being crossed (`NeverCrossed` of
`ExchangeProofs`), and after a CLEAR on the fact that neither the orders yet to come from the snapshot nor the new ones
cross each other (`ClearedOrders`): one table of prices serves both
sides here too. `BBOKept` is the argument about `updateBBO`: the top of a side
changes only by an update at or above it, and the code looks at those.

**MarketReplayProofs.** For files of any length in both formats, any ids, prices,
numbers of slots and marks of the queues: `OnlyLiveOrders` and `BookFollowsRows`.
The replay decides from its own tables whether an order is there; the book is
behind by whatever is queued. `RInv` bridges the two with a trail (`Trail`): books
from the one the client has to the one the tables describe, one per update under
way, in each of which the next update finds the order it needs. `push` moves an
update along the trail, `Consume` drops its first book, a row extends it at the
end. The trail is an existential witness, so no induction over the queue is
needed. `Numbered` covers the sequence numbers on both queues. For Binance files
all of this is under `~collided`.

**BacktestProofs, the client.** For any prices, clip, limits, number of orders and either
strategy: `TypeOK`, `NoStaleResponse`, `QuiescentAgreement` and
`ExposureWithinLimit`. The response that `onOrderUpdate` gets names its order by
side only, so what has to be known is everything under way for a side: `IInv` says
that it is about the order in the slot, and comes in the order in which an
exchange deals with one order. The NEW, then ACCEPTED, then fills whose leaves
decrease, then at most one response that ends the order; a CANCEL only once it was
accepted; for an order that has ended, nothing but cancels that come too late. The
quantity parts tie the slot's `qty_`, the leaves at the exchange and the fills in
between together, and `LimitInv` says that while an order works, the position with
all of it filled is within the limit, which is what the risk check established
when it was sent: the position can only have moved by this order or away from this
limit by the other side's. Sums over queues (`Total`) are a recursive function,
whose laws are proved from its least counterexample (`LeastElement`) in place of
an induction.

**BacktestProofs, the backtest.** For any BBOs, events, prices, limits and numbers
of orders, updates and polls: the refinement `ImplementsOrderManager`,
`PassiveFillsBehindQueue`, and, through the refinement, `ExposureWithinLimit` in a
backtest. The refinement needs the order manager's `IInv` to go through: `emplace`
of a NEW changes nothing if the id is taken, and one event may fill several orders,
while the exchange opens every NEW and fills one order at a time. Both are excluded
by `IInv` (ids in slots differ, one order per side), and `IInv` is kept because the
step is one of `OrderManager`'s; so `BtInv` carries both along. A fill against the
BBO is `ExchangeFill` or `SimulatorFill` by whether the level had enough. `QueueInv`
strengthens `PassiveFillsBehindQueue`: what rested at the best price is within what has
gone of it plus what the simulator still holds to be ahead, fills included within that
and what traded later, and nothing was filled while something is ahead. It holds for
any `Hidden`, and of an order behind the best price says what the property says. `StopLosesNothing` is proved under `EnoughRounds` (`IdlePolls` at least 1,
`Rounds` at least 2; the code has 20 polls and 100 ms). The argument follows `main`:
a queue found empty in a poll stays empty, as its writers are behind it in the order
of reading (`PollInv`), so an idle poll means that no new BBO and no request will
come (`Drained`, `DrainedStays`); a round that began after the first one of the
sleep ended reads the last BBO (`RoundOfLastBBO`); its end has tried every order
against it (`RoundEnds`); and from then on the simulator sends nothing
(`SettledStays`), so that what `TradeEngine::stop` waits for stays true.

**OrderSessionProofs.** For any set of clients and any bounds on requests,
responses, pending requests, restarts and sends cut at any byte, whatever the bytes
out of frame are taken for: `NoSocketAssert`,
`ResponsesInOrder` and `RequestsOnceInOrder`. All rests on the two checks in the
server's `recvCallback`. The socket a client is tied to never changes, so what is
pending, published or on its way to the client belongs to that one session
(`TiedRequests`,
`TiedResponses`). The numbers below `cid_next_exp_seq_num_` are exactly those accepted,
each once, published ones before pending ones (`Accepted`). That
`sequenceAndPublish` leaves them in order needs the round of `run`: a socket is
served once in a round, so the pending requests of one client share one time
(`Round`), and a stable sort keeps them as they are; with more than `StableUpTo`
of them in one poll the property allows two requests of that poll to be exchanged.
That their contents are those sent is known of the connections on which no message
was cut: a content nobody sent enters by a fragment only (`Fragments`, `Genuine`). For the responses, what is
waiting on the way to a client has consecutive numbers, and what the client
accepts are the first ones. The loops over a receive buffer are handled by the
first iteration at which a claim about them would fail.

**ClientProofs, the feed.** For any number of updates: `BookAtSequence` and
`NeverGoesBack`, under `FewFaults` (at most two datagrams are lost, on
either stream, or repeated, on the incremental one, at any time). The hypothesis is needed:
`feed_mixed` has a third fault, and the book is then none of the exchange's. `FeedInv`
follows one snapshot through the system (`Pipe`): which of its datagrams are still
to be sent, which are on the network, which messages the client has yet to look at.
What the client has queued of snapshots is then the beginning of this one (`Fresh`;
before the second fault without any gap behind it) or left over from an earlier cycle
whose END was lost (`Stale`). The latter takes both faults, so nothing of the
present cycle is missing, and its START throws the remains away; hence a queue that
ends with END holds one whole snapshot. Such a snapshot lists every order once
(`SnapshotIs`), and replaying CLEAR, its orders and the incrementals after it rebuilds
the book of the last of them, whatever book the client had (`Recovered`). For
`NeverGoesBack` the invariant adds (`Back`) that a snapshot older than the client's book is
not going to replace it before the client has queued an incremental behind a gap.

**ClientProofs, the account.** For any prices, quantities, limits and numbers of
fills and samples: `ProfitIsCashPlusPosition` and `SummaryOfTheCurve`. The invariant
says what the realized profit alone is: the cash and the cost of the open position,
less the error of the first fill (`Realized`). A fill opens, closes, turns round or
reduces (`FillCases`), and in each case the two products that the code computes
cancel. A reduction divides, and the next may divide what is left, so the
invariant also says that costs are multiples of `power` of the number of fills to come
(`Divisible`). `finalize` keeps, of each sample, the peak and the largest fall up to
it (`SoFar`); that is proved of the first sample at which it would fail.

**Only model-checked.** Liveness (`ImplementsFIFO`'s liveness part,
`BackpressureReleases`, `RequestCompletes`, `PendingResolves`, `RecoveryEnds`,
`SessionDelivers`, `ReplayFinishes`, `BacktestEnds`) is out of the prover's reach.
Every other property of a passing run is a theorem. The two runs that expect a
violation show states a theorem excludes by its hypothesis (`feed_mixed`) or that the
theorem's weaker property does not speak of (`market_book_clear`). The assumptions on
the constants are evaluated by TLC for each instance of section 3, and the mutants
show that these instances reach the states the theorems are about.

## 5. Findings

* **CLEAR leaves the price table standing** (`market_book_clear`). The client's
  book frees its levels and still finds them by price: the snapshot's orders at
  those prices join freed levels that no list leads to.
* **Two snapshots taken for one** (`feed_mixed`). The consumer never compares the
  sequence numbers in SNAPSHOT_START and SNAPSHOT_END.

Seen while reading and modelling, without a run of their own:

* With the random algorithm `main` of the trading client calls
  `TradeEngine::sendClientRequest` (`trading_main.cpp:95`), which logs through the
  trade engine's logger while that engine's own thread does: a second producer on
  a queue that `src/README.md` describes as SPSC. With two `Producers` in `LFQueue`
  TLC finds `ImplementsFIFO` violated; the theorems need `SingleProducer`.
* `moveOrder` compares the price alone (`order_manager.h:64`) although its comments
  speak of price and quantity: a partly filled order at the right price stays.
* The pools have exactly as many blocks as there may be price levels or orders,
  and the process ends when the last block is handed out, not when one more is
  asked for (`mem_pool.h:62`).
* A LOBSTER partial cancellation (type 2) becomes a MODIFY whose quantity is the
  size cancelled, not the size left (`lobster_replay.cpp:161`), and executions
  (type 4) never reduce the order in the client's book: quantities there are not
  those of the file, which is why `BookFollowsRows` is about orders and prices.
* `open_vwap_` is read uninitialised. `ProfitIsCashPlusPosition` shows the effect:
  one constant error, of the side of the first fill, in every figure of the run.
* An order that meets a smaller best level is ended short, with no leaves
  (`fill_simulator.cpp:88`; `fill_simulator.h:78` says so).
* In replay mode the message after a gap is logged as dropped
  (`market_data_consumer.cpp:53`) and then forwarded (lines 67-69). The replay
  sources leave no gaps.
* The first order of an empty side does not reach the BBO, and CLEAR leaves the
  BBO of the old book standing (`market_order_book.cpp:22`): hence
  `BBOExactOrInvalid` says no more than it does.
* Requests read together share the time of the last, and one round of reads knows
  nothing of the next: between clients the order is that of reading, not quite
  "the order in which they were received" (`order_server.h:138`).
* A client that connects again is ignored for ever (`order_server.h:71`).
* The result of `::send` is not looked at (`tcp_socket.cpp:48`). After a cut between
  two messages the receiver drops all that follows for its numbers. After a cut inside
  one it need not: the fragment is completed by the first bytes of the next buffer, and
  if it held the sequence number and the client id (13 bytes), the server passes on a
  request with the expected number that nobody sent. `RequestsOnceInOrder` says what
  remains: numbers once and in order, contents only where no message was cut.
* A request of a client in a poll of more than 16 may be published before an earlier
  one of the same client, its cancel before its order: all requests of a read have one
  time (`fifo_sequencer.h:36`) and `std::sort` is not stable beyond that.
* A head of the client's book can point at a freed level: the "minimal case" that the
  comment at `market_order_book.h:124-133` says has not been reproduced. In replay mode
  a BUY rests at the best bid, a SELL is added at the same price and joins that level
  (line 238), the BUY is removed, and the SELL is the last to leave.
  `removeOrdersAtPrice` is called with SELL (line 210): it looks at `asks_by_price_`
  alone and clears it if the level was alone on its list (line 184), whatever the asks
  are, and `bids_by_price_` keeps the freed node in either case.
  Until the next new level of that side, which the test at line 134 turns into a new
  list, the BBO takes price and quantity from the freed level, and whoever walks the
  list goes through a null pointer; levels behind the old head stay on no list, still
  found by price. `ListsHoldLevels`, `MirrorsFeedWhereNotFreed`, `NoFreedOrderReached`
  and `BBOExactOrInvalid` end at this point (`headLost`, `mixed`); without that
  condition TLC finds each of the last three violated, and in `PriceLevelList` the walk
  from the head at the null pointer.
* The engine may overwrite the slot that the publisher still reads
  (`market_data_publisher.cpp:36`): nothing but the size of the ring, 256 K updates,
  prevents it, since `sendMarketUpdate` does not look at `size()`.
* The fill simulator promises to start from all that rests at the order's price and
  side (`fill_simulator.h:31-37`, `84-86`). `snapshotQueueAhead` knows the best price
  only and takes 0 elsewhere, as its own comment admits (`fill_simulator.cpp:106-111`):
  an order of the market maker one tick behind the best bid is filled by the first
  trade there, before anybody who was there already. With the condition `shown` left
  out of `PassiveFillsBehindQueue` TLC finds that.
* The queue is not snapshotted at a moment "serialized with the event stream"
  (`fill_simulator.h:39-43`): the BBO is the trade engine's, the events are read from a
  copy of the stream of its own, and a trade that the BBO has already seen is counted
  against the queue again if the simulator reads it after the snapshot.
* The Binance replay gives a TRADE the side of the aggressor
  (`binance_aggtrades_replay.cpp:212`), while `onSimMarketEvent` compares `side_` with
  that of the resting order, as the LOBSTER replay fills it in.

## 6. Not modelled, and the plan

Not modelled for good: formatting and printing, parsing of files and arguments,
latency measurement, thread start-up, the creation of sockets, the floating-point
features and rounding, and the `unordered_map` book, a variant of `MEOrderBook`
that only a benchmark uses.

What is left:

1. Liveness. A prover that can reason about ENABLED would take `RecoveryEnds`,
   `PendingResolves` and `BacktestEnds` as they stand; their invariants are proved.
2. `MarketDataFeed` beyond two faults: `BookAtSequence` for any number of faults
   needs at least that the consumer compares the numbers in SNAPSHOT_START and
   SNAPSHOT_END, which it does not do.
3. Several instruments in `Exchange`, which share only the queues; what the engine
   makes of a request pieced together in `OrderSession`.
4. The place of the BBO in the stream of events: a `Backtest` whose BBOs follow from
   the events would show how often a trade is counted twice.
