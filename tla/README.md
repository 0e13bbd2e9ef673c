# Verification of the limit order book matching engine

TLA+ specifications of the matching engine of this repository, of the baseline
it is benchmarked against, of the server and the browser page around it, and of
the event log, the workload generator and the benchmarks; TLC configurations
that check them on small instances; and proofs about the engine, its history,
the page and the workload, checked by TLAPS, that hold for every capacity, price
range, quantity range, number of orders, deployment and workload.

Paths are relative to the repository; `ME/` is `matching_engine/src/`.

## 1. The system

| Component | State | Operations | Called by |
| --- | --- | --- | --- |
| Engine (`ME/matching_engine.*`, `order_book.*`, `order_pool.hpp`, `price_level.hpp`) | next id; pool of `Order` slots with a free list; two sorted maps price -> `PriceLevel` (an intrusive list and a running volume); hash index id -> slot | `submit_limit`, `submit_market`, `cancel` | server, WASM bridge, event logger, benchmarks |
| Baseline (`ME/baseline_book.*`) | next id; two maps price -> `std::list` and volume; side table id -> iterator | the same | benchmark runner |
| Server (`ME/server.cpp`, `shared_state.hpp`) | one engine, statistics, ring of the last 20 trades, `live_ids` of the simulation, simulated mid price; all under `s_mu` | `/submit_limit`, `/submit_market`, `/cancel`, `/tick`, `/reset`, `/benchmark`, `/health` | browser, over HTTP |
| WASM bridge (`ME/wasm_bridge.cpp`) | the same `SharedState` | the same, as C functions | browser, in the page |
| Benchmark of the server and of the WASM module (`run_benchmark`, `wasm_run_benchmark`) | a private engine, ids to cancel, batch samples | one loop, without the mutex | `/benchmark`, benchmark page |
| Event log (`ME/event_logger.hpp`) | event vector, counter | wrapped submissions and cancels | `bench/export_events.cpp`, a scripted scenario |
| Workload and benchmarks (`bench/`) | generated events, both engines, latencies | generate, run, percentiles | command line |
| Browser client (`docs/script.js`) | engine mode, orders the user placed, fills, simulation timer, session storage | submit, cancel, tick, batch, save, restore | the user |

How they interact.  One engine is single threaded: nothing in it waits or is
interrupted.  The server runs a thread per connection and serialises every
handler that touches the engine with one mutex, held to the end of the
response; the benchmark handler takes no lock and works on an engine of its
own.  The browser calls the server asynchronously and also runs a periodic
tick, so its requests overlap.

What is hard:

* *Long legal sequences.*  An order slot is in a price level or in the free
  list, threaded through the same `next` field; fills and cancels splice slots
  out of any place and put them back for reuse.  A wrong pointer shows many calls later.
* *Priority.*  Best price first, then arrival order, must survive partial
  fills, cancels from the middle of a queue and levels erased during a sweep.
* *Partial failure.*  The pool is finite and `acquire` throws after `match`
  has traded.
* *Redundant state.*  `total_volume`, the index, `live_ids`, the trade ring
  and the page's order list repeat what the engine knows and are each updated by hand.
* *Numeric edges.*  Price 0, quantity 0, `uint64` sums, ids cast to `int`.
* *Ordering in the client.*  Responses, ticks and resets in any order.

`PROJECT.json` lists each hazard at its line with the properties aimed at it.

What makes each component correct: the engine behaves as a set of resting
orders traded in price-time priority, loses neither orders nor slots nor
quantity, is never crossed and always returns; the baseline is the same engine;
the server's ring and statistics repeat the engine's fills, `live_ids` follows
the book, and every request is answered; the log replays to the book; the
client's orders agree with the engine once the responses are in.

## 2. Modules

    OrderTypes              sides, prices, fills, the submission being executed
      LimitOrderBook        abstract specification of an engine
        SimulatedMarket     seeds, wandering middle price, prices of simulated orders
          SharedState       the state and the code that server and WASM module share
            Server          the HTTP handlers
            WasmBridge      the C functions
              Hosts         either of the two
          BenchLive         the benchmark of the server and of the WASM module
        EventLog            the event logger and a reader of its log
          ExportEvents      the scenario of export_events
      MatchingEngine        the optimized engine, pointer by pointer
        BuildResponse       the answer to a client, read off the engine
        EngineLedger        the engine with a history of every order
        MatchingEngineProofs  its invariants; it implements LimitOrderBook
          LedgerProofs      what the history of every order and the answer satisfy
      BaselineEngine        the list-based engine
        BaselineProofs      its invariant; it implements LimitOrderBook
      Workload              the workload generator
        BenchmarkRunner     the generator, then BaselineEngine, then MatchingEngine
          RunnerProofs      ids and sides of the workload, one result from both
                            engines, with BaselineProofs by INSTANCE
    CallerProofs            Hosts, BenchLive, EventLog and ExportEvents over any book
    Client                  the browser page over a server and a WASM engine
      MCClient              the deployments it is checked in
      ClientProofs          the page's map leads to the right rows, and rows show
                            what traded, in the end all of it
    LatencyStats            batches, samples and figures of every benchmark
      LatencyProofs         every event is timed once; ranks
    DataFacts               sums, folds and sequences for the proofs

**LimitOrderBook** is what an engine promises: `resting`, a map from id to
side, price and quantity.  A submission is `Begin`, one `Trade` per iteration
of the loop of `match`, and then `Rest`, `Refuse` (the pool is full) or
`Return`.  Calls are split because the code relies on its invariants between
two iterations, where each starts from the book the last one left.

**MatchingEngine** models `ME/matching_engine.cpp` and everything below it.
`order`, `prev`, `next` are the fields of the pool's slots, `NULL` is 0;
`free_head`, `levels`, `index` and `next_id` are the members of the same name.
`RecordFill` is the part common to all iterations; `FillMaker` is an iteration
that exhausts the maker, with `remove_order` and `release`; `FillTaker` leaves
the maker at the head.  `Rest` is `acquire` and `add_order`, `RestThrows` the
`bad_alloc`.  `cancel` has no loop and is one step.  Volume arithmetic is
modulo `WordMod`, which stands for 2^64.  `remove_order` subtracts the
quantity of an order from its level; after a fill that quantity is 0, so
`remove_and_release` is given the volume that leaves: the fill in a trade
(matching_engine.cpp:32), the order's quantity in a cancel (order_book.cpp:29).

**BuildResponse** is `build_response` (`ME/shared_state.hpp:92`), evaluated in
every state of the engine: the depth of an answer is the best levels of each
map with their running volumes, cut off after `DEPTH` of them, and the fills in
the order the engine made them.

**EngineLedger** puts an auxiliary variable beside the engine: for every id,
what was asked, traded as taker, traded as maker, and left unfilled.  It never
constrains the engine.

**BaselineEngine** models `ME/baseline_book.cpp`: lists as sequences, the
iterator kept in the side table as the node with the entry's id.  Its matching
loop has no flag for market orders: a taker price of 0 crosses everything.

**SharedState** is `SharedState` of `ME/shared_state.hpp` with the code that
the server and the WASM module have in common, in the server once as functions
and in `ME/wasm_bridge.cpp` as text.  `job` is the call that runs and the point
it is at; the engine's steps run while a call is at one.  `Record` is
the loop over the fills that follows a submission, `Overlook` the fills nobody
records.  The random generator is any choice.  `past` is auxiliary: trades
recorded, ids that traded as maker, and ids in fills that no one recorded.

**Server** and **WasmBridge** are what differs: the server validates a request
and takes `s_mu`, which `job` stands for; the WASM module creates its engine in
its first call, takes every `int`, and casts it to `uint64`.  **Hosts** runs
either, and asks both the same questions.

**BenchLive** is `run_benchmark` and `wasm_run_benchmark`: batches of
operations on a private engine, for each total in `Totals`.  `blive` may hold ids
that are gone (the code cleans them up when a cancel draws them); the question is
whether it holds all the others.

**EventLog** puts the logger around the abstract engine and lets a reader apply
the log, event by event, to a book of its own.  The reader is not in the
repository; it is modelled from the schema in the header of the file.  `books`
is auxiliary: the engine's book after each change.

**ExportEvents** makes the calls of `bench/export_events.cpp` with the prices and
quantities of the source.  Phase 7 is random there and any choice here.

**Workload** is the generator, with the ids it counts for itself.
`validate`, which nobody calls, is the assumption on its configuration.
**BenchmarkRunner** is `main` of `bench/benchmark_runner.cpp`: all events are
generated, BaselineEngine runs them to the end, then MatchingEngine does, or
throws.  `ran` keeps what each call returned, which the program discards.

**Client** is `docs/script.js`.  `site` says where the page runs: whether a
server is there, whether the WASM module was found, whether fetches may fail, and
whether another client may reset the server (`ServerReset`).
A call in flight is a slot of `calls`: `Start` sends it, `Serve` is the server,
`Receive` the code after the `await`, in
whatever mode the page is by then; `FetchFails` may come before or after
`Serve`, and the call then goes to WASM.  A WASM call is one step, because no
other task of the page can come between.  The engines are abstracted to what
the page can tell of them, ids and quantities left; `Fillings` lets any resting
orders be the makers, and the pool is never full.  A tick is first `Maintained`,
as any tick may find a side of the book empty, and then `Simulated`: its up to
five operations and two liquidity orders are one of each at most.  The fills of a
liquidity order are in no answer.  `Reload` is a navigation through session
storage.  The page shows no more than 50 rows (`shown`) and drops the oldest
beyond them (`ShiftRows`); the map may still lead to such a row, so `orders` keeps
it and `dropped` counts them, but it is not saved.
`traded`, `lost`, `home`, `missed` and `mixed` are auxiliary: what each order
traded, the orders a liquidity order traded with, the engine a row's order is in,
the server orders with a fill that no row took or whose row was dropped, and the
ids that both engines have given out, or a server before it was reset.  The page
has one map from ids to rows for both engines, so for an id in `mixed` nothing is
promised (section 5); the properties say what is right for the others.

**LatencyStats** is the timed loop of each of the four benchmarks, and what is
made of the samples: `LatencyStats::compute` in `bench/`, the end of
`run_benchmark` and of `wasm_run_benchmark` in the other two.

An operator whose name ends in `_` and a word (`Crosses_Strict`) is a mutant:
the operator it is named after with a plausible bug.  Substituted for it, one
property named in `PROJECT.json` must fail; nothing else uses it.

## 3. Runs

| Run | Bounds | What it shows |
| --- | --- | --- |
| `engine` | 3 slots, prices 0-1, quantities 0-2, 4 submissions, words modulo 4, answers of depth 1 | index, lists, free list, volumes, priority within a sweep; the depth of an answer shows what rests, best first (`ResponseFaithful`); the refinement `ImplementsBook` of LimitOrderBook with its fairness; every call returns |
| `ledger` | 2 slots, otherwise the same | over the history of every order: quantity is conserved, fills honour limits given long before, no order is overtaken, nothing happens to an order that is done |
| `baseline` | limit prices 1-2 | the lists agree with the side table and the volumes; the refinement of LimitOrderBook |
| `hosts` | server or WASM; 3 slots, 1 seed per side, prices 1-4 (WASM: also what casts leave, 0), mid 2-3, batches of up to 2, ring of 2, ids to 5, ids in requests to 2 * 2^32 | the ring is exactly the latest trades; `live_ids` misses only orders filled in part and holds only stale ids whose fills were dropped; an answer carries the trades of its own call; every call is answered |
| `bench` | server or WASM; 4 or 5 operations in batches of 2, 1 seed per side, mid 2-3 | every operation runs once, no batch is empty, the loop ends, and every resting order can be drawn for a cancel |
| `event_log` | 2 resting orders, 4 submissions | the log replays to the engine's book, change by change, and lacks no change unless a submission threw; each trade fits the reader's book |
| `export` | the script with its real numbers; 3 random calls in phase 7 instead of 100 | the log replays to the books, ids and trades that the comments of the script state; the random phase trades through market orders only |
| `runner` | 3 slots, 5 events with a burst every 3rd, 2 levels, prices 0-5 | limit orders of the workload never take; both engines return the same from every call and end with the same book |
| `runner_pool` | 1 slot, 4 events | **violated**: the optimized engine runs out of slots (section 5) |
| `runner_ids` | 3 slots, 4 events | **violated**: a cancel of the workload names no limit order (section 5) |
| `client` | seven deployments (MCClient): server only, 4 ids, 1 row shown, with quantities to 2 and 2 calls in flight, with quantities to 2, 1 call and a navigation, and with quantity 1, 2 calls and a navigation; the same with resets, quantity 1, 3 ids, 2 calls; WASM only, quantities to 2, 3 ids, 4 rows of which 2 are shown, 1 navigation; both with failing fetches, quantity 1, 3 ids, 1 row, once with 2 calls in flight and once with 1 and a navigation; with a server there is another client | the map of the page is right under every order of start-up, fallback and restore; where an id was given out once, a row of the server never claims more than traded and loses fills only as `FillsArrive` lists, and a row of the WASM session shows what its order traded, unless a liquidity order took from it or its cancel went to the server; a row is final once done, as long as no other has its id; in WASM mode rows of an earlier session gain nothing |
| `latency` | the four programs; to 7 events of up to 3 ns in batches of 2 | each event is timed in one batch; the figures are in order and their rounding is unbiased |

Why the bounds are enough to be interesting.  Three slots give a queue with a
head, a middle and a tail, and also two orders at one price beside a third at
another; four submissions fill the pool and exhaust it, and reuse a slot after
a cancel or a fill.  Two prices give a sweep over more than one level, and two
units let either party of a trade be filled in part.  `WordMod` = 4 is passed by
three orders of two units, so that the wrap of `total_volume` is reached.  An
answer of depth 1 is cut off as soon as a side has two levels.

In `hosts` a client can empty either side, cross the next liquidity order, reset,
and fill the ring past its capacity with the fills of one call; `IntMod` = 16
stands for 2^32 and one wrap beyond it is enough for an id that the cast turns
into another.  In `bench` the last batch is short for one total and there is none
after the other, which is a multiple; both sides can run empty, and a refill can
cross.  In `event_log` a submission can trade twice and rest.
`export` uses the real script; the random phase adds no kind of call that three
of them do not show.  In `runner` and `runner_ids` a market order can come before, between and
after the limit orders a cancel means; in `runner` the burst forces a queue at one price, and
the two levels of a side fit below the middle price of 3.

The deployments of `client` are not the product of all sizes but the smallest that
reach what each is about.  With the server alone two calls are enough for answers
that overtake each other, and two units for a fill that is missed before one that
is seen; a navigation brings the row back while calls are still on their way, and
is checked with either of the two, as the three at once are twice the states.  A
reset needs ids that come again and no second unit.  With the module alone there
is no overlap, so one call in flight and three ids leave room for four rows, two of
which are dropped, and a restore; with a server the rows of two overlapping
submissions are enough to drop one.  With both, failing fetches move the page to the
other engine at any point of a call, and one unit is enough, as the questions there
are about rows and not about quantities.  The third id matters: 1 is the seed and 2
the user's order, and only an order with the id 3 can fill the 2 in the same
engine, so with two ids `FillsSound`, `FillsArrive` and `SessionExact` would not be
tested where the engines mix.  Without their condition on `mixed` TLC refutes
`FillsSound` and `SessionExact` within these bounds, as it does without their
condition on resets or on liquidity orders.

In `latency` the 99th percentile is always the slowest sample; its rounding shows
in the median and, for a wrong index, in the first two samples.

What stops the models.  `MaxId` bounds the submissions of every engine (in
`hosts` since the last reset), `TotalEvents` the workload, `RandomOps` the random
phase of the script, `MaxEvents` the measurement, and the fields `ids`, `qty`,
`flight`, `rows` and `reloads` of a deployment the page.  The
engine, baseline and host models go on with cancels or requests for ever, so
their runs check deadlock.  The others have nothing left to do at some point and
say so in their configurations: `EngineLedger`, `EventLog` and `Client` at their
bounds, `ExportEvents`, `BenchmarkRunner`, `BenchLive` and `LatencyStats`
because the program they model ends.

Fairness.  `Fairness` of the engines says that a submission that has begun runs
on: the code is sequential and has no wait between two iterations.  `HSpec`
says it of the call that a host is executing, which in the server holds the mutex,
and `BSpec` of the benchmark, which is one loop on its own engine.  No request is
ever forced to arrive, and no answer to be received, so no liveness property
relies on the environment.

## 4. Proofs

The proofs hold for every value of the constants allowed by the named assumptions
of the modules:

* `OrderAssumption`, `WordAssumption`, `BaselineAssumption`: natural bounds, and a
  word that holds more than one quantity;
* `MarketAssumption`: the seeds have ids, slots and positive prices, and the middle
  price stays in a range in which simulated prices are prices;
* `SharedAssumption`, `ServerAssumption`, `BenchAssumption`: positive batch and ring
  sizes, an `int` wider than two largest ids, a benchmark whose count fits it (the
  overflow beyond is undefined behaviour and listed as a hazard);
* `StatsAssumption`: a positive batch size and natural numbers;
* `WorkloadAssumption`, what `WorkloadConfig::validate` accepts, and
  `RunnerAssumption`, ids for all events;
* `ExportAssumption`: the script's prices, quantities and ids are in their ranges,
  and the pool (2^19 slots) has room for what the script adds; only the theorems
  of the scenario use it.

| Module | Theorem | Statement |
| --- | --- | --- |
| MatchingEngineProofs | `Invariance` | `Spec => []IInv` |
| | `TypeCorrect` | `Spec => []TypeOK` |
| | `IndexCorrect` | `Spec => []IndexOK` |
| | `QueuesCorrect` | `Spec => []QueuesFIFO` |
| | `FreeListCorrect` | `Spec => []FreeListOK` |
| | `BookNeverCrossed` | `Spec => []NotCrossed` |
| | `VolumesCorrect` | `Spec => []VolumeOK` |
| | `EngineImplementsBook` | `Spec => Book!Spec` |
| | `SweepsFollowPriority` | `Spec => []SweepInPriority` |
| | `CallNeverStuck` | `Spec => []CallGoesOn` |
| | `CallUsesUp` | `Spec => CallShrinks` |
| LedgerProofs | `FillsAreHonoured` | `LSpec => []FillsHonourLimits` |
| | `NobodyOvertakes` | `LSpec => []NoOvertaking` |
| | `QuantityIsConserved` | `LSpec => []QuantityConserved` |
| | `ClosedOrdersRest` | `LSpec => ClosedStaysClosed` |
| | `AnswersFaithful` | `Spec => []ResponseFaithful` |
| BaselineProofs | `BaselineBookCorrect` | `Spec => []BookOK` |
| | `BaselineImplementsBook` | `MinPrice > 0` gives `Spec => Book!Spec` |
| CallerProofs | `SharedTypes` | `HSpec => []STypeOK` |
| | `RingRecent` | `HSpec => []RingIsRecent` |
| | `UntouchedLive` | `HSpec => []UntouchedIsLive` |
| | `StaleUnseen` | `HSpec => []StaleOnlyUnseen` |
| | `AnswersRecorded` | `HSpec => AnswerIsRecorded` |
| | `RestingLive` | `BSpec => []RestingInLive` |
| | `OperationsOnce` | `BSpec => []EveryOpOnce` |
| | `LogMirrors` | `ESpec => []ReplayMirrors` |
| | `LogTradesMatch` | `ESpec => []TradesMatch` |
| | `RandomOrdersRest` | `XSpec => []RandomLimitsRest` |
| | `ScenarioIsLogged` | `XSpec => ESpec` |
| | `NobodyRefused` | `XSpec => []PoolSuffices` |
| LatencyProofs | `EventsTimedOnce` | `LSpec => []EveryEventTimed` |
| | `RanksUnbiased` | `LSpec => []NoTruncationBias` |
| RunnerProofs | `IdsLagByMarkets` | `RSpec => []LagIsMarkets` |
| | `WorkloadLimitsRest` | `RSpec => []LimitsRest` |
| | `SameWork` | `NoBuyAtZero` gives `RSpec => []SameResults` |
| ClientProofs | `MapTracksRows` | `CSpec => []TrackedOK` |
| | `RowsNeverOverstate` | `CSpec => []FillsSound` |
| | `SessionRowsExact` | `CSpec => []SessionExact` |
| | `OldRowsGainNothing` | `CSpec => SessionFillsOnly` |
| | `DoneRowsStay` | `CSpec => StatusFinal` |
| | `ServerRowsComplete` | `CSpec => []FillsArrive` |

**The engine's invariant.**
`IInv == TypeOK /\ IndexOK /\ QueuesFIFO /\ FreeListOK /\ NotCrossed` is
inductive, and none of its parts is alone.  A fill has a type only because the
head of a level is a live slot (`QueuesFIFO`).  Splicing a live slot out leaves
the other queues intact because a live slot is in one level only (`IndexOK`),
and leaves the free list intact because its neighbours are live too.  Pushing a
new order keeps the queue in arrival order because `acquire` returns a slot that no
queue holds (`FreeListOK`) and because the id being submitted is the largest
(`TypeOK`).  The remainder of an order does not cross because `match` stops
only when the best opposite price is beyond the limit, and a best price exists
whenever there is a level (`BestExists`).

The arrival order is stated with ids: the links of a level lead from each order to
the next larger id of that level, and the head and the tail are its least and
largest.  This is what makes `QueuesFIFO` first-order: no path, no length and no
induction over the list is needed.  The free list has no such order, so
`FreeListOK` states that an enumeration of the free slots exists along it
(`IsFreeList`); pushing and popping shift that enumeration (`PushFreeList`,
`PopFreeList`).

**The refinement.**  Under the mapping `RestingOrders`, each action of the engine
is one of LimitOrderBook.  An iteration is the `Trade` with the oldest of the best
orders, because the head of a level has its least id and the best level of the map
holds the best price of all orders.  `RestThrows` is `Refuse`, because an empty
free list means that every slot is live, so that as many orders rest as there are
slots.  `SweepInPriority` needs the stronger `SweepAhead`: what still rests comes
after everything the running submission has traded with.

`CallNeverStuck` and `CallUsesUp` are the safety half of `CallReturns`: a call that
has begun always has a step to take, and every step it takes either ends it or
leaves it with less quantity to fill.  That such a call does return needs the
fairness as well, and stays with TLC.

**Volumes.**  `total_volume` is added to and subtracted from; `VolumeOK` says it is
the sum over the orders of the level, modulo the word.  `IInv /\ VolumeOK` is
inductive: the fields of a live slot say which level's sum it belongs to.  The sum
is a recursion over subsets.  That it has a solution, and that one order more or
less adds or subtracts its quantity, is proved once in `DataFacts`, by existence of
partial solutions of every size and a least counterexample instead of an induction
theorem; sums of the lists of the baseline and the folds of the log and of the ring
use the same way.

**The history.**  Slots are reused, so what a slot says must be tied to the call
that filled it.  `LedgerOK` does so: a live slot has the side and the price of the
entry of its id, and so has the running call.  From it follow the two properties of
fills; `NoOvertaking` uses again that a trade is with the oldest of the best.
`QuantityConserved` is proved as `QInv`: for every id, what its entry leaves is
what is held for it (`LeftIsHeld`), where held is the quantity of its slot or of
the running call, and only a closed order has nothing at work (`OpenOK`).

**The answer.**  `ResponseFaithful` follows from `IInv /\ VolumeOK` in every state.
Sorting the orders of a level by id (`SortedExists`) gives the sequence that the
walk of `count_resting` meets (`LevelInOrder`, `WalkMeetsAll`), so the walk ends
after one visit to each; the levels are disjoint and cover the live slots, so that
their counts add up (`SumOfSizes`).  The same sorting, by price, is what a map shows
from `begin()` on (`InOrderSorted`), and fixes the rank of each line shown.

**The baseline.**  `ListInv` is types, `LevelOK` of each list and `IndexedOK`.
`LevelOK` says of one list, on its own, that it is not empty, in arrival order,
that its volume is its sum and that its nodes are in the side table under its side
and price; `IndexedOK` says that each entry of the table has its node.  Every operation changes one
list, by an append, by the removal of one node or in the quantity of the front, so
the invariant is kept list by list and all others follow from the table alone.
`SelectSeq`, which removes the node, is replaced by what it preserves.  The list's
front has the least id because lists are in arrival order, so an iteration of the
loop is again the `Trade` with the oldest of the best.  `Priced` is the condition on
the running submission: a limit order that can still trade has a price other than
0, because the baseline takes a limit of 0 for a market order (section 5).

**The hosts.**  These proofs are over LimitOrderBook and hold of either engine by
the refinements.  `HInv` ties `live_ids`, the ring and the counters to what has
happened since the last reset; inside a call (`CallInv`) the makers of the fills so
far may be missing from the book and are still in `live_ids`.  `RingAt` says of any
history what the ring shows after it; `FoldTrades` unfolds the loop over a call's
fills into single additions, each of which keeps it.  In `BInv` the benchmark
needs no such bookkeeping, as it erases all makers in the same operation.

**The log.**  `EInv` says that event n turns the reader's book n - 1 into book n:
while a submission runs, the books recorded so far are explained by the events it is
about to emit (`DueOK`), and `Replay`, a fold, is the chain of these steps.  A
submission that throws emits none: its trades are books beyond the end of the log.

**The scenario.**  `XInv` is `EInv` with what the calls of export_events.cpp made
so far say of the book; a call's number fixes the next id (`IdAfter`).  The book
keeps buys at 100 and below and sells at 101 and above (`ApartOK`), so a random
limit order finds no maker (`NoMaker`).  Only the two limit orders of the script
that cross could end on the wrong side, and they never rest: the orders added just
before them for this purpose hold at least what they ask for (`SuppliesOK`), and
while such a call runs what it has left is no more than what these orders have left
(`EnoughOK`), so a best order within its limit exists (`MakerExists`).  `RoomOK`
bounds the ids that may rest, and the pool has a slot for each, so none is refused: the scenario is a
behaviour of EventLog without `LogThrows` (`ScenarioIsLogged`), and the theorems of
the log hold of it, for a random phase of any length that the pool has room for.

**The figures.**  `LoopInv` of the timed loop says that the samples taken so far and
the batch in progress partition the events.  `RankExists` shows that for every rank
some sample has it, which bounds how many samples lie on each side of it; the
rest is arithmetic on the three ways to round.

**The workload.**  `IdsInv` relates the counters of generator and engine in the
middle of a call too, by counting the events of each kind up to the one that runs;
an engine's counter moves with limit and market events and the generator's with
limit events.  `SplitOK` says that events, both books and the running limit order
keep each side on its side of the middle price, so that no best opposite price
crosses.  The runner drives the optimized engine by its own steps (`EngineRuns`),
so that all theorems of the engine hold of it too.

**The same work.**  `SameResults` compares two executions of different length, one
after the other, so the proof gives each a common yardstick.  A point of a run is
the events consumed, the orders resting, the submission in progress and the results
so far; `PointStep` is the step that LimitOrderBook allows from it, and
`StepUnique` says there is one at most, because the oldest of the best orders is
one order.  `TwinOK` says that the steps of both engines are steps of a `Run` from
the same first point, by the two refinements, and `RunOver` that of two such runs
one extends the other.  Levels and volumes are then the same because either engine's
are determined by its resting orders (`LevelVolume`, `ListVolume`, `SumImage`).
The hypothesis `NoBuyAtZero` holds of every workload whose levels do not reach
down to price 0; TLC shows that it is needed: with a middle price equal to
the number of levels a buy limit at 0 trades in the baseline and rests in the
optimized engine.

**The page.**  The map holds positions in a list that answers extend, that a
restore rebuilds and that a navigation empties.  `TrackInv` adds to `TrackedOK` that
entries lie within the list, that rows keep their ids, and that the rows in session
storage are well formed as well.

`FillsSound` alone is not inductive: a row is right now and wrong after the answers
on their way.  `FillInv` says that what a row shows and `Pending`, the sum of what
all answers in flight will add to it, is no more than what traded, and that what
traded and what rests make up the quantity.  It says so of rows in session storage
and of the row that an answer has yet to make as well, so answers may come in any
order, be lost, or find the page left and restored: a fetch that fails or a
navigation only takes away from `Pending`.  A reset takes all that traded away, and
with it puts all ids given out so far into `mixed`.  The lemmas `SumChanged` and `PendingAfter`
change one term of the sum.  `ExactInv` says that an open row of the page's own
engine is in the map and in the session, and shows all that traded unless its id is
in `lost`; a fill that an answer of that engine has is applied in the step that
makes it, so none passes such a row by.  Both leave out the ids in `mixed`, which
were given out twice (section 5), and `EnginesOK` says that no other id is of both.

`FillsArrive` turns the inequality of `FillInv` into an equality, for rows that have
their id to themselves and have missed nothing (`Settled`).  `ArriveInv` adds what
that takes.  Such a row, as long as it is open, is in the map (`Tracked`), so a fill
that arrives in native mode reaches it; `FillInv` says that it is not full before, so
the fill is neither cut off nor refused.  The row that an answer will make is settled
only as long as no other row has its id, as that one would take its fills.  And a
page that has not started yet holds nothing, while later every saved row is in the
page already (`Fresh`, `Restored`): the first restore brings settled rows, a second
one only rows that are not alone.  Rows that are dropped keep their map entry until
the page is left, and then their ids are in `missed`; ids in `lost` and, after a
reset, in `mixed` are left out (`Rest`).  `SessInv` says that nothing in the session leads
to a row of an earlier one, because only answers in WASM mode enter the session and
those put their own row in the map.  `DoneInv` holds whichever engines there
are: a full row has an id and as much filled as was asked, so that a further fill,
of whatever order with its id, is cut off and changes nothing; a cancelled row is
not reached by fills, and a rejected one has no id.  What a cancel on its way will
mark is open as long as the map leads to it, or else the map leads to a row that is
not full (`CancelMeets`); if that row is another one, the id has two rows, and
`StatusFinal` is about ids that have one.

Only model-checked, and why:

* Liveness, and the fairness of the refinements (`CallReturns`, `RequestAnswered`,
  `BenchmarkEnds`, the fair part of `ImplementsBook`): the prover has no ENABLED.
  Of `CallReturns` the safety part is proved: a call can go on until it is over
  (`CallNeverStuck`), and every iteration uses up some of its quantity
  (`CallUsesUp`).  That it does go on is the fairness.
* `BookAsCommented`: it is about the states after 14 to 26 fixed calls, before
  anything is random, so it does not depend on the constants.  The script has one
  behaviour up to there and TLC executes it; a proof would be the same execution,
  and the sums of 48 levels, by hand.

## 5. What the modelling found

The run `runner_ids` shows that *workload cancels name the wrong orders*
(`bench/workload_generator.hpp:119`).  The comments say that a cancel event holds
the "id to cancel" (line 61) and that "cancellations reference real orders" (line
70).  Market orders use an id in both engines and none in the generator, so from the
first of them on the ids of the events fall behind, by the number of market orders
(`IdsLagByMarkets`, for every workload), and a cancel names an older order or a
market order.  Of the 300,476 cancels of the default workload the compiled program
finds an order for 211,923, and would for 250,501 if each named the order it was
drawn for.  Both engines do the same (`SameResults`), so the comparison stays fair.

The run `runner_pool` shows that *the optimized engine cannot run every workload
that is asked for* (`bench/benchmark_runner.cpp:138`).  The usage promises 2M
events (line 11).  The pool has 2^19 slots, the workload rests more the longer it
is, nobody catches the `bad_alloc`, and so `./benchmark_runner 2000000` ends
without a report: the compiled program stops at event 1,820,177 of the uniform
workload and would at event 1,495,463 of the bursty one.  The default of 1M events
rests at most 287,678 orders.  The run shows it with one slot and four events.

The following came up while the actions were read off the code.  The models
contain this behaviour; their properties say what holds in spite of it, and no
run is devoted to the observation itself.

* *Price 0 in the baseline* (`ME/baseline_book.cpp:93`).  A limit order at 0
  trades at any price, as a market order does; in the optimized engine it rests.
  `baseline` therefore takes limit prices from 1; in `runner` no price is 0 unless
  the levels do not fit.
* *Liquidity orders may cross* (`ME/server.cpp:182`) and are then filled at once,
  so the side stays empty.  The fill is in no response, ring or statistic, and
  the id stays in `live_ids`: the `unseen` ids of `StaleOnlyUnseen`.  When the
  maker was an order of the user, its row in the page stays short for good, in both
  modes of the page (`ME/wasm_bridge.cpp:120`): a sell at 50 sweeps all bids, its
  remainder rests, and the bid of the next tick takes from it.  These are the ids in
  `lost`, which `FillsArrive` and `SessionExact` name.
* *Trades of a submission that throws are not logged* (`ME/event_logger.hpp:33`).
  The log then ends before that call; `ReplayMirrors` says that it is right up to
  there.  Nothing logs on: `export_events` does not catch the exception, and its
  pool has room for all it adds (`NobodyRefused`).
* *Ids are truncated in /cancel* (`ME/server.cpp:343`).  An id of 2^32 + n
  cancels order n (`ToInt`).
* *Batches counted as orders* (`bench/latency_stats.hpp:35`).  `LatencyStats::compute`
  takes the number of samples for `total_orders`, and the runner gives it one sample
  per batch (`compute` in the module): "Orders" and "Throughput" of its report are
  too small by the batch size of 100; ratios are right.
* *Workload prices may wrap* (`bench/workload_generator.hpp:177`).  `validate`
  accepts more levels than the middle price has ticks, and nobody calls it;
  `LimitsRest` is about levels that fit.
* *CANCELED without a cancel* (`docs/script.js:240`).  The page does not look at
  the answer; an order that was filled, or is unknown, shows as cancelled.  An
  order that is done keeps its status as long as no other row has its id
  (`StatusFinal`); after a restore, a fallback or a reset of the server there can be
  two, and the cancel of one may mark the other.
* *The id of a filled order* (`ME/server.cpp:300`).  The page expects 0 for an
  order that was filled at once (`docs/script.js:626`) and gets its id.
* *Double restore* (`docs/script.js:38`).  If the server's health answer comes
  before the WASM module is ready, saved rows are restored twice.  The map tracks
  one copy of each; the other keeps its status for good, and can be the one that
  the next navigation saves and restores as open, after the first was filled.
  `FillsArrive` is therefore about orders with one row.
* *Server ids in the WASM session* (`docs/script.js:204`).  The page decides by
  its mode at the time of the answer, and has one map and one set of session ids
  for both engines.  A submission is sent to the server; the fetch of another call
  fails, and the page is in WASM mode; the answer then arrives, and the server's id
  joins the session.  A WASM order given the same id fills the server's row.  The
  other way, a row of the WASM engine gains the fills of a server order with its
  id while the page is in native mode, and its cancel goes to the server, so that
  the order stays at work.  This is why `FillsSound`, `FillsArrive` and
  `SessionExact` leave out the ids in `mixed`, and why `SessionExact` lets a
  cancelled row lag behind where there is a server.
* *A reset does not reach the page* (`ME/server.cpp:401`).  When another client
  resets the server, the page keeps its rows and map, and the server gives the ids
  out again: a fill of a new order then shows in an old row.  Those ids are in
  `mixed` too.
* *Rows beyond 50 are forgotten* (`docs/script.js:201`).  The map still leads to a
  row that was shifted out, which no one sees; it is not saved, so after a
  navigation the fills of its order find no row.
* *Ids of restored rows are reused* (`docs/script.js:248`).  The cancel button of
  a restored row then marks the new row, and the old one stays.
* *Not the nearest rank* (`bench/latency_stats.hpp:48`).  The rounded index
  interpolates; the p50 of two samples is the larger one.

Two more things the page does, against no stated promise: a simulated cancel may
take a user's order out of the engine without the page learning of it (its row
stays open), and rows restored from a WASM session are tracked in native mode
too, where server orders with the same ids fill them.  `FillsSound` and
`FillsArrive` are therefore about rows of orders of the server, and
`SessionFillsOnly`, as the comment it quotes, about the page in WASM mode.

## 6. Plan

Done: every component but the benchmark page; the server and the WASM
module over one shared state, both engines on the same events, and the proofs of
section 4.  What is left: charts, form and the displayed book of the page,
`write_csv` and the mean of the statistics, and the benchmark page, which has a
mode, its limits and one request at a time.

Not modelled, for good: timing and latency values, HTTP parsing and JSON
layout, rendering, the WASM build output, the build scripts.
