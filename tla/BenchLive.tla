------------------------------- MODULE BenchLive -------------------------------
(***************************************************************************)
(* The benchmark of the server and of the WASM module (POST /benchmark and *)
(* run_benchmark in server.cpp, wasm_run_benchmark in wasm_bridge.cpp):    *)
(* operations in batches on a private engine, with the vector blive of the *)
(* ids that a simulated cancel may draw.  The clock is left out: a batch   *)
(* leaves one sample, and LatencyStats has what is made of the samples.    *)
(* blive is a set, because its order only feeds a random index and its ids *)
(* are fresh.  The percentages are any mix: each operation is any choice.  *)
(***************************************************************************)
EXTENDS SimulatedMarket

CONSTANTS
    Totals,     \* what total_ops of the request may be
    BatchSize,  \* BENCH_BATCH_SIZE (10000)
    RefillQty,  \* quantity of an order for an empty side (100)
    IntMax      \* largest int: op += BatchSize must not pass it

\* Beyond the last conjunct the loop counter overflows: undefined behaviour.
ASSUME BenchAssumption ==
    /\ RefillQty \in Qtys \ {0}
    /\ Totals \subseteq Nat /\ BatchSize \in Nat \ {0}
    /\ IntMax \in Nat /\ \A n \in Totals : n + BatchSize <= IntMax

VARIABLES
    blive,   \* ids that a cancel may draw
    alt,     \* the side of the next simulated submission
    bench,   \* the host, total_ops, where it is, and the id and quantity just submitted
    lats     \* sizes of the batches that left a sample

bvars == <<vars, mid, blive, alt, bench, lats>>

BInit ==
    /\ Seeded
    /\ blive = DOMAIN Seeds
    /\ alt = "Buy"
    /\ bench \in [host : {"server", "wasm"}, total : Totals, pc : {"called"},
                  op : {0}, bn : {0}, i : {0}, nid : {0}, qty : {0}]
    /\ lats = <<>>

\* The handler of the server refuses a body without all four numbers.
post_benchmark ==
    /\ bench.host = "server" /\ bench.pc = "called"
    /\ \E pc \in {"refused", "loop"} : bench' = [bench EXCEPT !.pc = pc]
    /\ UNCHANGED <<vars, mid, blive, alt, lats>>

\* Mutant of NextBatch: the loop goes on when op has reached the total.
NextBatch_Empty ==
    /\ bench.pc = "loop" /\ bench.op <= bench.total
    /\ bench' = [bench EXCEPT !.pc = "ops", !.i = 0,
                              !.bn = Lesser(BatchSize, bench.total - bench.op)]
    /\ UNCHANGED <<vars, mid, blive, alt, lats>>

NextBatch ==
    /\ bench.pc = "loop" /\ bench.op < bench.total
    /\ bench' = [bench EXCEPT !.pc = "ops", !.i = 0,
                              !.bn = Lesser(BatchSize, bench.total - bench.op)]
    /\ UNCHANGED <<vars, mid, blive, alt, lats>>

EndBatch ==
    /\ bench.pc = "ops" /\ bench.i = bench.bn
    /\ lats' = Append(lats, bench.bn)
    /\ bench' = [bench EXCEPT !.pc = "loop", !.op = @ + BatchSize]
    /\ UNCHANGED <<vars, mid, blive, alt>>

InBatch == bench.pc = "ops" /\ bench.i < bench.bn

OpDone == [bench EXCEPT !.pc = "ops", !.i = @ + 1]

Calls(pc, qty) == [bench EXCEPT !.pc = pc, !.nid = next_id, !.qty = qty]

bench_limit(offset, qty) ==
    /\ InBatch
    /\ submit_limit(alt, LimitPrice(alt, offset), qty)
    /\ bench' = Calls("limit", qty)
    /\ alt' = Opposite(alt)
    /\ UNCHANGED <<mid, blive, lats>>

\* Mutant of limit_done: an order that was filled in part is left out.
limit_done_Untouched ==
    /\ bench.pc = "limit" /\ ~Busy
    /\ blive' = IF out = <<>> THEN blive \cup {bench.nid} ELSE blive
    /\ MoveMid
    /\ bench' = OpDone
    /\ UNCHANGED <<vars, alt, lats>>

\* Makers that were filled stay in blive.
limit_done ==
    /\ bench.pc = "limit" /\ ~Busy
    /\ blive' = IF Filled(out) < bench.qty THEN blive \cup {bench.nid} ELSE blive
    /\ MoveMid
    /\ bench' = OpDone
    /\ UNCHANGED <<vars, alt, lats>>

\* The id leaves blive whether or not the order was there.
bench_cancel(id) ==
    /\ InBatch
    /\ cancel(id)
    /\ blive' = blive \ {id}
    /\ bench' = OpDone
    /\ UNCHANGED <<mid, alt, lats>>

\* A cancel with nothing to draw, or a draw beyond the three percentages.
bench_nothing ==
    /\ InBatch
    /\ bench' = OpDone
    /\ UNCHANGED <<vars, mid, blive, alt, lats>>

bench_market(qty) ==
    /\ InBatch
    /\ submit_market(alt, qty)
    /\ bench' = Calls("market", qty)
    /\ alt' = Opposite(alt)
    /\ UNCHANGED <<mid, blive, lats>>

market_done ==
    /\ bench.pc = "market" /\ ~Busy
    /\ bench' = [bench EXCEPT !.pc = "bids"]
    /\ UNCHANGED <<vars, mid, blive, alt, lats>>

\* After a market order, an empty side gets an order; bids are looked at first.
refill_bids ==
    /\ bench.pc = "bids"
    /\ IF NoSide("Buy")
       THEN submit_limit("Buy", mid - 1, RefillQty) /\ bench' = Calls("bids_call", RefillQty)
       ELSE UNCHANGED vars /\ bench' = [bench EXCEPT !.pc = "asks"]
    /\ UNCHANGED <<mid, blive, alt, lats>>

refill_asks ==
    /\ bench.pc = "asks"
    /\ IF NoSide("Sell")
       THEN submit_limit("Sell", mid + 1, RefillQty) /\ bench' = Calls("asks_call", RefillQty)
       ELSE UNCHANGED vars /\ bench' = OpDone
    /\ UNCHANGED <<mid, blive, alt, lats>>

refill_done ==
    /\ bench.pc \in {"bids_call", "asks_call"} /\ ~Busy
    /\ blive' = blive \cup {bench.nid}
    /\ bench' = IF bench.pc = "bids_call" THEN [bench EXCEPT !.pc = "asks"] ELSE OpDone
    /\ UNCHANGED <<vars, mid, alt, lats>>

BenchEngine ==
    /\ (\E i \in DOMAIN resting : Trade(i)) \/ Rest \/ Return
    /\ UNCHANGED <<mid, blive, alt, bench, lats>>

\* bad_alloc leaves run_benchmark.
BenchThrows ==
    /\ Refuse
    /\ bench' = [bench EXCEPT !.pc = "threw"]
    /\ UNCHANGED <<mid, blive, alt, lats>>

\* Mutant of BReturn: the loop ends only when op is exactly the total.
BReturn_Exact ==
    /\ bench.pc = "loop" /\ bench.op = bench.total
    /\ bench' = [bench EXCEPT !.pc = "returned"]
    /\ UNCHANGED <<vars, mid, blive, alt, lats>>

BReturn ==
    /\ bench.pc = "loop" /\ bench.op >= bench.total
    /\ bench' = [bench EXCEPT !.pc = "returned"]
    /\ UNCHANGED <<vars, mid, blive, alt, lats>>

\* The loops, from the first batch to the last.
run_benchmark ==
    \/ NextBatch \/ EndBatch \/ BReturn
    \/ \E qty \in Qtys \ {0} : \/ \E offset \in 0..MaxOffset : bench_limit(offset, qty)
                               \/ bench_market(qty)
    \/ limit_done \/ market_done
    \/ \E id \in blive : bench_cancel(id)
    \/ bench_nothing
    \/ refill_bids \/ refill_asks \/ refill_done
    \/ BenchEngine \/ BenchThrows

\* The WASM module has the same loops in its text, after no test of its numbers.
wasm_run_benchmark ==
    \/ /\ bench.host = "wasm" /\ bench.pc = "called"
       /\ bench' = [bench EXCEPT !.pc = "loop"]
       /\ UNCHANGED <<vars, mid, blive, alt, lats>>
    \/ bench.host = "wasm" /\ run_benchmark

BNext == post_benchmark \/ (bench.host = "server" /\ run_benchmark) \/ wasm_run_benchmark

\* The benchmark is a loop that nothing interrupts.
BSpec == BInit /\ [][BNext]_bvars /\ WF_bvars(BNext)

-----------------------------------------------------------------------------
\* Between two operations every order of the book can still be drawn for a
\* cancel, also one that was filled in part as taker or as maker; blive may
\* only hold too much (wasm_bridge.cpp:207-208, :222-223).
RestingInLive == InBatch => DOMAIN resting \subseteq blive

\* A benchmark that returns has run every operation it was asked for, once, in
\* batches of which only the last may be shorter, and none is empty, so that no
\* time was divided by zero, also when the total is a multiple of the batch
\* (server.cpp:109-110, :151).
EveryOpOnce ==
    bench.pc = "returned" =>
       /\ SumFunction(lats) = bench.total
       /\ \A n \in DOMAIN lats : /\ lats[n] > 0
                                 /\ lats[n] = BatchSize \/ n = Len(lats)

\* The request to run a benchmark is answered, whatever the mix of operations and
\* however the total divides into batches (server.cpp:109, wasm_bridge.cpp:199).
BenchmarkEnds == <>(bench.pc \in {"refused", "returned", "threw"})
===============================================================================
