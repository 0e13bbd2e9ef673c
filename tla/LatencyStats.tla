------------------------------ MODULE LatencyStats ------------------------------
(***************************************************************************)
(* The measurement of every benchmark of the repository: run_engine        *)
(* (bench/benchmark_runner.cpp) and the benchmarks of the server and of    *)
(* the WASM module time batches, each of which leaves one sample;          *)
(* bench/standalone_bench.cpp times every event.  LatencyStats::compute    *)
(* (bench/latency_stats.hpp), or the end of the other two, makes the       *)
(* figures of the report.                                                  *)
(*                                                                         *)
(* Ranks are computed in thousandths instead of double, and the clock is   *)
(* any choice.  mean_ns and the text of the report are left out; of        *)
(* throughput the numerator, total_orders, is kept.                        *)
(***************************************************************************)
EXTENDS Integers, Sequences, FiniteSets, Functions

CONSTANTS
    BatchSize,   \* BATCH_SIZE (100)
    MaxEvents,   \* bound: events of a workload
    MaxNs        \* bound: nanoseconds an event takes

ASSUME StatsAssumption ==
    BatchSize \in Nat \ {0} /\ MaxEvents \in Nat /\ MaxNs \in Nat

VARIABLES
    program,  \* who measures: "runner", "standalone", "server" or "wasm"
    events,   \* events.size(), total_ops
    run,      \* the loop: where it is, i, j, batch_end and the time of the batch
    lats,     \* latencies
    sizes,    \* auxiliary: events in the batch of each sample
    stats     \* the LatencyStats, or NoStats

lvars == <<program, events, run, lats, sizes, stats>>

NoStats == [total_orders |-> 0, p50 |-> 0, p99 |-> 0, p999 |-> 0, max |-> 0]

Least(a, b) == IF a <= b THEN a ELSE b

LInit ==
    /\ program \in {"runner", "standalone", "server", "wasm"}
    /\ events \in 0..MaxEvents
    /\ run = [pc |-> "loop", i |-> 0, j |-> 0, batch_end |-> 0, ns |-> 0]
    /\ lats = <<>> /\ sizes = <<>>
    /\ stats = NoStats

\* Mutant of BeginBatch: batch_end may lie beyond the last event.
BeginBatch_Full ==
    /\ program # "standalone"
    /\ run.pc = "loop" /\ run.i < events
    /\ run' = [run EXCEPT !.pc = "batch", !.j = run.i, !.ns = 0,
                          !.batch_end = run.i + BatchSize]
    /\ UNCHANGED <<program, events, lats, sizes, stats>>

BeginBatch ==
    /\ program # "standalone"
    /\ run.pc = "loop" /\ run.i < events
    /\ run' = [run EXCEPT !.pc = "batch", !.j = run.i, !.ns = 0,
                          !.batch_end = Least(run.i + BatchSize, events)]
    /\ UNCHANGED <<program, events, lats, sizes, stats>>

\* One event of the batch, which takes ns.
RunEvent(ns) ==
    /\ run.pc = "batch" /\ run.j < run.batch_end
    /\ run' = [run EXCEPT !.j = @ + 1, !.ns = @ + ns]
    /\ UNCHANGED <<program, events, lats, sizes, stats>>

\* The runner goes on at the end of the batch, the other two a batch further.
EndBatch ==
    /\ run.pc = "batch" /\ run.j = run.batch_end
    /\ LET n == run.batch_end - run.i
       IN  lats' = Append(lats, run.ns \div n) /\ sizes' = Append(sizes, n)
    /\ run' = [run EXCEPT !.pc = "loop",
                          !.i = IF program = "runner" THEN run.batch_end ELSE @ + BatchSize]
    /\ UNCHANGED <<program, events, stats>>

\* The loop of standalone_bench: one event, one sample.
TimeEvent(ns) ==
    /\ program = "standalone"
    /\ run.pc = "loop" /\ run.i < events
    /\ lats' = Append(lats, ns) /\ sizes' = Append(sizes, 1)
    /\ run' = [run EXCEPT !.i = @ + 1]
    /\ UNCHANGED <<program, events, stats>>

\* std::sort: the k-th is the value with fewer than k samples below it, and at
\* least k that are no more than it.
Sorted(s) ==
    [k \in DOMAIN s |-> CHOOSE v \in Range(s) :
        /\ Cardinality({n \in DOMAIN s : s[n] < v}) < k
        /\ k <= Cardinality({n \in DOMAIN s : s[n] <= v})]

\* Mutant of Lround: the fraction is cut off.
Lround_Down(thousandths) == thousandths \div 1000

\* std::lround of a number of thousandths.
Lround(thousandths) == (thousandths + 500) \div 1000

\* pct: p is in thousandths.
pct(ns, p) == ns[Least(Lround(p * (Len(ns) - 1)), Len(ns) - 1) + 1]

\* The figures of a report that counts total orders.
Figures(total) ==
    LET ns == Sorted(lats)
    IN  IF ns = <<>> THEN [NoStats EXCEPT !.total_orders = total]
        ELSE [total_orders |-> total, p50 |-> pct(ns, 500), p99 |-> pct(ns, 990),
              p999 |-> pct(ns, 999), max |-> ns[Len(ns)]]

Finish(total) ==
    /\ run.pc = "loop" /\ run.i >= events
    /\ run' = [run EXCEPT !.pc = "done"]
    /\ stats' = Figures(total)
    /\ UNCHANGED <<program, events, lats, sizes>>

\* The samples are counted for orders.
compute == program \in {"runner", "standalone"} /\ Finish(Len(lats))

\* run_benchmark and wasm_run_benchmark divide total_ops by the time.
run_benchmark_result == program = "server" /\ Finish(events)

wasm_result == program = "wasm" /\ Finish(events)

LNext ==
    \/ BeginBatch \/ EndBatch
    \/ \E ns \in 0..MaxNs : RunEvent(ns) \/ TimeEvent(ns)
    \/ compute \/ run_benchmark_result \/ wasm_result

LSpec == LInit /\ [][LNext]_lvars

-----------------------------------------------------------------------------
Computed == run.pc = "done" /\ lats # <<>>

Above(v) == Cardinality({n \in DOMAIN lats : lats[n] > v})

\* Every event is run and timed in exactly one batch and no batch is empty, so
\* that its time is divided by the number of its events
\* (benchmark_runner.cpp:52-78, standalone_bench.cpp:38-56).
EveryEventTimed ==
    /\ \A n \in DOMAIN sizes : sizes[n] \in 1..BatchSize
    /\ SumFunction(sizes) = Least(run.i, events)
    /\ run.pc = "done" => run.i >= events

\* "std::lround to avoid truncation bias" (latency_stats.hpp:45): beyond a
\* percentile lies at most its share of the samples and half a sample more, and
\* beyond max none, so that the figures are in order.
NoTruncationBias ==
    Computed =>
       LET share(p) == (1000 - p) * (Len(lats) - 1) + 500
       IN  /\ 1000 * Above(stats.p50) <= share(500)
           /\ 1000 * Above(stats.p99) <= share(990)
           /\ 1000 * Above(stats.p999) <= share(999)
           /\ stats.p50 <= stats.p99 /\ stats.p99 <= stats.p999
           /\ stats.p999 <= stats.max /\ Above(stats.max) = 0
===============================================================================
