---------------------------- MODULE BenchmarkRunner ----------------------------
(***************************************************************************)
(* main of bench/benchmark_runner.cpp: the events are generated, run by    *)
(* the baseline engine, then by the optimized one, each as its own module  *)
(* has it.  standalone_bench.cpp runs the same events with one of them.    *)
(* The clock and the reports are left out (LatencyStats has the samples);  *)
(* what the calls returned is kept for comparison.                         *)
(***************************************************************************)
EXTENDS Workload, MatchingEngine

ASSUME RunnerAssumption == TotalEvents <= MaxId

VARIABLES
    stage,      \* where main is: an engine, or "generate", "reported", "threw"
    at,         \* the event to run next
    ran,        \* engine -> what its calls returned, event by event
    b_next_id, b_levels, b_index, b_call, b_out    \* the baseline engine

bvars == <<b_next_id, b_levels, b_index, b_call, b_out>>
rvars == <<vars, gvars, bvars, stage, at, ran>>

Baseline == INSTANCE BaselineEngine
            WITH next_id <- b_next_id, levels <- b_levels, index <- b_index,
                 call <- b_call, out <- b_out, MinPrice <- 0

RInit ==
    /\ GInit /\ Init /\ Baseline!Init
    /\ stage = "generate" /\ at = 1
    /\ ran = [engine \in {"baseline", "optimized"} |-> <<>>]

Generate ==
    /\ stage = "generate"
    /\ generate
    /\ UNCHANGED <<vars, bvars, stage, at, ran>>

Event == events[at]

Running(engine) == stage = engine /\ at <= Len(events)

\* The call of the event has returned.
EventDone(result) ==
    /\ at' = at + 1
    /\ ran' = [ran EXCEPT ![stage] = Append(@, result)]

Filled(id, fills) == [id |-> id, fills |-> fills, found |-> FALSE]
Cancelled(found)  == [id |-> 0, fills |-> <<>>, found |-> found]

\* The loop of run_engine, for each of its engines: the calls that begin, the
\* steps within a call, and the steps that end one.
run_baseline ==
    /\ Running("baseline")
    /\ \/ /\ \/ /\ Event.type = "limit"
                /\ Baseline!submit_limit(Event.side, Event.price, Event.qty)
             \/ /\ Event.type = "market"
                /\ Baseline!submit_market(Event.side, Event.qty)
             \/ \E p \in Prices : Baseline!consume_best(p)
          /\ UNCHANGED <<at, ran>>
       \/ /\ Baseline!add_order \/ Baseline!Return
          /\ EventDone(Filled(b_call.id, b_out))
       \/ /\ Event.type = "cancel"
          /\ Baseline!cancel(Event.id) \/ Baseline!cancel_miss(Event.id)
          /\ EventDone(Cancelled(Event.id \in DOMAIN b_index))
    /\ UNCHANGED <<vars, gvars, stage>>

run_optimized ==
    /\ Running("optimized")
    /\ \/ /\ \/ /\ Event.type = "limit"
                /\ submit_limit(Event.side, Event.price, Event.qty)
             \/ Event.type = "market" /\ submit_market(Event.side, Event.qty)
             \/ \E p \in Prices, o \in Slots : FillMaker(p, o) \/ FillTaker(p, o)
          /\ UNCHANGED <<at, ran>>
       \/ (Rest \/ Return) /\ EventDone(Filled(call.id, out))
       \/ /\ Event.type = "cancel"
          /\ cancel(Event.id) \/ cancel_miss(Event.id)
          /\ EventDone(Cancelled(Event.id \in DOMAIN index))
    /\ UNCHANGED <<gvars, bvars, stage>>

\* Nobody catches the bad_alloc of the optimized engine: the program ends.
OptimizedThrows ==
    /\ Running("optimized")
    /\ RestThrows
    /\ stage' = "threw"
    /\ UNCHANGED <<gvars, bvars, at, ran>>

\* main goes on: from the generator to the engines, and to the report.
Proceed ==
    /\ \/ stage = "generate" /\ ~Generating /\ stage' = "baseline"
       \/ stage = "baseline" /\ at > Len(events) /\ stage' = "optimized"
       \/ stage = "optimized" /\ at > Len(events) /\ stage' = "reported"
    /\ at' = 1
    /\ UNCHANGED <<vars, gvars, bvars, ran>>

RNext == Generate \/ run_baseline \/ run_optimized \/ OptimizedThrows \/ Proceed

RSpec == RInit /\ [][RNext]_rvars

-----------------------------------------------------------------------------
\* "Limit: assigned order id; Cancel: id to cancel" (workload_generator.hpp:61),
\* "so that cancellations reference real orders", which market orders may have
\* filled by then (:68-72): the id of a cancel is one that the engine has assigned
\* to a limit order of the workload.
CancelsReferenceOrders ==
    \A engine \in DOMAIN ran : \A n \in DOMAIN ran[engine] :
       events[n].type = "cancel" =>
          \E k \in 1..(n - 1) : /\ events[k].type = "limit"
                               /\ ran[engine][k].id = events[n].id

\* While the levels fit below the middle price, the two sides never meet: the
\* limit orders of the workload rest (workload_generator.hpp:13), and every
\* trade of either engine has a market order as its taker.
LimitsRest ==
    PriceLevels * Tick < MidPrice /\ MidPrice + PriceLevels * Tick <= MaxPrice
       => \A engine \in DOMAIN ran : \A n \in DOMAIN ran[engine] :
             ran[engine][n].fills # <<>> => events[n].type = "market"

\* "Both engines process the same event sequence for a fair comparison"
\* (benchmark_runner.cpp:123), and the comparison is one of equal work: call by
\* call they assign the same ids, make the same fills and find the same orders
\* to cancel, and they end with the same orders and volumes.
SameResults ==
    /\ \A n \in DOMAIN ran["optimized"] : ran["optimized"][n] = ran["baseline"][n]
    /\ stage = "reported" =>
          /\ RestingOrders = Baseline!RestingOrders
          /\ \A side \in Side :
                /\ DOMAIN levels[side] = DOMAIN b_levels[side]
                /\ \A p \in DOMAIN levels[side] :
                      levels[side][p].total_volume = b_levels[side][p].total_volume

\* "./benchmark_runner 2000000 - 2M events" (benchmark_runner.cpp:11): whatever
\* number of events is asked for, both engines run them to the end.
BothRunToEnd == stage # "threw"
===============================================================================
