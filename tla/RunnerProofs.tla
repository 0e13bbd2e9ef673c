------------------------------ MODULE RunnerProofs ------------------------------
(***************************************************************************)
(* Proofs about BenchmarkRunner, for every workload: how far the ids of    *)
(* the events fall behind those of the engines, which is why               *)
(* CancelsReferenceOrders fails, that limit orders only rest, and that     *)
(* both engines do the same work.                                          *)
(*                                                                         *)
(* The generator counts its limit orders and an engine counts every        *)
(* submission; IdsOK relates the two counters at every point of a run,     *)
(* also in the middle of a call.  SplitOK says that the orders of a side   *)
(* are on that side of the middle price, in the events and in both books.  *)
(*                                                                         *)
(* For the last, the run of a list of events by a book is defined without  *)
(* an engine: from a Point there is one PointStep at most.  Each engine is *)
(* shown to make such steps, from the refinements of MatchingEngineProofs  *)
(* and of BaselineProofs, so that each is at all times at a point of the   *)
(* one run (TwinOK), and runs that are over have the same results.         *)
(***************************************************************************)
EXTENDS MatchingEngineProofs, BenchmarkRunner

Types   == {"limit", "market", "cancel"}
Engines == {"baseline", "optimized"}

EventRec == [type : Types, side : Side, price : Prices, qty : Qtys, id : 0..MaxId]

\* How many of the first n entries of e are of type t.
Tally(e, t, n) == Cardinality({k \in 1..n : e[k].type = t})

\* The events, and the counter of the generator.
GenOK ==
    /\ events \in Seq(EventRec)
    /\ Len(events) <= TotalEvents
    /\ gen_next = 1 + Tally(events, "limit", Len(events))
    /\ gen_next <= Len(events) + 1
    /\ gen_live \subseteq 1..(gen_next - 1)
    /\ \A n \in DOMAIN events :
          events[n].type = "limit" => events[n].id = Tally(events, "limit", n)

-----------------------------------------------------------------------------
(* Counting events.                                                         *)

\* Tally counts events one position at a time.
LEMMA TallyFacts ==
    ASSUME NEW e, NEW t, NEW n \in Nat
    PROVE  /\ Tally(e, t, n) \in Nat
           /\ Tally(e, t, n + 1) = Tally(e, t, n) + (IF e[n + 1].type = t THEN 1 ELSE 0)
           /\ Tally(e, t, 0) = 0
<1> DEFINE S(m) == {k \in 1..m : e[k].type = t}
<1>1. IsFiniteSet(S(n))
  <2>1. IsFiniteSet(1..n)
    BY FS_Interval
  <2>2. S(n) \in SUBSET (1..n)
    OBVIOUS
  <2> HIDE DEF S
  <2> QED
    BY <2>1, <2>2, FS_Subset
<1>2. S(n + 1) = IF e[n + 1].type = t THEN S(n) \cup {n + 1} ELSE S(n)
  OBVIOUS
<1>3. n + 1 \notin S(n) /\ S(0) = {}
  OBVIOUS
<1> HIDE DEF S
<1>4. Cardinality(S(n)) \in Nat /\ Cardinality(S(n) \cup {n + 1}) = Cardinality(S(n)) + 1
  BY <1>1, <1>3, FS_AddElement, FS_CardinalityType
<1>5. Cardinality(S(0)) = 0
  BY <1>3, FS_EmptySet
<1>6. \A m : Tally(e, t, m) = Cardinality(S(m))
  BY DEF Tally, S
<1> QED
  BY <1>2, <1>4, <1>5, <1>6

LEMMA TallySame ==
    ASSUME NEW e, NEW f, NEW t, NEW n \in Nat, \A k \in 1..n : f[k] = e[k]
    PROVE  Tally(f, t, n) = Tally(e, t, n)
<1>1. {k \in 1..n : f[k].type = t} = {k \in 1..n : e[k].type = t}
  OBVIOUS
<1> QED
  BY <1>1 DEF Tally

LEMMA TallyAppend ==
    ASSUME NEW e, NEW f, NEW t, NEW n \in Nat, NEW m, m = n + 1,
           \A k \in 1..n : f[k] = e[k]
    PROVE  Tally(f, t, m) = Tally(e, t, n) + (IF f[m].type = t THEN 1 ELSE 0)
<1>1. Tally(f, t, n + 1) = Tally(f, t, n) + (IF f[n + 1].type = t THEN 1 ELSE 0)
  BY TallyFacts
<1>2. Tally(f, t, n) = Tally(e, t, n)
  BY TallySame
<1> QED
  BY <1>1, <1>2

-----------------------------------------------------------------------------
(* The generator.                                                           *)

LEMMA ConfigFacts ==
    /\ MaxId \in Nat /\ TotalEvents \in Nat /\ TotalEvents <= MaxId
    /\ MaxPrice \in Nat /\ MidPrice \in Nat /\ Tick \in Nat \ {0}
    /\ PriceLevels \in Nat \ {0}
    /\ QtyMin \in Nat /\ QtyMin..MaxQty \subseteq Qtys /\ 0 \in Qtys /\ 0 \in Prices
BY OrderAssumption, WorkloadAssumption, RunnerAssumption DEF validate, Qtys, Prices

\* Prices wrap as 64-bit words do, into Prices.
LEMMA PriceTyped ==
    ASSUME NEW side \in Side, NEW level \in Nat
    PROVE  PriceAt(side, level) \in Prices
<1> DEFINE d == (level + 1) * Tick
<1>1. d \in Int /\ MidPrice - d \in Int /\ MidPrice + d \in Int
  BY ConfigFacts
<1> HIDE DEF d
<1>2. \A x \in Int : x % (MaxPrice + 1) \in 0..MaxPrice
  BY ConfigFacts
<1>3. PriceAt(side, level) = (IF side = "Buy" THEN MidPrice - d ELSE MidPrice + d)
                             % (MaxPrice + 1)
  BY DEF PriceAt, Word, d
<1> QED
  BY <1>1, <1>2, <1>3 DEF Prices

\* An event more leaves the others and their counts.
LEMMA EmitFacts ==
    ASSUME GenOK, Generating, NEW rec \in EventRec, events' = Append(events, rec)
    PROVE  /\ events' \in Seq(EventRec)
           /\ Len(events) \in Nat
           /\ Len(events') = Len(events) + 1
           /\ Len(events') <= TotalEvents
           /\ DOMAIN events = 1..Len(events)
           /\ DOMAIN events' = 1..(Len(events) + 1)
           /\ \A n \in 1..Len(events) : events'[n] = events[n]
           /\ events'[Len(events) + 1] = rec
           /\ \A n \in 0..Len(events) : \A t : Tally(events', t, n) = Tally(events, t, n)
           /\ Tally(events', "limit", Len(events')) =
                 Tally(events, "limit", Len(events)) + (IF rec.type = "limit" THEN 1 ELSE 0)
<1>1. /\ events' \in Seq(EventRec)
      /\ Len(events) \in Nat
      /\ Len(events') = Len(events) + 1
      /\ Len(events') <= TotalEvents
      /\ DOMAIN events = 1..Len(events)
      /\ DOMAIN events' = 1..(Len(events) + 1)
      /\ \A n \in 1..Len(events) : events'[n] = events[n]
      /\ events'[Len(events) + 1] = rec
  BY ConfigFacts DEF GenOK, Generating
<1>2. ASSUME NEW n \in 0..Len(events), NEW t
      PROVE  Tally(events', t, n) = Tally(events, t, n)
  <2>1. n \in Nat /\ \A k \in 1..n : events'[k] = events[k]
    BY <1>1
  <2> QED
    BY <2>1, TallySame
<1>3. Tally(events', "limit", Len(events) + 1) =
         Tally(events, "limit", Len(events)) + (IF rec.type = "limit" THEN 1 ELSE 0)
  <2>1. PICK e, f, t : e = events /\ f = events' /\ t = "limit"
    OBVIOUS
  <2>2. PICK n, m : n = Len(events) /\ m = n + 1 /\ n \in Nat
    BY <1>1
  <2>3. \A k \in 1..n : f[k] = e[k]
    BY <1>1, <2>1, <2>2
  <2>4. Tally(f, t, m) = Tally(e, t, n) + (IF f[m].type = t THEN 1 ELSE 0)
    BY <2>2, <2>3, TallyAppend
  <2> QED
    BY <1>1, <2>1, <2>2, <2>4
<1> QED
  BY <1>1, <1>2, <1>3

LEMMA GenerateKeeps ==
    ASSUME GenOK, generate
    PROVE  GenOK'
<1> DEFINE n == Len(events)
<1>1. n \in Nat /\ n < TotalEvents
  BY DEF GenOK, generate, limit_event, market_event, cancel_event, Generating
<1>2. /\ gen_next \in 1..MaxId /\ gen_next \in Nat /\ gen_next <= n + 1
      /\ gen_next = 1 + Tally(events, "limit", n) /\ Tally(events, "limit", n) \in Nat
      /\ gen_live \subseteq 1..(gen_next - 1)
  <2>1. Tally(events, "limit", n) \in Nat
    BY <1>1, TallyFacts
  <2> QED
    BY <1>1, <2>1, ConfigFacts DEF GenOK
<1>3. CASE \E side \in Side, qty \in QtyMin..MaxQty, level \in 0..(PriceLevels - 1) :
              limit_event(side, level, qty)
  <2>1. PICK side \in Side, qty \in QtyMin..MaxQty, level \in 0..(PriceLevels - 1) :
           limit_event(side, level, qty)
    BY <1>3
  <2> DEFINE rec == [type |-> "limit", side |-> side, price |-> PriceAt(side, level),
                     qty |-> qty, id |-> gen_next]
  <2>2. rec \in EventRec
    BY <1>2, PriceTyped, ConfigFacts DEF EventRec, Types
  <2>3. events' = Append(events, rec) /\ gen_next' = gen_next + 1 /\ Generating
        /\ gen_live' = gen_live \cup {gen_next}
    BY <2>1 DEF limit_event, Emit
  <2>4. rec.type = "limit" /\ rec.id = gen_next
    OBVIOUS
  <2> HIDE DEF rec
  <2>5. /\ Len(events') = n + 1 /\ events' \in Seq(EventRec) /\ n + 1 <= TotalEvents
        /\ DOMAIN events = 1..n /\ DOMAIN events' = 1..(n + 1)
        /\ \A k \in 1..n : events'[k] = events[k]
        /\ events'[n + 1] = rec
        /\ \A k \in 1..n : Tally(events', "limit", k) = Tally(events, "limit", k)
        /\ Tally(events', "limit", n + 1) = Tally(events, "limit", n) + 1
    BY <2>2, <2>3, <2>4, EmitFacts
  <2>6. ASSUME NEW k \in DOMAIN events', events'[k].type = "limit"
        PROVE  events'[k].id = Tally(events', "limit", k)
    <3>1. CASE k = n + 1
      BY <1>2, <2>4, <2>5, <3>1
    <3>2. CASE k \in 1..n
      BY <2>5, <2>6, <3>2 DEF GenOK
    <3> QED
      BY <2>5, <3>1, <3>2
  <2>7. gen_next' = 1 + Tally(events', "limit", Len(events')) /\ gen_next' <= n + 2
    BY <1>1, <1>2, <2>3, <2>5
  <2>8. gen_live' \subseteq 1..(gen_next' - 1)
    <3>1. gen_next \in Nat /\ gen_live \subseteq 1..(gen_next - 1)
      BY <1>2
    <3>2. gen_next' - 1 = gen_next /\ gen_next \in 1..gen_next
      BY <1>2, <2>3, <3>1
    <3> QED
      BY <2>3, <3>1, <3>2
  <2> QED
    BY <1>1, <2>5, <2>6, <2>7, <2>8 DEF GenOK
<1>4. CASE \/ \E side \in Side, qty \in QtyMin..MaxQty : market_event(side, qty)
           \/ \E id \in gen_live : cancel_event(id)
  <2>1. PICK rec \in EventRec :
           /\ rec.type # "limit" /\ events' = Append(events, rec) /\ Generating
           /\ gen_next' = gen_next /\ gen_live' \subseteq gen_live
    <3>1. ASSUME NEW side \in Side, NEW qty \in QtyMin..MaxQty, market_event(side, qty)
          PROVE  \E rec \in EventRec :
                    /\ rec.type # "limit" /\ events' = Append(events, rec) /\ Generating
                    /\ gen_next' = gen_next /\ gen_live' \subseteq gen_live
      <4> DEFINE r == [type |-> "market", side |-> side, price |-> 0, qty |-> qty, id |-> 0]
      <4>1. r \in EventRec /\ r.type # "limit"
        BY ConfigFacts DEF EventRec, Types
      <4> QED
        BY <3>1, <4>1 DEF market_event, Emit
    <3>2. ASSUME NEW id \in gen_live, cancel_event(id)
          PROVE  \E rec \in EventRec :
                    /\ rec.type # "limit" /\ events' = Append(events, rec) /\ Generating
                    /\ gen_next' = gen_next /\ gen_live' \subseteq gen_live
      <4> DEFINE r == [type |-> "cancel", side |-> "Buy", price |-> 0, qty |-> 0, id |-> id]
      <4>1. id \in 0..MaxId
        BY <1>2, ConfigFacts
      <4>2. r \in EventRec /\ r.type # "limit"
        BY <4>1, ConfigFacts DEF EventRec, Types, Side
      <4> QED
        BY <3>2, <4>2 DEF cancel_event, Emit
    <3> QED
      BY <1>4, <3>1, <3>2
  <2>6. /\ events' \in Seq(EventRec) /\ Len(events') = n + 1 /\ n + 1 <= TotalEvents
        /\ DOMAIN events = 1..n /\ DOMAIN events' = 1..(n + 1)
        /\ \A k \in 1..n : events'[k] = events[k]
        /\ events'[n + 1] = rec
        /\ \A k \in 0..n : \A t : Tally(events', t, k) = Tally(events, t, k)
        /\ Tally(events', "limit", Len(events')) =
              Tally(events, "limit", n) + (IF rec.type = "limit" THEN 1 ELSE 0)
    BY <2>1, EmitFacts
  <2> HIDE DEF n
  <2>2. /\ Len(events') = n + 1 /\ events' \in Seq(EventRec) /\ n + 1 <= TotalEvents
        /\ DOMAIN events = 1..n /\ DOMAIN events' = 1..(n + 1)
        /\ \A k \in 1..n : events'[k] = events[k]
        /\ events'[n + 1] = rec
        /\ \A k \in 1..n : Tally(events', "limit", k) = Tally(events, "limit", k)
        /\ Tally(events', "limit", n + 1) = Tally(events, "limit", n)
    BY <1>1, <1>2, <2>1, <2>6
  <2>3. ASSUME NEW k \in DOMAIN events', events'[k].type = "limit"
        PROVE  events'[k].id = Tally(events', "limit", k)
    <3>1. k \in 1..n
      BY <1>1, <2>1, <2>2, <2>3 DEF n
    <3> QED
      BY <2>2, <2>3, <3>1 DEF GenOK
  <2>4. gen_next' = 1 + Tally(events', "limit", Len(events')) /\ gen_next' <= n + 2
    BY <1>1, <1>2, <2>1, <2>2
  <2>5. gen_live' \subseteq 1..(gen_next' - 1)
    BY <1>1, <1>2, <2>1
  <2> QED
    BY <1>1, <2>2, <2>3, <2>4, <2>5 DEF GenOK
<1> QED
  BY <1>3, <1>4 DEF generate

LEMMA GenInductive == GenOK /\ [RNext]_rvars => GenOK'
<1> SUFFICES ASSUME GenOK, [RNext]_rvars PROVE GenOK'
  OBVIOUS
<1>1. CASE Generate
  BY <1>1, GenerateKeeps DEF Generate
<1>2. CASE UNCHANGED gvars
  BY <1>2 DEF gvars, GenOK, Tally
<1> QED
  BY <1>1, <1>2 DEF RNext, rvars, run_baseline, run_optimized, OptimizedThrows, Proceed

LEMMA GenInit == RInit => GenOK
<1> SUFFICES ASSUME RInit PROVE GenOK
  OBVIOUS
<1>1. events = <<>> /\ gen_next = 1 /\ gen_live = {}
  BY DEF RInit, GInit
<1>2. Tally(events, "limit", 0) = 0
  BY TallyFacts
<1> QED
  BY <1>1, <1>2, ConfigFacts DEF GenOK

LEMMA GenInvariance == RSpec => []GenOK
BY GenInit, GenInductive, PTL DEF RSpec

-----------------------------------------------------------------------------
(* The runner drives the optimized engine by its own steps.                 *)

\* The event being run is one of the list.
LEMMA EventTyped ==
    ASSUME GenOK, at \in Nat \ {0}, at <= Len(events)
    PROVE  /\ at \in DOMAIN events
           /\ Event.type \in Types
           /\ Event.side \in Side
           /\ Event.price \in Prices
           /\ Event.qty \in Qtys
           /\ Event.id \in 0..MaxId
<1>1. at \in DOMAIN events /\ Event \in EventRec
  BY DEF GenOK, Event
<1> QED
  BY <1>1 DEF EventRec

AtOK == at \in Nat \ {0}

LEMMA EngineSteps ==
    ASSUME GenOK, AtOK, [RNext]_rvars
    PROVE  [Next]_vars
<1>1. CASE run_optimized
  <2>1. /\ Event.side \in Side /\ Event.price \in Prices /\ Event.qty \in Qtys
        /\ Event.id \in 0..MaxId
    BY <1>1, EventTyped DEF run_optimized, Running, AtOK
  <2>2. CASE Event.type = "limit" /\ submit_limit(Event.side, Event.price, Event.qty)
    BY <2>1, <2>2 DEF Next
  <2>3. CASE Event.type = "market" /\ submit_market(Event.side, Event.qty)
    BY <2>1, <2>3 DEF Next
  <2>4. CASE cancel(Event.id) \/ cancel_miss(Event.id)
    BY <2>1, <2>4 DEF Next
  <2>5. CASE \/ \E p \in Prices, o \in Slots : FillMaker(p, o) \/ FillTaker(p, o)
             \/ Rest \/ Return
    BY <2>5 DEF Next
  <2> QED
    BY <1>1, <2>2, <2>3, <2>4, <2>5 DEF run_optimized
<1>2. CASE OptimizedThrows
  BY <1>2 DEF OptimizedThrows, Next
<1>3. CASE Generate \/ run_baseline \/ Proceed \/ UNCHANGED rvars
  BY <1>3 DEF Generate, run_baseline, Proceed, rvars
<1> QED
  BY <1>1, <1>2, <1>3 DEF RNext

LEMMA EngineRuns == RSpec => Spec /\ []AtOK
<1>1. RInit => Init /\ AtOK
  BY DEF RInit, AtOK
<1>2. AtOK /\ [RNext]_rvars => AtOK'
  BY DEF AtOK, RNext, rvars, Generate, run_baseline, run_optimized, OptimizedThrows, Proceed,
     EventDone
<1>3. GenOK /\ AtOK /\ [RNext]_rvars => [Next]_vars
  BY EngineSteps
<1> QED
  BY <1>1, <1>2, <1>3, GenInvariance, PTL DEF RSpec, Spec

-----------------------------------------------------------------------------
(* The counters of the generator and of the engines.                        *)

\* The ids that an engine uses for the first n events.
Used(n) == Tally(events, "limit", n) + Tally(events, "market", n)

\* An engine that runs event number at, with its submission c and its counter nx.
CallAt(engine, c, nx) ==
    /\ Len(ran[engine]) = at - 1
    /\ at <= Len(events) + 1
    /\ c.pc = "idle" => nx = 1 + Used(at - 1)
    /\ c.pc = "match" => /\ nx = 1 + Used(at)
                         /\ c.id = nx - 1
                         /\ at \in DOMAIN events

\* What the calls returned belongs to the events.
RanOK ==
    /\ DOMAIN ran = Engines
    /\ \A engine \in Engines :
          /\ IsSeq(ran[engine])
          /\ \A n \in DOMAIN ran[engine] :
                /\ n \in DOMAIN events
                /\ events[n].type = "limit" => ran[engine][n].id = Used(n)

IdsOK ==
    /\ RanOK
    /\ stage = "generate" => /\ b_next_id = 1 /\ b_call.pc = "idle"
                             /\ \A engine \in Engines : Len(ran[engine]) = 0
    /\ stage \in {"generate", "baseline"} => /\ next_id = 1 /\ call.pc = "idle"
                                             /\ Len(ran["optimized"]) = 0
    /\ stage = "baseline" => CallAt("baseline", b_call, b_next_id)
    /\ stage = "optimized" => CallAt("optimized", call, next_id)

\* The four kinds of steps of an engine, from submission c and counter nx to c2 and nx2.
EngineStep(c, nx, c2, nx2) ==
    \/ /\ c.pc = "idle" /\ c2.pc = "match" /\ c2.id = nx /\ nx2 = nx + 1
       /\ Event.type \in {"limit", "market"}
       /\ UNCHANGED <<at, ran>>
    \/ c2.pc = c.pc /\ c2.id = c.id /\ nx2 = nx /\ UNCHANGED <<at, ran>>
    \/ /\ c.pc = "match" /\ c2.pc = "idle" /\ nx2 = nx
       /\ \E fills : EventDone(Filled(c.id, fills))
    \/ /\ c.pc = "idle" /\ c2.pc = "idle" /\ nx2 = nx
       /\ Event.type = "cancel"
       /\ \E found : EventDone(Cancelled(found))

LEMMA BaselineSteps ==
    ASSUME run_baseline
    PROVE  EngineStep(b_call, b_next_id, b_call', b_next_id')
<1>1. CASE /\ \/ Event.type = "limit"
                 /\ Baseline!submit_limit(Event.side, Event.price, Event.qty)
              \/ Event.type = "market" /\ Baseline!submit_market(Event.side, Event.qty)
           /\ UNCHANGED <<at, ran>>
  BY <1>1 DEF EngineStep, Baseline!submit_limit, Baseline!submit_market, Baseline!Begin
<1>2. CASE (\E p \in Prices : Baseline!consume_best(p)) /\ UNCHANGED <<at, ran>>
  <2>1. PICK p \in Prices : Baseline!consume_best(p)
    BY <1>2
  <2>2. PICK q : b_call' = [b_call EXCEPT !.qty = q] /\ b_next_id' = b_next_id
    BY <2>1 DEF Baseline!consume_best
  <2> QED
    BY <1>2, <2>2 DEF EngineStep
<1>3. CASE /\ Baseline!add_order \/ Baseline!Return
           /\ EventDone(Filled(b_call.id, b_out))
  BY <1>3 DEF EngineStep, Baseline!add_order, Baseline!Return, Baseline!MatchOver,
     Baseline!Matching, Baseline!IdleCall
<1>4. CASE /\ Event.type = "cancel"
           /\ Baseline!cancel(Event.id) \/ Baseline!cancel_miss(Event.id)
           /\ EventDone(Cancelled(Event.id \in DOMAIN b_index))
  BY <1>4 DEF EngineStep, Baseline!cancel, Baseline!cancel_miss, Baseline!vars
<1> QED
  BY <1>1, <1>2, <1>3, <1>4 DEF run_baseline

LEMMA OptimizedSteps ==
    ASSUME run_optimized
    PROVE  EngineStep(call, next_id, call', next_id')
<1>1. CASE /\ \/ Event.type = "limit" /\ submit_limit(Event.side, Event.price, Event.qty)
              \/ Event.type = "market" /\ submit_market(Event.side, Event.qty)
           /\ UNCHANGED <<at, ran>>
  BY <1>1 DEF EngineStep, submit_limit, submit_market, Begin
<1>2. CASE /\ \E p \in Prices, o \in Slots : FillMaker(p, o) \/ FillTaker(p, o)
           /\ UNCHANGED <<at, ran>>
  <2>1. PICK p \in Prices, o \in Slots : RecordFill(p, o)
    BY <1>2 DEF FillMaker, FillTaker
  <2>2. PICK q : call' = [call EXCEPT !.qty = q] /\ next_id' = next_id
    BY <2>1 DEF RecordFill
  <2> QED
    BY <1>2, <2>2 DEF EngineStep
<1>3. CASE (Rest \/ Return) /\ EventDone(Filled(call.id, out))
  BY <1>3 DEF EngineStep, Rest, Return, MatchOver, Matching, IdleCall
<1>4. CASE /\ Event.type = "cancel"
           /\ cancel(Event.id) \/ cancel_miss(Event.id)
           /\ EventDone(Cancelled(Event.id \in DOMAIN index))
  BY <1>4 DEF EngineStep, cancel, cancel_miss, vars
<1> QED
  BY <1>1, <1>2, <1>3, <1>4 DEF run_optimized

\* An event uses an id unless it is a cancel.
LEMMA UsedFacts ==
    ASSUME NEW n \in Nat \ {0}
    PROVE  /\ Used(n) \in Nat /\ Used(n - 1) \in Nat
           /\ events[n].type \in {"limit", "market"} => Used(n) = Used(n - 1) + 1
           /\ events[n].type = "cancel" => Used(n) = Used(n - 1)
<1>1. PICK m \in Nat : n = m + 1
  <2>1. n - 1 \in Nat /\ n = (n - 1) + 1
    OBVIOUS
  <2> QED
    BY <2>1
<1>2. \A t : /\ Tally(events, t, m) \in Nat
             /\ Tally(events, t, m + 1) =
                   Tally(events, t, m) + (IF events[m + 1].type = t THEN 1 ELSE 0)
  BY TallyFacts
<1>3. n - 1 = m
  BY <1>1
<1>4. /\ Tally(events, "limit", m) \in Nat /\ Tally(events, "market", m) \in Nat
      /\ Tally(events, "limit", n) =
            Tally(events, "limit", m) + (IF events[n].type = "limit" THEN 1 ELSE 0)
      /\ Tally(events, "market", n) =
            Tally(events, "market", m) + (IF events[n].type = "market" THEN 1 ELSE 0)
  BY <1>1, <1>2
<1> QED
  BY <1>3, <1>4 DEF Used

\* The call of an event has returned: its result comes after the others.
LEMMA DoneFacts ==
    ASSUME RanOK, AtOK, stage \in Engines, Len(ran[stage]) = at - 1, stage' = stage,
           NEW result, EventDone(result)
    PROVE  /\ at' = at + 1
           /\ DOMAIN ran' = Engines
           /\ \A engine \in Engines : IsSeq(ran'[engine])
           /\ \A engine \in Engines \ {stage} : ran'[engine] = ran[engine]
           /\ Len(ran'[stage]) = at
           /\ DOMAIN ran'[stage] = DOMAIN ran[stage] \cup {at}
           /\ \A n \in DOMAIN ran[stage] : n # at /\ ran'[stage][n] = ran[stage][n]
           /\ ran'[stage][at] = result
<1>1. PICK s : s = ran[stage]
  OBVIOUS
<1>2. IsSeq(s) /\ Len(s) = at - 1 /\ at \in Nat
  BY <1>1 DEF RanOK, AtOK
<1>3. PICK r : r = Append(s, result)
  OBVIOUS
<1>4. /\ IsSeq(r)
      /\ DOMAIN r = DOMAIN s \cup {Len(s) + 1}
      /\ \A k \in DOMAIN s : r[k] = s[k]
      /\ r[Len(s) + 1] = result
  BY <1>2, <1>3, AppendFacts
<1>5. Len(s) \in Nat /\ DOMAIN s = 1..Len(s) /\ Len(r) \in Nat /\ DOMAIN r = 1..Len(r)
  BY <1>2, <1>4, SeqFacts
<1>6. Len(s) + 1 = at
  BY <1>2
<1>7. DOMAIN r = 1..at
  BY <1>4, <1>5, <1>6
<1>8. Len(r) = at
  <2>1. PICK k \in Nat, m \in Nat \ {0} : k = Len(r) /\ m = at /\ 1..k = 1..m
    BY <1>5, <1>7 DEF AtOK
  <2>2. m \in 1..k
    BY <2>1
  <2>3. k \in 1..m
    BY <2>1, <2>2
  <2> QED
    BY <2>1, <2>2, <2>3
<1>9. at' = at + 1 /\ ran' = [ran EXCEPT ![stage] = r]
  BY <1>1, <1>3 DEF EventDone
<1>10. /\ DOMAIN ran' = Engines /\ ran'[stage] = r
       /\ \A engine \in Engines \ {stage} : ran'[engine] = ran[engine]
  BY <1>9 DEF RanOK
<1> QED
  BY <1>1, <1>4, <1>5, <1>6, <1>8, <1>9, <1>10 DEF RanOK

\* Whatever an engine does, its counter stays with the events.
LEMMA StepKeepsIds ==
    ASSUME GenOK, AtOK, RanOK, stage \in Engines, UNCHANGED <<events, stage>>,
           at <= Len(events), NEW c, NEW nx, NEW c2, NEW nx2,
           c.pc \in {"idle", "match"}, c2.pc \in {"idle", "match"},
           CallAt(stage, c, nx), EngineStep(c, nx, c2, nx2)
    PROVE  /\ RanOK'
           /\ CallAt(stage, c2, nx2)'
           /\ \A engine \in Engines \ {stage} : ran'[engine] = ran[engine]
<1>1. /\ at \in Nat \ {0} /\ at \in DOMAIN events /\ Event = events[at]
      /\ Len(events) \in Nat
  BY EventTyped DEF AtOK, GenOK, Event
<1>2. /\ Used(at) \in Nat /\ Used(at - 1) \in Nat
      /\ Event.type \in {"limit", "market"} => Used(at) = Used(at - 1) + 1
      /\ Event.type = "cancel" => Used(at) = Used(at - 1)
  BY <1>1, UsedFacts
<1>3. ASSUME UNCHANGED <<at, ran>> PROVE RanOK'
  BY <1>3 DEF RanOK, Used, Tally
<1>4. CASE /\ c.pc = "idle" /\ c2.pc = "match" /\ c2.id = nx /\ nx2 = nx + 1
           /\ Event.type \in {"limit", "market"}
           /\ UNCHANGED <<at, ran>>
  <2>1. nx2 = 1 + Used(at) /\ c2.id = nx2 - 1
    BY <1>2, <1>4 DEF CallAt
  <2>2. CallAt(stage, c2, nx2)
    BY <1>1, <1>4, <2>1 DEF CallAt
  <2>3. CallAt(stage, c2, nx2)'
    BY <1>4, <2>2 DEF CallAt, Used, Tally
  <2> QED
    BY <1>3, <1>4, <2>3
<1>5. CASE c2.pc = c.pc /\ c2.id = c.id /\ nx2 = nx /\ UNCHANGED <<at, ran>>
  <2>1. CallAt(stage, c2, nx2)
    BY <1>5 DEF CallAt
  <2>2. CallAt(stage, c2, nx2)'
    BY <1>5, <2>1 DEF CallAt, Used, Tally
  <2> QED
    BY <1>3, <1>5, <2>2
<1>6. ASSUME NEW result, EventDone(result), c2.pc = "idle", nx2 = 1 + Used(at),
             Event.type = "limit" => result.id = Used(at)
      PROVE  /\ RanOK'
             /\ CallAt(stage, c2, nx2)'
             /\ \A engine \in Engines \ {stage} : ran'[engine] = ran[engine]
  <2>1. Len(ran[stage]) = at - 1
    BY DEF CallAt
  <2>2. /\ at' = at + 1
        /\ DOMAIN ran' = Engines
        /\ \A engine \in Engines : IsSeq(ran'[engine])
        /\ \A engine \in Engines \ {stage} : ran'[engine] = ran[engine]
        /\ Len(ran'[stage]) = at
        /\ DOMAIN ran'[stage] = DOMAIN ran[stage] \cup {at}
        /\ \A n \in DOMAIN ran[stage] : n # at /\ ran'[stage][n] = ran[stage][n]
        /\ ran'[stage][at] = result
    BY <1>6, <2>1, DoneFacts
  <2>3. \A n : Used(n)' = Used(n)
    BY DEF Used, Tally
  <2>4. ASSUME NEW engine \in Engines, NEW n \in DOMAIN ran'[engine]
        PROVE  /\ n \in DOMAIN events
               /\ events[n].type = "limit" => ran'[engine][n].id = Used(n)
    <3>1. CASE engine = stage /\ n = at
      BY <1>1, <1>6, <2>2, <3>1
    <3>2. CASE engine # stage \/ n # at
      BY <2>2, <2>4, <3>2 DEF RanOK
    <3> QED
      BY <3>1, <3>2
  <2>5. RanOK'
    BY <2>2, <2>3, <2>4 DEF RanOK
  <2>6. CallAt(stage, c2, nx2)'
    <3>1. Len(ran'[stage]) = at' - 1 /\ at' - 1 = at /\ at' <= Len(events) + 1
      BY <1>1, <2>2
    <3>2. Used(at - 1)' = Used(at)
      BY <3>1 DEF Used, Tally
    <3> QED
      BY <1>6, <3>1, <3>2 DEF CallAt
  <2> QED
    BY <2>2, <2>5, <2>6
<1>7. CASE /\ c.pc = "match" /\ c2.pc = "idle" /\ nx2 = nx
           /\ \E fills : EventDone(Filled(c.id, fills))
  <2>1. PICK fills : EventDone(Filled(c.id, fills))
    BY <1>7
  <2>2. nx2 = 1 + Used(at) /\ c.id = Used(at)
    BY <1>2, <1>7 DEF CallAt
  <2> QED
    BY <1>6, <1>7, <2>1, <2>2 DEF Filled
<1>8. CASE /\ c.pc = "idle" /\ c2.pc = "idle" /\ nx2 = nx
           /\ Event.type = "cancel"
           /\ \E found : EventDone(Cancelled(found))
  <2>1. PICK found : EventDone(Cancelled(found))
    BY <1>8
  <2>2. nx2 = 1 + Used(at)
    BY <1>2, <1>8 DEF CallAt
  <2> QED
    BY <1>6, <1>8, <2>1, <2>2
<1> QED
  BY <1>4, <1>5, <1>7, <1>8 DEF EngineStep

PcOK == b_call.pc \in {"idle", "match"} /\ call.pc \in {"idle", "match"}

IdsInv == IdsOK /\ PcOK

LEMMA IdsInductive == GenOK /\ AtOK /\ IdsInv /\ [RNext]_rvars => IdsInv'
<1> SUFFICES ASSUME GenOK, AtOK, IdsInv, [RNext]_rvars PROVE IdsInv'
  OBVIOUS
<1>1. IdsOK /\ PcOK /\ RanOK
  BY DEF IdsInv, IdsOK
<1>2. CASE run_baseline
  <2>1. /\ stage = "baseline" /\ at <= Len(events) /\ stage' = stage
        /\ UNCHANGED <<events, call, next_id>>
    BY <1>2 DEF run_baseline, Running, vars, gvars
  <2>2. PICK c, nx, c2, nx2 : c = b_call /\ nx = b_next_id /\ c2 = b_call' /\ nx2 = b_next_id'
    OBVIOUS
  <2>3. EngineStep(c, nx, c2, nx2)
    BY <1>2, <2>2, BaselineSteps
  <2>4. c.pc \in {"idle", "match"} /\ c2.pc \in {"idle", "match"}
    BY <1>1, <2>2, <2>3 DEF PcOK, EngineStep
  <2>5. CallAt(stage, c, nx) /\ stage \in Engines
    BY <1>1, <2>1, <2>2 DEF IdsOK, Engines
  <2>6. /\ RanOK' /\ CallAt(stage, c2, nx2)'
        /\ \A engine \in Engines \ {stage} : ran'[engine] = ran[engine]
    BY <1>1, <2>1, <2>3, <2>4, <2>5, StepKeepsIds
  <2>7. ran'["optimized"] = ran["optimized"]
    BY <2>1, <2>6 DEF Engines
  <2>8. CallAt("baseline", b_call, b_next_id)'
    BY <2>1, <2>2, <2>6 DEF CallAt
  <2> QED
    BY <1>1, <2>1, <2>2, <2>4, <2>6, <2>7, <2>8 DEF IdsInv, IdsOK, PcOK
<1>3. CASE run_optimized
  <2>1. /\ stage = "optimized" /\ at <= Len(events) /\ stage' = stage
        /\ UNCHANGED <<events, b_call, b_next_id>>
    BY <1>3 DEF run_optimized, Running, bvars, gvars
  <2>2. PICK c, nx, c2, nx2 : c = call /\ nx = next_id /\ c2 = call' /\ nx2 = next_id'
    OBVIOUS
  <2>3. EngineStep(c, nx, c2, nx2)
    BY <1>3, <2>2, OptimizedSteps
  <2>4. c.pc \in {"idle", "match"} /\ c2.pc \in {"idle", "match"}
    BY <1>1, <2>2, <2>3 DEF PcOK, EngineStep
  <2>5. CallAt(stage, c, nx) /\ stage \in Engines
    BY <1>1, <2>1, <2>2 DEF IdsOK, Engines
  <2>6. RanOK' /\ CallAt(stage, c2, nx2)'
    BY <1>1, <2>1, <2>3, <2>4, <2>5, StepKeepsIds
  <2>7. CallAt("optimized", call, next_id)'
    BY <2>1, <2>2, <2>6 DEF CallAt
  <2> QED
    BY <1>1, <2>1, <2>2, <2>4, <2>6, <2>7 DEF IdsInv, IdsOK, PcOK
<1>4. CASE Generate
  <2>1. /\ stage = "generate" /\ stage' = stage
        /\ UNCHANGED <<ran, call, next_id, b_call, b_next_id>>
    BY <1>4 DEF Generate, vars, bvars
  <2>2. ASSUME NEW engine \in Engines PROVE DOMAIN ran[engine] = {}
    <3>1. IsSeq(ran[engine]) /\ Len(ran[engine]) = 0
      BY <1>1, <2>1 DEF RanOK, IdsOK
    <3> QED
      BY <3>1, SeqFacts
  <2>3. RanOK'
    BY <1>1, <2>1, <2>2 DEF RanOK
  <2> QED
    BY <1>1, <2>1, <2>3 DEF IdsInv, IdsOK, PcOK
<1>5. CASE Proceed
  <2>1. at' = 1 /\ UNCHANGED <<ran, events, call, next_id, b_call, b_next_id>>
    BY <1>5 DEF Proceed, vars, bvars, gvars
  <2>2. Used(at - 1)' = 0
    <3>1. at' - 1 = 0 /\ at' = 1
      BY <2>1
    <3>2. Tally(events, "limit", 0) = 0 /\ Tally(events, "market", 0) = 0
      BY TallyFacts
    <3> QED
      BY <2>1, <3>1, <3>2 DEF Used
  <2>3. RanOK' /\ Len(events) \in Nat
    BY <1>1, <2>1 DEF RanOK, Used, Tally, GenOK
  <2>4. CASE stage = "generate" /\ stage' = "baseline"
    <3>1. CallAt("baseline", b_call, b_next_id)'
      BY <1>1, <2>1, <2>2, <2>3, <2>4 DEF CallAt, IdsOK, Engines
    <3> QED
      BY <1>1, <2>1, <2>3, <2>4, <3>1 DEF IdsInv, IdsOK, PcOK
  <2>5. CASE stage = "baseline" /\ stage' = "optimized"
    <3>1. CallAt("optimized", call, next_id)'
      BY <1>1, <2>1, <2>2, <2>3, <2>5 DEF CallAt, IdsOK, Engines
    <3> QED
      BY <1>1, <2>1, <2>3, <2>5, <3>1 DEF IdsInv, IdsOK, PcOK
  <2>6. CASE stage' = "reported"
    BY <1>1, <2>1, <2>3, <2>6 DEF IdsInv, IdsOK, PcOK
  <2> QED
    BY <1>5, <2>4, <2>5, <2>6 DEF Proceed
<1>6. CASE OptimizedThrows
  <2>1. stage' = "threw" /\ UNCHANGED <<ran, events, b_call>> /\ call'.pc = "idle"
    BY <1>6 DEF OptimizedThrows, bvars, gvars, RestThrows, IdleCall
  <2> QED
    BY <1>1, <2>1 DEF IdsInv, IdsOK, PcOK, RanOK, Used, Tally
<1>7. CASE UNCHANGED rvars
  <2>1. UNCHANGED <<stage, at, ran, events, call, next_id, b_call, b_next_id>>
    BY <1>7 DEF rvars, vars, gvars, bvars
  <2>2. RanOK'
    BY <1>1, <2>1 DEF RanOK, Used, Tally
  <2>4. IdsOK'
    BY <1>1, <2>1, <2>2 DEF IdsOK, CallAt, Used, Tally
  <2>3. PcOK'
    BY <1>1, <2>1 DEF PcOK
  <2> QED
    BY <2>3, <2>4 DEF IdsInv
<1> QED
  BY <1>2, <1>3, <1>4, <1>5, <1>6, <1>7 DEF RNext

LEMMA IdsInit == RInit => IdsInv
<1> SUFFICES ASSUME RInit PROVE IdsInv
  OBVIOUS
<1>1. /\ stage = "generate" /\ next_id = 1 /\ b_next_id = 1
      /\ call.pc = "idle" /\ b_call.pc = "idle"
      /\ ran = [engine \in Engines |-> <<>>]
  BY DEF RInit, Init, IdleCall, Baseline!Init, Baseline!IdleCall, Engines
<1>2. IsSeq(<<>>) /\ Len(<<>>) = 0 /\ DOMAIN <<>> = {}
  BY DEF IsSeq
<1> QED
  BY <1>1, <1>2 DEF IdsInv, IdsOK, PcOK, RanOK, Engines

LEMMA IdsInvariance == RSpec => []IdsInv
BY IdsInit, IdsInductive, GenInvariance, EngineRuns, PTL DEF RSpec

Markets(n) == Cardinality({k \in 1..n : events[k].type = "market"})

\* By how much the id of a limit event falls short of the id of its order.
LagIsMarkets ==
    \A engine \in DOMAIN ran : \A n \in DOMAIN ran[engine] :
       events[n].type = "limit" => ran[engine][n].id = events[n].id + Markets(n)

\* The ids of the events fall behind those of the engines by one for every market
\* order and by nothing else, whatever trades or fails in between.  This is what
\* breaks CancelsReferenceOrders: after the first market order a cancel with the id
\* of a limit event names an older order, or a market order, and not the order of
\* that event (workload_generator.hpp:104, :119, :133).
THEOREM IdsLagByMarkets == RSpec => []LagIsMarkets
<1>1. ASSUME GenOK, IdsInv PROVE LagIsMarkets
  <2>1. ASSUME NEW engine \in DOMAIN ran, NEW n \in DOMAIN ran[engine],
               events[n].type = "limit"
        PROVE  ran[engine][n].id = events[n].id + Markets(n)
    <3>1. n \in DOMAIN events /\ ran[engine][n].id = Used(n)
      BY <1>1, <2>1 DEF IdsInv, IdsOK, RanOK
    <3>2. events[n].id = Tally(events, "limit", n)
      BY <1>1, <2>1, <3>1 DEF GenOK
    <3> QED
      BY <3>1, <3>2 DEF Used, Markets, Tally
  <2> QED
    BY <2>1 DEF LagIsMarkets
<1> QED
  BY <1>1, GenInvariance, IdsInvariance, PTL

-----------------------------------------------------------------------------
(* The two sides of the workload.                                           *)

Fits ==
    PriceLevels * Tick < MidPrice /\ MidPrice + PriceLevels * Tick <= MaxPrice

\* A price of an order of this side: short of the middle.
Away(side, p) ==
    p \in Nat /\ IF side = "Buy" THEN 0 < p /\ p < MidPrice ELSE MidPrice < p

EventsAway ==
    \A n \in DOMAIN events :
       events[n].type = "limit" => Away(events[n].side, events[n].price)

OptimizedAway == \A side \in Side : \A p \in DOMAIN levels[side] : Away(side, p)

BaselineAway ==
    /\ DOMAIN b_levels = Side
    /\ \A side \in Side : \A p \in DOMAIN b_levels[side] : Away(side, p)
    /\ \A i \in DOMAIN b_index : b_index[i].side \in Side
                                 /\ Away(b_index[i].side, b_index[i].price)

\* A limit order in the loop of an engine has traded with nobody.
CallAway(c, fills, type) ==
    c.pc = "match" =>
       IF c.is_market THEN type = "market"
       ELSE c.side \in Side /\ Away(c.side, c.price) /\ fills = <<>>

RanAway ==
    \A engine \in Engines : \A n \in DOMAIN ran[engine] :
       ran[engine][n].fills # <<>> => events[n].type = "market"

SplitOK ==
    /\ EventsAway /\ OptimizedAway /\ BaselineAway /\ RanAway
    /\ stage = "baseline" => CallAway(b_call, b_out, Event.type)
    /\ stage = "optimized" => CallAway(call, out, Event.type)

\* Levels that fit keep each side of the workload on its side of the middle.
LEMMA PriceAway ==
    ASSUME Fits, NEW side \in Side, NEW level \in 0..(PriceLevels - 1)
    PROVE  Away(side, PriceAt(side, level))
<1> DEFINE d == (level + 1) * Tick
           e == PriceLevels * Tick
<1>1. d \in Nat /\ d > 0 /\ d <= e /\ e \in Nat
  <2>1. PICK k \in Nat : PriceLevels = level + 1 + k
    <3>1. PriceLevels - level - 1 \in Nat /\ PriceLevels = level + 1 + (PriceLevels - level - 1)
      BY ConfigFacts
    <3> QED
      BY <3>1
  <2>2. Tick \in Nat /\ Tick > 0 /\ level \in Nat
    BY ConfigFacts
  <2>3. e = d + k * Tick
    BY <2>1, <2>2
  <2>4. k * Tick \in Nat /\ level * Tick \in Nat /\ d = level * Tick + Tick
    BY <2>1, <2>2
  <2> HIDE DEF d, e
  <2> QED
    BY <2>2, <2>3, <2>4
<1>2. e < MidPrice /\ MidPrice + e <= MaxPrice
  BY DEF Fits
<1>3. PriceAt(side, level) = (IF side = "Buy" THEN MidPrice - d ELSE MidPrice + d)
                             % (MaxPrice + 1)
  BY DEF PriceAt, Word
<1> HIDE DEF d, e
<1>4. \A x \in 0..MaxPrice : x % (MaxPrice + 1) = x
  BY ConfigFacts
<1>5. MidPrice - d \in 0..MaxPrice /\ MidPrice + d \in 0..MaxPrice
  BY <1>1, <1>2, ConfigFacts
<1>6. PriceAt(side, level) = IF side = "Buy" THEN MidPrice - d ELSE MidPrice + d
  BY <1>3, <1>4, <1>5
<1> QED
  BY <1>1, <1>2, <1>5, <1>6, ConfigFacts DEF Away

\* Orders on their own sides do not cross.
LEMMA NoCross ==
    ASSUME NEW side \in Side, NEW p, NEW q, Away(Opposite(side), p), Away(side, q)
    PROVE  ~Ahead(Opposite(side), p, q) /\ q # 0
BY ConfigFacts DEF Away, Ahead, Opposite, Side

LEMMA RanAwayAfter ==
    ASSUME AtOK, RanOK, RanAway, stage \in Engines, Len(ran[stage]) = at - 1,
           UNCHANGED <<events, stage>>, NEW result, EventDone(result),
           result.fills # <<>> => Event.type = "market"
    PROVE  RanAway'
<1>1. /\ at' = at + 1
      /\ \A engine \in Engines \ {stage} : ran'[engine] = ran[engine]
      /\ DOMAIN ran'[stage] = DOMAIN ran[stage] \cup {at}
      /\ \A n \in DOMAIN ran[stage] : n # at /\ ran'[stage][n] = ran[stage][n]
      /\ ran'[stage][at] = result
  BY DoneFacts
<1>2. ASSUME NEW engine \in Engines, NEW n \in DOMAIN ran'[engine],
             ran'[engine][n].fills # <<>>
      PROVE  events[n].type = "market"
  <2>1. CASE engine = stage /\ n = at
    BY <1>1, <1>2, <2>1 DEF Event
  <2>2. CASE engine # stage \/ n # at
    BY <1>1, <1>2, <2>2 DEF RanAway
  <2> QED
    BY <2>1, <2>2
<1> QED
  BY <1>2 DEF RanAway

\* Erasing a level, or changing one, brings no price into the map.
LEMMA BaselineLevels ==
    ASSUME DOMAIN b_levels = Side, NEW side \in Side, NEW p, NEW lvl,
           b_levels' = Baseline!PutLevel(side, p, lvl)
    PROVE  /\ DOMAIN b_levels' = Side
           /\ \A s \in Side \ {side} : b_levels'[s] = b_levels[s]
           /\ DOMAIN b_levels'[side] \subseteq DOMAIN b_levels[side] \cup {p}
<1>1. PICK m : /\ b_levels' = [b_levels EXCEPT ![side] = m]
               /\ \/ m = Baseline!Without(b_levels[side], p)
                  \/ m = Baseline!With(b_levels[side], p, lvl)
  BY DEF Baseline!PutLevel
<1>2. DOMAIN m \subseteq DOMAIN b_levels[side] \cup {p}
  BY <1>1 DEF Baseline!Without, Baseline!Restrict, Baseline!With
<1> QED
  BY <1>1, <1>2

LEMMA BaselineKeepsAway ==
    ASSUME Fits, GenOK, AtOK, IdsInv, SplitOK, run_baseline
    PROVE  SplitOK'
<1>1. /\ stage = "baseline" /\ at <= Len(events) /\ stage' = stage
      /\ UNCHANGED <<events, levels>>
      /\ at \in DOMAIN events /\ Event.side \in Side
  BY EventTyped DEF run_baseline, Running, vars, gvars, AtOK
<1>2. /\ RanOK /\ stage \in Engines /\ Len(ran[stage]) = at - 1
      /\ CallAway(b_call, b_out, Event.type)
      /\ BaselineAway /\ RanAway /\ EventsAway /\ OptimizedAway
  BY <1>1 DEF IdsInv, IdsOK, CallAt, SplitOK, Engines
<1>3. ASSUME BaselineAway', CallAway(b_call, b_out, Event.type)', RanAway' PROVE SplitOK'
  BY <1>1, <1>2, <1>3 DEF SplitOK, EventsAway, OptimizedAway
<1>4. ASSUME UNCHANGED ran PROVE RanAway'
  BY <1>1, <1>2, <1>4 DEF RanAway
<1>5. CASE /\ \/ Event.type = "limit"
                 /\ Baseline!submit_limit(Event.side, Event.price, Event.qty)
              \/ Event.type = "market" /\ Baseline!submit_market(Event.side, Event.qty)
           /\ UNCHANGED <<at, ran>>
  <2>1. BaselineAway'
    BY <1>2, <1>5 DEF Baseline!submit_limit, Baseline!submit_market, Baseline!Begin,
       BaselineAway
  <2>2. ASSUME Event.type = "limit",
               Baseline!submit_limit(Event.side, Event.price, Event.qty)
        PROVE  CallAway(b_call, b_out, Event.type)'
    <3>1. PICK c2, f2, side, price :
             /\ c2 = b_call' /\ f2 = b_out' /\ side = Event.side /\ price = Event.price
             /\ c2.is_market = FALSE /\ c2.side = side /\ c2.price = price /\ f2 = <<>>
      BY <2>2 DEF Baseline!submit_limit, Baseline!Begin
    <3>2. PICK e : e = Event /\ e = events[at]
      BY DEF Event
    <3>3. side \in Side /\ Away(side, price)
      BY <1>1, <1>2, <2>2, <3>1, <3>2 DEF EventsAway
    <3>4. \A type : CallAway(c2, f2, type)
      BY <3>1, <3>3 DEF CallAway
    <3> QED
      BY <3>1, <3>4
  <2>3. ASSUME Event.type = "market", Baseline!submit_market(Event.side, Event.qty)
        PROVE  CallAway(b_call, b_out, Event.type)'
    <3>1. b_call'.is_market = TRUE
      BY <2>3 DEF Baseline!submit_market, Baseline!Begin
    <3>2. Event' = Event
      BY <1>1, <1>5 DEF Event
    <3>3. Event'.type = "market"
      BY <2>3, <3>2
    <3> QED
      BY <3>1, <3>3 DEF CallAway
  <2>4. CallAway(b_call, b_out, Event.type)'
    BY <1>5, <2>2, <2>3
  <2> QED
    BY <1>3, <1>4, <1>5, <2>1, <2>4
<1>6. CASE (\E p \in Prices : Baseline!consume_best(p)) /\ UNCHANGED <<at, ran>>
  <2>1. PICK p \in Prices : Baseline!consume_best(p)
    BY <1>6
  <2>2. /\ b_call.pc = "match" /\ p \in DOMAIN b_levels[Opposite(b_call.side)]
        /\ Baseline!Crosses(p)
    BY <2>1 DEF Baseline!consume_best, Baseline!Matching, Baseline!IsBegin,
       Baseline!Opposite, Opposite
  <2>3. Opposite(b_call.side) \in Side
    BY DEF Opposite, Side
  <2>4. Away(Opposite(b_call.side), p)
    BY <1>2, <2>2, <2>3 DEF BaselineAway
  <2>5. b_call.is_market
    <3>1. SUFFICES ASSUME ~b_call.is_market PROVE FALSE
      OBVIOUS
    <3>2. b_call.side \in Side /\ Away(b_call.side, b_call.price)
      BY <1>2, <2>2, <3>1 DEF CallAway
    <3>3. ~Ahead(Opposite(b_call.side), p, b_call.price) /\ b_call.price # 0
      BY <2>4, <3>2, NoCross
    <3> QED
      BY <2>2, <3>3 DEF Baseline!Crosses, Baseline!Ahead, Baseline!Opposite, Ahead, Opposite
  <2>6. /\ Event.type = "market" /\ b_call'.is_market = b_call.is_market
        /\ Event' = Event
    <3>1. Event.type = "market"
      BY <1>2, <2>2, <2>5 DEF CallAway
    <3>2. PICK q : b_call' = [b_call EXCEPT !.qty = q]
      BY <2>1 DEF Baseline!consume_best
    <3>3. DOMAIN b_call' = DOMAIN b_call /\ b_call'.is_market = b_call.is_market
      BY <3>2
    <3>4. Event' = Event
      BY <1>1, <1>6 DEF Event
    <3> QED
      BY <3>1, <3>3, <3>4
  <2>7. PICK lvl : b_levels' = Baseline!PutLevel(Opposite(b_call.side), p, lvl)
    BY <2>1 DEF Baseline!consume_best, Baseline!Opposite, Opposite
  <2>8. PICK i : b_index' = b_index \/ b_index' = Baseline!Without(b_index, i)
    BY <2>1 DEF Baseline!consume_best
  <2>9. \A j \in DOMAIN b_index' : j \in DOMAIN b_index /\ b_index'[j] = b_index[j]
    BY <2>8 DEF Baseline!Without, Baseline!Restrict
  <2>10. BaselineAway'
    BY <1>2, <2>2, <2>3, <2>4, <2>7, <2>9, BaselineLevels DEF BaselineAway
  <2> QED
    BY <1>3, <1>4, <1>6, <2>5, <2>6, <2>10 DEF CallAway
<1>7. CASE Baseline!add_order /\ EventDone(Filled(b_call.id, b_out))
  <2>1. /\ b_call.pc = "match" /\ ~b_call.is_market /\ b_call'.pc = "idle"
        /\ b_index' = Baseline!With(b_index, b_call.id, [side |-> b_call.side,
                                                         price |-> b_call.price])
    BY <1>7 DEF Baseline!add_order, Baseline!MatchOver, Baseline!Matching,
       Baseline!HasRemainder, Baseline!IdleCall
  <2>2. PICK lvl : b_levels' = Baseline!PutLevel(b_call.side, b_call.price, lvl)
    BY <1>7 DEF Baseline!add_order
  <2>3. b_call.side \in Side /\ Away(b_call.side, b_call.price) /\ b_out = <<>>
    BY <1>2, <2>1 DEF CallAway
  <2>4. \A j \in DOMAIN b_index' :
           \/ b_index'[j].side = b_call.side /\ b_index'[j].price = b_call.price
           \/ j \in DOMAIN b_index /\ b_index'[j] = b_index[j]
    BY <2>1 DEF Baseline!With
  <2>5. BaselineAway'
    BY <1>2, <2>2, <2>3, <2>4, BaselineLevels DEF BaselineAway
  <2>6. RanAway'
    BY <1>1, <1>2, <1>7, <2>3, RanAwayAfter DEF Filled
  <2> QED
    BY <1>3, <2>1, <2>5, <2>6 DEF CallAway
<1>8. CASE Baseline!Return /\ EventDone(Filled(b_call.id, b_out))
  <2>1. /\ b_call.pc = "match" /\ b_call'.pc = "idle"
        /\ UNCHANGED <<b_levels, b_index>>
    BY <1>8 DEF Baseline!Return, Baseline!MatchOver, Baseline!Matching, Baseline!IdleCall
  <2>2. b_out # <<>> => Event.type = "market"
    BY <1>2, <2>1 DEF CallAway
  <2>3. RanAway'
    BY <1>1, <1>2, <1>8, <2>2, RanAwayAfter DEF Filled
  <2> QED
    BY <1>2, <1>3, <2>1, <2>3 DEF CallAway, BaselineAway
<1>9. CASE /\ Event.type = "cancel"
           /\ Baseline!cancel(Event.id) \/ Baseline!cancel_miss(Event.id)
           /\ EventDone(Cancelled(Event.id \in DOMAIN b_index))
  <2>1. b_call'.pc = "idle"
    BY <1>9 DEF Baseline!cancel, Baseline!cancel_miss, Baseline!vars
  <2>2. RanAway'
    BY <1>1, <1>2, <1>9, RanAwayAfter DEF Cancelled
  <2>3. CASE Baseline!cancel_miss(Event.id)
    <3>1. UNCHANGED <<b_levels, b_index>>
      BY <2>3 DEF Baseline!cancel_miss, Baseline!vars
    <3> QED
      BY <1>2, <1>3, <2>1, <2>2, <3>1 DEF CallAway, BaselineAway
  <2>4. CASE Baseline!cancel(Event.id)
    <3>1. PICK i : i \in DOMAIN b_index /\ b_index' = Baseline!Without(b_index, i)
                   /\ \E lvl : b_levels' = Baseline!PutLevel(b_index[i].side,
                                                             b_index[i].price, lvl)
      BY <2>4 DEF Baseline!cancel
    <3>2. b_index[i].side \in Side /\ Away(b_index[i].side, b_index[i].price)
      BY <1>2, <3>1 DEF BaselineAway
    <3>3. \A j \in DOMAIN b_index' : j \in DOMAIN b_index /\ b_index'[j] = b_index[j]
      BY <3>1 DEF Baseline!Without, Baseline!Restrict
    <3>4. BaselineAway'
      BY <1>2, <3>1, <3>2, <3>3, BaselineLevels DEF BaselineAway
    <3> QED
      BY <1>3, <2>1, <2>2, <3>4 DEF CallAway
  <2> QED
    BY <1>9, <2>3, <2>4
<1> QED
  BY <1>5, <1>6, <1>7, <1>8, <1>9 DEF run_baseline
LEMMA OptimizedKeepsAway ==
    ASSUME Fits, GenOK, AtOK, IInv, IdsInv, SplitOK, run_optimized
    PROVE  SplitOK'
<1>1. /\ stage = "optimized" /\ at <= Len(events) /\ stage' = stage
      /\ UNCHANGED <<events, b_levels, b_index>>
      /\ at \in DOMAIN events /\ Event.side \in Side
  BY EventTyped DEF run_optimized, Running, bvars, gvars, AtOK
<1>2. /\ RanOK /\ stage \in Engines /\ Len(ran[stage]) = at - 1
      /\ CallAway(call, out, Event.type)
      /\ BaselineAway /\ RanAway /\ EventsAway /\ OptimizedAway
  BY <1>1 DEF IdsInv, IdsOK, CallAt, SplitOK, Engines
<1>3. ASSUME OptimizedAway', CallAway(call, out, Event.type)', RanAway' PROVE SplitOK'
  <2>1. EventsAway' /\ BaselineAway'
    BY <1>1, <1>2 DEF EventsAway, BaselineAway
  <2> QED
    BY <1>1, <1>3, <2>1 DEF SplitOK
<1>4. ASSUME UNCHANGED ran PROVE RanAway'
  BY <1>1, <1>2, <1>4 DEF RanAway
<1>5. TypeOK /\ IndexOK /\ QueuesFIFO /\ FreeListOK
  BY DEF IInv
<1>6. ASSUME NEW o \in Live, NEW q \in Nat, remove_and_release(o, q) PROVE OptimizedAway'
  <2>1. PICK sd, pr : sd = order[o].side /\ pr = order[o].price
    OBVIOUS
  <2>2. \A side \in Side : DOMAIN levels'[side] \subseteq DOMAIN levels[side]
    BY <1>5, <1>6, <2>1, LevelsAfterRemove
  <2> QED
    BY <1>2, <2>2 DEF OptimizedAway
<1>7. CASE /\ \/ /\ Event.type = "limit"
                 /\ submit_limit(Event.side, Event.price, Event.qty)
              \/ Event.type = "market" /\ submit_market(Event.side, Event.qty)
           /\ UNCHANGED <<at, ran>>
  <2>1. OptimizedAway'
    BY <1>2, <1>7 DEF submit_limit, submit_market, Begin, OptimizedAway
  <2>2. ASSUME Event.type = "limit", submit_limit(Event.side, Event.price, Event.qty)
        PROVE  CallAway(call, out, Event.type)'
    <3>1. PICK c2, f2, side, price :
             /\ c2 = call' /\ f2 = out' /\ side = Event.side /\ price = Event.price
             /\ c2.is_market = FALSE /\ c2.side = side /\ c2.price = price /\ f2 = <<>>
      BY <2>2 DEF submit_limit, Begin
    <3>2. PICK e : e = Event /\ e = events[at]
      BY DEF Event
    <3>3. side \in Side /\ Away(side, price)
      BY <1>1, <1>2, <2>2, <3>1, <3>2 DEF EventsAway
    <3>4. \A type : CallAway(c2, f2, type)
      BY <3>1, <3>3 DEF CallAway
    <3> QED
      BY <3>1, <3>4
  <2>3. ASSUME Event.type = "market", submit_market(Event.side, Event.qty)
        PROVE  CallAway(call, out, Event.type)'
    <3>1. call'.is_market = TRUE
      BY <2>3 DEF submit_market, Begin
    <3>2. Event' = Event
      BY <1>1, <1>7 DEF Event
    <3>3. Event'.type = "market"
      BY <2>3, <3>2
    <3> QED
      BY <3>1, <3>3 DEF CallAway
  <2>4. CallAway(call, out, Event.type)'
    BY <1>7, <2>2, <2>3
  <2> QED
    BY <1>3, <1>4, <1>7, <2>1, <2>4
<1>8. CASE /\ \E p \in Prices, o \in Slots : FillMaker(p, o) \/ FillTaker(p, o)
           /\ UNCHANGED <<at, ran>>
  <2>1. PICK p \in Prices, o \in Slots : FillMaker(p, o) \/ FillTaker(p, o)
    BY <1>8
  <2>2. RecordFill(p, o)
    BY <2>1 DEF FillMaker, FillTaker
  <2>3. PICK f : f = FillQty(o)
    OBVIOUS
  <2>4. o \in Live /\ Opposite(call.side) \in Side /\ f \in Nat
    BY <1>5, <2>2, <2>3, FillFacts
  <2>5. /\ call.pc = "match" /\ p \in DOMAIN levels[Opposite(call.side)]
        /\ Crosses(p)
    BY <2>2 DEF RecordFill, Matching, IsBegin
  <2>6. Away(Opposite(call.side), p)
    BY <1>2, <2>4, <2>5 DEF OptimizedAway
  <2>7. call.is_market
    <3>1. SUFFICES ASSUME ~call.is_market PROVE FALSE
      OBVIOUS
    <3>2. call.side \in Side /\ Away(call.side, call.price)
      BY <1>2, <2>5, <3>1 DEF CallAway
    <3>3. ~Ahead(Opposite(call.side), p, call.price)
      BY <2>6, <3>2, NoCross
    <3> QED
      BY <2>5, <3>1, <3>3 DEF Crosses
  <2>8. Event.type = "market" /\ call'.is_market = call.is_market /\ Event' = Event
    <3>1. Event.type = "market"
      BY <1>2, <2>5, <2>7 DEF CallAway
    <3>2. PICK q : call' = [call EXCEPT !.qty = q]
      BY <2>2 DEF RecordFill
    <3>3. DOMAIN call' = DOMAIN call /\ call'.is_market = call.is_market
      BY <3>2
    <3>4. Event' = Event
      BY <1>1, <1>8 DEF Event
    <3> QED
      BY <3>1, <3>3, <3>4
  <2>9. CASE FillMaker(p, o)
    <3>1. OptimizedAway'
      BY <1>6, <2>3, <2>4, <2>9 DEF FillMaker
    <3> QED
      BY <1>3, <1>4, <1>8, <2>7, <2>8, <3>1 DEF CallAway
  <2>10. CASE FillTaker(p, o)
    <3>1. PICK lvl : levels' = [levels EXCEPT ![Opposite(call.side)][p] = lvl]
      BY <2>10 DEF FillTaker
    <3>2. \A side \in Side : DOMAIN levels'[side] = DOMAIN levels[side]
      BY <1>5, <3>1 DEF TypeOK
    <3>3. OptimizedAway'
      BY <1>2, <3>2 DEF OptimizedAway
    <3> QED
      BY <1>3, <1>4, <1>8, <2>7, <2>8, <3>3 DEF CallAway
  <2> QED
    BY <2>1, <2>9, <2>10
<1>9. CASE Rest /\ EventDone(Filled(call.id, out))
  <2>1. call.pc = "match" /\ ~call.is_market /\ call'.pc = "idle"
    BY <1>9 DEF Rest, MatchOver, Matching, HasRemainder, IdleCall
  <2>2. call.side \in Side /\ Away(call.side, call.price) /\ out = <<>>
    BY <1>2, <2>1 DEF CallAway
  <2>3. PICK o, sd, pr : o = free_head /\ sd = call.side /\ pr = call.price
    OBVIOUS
  <2>4. /\ DOMAIN levels'[sd] = DOMAIN levels[sd] \cup {pr}
        /\ \A side \in Side \ {sd} : levels'[side] = levels[side]
    BY <1>5, <1>9, <2>3, LevelsAfterRest
  <2>5. OptimizedAway'
    BY <1>2, <2>2, <2>3, <2>4 DEF OptimizedAway
  <2>6. RanAway'
    BY <1>1, <1>2, <1>9, <2>2, RanAwayAfter DEF Filled
  <2> QED
    BY <1>3, <2>1, <2>5, <2>6 DEF CallAway
<1>10. CASE Return /\ EventDone(Filled(call.id, out))
  <2>1. call.pc = "match" /\ call'.pc = "idle" /\ levels' = levels
    BY <1>10 DEF Return, MatchOver, Matching, IdleCall
  <2>2. out # <<>> => Event.type = "market"
    BY <1>2, <2>1 DEF CallAway
  <2>3. RanAway'
    BY <1>1, <1>2, <1>10, <2>2, RanAwayAfter DEF Filled
  <2> QED
    BY <1>2, <1>3, <2>1, <2>3 DEF CallAway, OptimizedAway
<1>11. CASE /\ Event.type = "cancel"
            /\ cancel(Event.id) \/ cancel_miss(Event.id)
            /\ EventDone(Cancelled(Event.id \in DOMAIN index))
  <2>1. call'.pc = "idle"
    BY <1>11 DEF cancel, cancel_miss, vars
  <2>2. RanAway'
    BY <1>1, <1>2, <1>11, RanAwayAfter DEF Cancelled
  <2>3. CASE cancel_miss(Event.id)
    BY <1>2, <1>3, <2>1, <2>2, <2>3 DEF cancel_miss, vars, CallAway, OptimizedAway
  <2>4. CASE cancel(Event.id)
    <3>1. PICK o, q : /\ o = index[Event.id] /\ q = order[o].quantity
                      /\ remove_and_release(o, q) /\ Event.id \in DOMAIN index
      BY <2>4 DEF cancel
    <3>2. o \in Live /\ order[o] \in OrderRec
      BY <1>5, <3>1, LiveFacts
    <3>3. q \in Nat
      BY <3>1, <3>2, OrderAssumption DEF OrderRec, Qtys
    <3> QED
      BY <1>3, <1>6, <2>1, <2>2, <3>1, <3>2, <3>3 DEF CallAway
  <2> QED
    BY <1>11, <2>3, <2>4
<1> QED
  BY <1>7, <1>8, <1>9, <1>10, <1>11 DEF run_optimized

LEMMA SplitInductive ==
    GenOK /\ AtOK /\ IInv /\ IdsInv /\ (Fits => SplitOK) /\ [RNext]_rvars
       => (Fits => SplitOK')
<1> SUFFICES ASSUME GenOK, AtOK, IInv, IdsInv, Fits, SplitOK, [RNext]_rvars
             PROVE  SplitOK'
  OBVIOUS
<1>1. CASE run_baseline
  BY <1>1, BaselineKeepsAway
<1>2. CASE run_optimized
  BY <1>2, OptimizedKeepsAway
<1>3. CASE Generate
  <2>1. /\ stage = "generate" /\ stage' = stage /\ generate
        /\ UNCHANGED <<levels, b_levels, b_index, ran>>
    BY <1>3 DEF Generate, vars, bvars
  <2>2. PICK rec : /\ events' = Append(events, rec)
                   /\ rec.type = "limit" => Away(rec.side, rec.price)
    <3>1. ASSUME NEW side \in Side, NEW qty \in QtyMin..MaxQty,
                 NEW level \in 0..(PriceLevels - 1), limit_event(side, level, qty)
          PROVE  \E rec : /\ events' = Append(events, rec)
                          /\ rec.type = "limit" => Away(rec.side, rec.price)
      <4>1. Away(side, PriceAt(side, level))
        BY PriceAway
      <4> QED
        BY <3>1, <4>1 DEF limit_event, Emit
    <3>2. ASSUME NEW side \in Side, NEW qty \in QtyMin..MaxQty, market_event(side, qty)
          PROVE  \E rec : /\ events' = Append(events, rec)
                          /\ rec.type = "limit" => Away(rec.side, rec.price)
      BY <3>2 DEF market_event, Emit
    <3>3. ASSUME NEW id \in gen_live, cancel_event(id)
          PROVE  \E rec : /\ events' = Append(events, rec)
                          /\ rec.type = "limit" => Away(rec.side, rec.price)
      BY <3>3 DEF cancel_event, Emit
    <3> QED
      BY <2>1, <3>1, <3>2, <3>3 DEF generate
  <2>3. EventsAway'
    <3>1. PICK s, r : s = events /\ r = events' /\ r = Append(s, rec)
      BY <2>2
    <3>2. IsSeq(s)
      BY <3>1, SeqFacts DEF GenOK, IsSeq
    <3>3. /\ DOMAIN r = DOMAIN s \cup {Len(s) + 1}
          /\ \A k \in DOMAIN s : r[k] = s[k]
          /\ r[Len(s) + 1] = rec
      BY <3>1, <3>2, AppendFacts
    <3> QED
      BY <2>2, <3>1, <3>3 DEF SplitOK, EventsAway
  <2>4. RanAway'
    <3>1. ASSUME NEW engine \in DOMAIN ran PROVE DOMAIN ran[engine] = {}
      <4>1. IsSeq(ran[engine]) /\ Len(ran[engine]) = 0
        BY <2>1, <3>1 DEF IdsInv, RanOK, IdsOK
      <4> QED
        BY <4>1, SeqFacts
    <3> QED
      BY <2>1, <3>1 DEF RanAway, IdsInv, IdsOK, RanOK
  <2> QED
    BY <2>1, <2>3, <2>4 DEF SplitOK, OptimizedAway, BaselineAway
<1>4. CASE Proceed
  <2>1. UNCHANGED <<levels, b_levels, b_index, ran, events, call, b_call>>
    BY <1>4 DEF Proceed, vars, bvars, gvars
  <2>2. stage' = "baseline" => b_call.pc = "idle"
    BY <1>4 DEF Proceed, IdsInv, IdsOK
  <2>3. stage' = "optimized" => call.pc = "idle"
    BY <1>4 DEF Proceed, IdsInv, IdsOK
  <2>4. /\ stage' = "baseline" => CallAway(b_call, b_out, Event.type)'
        /\ stage' = "optimized" => CallAway(call, out, Event.type)'
    BY <2>1, <2>2, <2>3 DEF CallAway
  <2> QED
    BY <2>1, <2>4 DEF SplitOK, OptimizedAway, BaselineAway, RanAway, EventsAway
<1>5. CASE OptimizedThrows
  BY <1>5 DEF OptimizedThrows, RestThrows, bvars, gvars, SplitOK, OptimizedAway,
     BaselineAway, RanAway, EventsAway
<1>6. CASE UNCHANGED rvars
  <2>1. /\ UNCHANGED <<stage, at, ran, events, levels, call, out>>
        /\ UNCHANGED <<b_levels, b_index, b_call, b_out>>
    BY <1>6 DEF rvars, vars, gvars, bvars
  <2>2. Event' = Event
    BY <2>1 DEF Event
  <2> QED
    BY <2>1, <2>2 DEF SplitOK, OptimizedAway, BaselineAway, RanAway, EventsAway
<1> QED
  BY <1>1, <1>2, <1>3, <1>4, <1>5, <1>6 DEF RNext

LEMMA SplitInit == RInit => SplitOK
<1> SUFFICES ASSUME RInit PROVE SplitOK
  OBVIOUS
<1>1. /\ stage = "generate" /\ events = <<>>
      /\ levels = [side \in Side |-> Empty] /\ b_levels = [side \in Side |-> Empty]
      /\ b_index = Empty
      /\ ran = [engine \in Engines |-> <<>>]
  BY DEF RInit, GInit, Init, Engines, Side, Empty, Baseline!Init, Baseline!Side,
     Baseline!Empty
<1>2. DOMAIN Empty = {} /\ DOMAIN <<>> = {}
  BY DEF Empty
<1> QED
  BY <1>1, <1>2 DEF SplitOK, EventsAway, OptimizedAway, BaselineAway, RanAway

\* While the levels fit between 0 and the middle price, and above it below the end
\* of the word, a limit order of the workload trades with nobody in either engine
\* (workload_generator.hpp:13): every fill has a market order as its taker.
THEOREM WorkloadLimitsRest == RSpec => []LimitsRest
<1>1. GenOK /\ IdsInv /\ (Fits => SplitOK) => LimitsRest
  <2> SUFFICES ASSUME GenOK, IdsInv, Fits => SplitOK, Fits,
                      NEW engine \in DOMAIN ran, NEW n \in DOMAIN ran[engine],
                      ran[engine][n].fills # <<>>
               PROVE  events[n].type = "market"
    BY DEF LimitsRest, Fits
  <2>1. engine \in Engines
    BY DEF IdsInv, IdsOK, RanOK
  <2> QED
    BY <2>1 DEF SplitOK, RanAway
<1>2. RInit => (Fits => SplitOK)
  BY SplitInit
<1>3. (Fits => SplitOK) /\ [RNext]_rvars /\ GenOK /\ AtOK /\ IInv /\ IdsInv
         => (Fits => SplitOK)'
  BY SplitInductive
<1> QED
  BY <1>1, <1>2, <1>3, GenInvariance, IdsInvariance, EngineRuns, Invariance, PTL DEF RSpec

-----------------------------------------------------------------------------
(* One book, and the runs of it by a list of events.                        *)

\* A run at a point: the book, the submission being executed and its fills, the
\* number of the event, and what the calls returned.
Point(nx, resting, c, fills, n, results) ==
    [nx |-> nx, resting |-> resting, c |-> c, fills |-> fills, n |-> n,
     results |-> results]

Start == Point(1, Empty, IdleCall, <<>>, 1, <<>>)

\* Order i is the one that submission c has to trade with.
MakerIn(resting, c, i) ==
    /\ i \in DOMAIN resting
    /\ resting[i].side = Opposite(c.side)
    /\ c.is_market \/ Ahead(Opposite(c.side), resting[i].price, c.price)
    /\ \A j \in DOMAIN resting \ {i} :
          resting[j].side = resting[i].side =>
             IF resting[i].price = resting[j].price
             THEN i < j
             ELSE Ahead(resting[i].side, resting[i].price, resting[j].price)

\* A submission under id; what is left of resting order i, of submission c and of
\* its fills when q units trade; the book with what is left of c at its end.
Asked(side, id, price, is_market, qty) ==
    [pc |-> "match", side |-> side, id |-> id, price |-> price,
     is_market |-> is_market, qty |-> qty]

Drawn(resting, i, q) ==
    IF q = resting[i].quantity
    THEN Without(resting, i)
    ELSE [resting EXCEPT ![i].quantity = @ - q]

Paid(c, q) == [c EXCEPT !.qty = @ - q]

Filling(fills, c, resting, i, q) ==
    Append(fills, [maker_id |-> i, taker_id |-> c.id,
                   price |-> resting[i].price, quantity |-> q])

Left(resting, c) ==
    IF ~c.is_market /\ c.qty > 0
    THEN With(resting, c.id, [side |-> c.side, price |-> c.price, quantity |-> c.qty])
    ELSE resting

\* Where the steps of a run lead from s: a submission begins, trades with order i
\* or ends, or event e cancels.
Begun(e, s) ==
    Point(s.nx + 1, s.resting,
          IF e.type = "limit" THEN Asked(e.side, s.nx, e.price, FALSE, e.qty)
                              ELSE Asked(e.side, s.nx, 0, TRUE, e.qty),
          <<>>, s.n, s.results)

TradedWith(s, i) ==
    LET q == Lesser(s.c.qty, s.resting[i].quantity)
    IN  Point(s.nx, Drawn(s.resting, i, q), Paid(s.c, q),
              Filling(s.fills, s.c, s.resting, i, q), s.n, s.results)

Ended(s) ==
    Point(s.nx, Left(s.resting, s.c), IdleCall, s.fills, s.n + 1,
          Append(s.results, Filled(s.c.id, s.fills)))

CancelledBy(e, s) ==
    Point(s.nx, Without(s.resting, e.id), s.c, s.fills, s.n + 1,
          Append(s.results, Cancelled(e.id \in DOMAIN s.resting)))

\* Ids and prices can be compared.
Sound(s) ==
    /\ \A i \in DOMAIN s.resting : i \in Int /\ s.resting[i].price \in Int
    /\ IsSeq(s.results)

\* A step of a run of the events in list, from s to t.
PointStep(list, s, t) ==
    /\ s.n \in 1..Len(list)
    /\ Sound(s)
    /\ \/ /\ s.c.pc = "idle"
          /\ list[s.n].type \in {"limit", "market"}
          /\ t = Begun(list[s.n], s)
       \/ /\ s.c.pc = "match" /\ s.c.qty > 0
          /\ \E i : MakerIn(s.resting, s.c, i) /\ t = TradedWith(s, i)
       \/ /\ s.c.pc = "match"
          /\ s.c.qty = 0 \/ \A i : ~MakerIn(s.resting, s.c, i)
          /\ t = Ended(s)
       \/ /\ s.c.pc = "idle"
          /\ list[s.n].type = "cancel"
          /\ t = CancelledBy(list[s.n], s)

\* A point keeps what it is made of.
LEMMA PointFacts ==
    ASSUME NEW nx, NEW resting, NEW c, NEW fills, NEW n, NEW results,
           NEW s, s = Point(nx, resting, c, fills, n, results)
    PROVE  /\ s.nx = nx /\ s.resting = resting /\ s.c = c
           /\ s.fills = fills /\ s.n = n /\ s.results = results
BY DEF Point

\* Price-time priority leaves no choice of the order to trade with.
LEMMA MakerUnique ==
    ASSUME NEW resting, \A i \in DOMAIN resting : i \in Int /\ resting[i].price \in Int,
           NEW c, NEW i, NEW j, MakerIn(resting, c, i), MakerIn(resting, c, j)
    PROVE  i = j
<1> SUFFICES ASSUME i # j PROVE FALSE
  OBVIOUS
<1> DEFINE p == resting[i].price
           q == resting[j].price
<1>1. i \in Int /\ j \in Int /\ p \in Int /\ q \in Int
  BY DEF MakerIn
<1>2. resting[i].side = resting[j].side
  BY DEF MakerIn
<1>3. /\ IF p = q THEN i < j ELSE Ahead(resting[i].side, p, q)
      /\ IF q = p THEN j < i ELSE Ahead(resting[j].side, q, p)
  BY <1>2 DEF MakerIn
<1> QED
  BY <1>1, <1>2, <1>3 DEF Ahead

\* The events leave no choice: from a point there is one step at most.
LEMMA StepUnique ==
    ASSUME NEW list, NEW s, NEW t, NEW u, PointStep(list, s, t), PointStep(list, s, u)
    PROVE  t = u
<1> DEFINE e == list[s.n]
           M(i) == MakerIn(s.resting, s.c, i)
           Submits(v) == /\ s.c.pc = "idle" /\ e.type \in {"limit", "market"}
                         /\ v = Begun(e, s)
           Trades(v)  == /\ s.c.pc = "match" /\ s.c.qty > 0
                         /\ \E i : M(i) /\ v = TradedWith(s, i)
           Ends(v)    == /\ s.c.pc = "match" /\ (s.c.qty = 0 \/ \A i : ~M(i))
                         /\ v = Ended(s)
           Cancels(v) == s.c.pc = "idle" /\ e.type = "cancel" /\ v = CancelledBy(e, s)
<1>1. \A i, j : M(i) /\ M(j) => i = j
  BY MakerUnique DEF PointStep, Sound
<1>2. \/ Submits(t) \/ Trades(t) \/ Ends(t) \/ Cancels(t)
  BY DEF PointStep
<1>3. \/ Submits(u) \/ Trades(u) \/ Ends(u) \/ Cancels(u)
  BY DEF PointStep
<1> HIDE DEF M, e
<1> QED
  BY <1>1, <1>2, <1>3

\* The entries of r are the first ones of r2.
Extends(r, r2) ==
    /\ Len(r) <= Len(r2)
    /\ \A k \in 1..Len(r) : r2[k] = r[k]

\* Whatever the calls returned before a step stays, and a call more may be added.
LEMMA StepExtends ==
    ASSUME NEW list, NEW s, NEW t, PointStep(list, s, t)
    PROVE  /\ IsSeq(s.results) /\ IsSeq(t.results)
           /\ Extends(s.results, t.results)
<1>1. IsSeq(s.results)
  BY DEF PointStep, Sound
<1>2. t.results = s.results \/ \E x : t.results = Append(s.results, x)
  <2>1. ASSUME t = Begun(list[s.n], s) PROVE t.results = s.results
    BY <2>1 DEF Begun, Point
  <2>2. ASSUME NEW i, t = TradedWith(s, i) PROVE t.results = s.results
    BY <2>2 DEF TradedWith, Point
  <2>3. ASSUME t = Ended(s) PROVE t.results = Append(s.results, Filled(s.c.id, s.fills))
    BY <2>3 DEF Ended, Point
  <2>4. ASSUME t = CancelledBy(list[s.n], s)
        PROVE  t.results = Append(s.results, Cancelled(list[s.n].id \in DOMAIN s.resting))
    BY <2>4 DEF CancelledBy, Point
  <2> QED
    BY <2>1, <2>2, <2>3, <2>4 DEF PointStep
<1>3. CASE t.results = s.results
  BY <1>1, <1>3, SeqFacts DEF Extends
<1>4. CASE \E x : t.results = Append(s.results, x)
  <2>1. PICK x : t.results = Append(s.results, x)
    BY <1>4
  <2> QED
    BY <1>1, <2>1, SeqFacts, AppendFacts DEF Extends
<1> QED
  BY <1>2, <1>3, <1>4

\* The first m steps of a run, from the start: h[k] is the point after k of them.
Run(list, h, m) == h[0] = Start /\ \A k \in 0..(m - 1) : PointStep(list, h[k], h[k + 1])

Reached(list, s) == \E m \in Nat : \E h : Run(list, h, m) /\ h[m] = s

\* Every run begins at the start.
LEMMA ReachedStart == ASSUME NEW list PROVE Reached(list, Start)
<1> DEFINE h == [k \in {0} |-> Start]
<1>1. h[0] = Start /\ \A k \in 0..(0 - 1) : FALSE
  OBVIOUS
<1> HIDE DEF h
<1>2. 0 \in Nat /\ Run(list, h, 0)
  BY <1>1 DEF Run
<1> QED
  BY <1>1, <1>2 DEF Reached

\* A run that takes a step more is a run.
LEMMA ReachedStep ==
    ASSUME NEW list, NEW s, NEW t, Reached(list, s), PointStep(list, s, t)
    PROVE  Reached(list, t)
<1>0. PICK m \in Nat : \E h : Run(list, h, m) /\ h[m] = s
  BY DEF Reached
<1>1. PICK h : Run(list, h, m) /\ h[m] = s
  BY <1>0
<1> DEFINE g == [k \in 0..(m + 1) |-> IF k = m + 1 THEN t ELSE h[k]]
<1>2. /\ \A k \in 0..m : g[k] = h[k]
      /\ g[m + 1] = t
  OBVIOUS
<1> HIDE DEF g
<1>3. g[0] = Start
  BY <1>1, <1>2 DEF Run
<1>4. ASSUME NEW k \in 0..((m + 1) - 1) PROVE PointStep(list, g[k], g[k + 1])
  <2>1. CASE k = m
    BY <1>1, <1>2, <2>1
  <2>2. CASE k # m
    <3>1. k \in 0..(m - 1) /\ k \in 0..m /\ k + 1 \in 0..m
      BY <2>2
    <3>2. PointStep(list, h[k], h[k + 1])
      BY <1>1, <3>1 DEF Run
    <3> QED
      BY <1>2, <3>1, <3>2
  <2> QED
    BY <2>1, <2>2
<1>5. m + 1 \in Nat /\ Run(list, g, m + 1)
  BY <1>3, <1>4 DEF Run
<1> QED
  BY <1>2, <1>5 DEF Reached

Alike(g, h, m) == \A k \in 0..m : g[k] = h[k]

\* Two runs of the same events are the same as far as both go.
LEMMA RunsAgree ==
    ASSUME NEW list, NEW m \in Nat, NEW g, NEW h, Run(list, g, m), Run(list, h, m)
    PROVE  Alike(g, h, m)
<1> SUFFICES \A k \in 0..m : g[k] = h[k]
  BY DEF Alike
<1> DEFINE Bad == {k \in 0..m : g[k] # h[k]}
<1> SUFFICES ASSUME Bad # {} PROVE FALSE
  OBVIOUS
<1>1. Bad \subseteq Nat /\ Bad \subseteq 0..m /\ \A k \in 0..m : k \in Bad <=> g[k] # h[k]
  OBVIOUS
<1> HIDE DEF Bad
<1>2. PICK k \in Bad : \A l \in Bad : k <= l
  BY <1>1, LeastNatural
<1>3. k # 0
  <2>1. g[0] = h[0]
    BY DEF Run
  <2> QED
    BY <1>1, <2>1
<1>4. k - 1 \in 0..(m - 1) /\ k - 1 \in 0..m /\ (k - 1) + 1 = k /\ k - 1 < k
  BY <1>1, <1>3
<1>5. g[k - 1] = h[k - 1]
  BY <1>1, <1>2, <1>4
<1>6. PointStep(list, g[k - 1], g[k]) /\ PointStep(list, h[k - 1], h[k])
  BY <1>4 DEF Run
<1>7. g[k] = h[k]
  BY <1>5, <1>6, StepUnique
<1> QED
  BY <1>1, <1>7

\* The calls that returned at one point of a run returned the same at a later one.
LEMMA RunExtends ==
    ASSUME NEW list, NEW m \in Nat, NEW h, Run(list, h, m), NEW n \in 0..m, IsSeq(h[n].results)
    PROVE  Extends(h[n].results, h[m].results)
<1> DEFINE r(k) == h[k].results
           Good(k) == IsSeq(r(k)) /\ Extends(r(n), r(k))
           Bad == {k \in n..m : ~Good(k)}
<1>0. Good(n)
  BY SeqFacts DEF Extends
<1> SUFFICES ASSUME Bad # {} PROVE FALSE
  OBVIOUS
<1>1. Bad \subseteq Nat /\ Bad \subseteq n..m /\ \A k \in n..m : k \in Bad <=> ~Good(k)
  OBVIOUS
<1> HIDE DEF Bad
<1>2. PICK k \in Bad : \A l \in Bad : k <= l
  BY <1>1, LeastNatural
<1>3. k # n
  BY <1>0, <1>1
<1>4. k - 1 \in 0..(m - 1) /\ k - 1 \in n..m /\ (k - 1) + 1 = k /\ k - 1 < k
  BY <1>1, <1>3
<1>5. Good(k - 1)
  BY <1>1, <1>2, <1>4
<1>6. PointStep(list, h[k - 1], h[k])
  BY <1>4 DEF Run
<1>7. IsSeq(r(k)) /\ Extends(r(k - 1), r(k))
  BY <1>6, StepExtends
<1>8. Len(r(n)) \in Nat /\ Len(r(k - 1)) \in Nat /\ Len(r(k)) \in Nat
  BY <1>5, <1>7, SeqFacts
<1> HIDE DEF r
<1>9. Extends(r(n), r(k))
  BY <1>5, <1>7, <1>8 DEF Extends
<1> QED
  BY <1>1, <1>7, <1>9

\* A run that is over is as far as any run of the same events goes.
LEMMA RunOver ==
    ASSUME NEW list, Len(list) \in Nat, NEW s, NEW t, Reached(list, s), Reached(list, t),
           s.n = Len(list) + 1, IsSeq(t.results)
    PROVE  /\ Extends(t.results, s.results)
           /\ t.n = Len(list) + 1 => t = s
<1>a. PICK m \in Nat : \E g : Run(list, g, m) /\ g[m] = s
  BY DEF Reached
<1>1. PICK g : Run(list, g, m) /\ g[m] = s
  BY <1>a
<1>b. PICK n \in Nat : \E h : Run(list, h, n) /\ h[n] = t
  BY DEF Reached
<1>2. PICK h : Run(list, h, n) /\ h[n] = t
  BY <1>b
<1>3. ASSUME NEW a \in Nat, NEW b \in Nat, a <= b, NEW f, Run(list, f, b)
      PROVE  /\ Run(list, f, a)
             /\ f[a].n = Len(list) + 1 => a = b
  <2>1. \A k \in 0..(a - 1) : k \in 0..(b - 1)
    BY <1>3
  <2>2. Run(list, f, a)
    BY <1>3, <2>1 DEF Run
  <2>3. ASSUME a # b, f[a].n = Len(list) + 1 PROVE FALSE
    <3>1. a \in 0..(b - 1)
      BY <1>3, <2>3
    <3>2. PointStep(list, f[a], f[a + 1])
      BY <1>3, <3>1 DEF Run
    <3>3. f[a].n \in 1..Len(list)
      BY <3>2 DEF PointStep
    <3> QED
      BY <2>3, <3>3
  <2> QED
    BY <2>2, <2>3
<1>4. n <= m
  <2>1. SUFFICES ASSUME m < n PROVE FALSE
    OBVIOUS
  <2>2. Run(list, h, m)
    BY <1>2, <1>3, <2>1
  <2>3. h[m] = g[m]
    <3>1. Alike(h, g, m)
      BY <1>1, <2>2, RunsAgree
    <3> QED
      BY <3>1 DEF Alike
  <2>4. m = n
    BY <1>1, <1>2, <1>3, <2>1, <2>3
  <2> QED
    BY <2>1, <2>4
<1>5. Run(list, g, n)
  BY <1>1, <1>3, <1>4
<1>6. g[n] = t
  <2>1. Alike(g, h, n)
    BY <1>2, <1>5, RunsAgree
  <2> QED
    BY <1>2, <2>1 DEF Alike
<1>7. Extends(t.results, s.results)
  <2>1. n \in 0..m
    BY <1>4
  <2> QED
    BY <1>1, <1>6, <2>1, RunExtends
<1>8. ASSUME t.n = Len(list) + 1 PROVE t = s
  BY <1>1, <1>3, <1>4, <1>6, <1>8
<1> QED
  BY <1>7, <1>8

\* The four steps, as an engine takes them: first, a submission that begins.
LEMMA BeginStep ==
    ASSUME NEW list, NEW nx, NEW resting, NEW c, NEW fills, NEW n, NEW results,
           NEW s, s = Point(nx, resting, c, fills, n, results),
           n \in 1..Len(list), Sound(s), c.pc = "idle", NEW c2,
           \/ list[n].type = "limit"
              /\ c2 = Asked(list[n].side, nx, list[n].price, FALSE, list[n].qty)
           \/ list[n].type = "market"
              /\ c2 = Asked(list[n].side, nx, 0, TRUE, list[n].qty)
    PROVE  PointStep(list, s, Point(nx + 1, resting, c2, <<>>, n, results))
<1>1. /\ s.nx = nx /\ s.resting = resting /\ s.c = c
      /\ s.fills = fills /\ s.n = n /\ s.results = results
  BY PointFacts
<1>2. Begun(list[n], s) = Point(nx + 1, resting, c2, <<>>, n, results)
  BY <1>1 DEF Begun
<1> QED
  BY <1>1, <1>2 DEF PointStep

\* A trade with the order that priority names.
LEMMA TradeStep ==
    ASSUME NEW list, NEW nx, NEW resting, NEW c, NEW fills, NEW n, NEW results,
           NEW s, s = Point(nx, resting, c, fills, n, results),
           n \in 1..Len(list), Sound(s), c.pc = "match", c.qty > 0,
           NEW i, MakerIn(resting, c, i), NEW q, q = Lesser(c.qty, resting[i].quantity)
    PROVE  PointStep(list, s, Point(nx, Drawn(resting, i, q), Paid(c, q),
                                    Filling(fills, c, resting, i, q), n, results))
<1>1. /\ s.nx = nx /\ s.resting = resting /\ s.c = c
      /\ s.fills = fills /\ s.n = n /\ s.results = results
  BY PointFacts
<1>2. TradedWith(s, i) = Point(nx, Drawn(resting, i, q), Paid(c, q),
                               Filling(fills, c, resting, i, q), n, results)
  BY <1>1 DEF TradedWith
<1> QED
  BY <1>1, <1>2 DEF PointStep

\* A submission that has nobody left to trade with, or nothing left to trade.
LEMMA EndStep ==
    ASSUME NEW list, NEW nx, NEW resting, NEW c, NEW fills, NEW n, NEW results,
           NEW s, s = Point(nx, resting, c, fills, n, results),
           n \in 1..Len(list), Sound(s), c.pc = "match",
           c.qty = 0 \/ \A i : ~MakerIn(resting, c, i)
    PROVE  PointStep(list, s, Point(nx, Left(resting, c), IdleCall, fills, n + 1,
                                    Append(results, Filled(c.id, fills))))
<1>1. /\ s.nx = nx /\ s.resting = resting /\ s.c = c
      /\ s.fills = fills /\ s.n = n /\ s.results = results
  BY PointFacts
<1>2. Ended(s) = Point(nx, Left(resting, c), IdleCall, fills, n + 1,
                       Append(results, Filled(c.id, fills)))
  BY <1>1 DEF Ended
<1> QED
  BY <1>1, <1>2 DEF PointStep

\* A cancel, of an order that rests or of none.
LEMMA CancelStep ==
    ASSUME NEW list, NEW nx, NEW resting, NEW c, NEW fills, NEW n, NEW results,
           NEW s, s = Point(nx, resting, c, fills, n, results),
           n \in 1..Len(list), Sound(s), c.pc = "idle", list[n].type = "cancel",
           NEW id, id = list[n].id, NEW results2,
           results2 = Append(results, Cancelled(id \in DOMAIN resting))
    PROVE  PointStep(list, s, Point(nx, Without(resting, id), c, fills, n + 1, results2))
<1>1. /\ s.nx = nx /\ s.resting = resting /\ s.c = c
      /\ s.fills = fills /\ s.n = n /\ s.results = results
  BY PointFacts
<1>2. CancelledBy(list[n], s) = Point(nx, Without(resting, id), c, fills, n + 1, results2)
  BY <1>1 DEF CancelledBy
<1> QED
  BY <1>1, <1>2 DEF PointStep

-----------------------------------------------------------------------------
(* The optimized engine makes those steps.                                  *)

OptimizedAt(n) == Point(next_id, RestingOrders, call, out, n, ran["optimized"])

\* What run_engine finds at an event: the engine at it, and the event at hand.
LEMMA OptimizedSound ==
    ASSUME TypeOK, IndexOK, RanOK, NEW n, NEW s, s = OptimizedAt(n)
    PROVE  Sound(s)
<1>1. s.resting = RestingOrders /\ s.results = ran["optimized"]
  BY DEF OptimizedAt, Point
<1>2. ASSUME NEW i \in DOMAIN RestingOrders
      PROVE  i \in Int /\ RestingOrders[i].price \in Int
  <2>1. i \in DOMAIN index /\ index[i] \in Slots
    BY RestingFacts DEF TypeOK
  <2>2. RestingOrders[i].price = order[index[i]].price /\ order[index[i]] \in OrderRec
    BY <2>1, RestingFacts DEF TypeOK
  <2>3. RestingOrders[i].price \in Prices
    BY <2>2 DEF OrderRec
  <2>4. i \in 1..(next_id - 1)
    BY <2>1 DEF TypeOK
  <2> QED
    BY <2>3, <2>4 DEF Prices
<1>3. IsSeq(ran["optimized"])
  BY DEF RanOK, Engines
<1> QED
  BY <1>1, <1>2, <1>3 DEF Sound

\* The order to trade with is that of the abstract book.
LEMMA MakerAgrees ==
    ASSUME NEW i
    PROVE  MakerIn(RestingOrders, call, i) <=> i \in DOMAIN RestingOrders /\ Book!IsMaker(i)
BY BookOperators DEF MakerIn, Book!IsMaker, Book!Crosses, Book!Before

\* A trade of the abstract book, as the engine's variables show it.
LEMMA OptimizedTrades ==
    ASSUME NEW i \in DOMAIN RestingOrders, Book!Trade(i),
           NEW q, q = Lesser(call.qty, RestingOrders[i].quantity)
    PROVE  /\ call.pc = "match" /\ call.qty > 0 /\ MakerIn(RestingOrders, call, i)
           /\ next_id' = next_id
           /\ RestingOrders' = Drawn(RestingOrders, i, q)
           /\ call' = Paid(call, q)
           /\ out' = Filling(out, call, RestingOrders, i, q)
<1>1. q = Book!Lesser(call.qty, RestingOrders[i].quantity)
  BY BookOperators
<1>2. Book!Matching /\ call.qty > 0 /\ Book!IsMaker(i) /\ next_id' = next_id
  BY DEF Book!Trade
<1>3. RestingOrders' = Drawn(RestingOrders, i, q)
  BY <1>1, BookOperators DEF Book!Trade, Drawn
<1>4. call' = Paid(call, q) /\ out' = Filling(out, call, RestingOrders, i, q)
  BY <1>1 DEF Book!Trade, Paid, Filling
<1> QED
  BY <1>2, <1>3, <1>4, MakerAgrees, BookOperators DEF Matching

\* The end of a submission, with a remainder to rest or without.
LEMMA OptimizedEnds ==
    ASSUME Book!Rest \/ Book!Return
    PROVE  /\ call.pc = "match"
           /\ call.qty = 0 \/ \A i : ~MakerIn(RestingOrders, call, i)
           /\ next_id' = next_id
           /\ RestingOrders' = Left(RestingOrders, call)
           /\ call' = IdleCall
           /\ out' = out
<1>1. Book!MatchOver /\ call' = IdleCall /\ next_id' = next_id /\ out' = out
  BY BookOperators DEF Book!Rest, Book!Return
<1>2. call.pc = "match" /\ (call.qty = 0 \/ \A i : ~MakerIn(RestingOrders, call, i))
  BY <1>1, MakerAgrees, BookOperators DEF Book!MatchOver, Matching
<1>3. CASE Book!Rest
  <2>1. ~call.is_market /\ call.qty > 0
        /\ RestingOrders' = With(RestingOrders, call.id, Book!Remainder)
    BY <1>3, BookOperators DEF Book!Rest
  <2>2. RestingOrders' = Left(RestingOrders, call)
    BY <2>1 DEF Left, Book!Remainder
  <2> QED
    BY <1>1, <1>2, <2>2
<1>4. CASE Book!Return
  <2>1. (call.is_market \/ call.qty = 0) /\ RestingOrders' = RestingOrders
    BY <1>4 DEF Book!Return
  <2>2. RestingOrders' = Left(RestingOrders, call)
    BY <2>1 DEF Left
  <2> QED
    BY <1>1, <1>2, <2>2
<1> QED
  BY <1>3, <1>4

\* Each step of the engine under the runner is a step of a run of the events.
LEMMA OptimizedMoves ==
    ASSUME GenOK, AtOK, RanOK, IInv, run_optimized
    PROVE  PointStep(events, OptimizedAt(at), OptimizedAt(at)')
<1>1. /\ TypeOK /\ IndexOK /\ QueuesFIFO /\ FreeListOK
      /\ at \in 1..Len(events) /\ stage = "optimized" /\ events' = events
  BY DEF IInv, GenOK, AtOK, run_optimized, Running, gvars
<1>2. PICK list, nx, resting, c, fills, n, results :
         /\ list = events /\ nx = next_id /\ resting = RestingOrders /\ c = call
         /\ fills = out /\ n = at /\ results = ran["optimized"]
  OBVIOUS
<1>3. PICK s : s = Point(nx, resting, c, fills, n, results)
  OBVIOUS
<1>4. s = OptimizedAt(at) /\ n \in 1..Len(list) /\ Sound(s) /\ Event = list[n]
  BY <1>1, <1>2, <1>3, OptimizedSound DEF OptimizedAt, Event
<1>5. PICK nx2, resting2, c2, fills2, n2, results2, t :
         /\ nx2 = next_id' /\ resting2 = RestingOrders' /\ c2 = call'
         /\ fills2 = out' /\ n2 = at' /\ results2 = ran'["optimized"]
         /\ t = Point(nx2, resting2, c2, fills2, n2, results2)
  OBVIOUS
<1>6. t = OptimizedAt(at)'
  BY <1>5 DEF OptimizedAt
<1> SUFFICES PointStep(list, s, t)
  BY <1>2, <1>4, <1>6
<1>7. CASE /\ \/ Event.type = "limit" /\ submit_limit(Event.side, Event.price, Event.qty)
              \/ Event.type = "market" /\ submit_market(Event.side, Event.qty)
           /\ UNCHANGED <<at, ran>>
  <2>1. c.pc = "idle" /\ nx2 = nx + 1 /\ resting2 = resting /\ fills2 = <<>> /\ n2 = n
        /\ results2 = results
    BY <1>2, <1>5, <1>7, SameResting DEF submit_limit, submit_market, Begin, pool
  <2>2. \/ list[n].type = "limit"
           /\ c2 = Asked(list[n].side, nx, list[n].price, FALSE, list[n].qty)
        \/ list[n].type = "market"
           /\ c2 = Asked(list[n].side, nx, 0, TRUE, list[n].qty)
    BY <1>2, <1>4, <1>5, <1>7 DEF submit_limit, submit_market, Begin, Asked
  <2> QED
    BY <1>3, <1>4, <1>5, <2>1, <2>2, BeginStep
<1>8. CASE /\ \E p \in Prices, o \in Slots : FillMaker(p, o) \/ FillTaker(p, o)
           /\ UNCHANGED <<at, ran>>
  <2>1. PICK i \in DOMAIN RestingOrders : Book!Trade(i)
    BY <1>1, <1>8, FillMakerRefines, FillTakerRefines
  <2>2. PICK q : q = Lesser(c.qty, resting[i].quantity)
    OBVIOUS
  <2>3. /\ c.pc = "match" /\ c.qty > 0 /\ MakerIn(resting, c, i)
        /\ nx2 = nx /\ resting2 = Drawn(resting, i, q) /\ c2 = Paid(c, q)
        /\ fills2 = Filling(fills, c, resting, i, q) /\ n2 = n /\ results2 = results
    BY <1>2, <1>5, <1>8, <2>1, <2>2, OptimizedTrades
  <2> QED
    BY <1>3, <1>4, <1>5, <2>2, <2>3, TradeStep
<1>9. CASE (Rest \/ Return) /\ EventDone(Filled(call.id, out))
  <2>1. Book!Rest \/ Book!Return
    BY <1>1, <1>9, RestRefines, ReturnRefines
  <2>2. /\ c.pc = "match"
        /\ c.qty = 0 \/ \A i : ~MakerIn(resting, c, i)
        /\ nx2 = nx /\ resting2 = Left(resting, c) /\ c2 = IdleCall /\ fills2 = fills
    BY <1>2, <1>5, <2>1, OptimizedEnds
  <2>3. n2 = n + 1 /\ results2 = Append(results, Filled(c.id, fills))
    BY <1>1, <1>2, <1>5, <1>9 DEF EventDone, RanOK, Engines
  <2> QED
    BY <1>3, <1>4, <1>5, <2>2, <2>3, EndStep
<1>10. CASE /\ Event.type = "cancel"
            /\ cancel(Event.id) \/ cancel_miss(Event.id)
            /\ EventDone(Cancelled(Event.id \in DOMAIN index))
  <2>1. PICK id : id = Event.id
    OBVIOUS
  <2>2. Book!cancel(id)
    BY <1>1, <1>10, <2>1, CancelRefines, CancelMissRefines
  <2>3. /\ c.pc = "idle" /\ nx2 = nx /\ resting2 = Without(resting, id) /\ c2 = c
        /\ fills2 = fills
    BY <1>2, <1>5, <2>2, BookOperators DEF Book!cancel
  <2>4. n2 = n + 1 /\ results2 = Append(results, Cancelled(id \in DOMAIN resting))
    BY <1>1, <1>2, <1>5, <1>10, <2>1, RestingFacts DEF EventDone, RanOK, Engines
  <2> QED
    BY <1>3, <1>4, <1>5, <1>10, <2>1, <2>3, <2>4, CancelStep
<1> QED
  BY <1>7, <1>8, <1>9, <1>10 DEF run_optimized

-----------------------------------------------------------------------------
(* The baseline engine makes them too: its proofs are used by an instance.  *)

BP == INSTANCE BaselineProofs
      WITH next_id <- b_next_id, levels <- b_levels, index <- b_index,
           call <- b_call, out <- b_out, MinPrice <- 0

\* Both instances of BaselineEngine are the same engine.
LEMMA SameListEngine ==
    /\ Baseline!Init <=> BP!Init
    /\ \A side, p, q : Baseline!submit_limit(side, p, q) <=> BP!submit_limit(side, p, q)
    /\ \A side, q : Baseline!submit_market(side, q) <=> BP!submit_market(side, q)
    /\ Baseline!RestingOrders = BP!RestingOrders
<1>1. Baseline!Init <=> BP!Init
  BY DEF Baseline!Init, BP!Init, Baseline!Side, BP!Side, Baseline!Empty, BP!Empty,
     Baseline!IdleCall, BP!IdleCall
<1>2. \A side, p, q : Baseline!submit_limit(side, p, q) <=> BP!submit_limit(side, p, q)
  BY DEF Baseline!submit_limit, BP!submit_limit, Baseline!Begin, BP!Begin
<1>3. \A side, q : Baseline!submit_market(side, q) <=> BP!submit_market(side, q)
  BY DEF Baseline!submit_market, BP!submit_market, Baseline!Begin, BP!Begin
<1>4. Baseline!RestingOrders = BP!RestingOrders
  BY DEF BP!RestingOrders, Baseline!RestingOrders, BP!NodeQty, Baseline!NodeQty,
     BP!Node, Baseline!Node
<1> QED
  BY <1>1, <1>2, <1>3, <1>4

\* The matching of both instances is the same.
LEMMA SameListConsume == \A p : Baseline!consume_best(p) <=> BP!consume_best(p)
BY DEF Baseline!consume_best, BP!consume_best, Baseline!Matching, BP!Matching,
   Baseline!IsBegin, BP!IsBegin, Baseline!Opposite, BP!Opposite, Baseline!Crosses,
   BP!Crosses, Baseline!Ahead, BP!Ahead, Baseline!Lesser, BP!Lesser, Baseline!PutLevel,
   BP!PutLevel, Baseline!Consumed, BP!Consumed, Baseline!SubVolume, BP!SubVolume,
   Baseline!Without, BP!Without, Baseline!Restrict, BP!Restrict, Baseline!With, BP!With

\* So is the end of a submission.
LEMMA SameListEnd == (Baseline!add_order <=> BP!add_order) /\ (Baseline!Return <=> BP!Return)
<1>1. Baseline!MatchOver <=> BP!MatchOver
  BY DEF Baseline!MatchOver, BP!MatchOver, Baseline!Matching, BP!Matching,
     Baseline!IsBegin, BP!IsBegin, Baseline!Opposite, BP!Opposite,
     Baseline!Crosses, BP!Crosses, Baseline!Ahead, BP!Ahead
<1>2. Baseline!HasRemainder <=> BP!HasRemainder
  BY DEF Baseline!HasRemainder, BP!HasRemainder
<1>3. Baseline!Return <=> BP!Return
  BY <1>1, <1>2 DEF Baseline!Return, BP!Return, Baseline!IdleCall, BP!IdleCall
<1>4. Baseline!add_order <=> BP!add_order
  BY <1>1, <1>2 DEF Baseline!add_order, BP!add_order, Baseline!LevelAt, BP!LevelAt,
     Baseline!AddVolume, BP!AddVolume, Baseline!NewLevel, BP!NewLevel, Baseline!IdleCall,
     BP!IdleCall, Baseline!PutLevel, BP!PutLevel, Baseline!Without, BP!Without,
     Baseline!Restrict, BP!Restrict, Baseline!With, BP!With
<1> QED
  BY <1>3, <1>4

\* So is a cancel.
LEMMA SameListCancel ==
    \A id : /\ Baseline!cancel(id) <=> BP!cancel(id)
            /\ Baseline!cancel_miss(id) <=> BP!cancel_miss(id)
<1>1. \A id : Baseline!cancel(id) <=> BP!cancel(id)
  BY DEF Baseline!cancel, BP!cancel, Baseline!NodeQty, BP!NodeQty, Baseline!Node, BP!Node,
     Baseline!SubVolume, BP!SubVolume, Baseline!PutLevel, BP!PutLevel, Baseline!Without,
     BP!Without, Baseline!Restrict, BP!Restrict, Baseline!With, BP!With, Baseline!Erase,
     BP!Erase
<1>2. \A id : Baseline!cancel_miss(id) <=> BP!cancel_miss(id)
  BY DEF Baseline!cancel_miss, BP!cancel_miss, Baseline!vars, BP!vars
<1> QED
  BY <1>1, <1>2

\* The values that both instances share.
LEMMA ListValues ==
    /\ Side = BP!Side /\ Prices = BP!Prices /\ Qtys = BP!Qtys /\ Call = BP!Call
    /\ 0 \in BP!Prices /\ 0..MaxPrice = Prices
    /\ IdleCall = BP!IdleCall /\ Empty = BP!Empty
    /\ \A side : BP!Opposite(side) = Opposite(side)
BY OrderAssumption DEF Side, BP!Side, Prices, BP!Prices, Qtys, BP!Qtys, Call, BP!Call,
   IdleCall, BP!IdleCall, Empty, BP!Empty, BP!Opposite, Opposite

\* What the runner does to the baseline engine are its own steps.
LEMMA BaselineRuns ==
    ASSUME GenOK, AtOK, [RNext]_rvars
    PROVE  [BP!Next]_(BP!vars)
<1>1. CASE run_baseline
  <2>1. /\ Event.side \in BP!Side /\ Event.price \in 0..MaxPrice /\ Event.qty \in BP!Qtys
        /\ Event.id \in 0..MaxId
    BY <1>1, EventTyped, ListValues DEF run_baseline, Running, AtOK
  <2>2. CASE Event.type = "limit" /\ Baseline!submit_limit(Event.side, Event.price, Event.qty)
    <3>1. BP!submit_limit(Event.side, Event.price, Event.qty)
      BY <2>2, SameListEngine
    <3> QED
      BY <2>1, <3>1 DEF BP!Next
  <2>3. CASE Event.type = "market" /\ Baseline!submit_market(Event.side, Event.qty)
    <3>1. BP!submit_market(Event.side, Event.qty)
      BY <2>3, SameListEngine
    <3> QED
      BY <2>1, <3>1 DEF BP!Next
  <2>4. CASE Baseline!cancel(Event.id) \/ Baseline!cancel_miss(Event.id)
    <3>1. BP!cancel(Event.id) \/ BP!cancel_miss(Event.id)
      BY <2>4, SameListCancel
    <3> QED
      BY <2>1, <3>1 DEF BP!Next
  <2>5. CASE \E p \in Prices : Baseline!consume_best(p)
    BY <2>5, SameListConsume, ListValues DEF BP!Next
  <2>6. CASE Baseline!add_order \/ Baseline!Return
    BY <2>6, SameListEnd DEF BP!Next
  <2> QED
    BY <1>1, <2>2, <2>3, <2>4, <2>5, <2>6 DEF run_baseline
<1>2. CASE Generate \/ run_optimized \/ OptimizedThrows \/ Proceed \/ UNCHANGED rvars
  BY <1>2 DEF Generate, run_optimized, OptimizedThrows, Proceed, rvars, bvars, BP!vars
<1> QED
  BY <1>1, <1>2 DEF RNext

\* The lists of the baseline engine are in order whatever the runner does.
LEMMA BaselineInvariance == RSpec => []BP!ListInv
<1>1. RInit => BP!Init
  BY SameListEngine DEF RInit
<1>2. GenOK /\ AtOK /\ [RNext]_rvars => [BP!Next]_(BP!vars)
  BY BaselineRuns
<1>3. BP!Spec => []BP!ListInv
  BY BP!ListInvariant, OrderAssumption, WordAssumption, ListValues
<1>4. RSpec => BP!Init /\ [][BP!Next]_(BP!vars)
  BY <1>1, <1>2, GenInvariance, EngineRuns, PTL DEF RSpec
<1> QED
  BY <1>3, <1>4 DEF BP!Spec

BaselineAt(n) == Point(b_next_id, BP!RestingOrders, b_call, b_out, n, ran["baseline"])

\* Its ids and prices are numbers.
LEMMA BaselineSound ==
    ASSUME BP!ListInv, RanOK, NEW n, NEW s, s = BaselineAt(n)
    PROVE  Sound(s)
<1>1. s.resting = BP!RestingOrders /\ s.results = ran["baseline"]
  BY DEF BaselineAt, Point
<1>2. ASSUME NEW i \in DOMAIN BP!RestingOrders
      PROVE  i \in Int /\ BP!RestingOrders[i].price \in Int
  <2>1. i \in DOMAIN b_index
    BY DEF BP!RestingOrders
  <2>2. i \in Nat /\ BP!RestingOrders[i].price = b_index[i].price /\ b_index[i].price \in BP!Prices
    BY <2>1, BP!ListedResting, OrderAssumption, WordAssumption, ListValues
  <2> QED
    BY <2>2, OrderAssumption DEF BP!Prices
<1>3. IsSeq(ran["baseline"])
  BY DEF RanOK, Engines
<1> QED
  BY <1>1, <1>2, <1>3 DEF Sound

\* The operators of the abstract book of the baseline engine are those of OrderTypes.
LEMMA ListOperators ==
    /\ \A side : BP!Book!Opposite(side) = Opposite(side)
    /\ \A side, p, q : BP!Book!Ahead(side, p, q) <=> Ahead(side, p, q)
    /\ \A a, b : BP!Book!Lesser(a, b) = Lesser(a, b)
    /\ \A m, k : BP!Book!Without(m, k) = Without(m, k)
    /\ \A m, k, v : BP!Book!With(m, k, v) = With(m, k, v)
    /\ BP!Book!IdleCall = IdleCall
    /\ BP!Book!Matching <=> b_call.pc = "match"
BY DEF BP!Book!Opposite, Opposite, BP!Book!Ahead, Ahead,
   BP!Book!Lesser, Lesser, BP!Book!Without, Without, BP!Book!Restrict, Restrict,
   BP!Book!With, With, BP!Book!IdleCall, IdleCall, BP!Book!Matching

\* The order to trade with is that of the abstract book.
LEMMA ListMakerAgrees ==
    ASSUME NEW i
    PROVE  MakerIn(BP!RestingOrders, b_call, i) <=>
              i \in DOMAIN BP!RestingOrders /\ BP!Book!IsMaker(i)
BY ListOperators DEF MakerIn, BP!Book!IsMaker, BP!Book!Crosses, BP!Book!Before

\* A trade of the abstract book, as the variables of the engine of lists show it.
LEMMA BaselineTrades ==
    ASSUME NEW i \in DOMAIN BP!RestingOrders, BP!Book!Trade(i),
           NEW q, q = Lesser(b_call.qty, BP!RestingOrders[i].quantity)
    PROVE  /\ b_call.pc = "match" /\ b_call.qty > 0 /\ MakerIn(BP!RestingOrders, b_call, i)
           /\ b_next_id' = b_next_id
           /\ BP!RestingOrders' = Drawn(BP!RestingOrders, i, q)
           /\ b_call' = Paid(b_call, q)
           /\ b_out' = Filling(b_out, b_call, BP!RestingOrders, i, q)
<1>1. q = BP!Book!Lesser(b_call.qty, BP!RestingOrders[i].quantity)
  BY ListOperators
<1>2. BP!Book!Matching /\ b_call.qty > 0 /\ BP!Book!IsMaker(i) /\ b_next_id' = b_next_id
  BY DEF BP!Book!Trade
<1>3. BP!RestingOrders' = Drawn(BP!RestingOrders, i, q)
  BY <1>1, ListOperators DEF BP!Book!Trade, Drawn
<1>4. b_call' = Paid(b_call, q) /\ b_out' = Filling(b_out, b_call, BP!RestingOrders, i, q)
  BY <1>1 DEF BP!Book!Trade, Paid, Filling
<1> QED
  BY <1>2, <1>3, <1>4, ListMakerAgrees, ListOperators

\* The end of a submission, with a remainder to rest or without.
LEMMA BaselineEnds ==
    ASSUME BP!Book!Rest \/ BP!Book!Return
    PROVE  /\ b_call.pc = "match"
           /\ b_call.qty = 0 \/ \A i : ~MakerIn(BP!RestingOrders, b_call, i)
           /\ b_next_id' = b_next_id
           /\ BP!RestingOrders' = Left(BP!RestingOrders, b_call)
           /\ b_call' = IdleCall
           /\ b_out' = b_out
<1>1. BP!Book!MatchOver /\ b_call' = IdleCall /\ b_next_id' = b_next_id /\ b_out' = b_out
  BY ListOperators DEF BP!Book!Rest, BP!Book!Return
<1>2. /\ b_call.pc = "match"
      /\ b_call.qty = 0 \/ \A i : ~MakerIn(BP!RestingOrders, b_call, i)
  BY <1>1, ListMakerAgrees, ListOperators DEF BP!Book!MatchOver
<1>3. CASE BP!Book!Rest
  <2>1. ~b_call.is_market /\ b_call.qty > 0
        /\ BP!RestingOrders' = With(BP!RestingOrders, b_call.id, BP!Book!Remainder)
    BY <1>3, ListOperators DEF BP!Book!Rest
  <2>2. BP!RestingOrders' = Left(BP!RestingOrders, b_call)
    BY <2>1 DEF Left, BP!Book!Remainder
  <2> QED
    BY <1>1, <1>2, <2>2
<1>4. CASE BP!Book!Return
  <2>1. (b_call.is_market \/ b_call.qty = 0) /\ BP!RestingOrders' = BP!RestingOrders
    BY <1>4 DEF BP!Book!Return
  <2>2. BP!RestingOrders' = Left(BP!RestingOrders, b_call)
    BY <2>1 DEF Left
  <2> QED
    BY <1>1, <1>2, <2>2
<1> QED
  BY <1>3, <1>4

\* Each step of the list engine within a call, and each cancel, as one of the book.
LEMMA BaselineRefines ==
    ASSUME BP!ListInv, BP!Priced
    PROVE  /\ \A p \in Prices : Baseline!consume_best(p) =>
                 \E i \in DOMAIN BP!RestingOrders : BP!Book!Trade(i)
           /\ Baseline!add_order => BP!Book!Rest
           /\ Baseline!Return => BP!Book!Return
           /\ \A id : Baseline!cancel(id) \/ Baseline!cancel_miss(id) => BP!Book!cancel(id)
<1>1. ASSUME NEW p \in Prices, Baseline!consume_best(p)
      PROVE  \E i \in DOMAIN BP!RestingOrders : BP!Book!Trade(i)
  <2>1. p \in BP!Prices /\ BP!consume_best(p)
    BY <1>1, ListValues, SameListConsume
  <2> QED
    BY <2>1, BP!ConsumeRefines, OrderAssumption, WordAssumption, ListValues
<1>2. ASSUME Baseline!add_order PROVE BP!Book!Rest
  <2>1. BP!add_order
    BY <1>2, SameListEnd
  <2> QED
    BY <2>1, BP!AddRefines, OrderAssumption, WordAssumption, ListValues
<1>3. ASSUME Baseline!Return PROVE BP!Book!Return
  <2>1. BP!Return
    BY <1>3, SameListEnd
  <2> QED
    BY <2>1, BP!ListReturnRefines, OrderAssumption, WordAssumption, ListValues
<1>4. ASSUME NEW id, Baseline!cancel(id) \/ Baseline!cancel_miss(id) PROVE BP!Book!cancel(id)
  <2>1. BP!cancel(id) \/ BP!cancel_miss(id)
    BY <1>4, SameListCancel
  <2> QED
    BY <2>1, BP!ListCancelRefines, OrderAssumption, WordAssumption, ListValues
<1> QED
  BY <1>1, <1>2, <1>3, <1>4

\* Each step of the engine under the runner is a step of a run of the events.
LEMMA BaselineMoves ==
    ASSUME GenOK, AtOK, RanOK, BP!ListInv, BP!Priced, run_baseline
    PROVE  PointStep(events, BaselineAt(at), BaselineAt(at)')
<1>1. at \in 1..Len(events) /\ stage = "baseline" /\ events' = events
  BY DEF GenOK, AtOK, run_baseline, Running, gvars
<1>2. PICK list, nx, resting, c, fills, n, results :
         /\ list = events /\ nx = b_next_id /\ resting = BP!RestingOrders /\ c = b_call
         /\ fills = b_out /\ n = at /\ results = ran["baseline"]
  OBVIOUS
<1>3. PICK s : s = Point(nx, resting, c, fills, n, results)
  OBVIOUS
<1>4. s = BaselineAt(at) /\ n \in 1..Len(list) /\ Sound(s) /\ Event = list[n]
  BY <1>1, <1>2, <1>3, BaselineSound DEF BaselineAt, Event
<1>5. PICK nx2, resting2, c2, fills2, n2, results2, t :
         /\ nx2 = b_next_id' /\ resting2 = BP!RestingOrders' /\ c2 = b_call'
         /\ fills2 = b_out' /\ n2 = at' /\ results2 = ran'["baseline"]
         /\ t = Point(nx2, resting2, c2, fills2, n2, results2)
  OBVIOUS
<1>6. t = BaselineAt(at)'
  BY <1>5 DEF BaselineAt
<1> SUFFICES PointStep(list, s, t)
  BY <1>2, <1>4, <1>6
<1>7. CASE /\ \/ Event.type = "limit"
                 /\ Baseline!submit_limit(Event.side, Event.price, Event.qty)
              \/ Event.type = "market" /\ Baseline!submit_market(Event.side, Event.qty)
           /\ UNCHANGED <<at, ran>>
  <2>0. BP!RestingOrders' = BP!RestingOrders
    BY <1>7 DEF Baseline!submit_limit, Baseline!submit_market, Baseline!Begin, BP!RestingOrders
  <2>1. c.pc = "idle" /\ nx2 = nx + 1 /\ resting2 = resting /\ fills2 = <<>> /\ n2 = n
        /\ results2 = results
    BY <1>2, <1>5, <1>7, <2>0 DEF Baseline!submit_limit, Baseline!submit_market, Baseline!Begin
  <2>2. \/ list[n].type = "limit"
           /\ c2 = Asked(list[n].side, nx, list[n].price, FALSE, list[n].qty)
        \/ list[n].type = "market"
           /\ c2 = Asked(list[n].side, nx, 0, TRUE, list[n].qty)
    BY <1>2, <1>4, <1>5, <1>7
       DEF Baseline!submit_limit, Baseline!submit_market, Baseline!Begin, Asked
  <2> QED
    BY <1>3, <1>4, <1>5, <2>1, <2>2, BeginStep
<1>8. CASE (\E p \in Prices : Baseline!consume_best(p)) /\ UNCHANGED <<at, ran>>
  <2>1. PICK i \in DOMAIN BP!RestingOrders : BP!Book!Trade(i)
    BY <1>8, BaselineRefines
  <2>2. PICK q : q = Lesser(c.qty, resting[i].quantity)
    OBVIOUS
  <2>3. /\ c.pc = "match" /\ c.qty > 0 /\ MakerIn(resting, c, i)
        /\ nx2 = nx /\ resting2 = Drawn(resting, i, q) /\ c2 = Paid(c, q)
        /\ fills2 = Filling(fills, c, resting, i, q) /\ n2 = n /\ results2 = results
    BY <1>2, <1>5, <1>8, <2>1, <2>2, BaselineTrades
  <2> QED
    BY <1>3, <1>4, <1>5, <2>2, <2>3, TradeStep
<1>9. CASE /\ Baseline!add_order \/ Baseline!Return
           /\ EventDone(Filled(b_call.id, b_out))
  <2>1. BP!Book!Rest \/ BP!Book!Return
    BY <1>9, BaselineRefines
  <2>2. /\ c.pc = "match"
        /\ c.qty = 0 \/ \A i : ~MakerIn(resting, c, i)
        /\ nx2 = nx /\ resting2 = Left(resting, c) /\ c2 = IdleCall /\ fills2 = fills
    BY <1>2, <1>5, <2>1, BaselineEnds
  <2>3. n2 = n + 1 /\ results2 = Append(results, Filled(c.id, fills))
    BY <1>1, <1>2, <1>5, <1>9 DEF EventDone, RanOK, Engines
  <2> QED
    BY <1>3, <1>4, <1>5, <2>2, <2>3, EndStep
<1>10. CASE /\ Event.type = "cancel"
            /\ Baseline!cancel(Event.id) \/ Baseline!cancel_miss(Event.id)
            /\ EventDone(Cancelled(Event.id \in DOMAIN b_index))
  <2>1. PICK id : id = Event.id
    OBVIOUS
  <2>2. BP!Book!cancel(id)
    BY <1>10, <2>1, BaselineRefines
  <2>3. /\ c.pc = "idle" /\ nx2 = nx /\ resting2 = Without(resting, id) /\ c2 = c
        /\ fills2 = fills
    BY <1>2, <1>5, <2>2, ListOperators DEF BP!Book!cancel
  <2>5. DOMAIN b_index = DOMAIN BP!RestingOrders
    BY DEF BP!RestingOrders
  <2>4. n2 = n + 1 /\ results2 = Append(results, Cancelled(id \in DOMAIN resting))
    BY <1>1, <1>2, <1>5, <1>10, <2>1, <2>5 DEF EventDone, RanOK, Engines
  <2> QED
    BY <1>3, <1>4, <1>5, <1>10, <2>1, <2>3, <2>4, CancelStep
<1> QED
  BY <1>7, <1>8, <1>9, <1>10 DEF run_baseline

-----------------------------------------------------------------------------
(* No limit order to buy at 0.                                              *)

\* The configuration prices no buy limit at 0, which do_match would take for a
\* market order: the middle price is not a whole number of ticks within the levels.
NoBuyAtZero == \A level \in 0..(PriceLevels - 1) : PriceAt("Buy", level) # 0

EventsPriced ==
    \A n \in DOMAIN events :
       events[n].type = "limit" /\ events[n].side = "Buy" => events[n].price # 0

\* The generator prices its limit orders by PriceAt only.
LEMMA GeneratePriced ==
    ASSUME NoBuyAtZero, GenOK, EventsPriced, generate
    PROVE  EventsPriced'
<1>1. PICK rec : /\ events' = Append(events, rec)
                 /\ rec.type = "limit" /\ rec.side = "Buy" => rec.price # 0
  <2>1. ASSUME NEW side \in Side, NEW qty, NEW level \in 0..(PriceLevels - 1),
               limit_event(side, level, qty)
        PROVE  \E rec : /\ events' = Append(events, rec)
                        /\ rec.type = "limit" /\ rec.side = "Buy" => rec.price # 0
    <3> DEFINE r == [type |-> "limit", side |-> side, price |-> PriceAt(side, level),
                     qty |-> qty, id |-> gen_next]
    <3>1. r.side = "Buy" => r.price # 0
      BY DEF NoBuyAtZero
    <3> QED
      BY <2>1, <3>1 DEF limit_event, Emit
  <2>2. ASSUME NEW side, NEW qty, market_event(side, qty)
        PROVE  \E rec : /\ events' = Append(events, rec)
                        /\ rec.type = "limit" /\ rec.side = "Buy" => rec.price # 0
    <3> DEFINE r == [type |-> "market", side |-> side, price |-> 0, qty |-> qty, id |-> 0]
    <3>1. r.type # "limit"
      OBVIOUS
    <3> QED
      BY <2>2, <3>1 DEF market_event, Emit
  <2>3. ASSUME NEW id, cancel_event(id)
        PROVE  \E rec : /\ events' = Append(events, rec)
                        /\ rec.type = "limit" /\ rec.side = "Buy" => rec.price # 0
    <3> DEFINE r == [type |-> "cancel", side |-> "Buy", price |-> 0, qty |-> 0, id |-> id]
    <3>1. r.type # "limit"
      OBVIOUS
    <3> QED
      BY <2>3, <3>1 DEF cancel_event, Emit
  <2> QED
    BY <2>1, <2>2, <2>3 DEF generate
<1>2. IsSeq(events)
  BY LenProperties DEF GenOK, IsSeq
<1>3. /\ DOMAIN events' = DOMAIN events \cup {Len(events) + 1}
      /\ \A k \in DOMAIN events : events'[k] = events[k]
      /\ events'[Len(events) + 1] = rec
  BY <1>1, <1>2, AppendFacts
<1> QED
  BY <1>1, <1>3 DEF EventsPriced

PricedInv == EventsPriced /\ BP!Priced

\* What the list engine is given is priced as its matching supposes.
LEMMA PricedInductive ==
    ASSUME NoBuyAtZero, GenOK, AtOK, PricedInv, [RNext]_rvars
    PROVE  PricedInv'
<1>1. EventsPriced'
  <2>1. CASE Generate
    BY <2>1, GeneratePriced DEF PricedInv, Generate
  <2>2. CASE UNCHANGED events
    BY <2>2 DEF PricedInv, EventsPriced
  <2> QED
    BY <2>1, <2>2 DEF RNext, rvars, gvars, run_baseline, run_optimized, OptimizedThrows, Proceed
<1>2. CASE run_baseline
  <2>1. at \in DOMAIN events /\ Event = events[at]
    BY <1>2, EventTyped DEF run_baseline, Running, AtOK, Event
  <2>2. CASE Event.type = "limit" /\ Baseline!submit_limit(Event.side, Event.price, Event.qty)
    <3>1. Event.side \in Side /\ (Event.side = "Buy" => Event.price # 0)
      BY <1>2, <2>1, <2>2, EventTyped DEF run_baseline, Running, AtOK, PricedInv, EventsPriced
    <3>2. b_call'.price = Event.price /\ b_call'.side = Event.side /\ ~b_call'.is_market
      BY <2>2 DEF Baseline!submit_limit, Baseline!Begin
    <3>3. BP!Priced'
      BY <3>1, <3>2 DEF BP!Priced, Side
    <3> QED
      BY <1>1, <3>3 DEF PricedInv
  <2>3. CASE Baseline!submit_market(Event.side, Event.qty)
    <3>1. b_call'.price = 0 /\ b_call'.is_market
      BY <2>3 DEF Baseline!submit_market, Baseline!Begin
    <3>2. BP!Priced'
      BY <3>1 DEF BP!Priced
    <3> QED
      BY <1>1, <3>2 DEF PricedInv
  <2>4. CASE \E p \in Prices : Baseline!consume_best(p)
    <3>1. PICK q : b_call' = [b_call EXCEPT !.qty = q]
      BY <2>4 DEF Baseline!consume_best
    <3>2. b_call'.pc = b_call.pc /\ b_call'.price = b_call.price
          /\ b_call'.is_market = b_call.is_market /\ b_call'.side = b_call.side
      BY <3>1
    <3>3. BP!Priced'
      BY <3>2 DEF PricedInv, BP!Priced, BP!Matching
    <3> QED
      BY <1>1, <3>3 DEF PricedInv
  <2>5. CASE Baseline!add_order \/ Baseline!Return
    <3>1. b_call'.pc = "idle"
      BY <2>5 DEF Baseline!add_order, Baseline!Return, Baseline!IdleCall
    <3>2. BP!Priced'
      BY <3>1 DEF BP!Priced, BP!Matching
    <3> QED
      BY <1>1, <3>2 DEF PricedInv
  <2>6. CASE Baseline!cancel(Event.id) \/ Baseline!cancel_miss(Event.id)
    BY <1>1, <2>6 DEF PricedInv, BP!Priced, BP!Matching, Baseline!cancel, Baseline!cancel_miss,
       Baseline!vars
  <2> QED
    BY <1>2, <2>2, <2>3, <2>4, <2>5, <2>6 DEF run_baseline
<1>3. CASE Generate \/ run_optimized \/ OptimizedThrows \/ Proceed \/ UNCHANGED rvars
  <2>1. b_call' = b_call
    BY <1>3 DEF Generate, run_optimized, OptimizedThrows, Proceed, rvars, bvars
  <2> QED
    BY <1>1, <2>1 DEF PricedInv, BP!Priced, BP!Matching
<1> QED
  BY <1>2, <1>3 DEF RNext

\* In a run, the list engine is never given a limit order to buy at 0.
LEMMA PricedInvariance == ASSUME NoBuyAtZero PROVE RSpec => []PricedInv
<1>1. RInit => PricedInv
  BY DEF RInit, GInit, PricedInv, EventsPriced, Baseline!Init, Baseline!IdleCall,
     BP!Priced, BP!Matching
<1>2. GenOK /\ AtOK /\ PricedInv /\ [RNext]_rvars => PricedInv'
  BY PricedInductive
<1> QED
  BY <1>1, <1>2, GenInvariance, EngineRuns, PTL DEF RSpec

-----------------------------------------------------------------------------
(* Both engines run the events from the same start.                         *)

\* Where each engine is in a run of the events: at the start while it waits for its
\* turn, at the event of the program while it runs, and at the end afterwards.  An
\* engine that threw had returned from the same calls as some point of a run.
TwinOK ==
    /\ stage \in {"generate", "baseline", "optimized", "reported", "threw"}
    /\ stage = "generate" => BaselineAt(1) = Start
    /\ stage \in {"generate", "baseline"} => OptimizedAt(1) = Start
    /\ stage = "baseline" => Reached(events, BaselineAt(at))
    /\ stage \in {"optimized", "reported", "threw"} =>
          Reached(events, BaselineAt(Len(events) + 1))
    /\ stage = "optimized" => Reached(events, OptimizedAt(at))
    /\ stage = "reported" => Reached(events, OptimizedAt(Len(events) + 1))
    /\ stage = "threw" => \E s : Reached(events, s) /\ s.results = ran["optimized"]

\* Each engine goes on from where it was in a run of the events; the other one waits.
LEMMA TwinInductive ==
    ASSUME GenOK, AtOK, IdsInv, PricedInv, BP!ListInv, IInv, TwinOK, [RNext]_rvars
    PROVE  TwinOK'
<1>1. /\ RanOK /\ BP!Priced /\ Len(events) \in Nat /\ at \in Nat
      /\ stage \in {"baseline", "optimized"} => at <= Len(events) + 1
  BY DEF IdsInv, IdsOK, PricedInv, GenOK, AtOK, CallAt
<1>2. ASSUME UNCHANGED bvars, ran'["baseline"] = ran["baseline"], NEW n
      PROVE  BaselineAt(n)' = BaselineAt(n)
  BY <1>2 DEF bvars, BaselineAt, BP!RestingOrders, BP!NodeQty, BP!Node
<1>3. ASSUME UNCHANGED vars, ran'["optimized"] = ran["optimized"], NEW n
      PROVE  OptimizedAt(n)' = OptimizedAt(n)
  BY <1>3, SameResting DEF vars, OptimizedAt
<1>4. CASE Generate
  <2>1. stage = "generate" /\ stage' = stage /\ UNCHANGED <<vars, bvars, ran>>
    BY <1>4 DEF Generate
  <2>2. BaselineAt(1)' = BaselineAt(1) /\ OptimizedAt(1)' = OptimizedAt(1)
    BY <1>2, <1>3, <2>1
  <2> QED
    BY <2>1, <2>2 DEF TwinOK
<1>5. CASE run_baseline
  <2>1. /\ stage = "baseline" /\ stage' = stage /\ UNCHANGED vars /\ events' = events
        /\ ran'["optimized"] = ran["optimized"]
    BY <1>1, <1>5 DEF run_baseline, Running, gvars, EventDone, RanOK, Engines
  <2>2. OptimizedAt(1)' = OptimizedAt(1)
    BY <1>3, <2>1
  <2>3. PICK list, s, t : list = events /\ s = BaselineAt(at) /\ t = BaselineAt(at)'
    OBVIOUS
  <2>4. Reached(list, s) /\ PointStep(list, s, t)
    BY <1>1, <1>5, <2>1, <2>3, BaselineMoves DEF TwinOK
  <2>5. Reached(list, t)
    BY <2>4, ReachedStep
  <2> QED
    BY <2>1, <2>2, <2>3, <2>5 DEF TwinOK
<1>6. CASE run_optimized
  <2>1. /\ stage = "optimized" /\ stage' = stage /\ UNCHANGED bvars /\ events' = events
        /\ ran'["baseline"] = ran["baseline"]
    BY <1>1, <1>6 DEF run_optimized, Running, gvars, EventDone, RanOK, Engines
  <2>2. BaselineAt(Len(events) + 1)' = BaselineAt(Len(events) + 1)
    <3>1. PICK n : n = Len(events) + 1
      OBVIOUS
    <3>2. BaselineAt(n)' = BaselineAt(n)
      BY <1>2, <2>1
    <3> QED
      BY <2>1, <3>1, <3>2 DEF BaselineAt
  <2>3. PICK list, s, t : list = events /\ s = OptimizedAt(at) /\ t = OptimizedAt(at)'
    OBVIOUS
  <2>4. Reached(list, s) /\ PointStep(list, s, t)
    BY <1>1, <1>6, <2>1, <2>3, OptimizedMoves DEF TwinOK
  <2>5. Reached(list, t)
    BY <2>4, ReachedStep
  <2> QED
    BY <2>1, <2>2, <2>3, <2>5 DEF TwinOK
<1>7. CASE OptimizedThrows
  <2>1. /\ stage = "optimized" /\ stage' = "threw" /\ UNCHANGED <<bvars, events, ran>>
    BY <1>7 DEF OptimizedThrows, Running, gvars
  <2>2. BaselineAt(Len(events) + 1)' = BaselineAt(Len(events) + 1)
    <3>1. PICK n : n = Len(events) + 1
      OBVIOUS
    <3>2. BaselineAt(n)' = BaselineAt(n)
      BY <1>2, <2>1
    <3> QED
      BY <2>1, <3>1, <3>2 DEF BaselineAt
  <2>3. OptimizedAt(at).results = ran["optimized"]
    BY DEF OptimizedAt, Point
  <2> QED
    BY <2>1, <2>2, <2>3 DEF TwinOK
<1>8. CASE Proceed
  <2>1. at' = 1 /\ UNCHANGED <<vars, bvars, ran, events>>
    BY <1>8 DEF Proceed, gvars
  <2>2. \A n : BaselineAt(n)' = BaselineAt(n) /\ OptimizedAt(n)' = OptimizedAt(n)
    BY <1>2, <1>3, <2>1
  <2>3. ASSUME NEW n, n = at' PROVE BaselineAt(at)' = BaselineAt(n) /\ OptimizedAt(at)' = OptimizedAt(n)
    BY <2>2, <2>3 DEF BaselineAt, OptimizedAt
  <2>4. BaselineAt(at)' = BaselineAt(1) /\ OptimizedAt(at)' = OptimizedAt(1)
    BY <2>1, <2>3
  <2>5. ASSUME NEW n, n = Len(events)
        PROVE  /\ BaselineAt(Len(events) + 1)' = BaselineAt(n + 1)
               /\ OptimizedAt(Len(events) + 1)' = OptimizedAt(n + 1)
    BY <2>1, <2>2, <2>5 DEF BaselineAt, OptimizedAt
  <2>6. /\ BaselineAt(Len(events) + 1)' = BaselineAt(Len(events) + 1)
        /\ OptimizedAt(Len(events) + 1)' = OptimizedAt(Len(events) + 1)
    BY <2>5
  <2>7. CASE stage = "generate" /\ stage' = "baseline"
    <3>1. Reached(events', BaselineAt(at)')
      BY <2>1, <2>4, <2>7, ReachedStart DEF TwinOK
    <3> QED
      BY <2>2, <2>7, <3>1 DEF TwinOK
  <2>8. CASE stage = "baseline" /\ stage' = "optimized" /\ at > Len(events)
    <3>1. at = Len(events) + 1
      BY <1>1, <2>8
    <3>2. Reached(events, BaselineAt(Len(events) + 1)) /\ OptimizedAt(1) = Start
      BY <2>8, <3>1 DEF TwinOK
    <3>3. Reached(events', OptimizedAt(at)')
      BY <2>1, <2>4, <3>2, ReachedStart
    <3> QED
      BY <2>1, <2>6, <2>8, <3>2, <3>3 DEF TwinOK
  <2>9. CASE stage = "optimized" /\ stage' = "reported" /\ at > Len(events)
    <3>1. at = Len(events) + 1
      BY <1>1, <2>9
    <3>2. Reached(events, OptimizedAt(Len(events) + 1)) /\ Reached(events, BaselineAt(Len(events) + 1))
      BY <2>9, <3>1 DEF TwinOK
    <3> QED
      BY <2>1, <2>6, <2>9, <3>2 DEF TwinOK
  <2> QED
    BY <1>8, <2>7, <2>8, <2>9 DEF Proceed
<1>9. CASE UNCHANGED rvars
  <2>1. UNCHANGED <<vars, bvars, ran, at, events, stage>>
    BY <1>9 DEF rvars, gvars
  <2>2. \A n : BaselineAt(n)' = BaselineAt(n) /\ OptimizedAt(n)' = OptimizedAt(n)
    BY <1>2, <1>3, <2>1
  <2>3. ASSUME NEW n, n = at PROVE BaselineAt(at)' = BaselineAt(n) /\ OptimizedAt(at)' = OptimizedAt(n)
    BY <2>1, <2>2, <2>3 DEF BaselineAt, OptimizedAt
  <2>4. ASSUME NEW n, n = Len(events)
        PROVE  /\ BaselineAt(Len(events) + 1)' = BaselineAt(n + 1)
               /\ OptimizedAt(Len(events) + 1)' = OptimizedAt(n + 1)
    BY <2>1, <2>2, <2>4 DEF BaselineAt, OptimizedAt
  <2> QED
    BY <2>1, <2>2, <2>3, <2>4 DEF TwinOK
<1> QED
  BY <1>4, <1>5, <1>6, <1>7, <1>8, <1>9 DEF RNext

\* Both engines begin with an empty book.
LEMMA TwinInit == RInit => TwinOK
<1> SUFFICES ASSUME RInit PROVE TwinOK
  OBVIOUS
<1>1. stage = "generate" /\ Init /\ Baseline!Init
      /\ ran["baseline"] = <<>> /\ ran["optimized"] = <<>>
  BY DEF RInit
<1>2. OptimizedAt(1) = Start
  <2>1. RestingOrders = Empty
    BY <1>1 DEF Init, RestingOrders, Empty
  <2> QED
    BY <1>1, <2>1 DEF Init, OptimizedAt, Start
<1>3. BaselineAt(1) = Start
  <2>1. BP!RestingOrders = Empty
    BY <1>1, SameListEngine DEF BP!Init, BP!RestingOrders, BP!Empty, Empty
  <2> QED
    BY <1>1, <2>1, SameListEngine, ListValues DEF BP!Init, BaselineAt, Start
<1> QED
  BY <1>1, <1>2, <1>3 DEF TwinOK

\* At every point of the program, each engine is in a run of the events.
LEMMA TwinInvariance == ASSUME NoBuyAtZero PROVE RSpec => []TwinOK
<1>1. /\ GenOK /\ AtOK /\ IdsInv /\ PricedInv /\ BP!ListInv /\ IInv /\ TwinOK
      /\ [RNext]_rvars
      => TwinOK'
  BY TwinInductive
<1>2. RSpec => []BP!ListInv /\ []PricedInv
  BY BaselineInvariance, PricedInvariance, PTL
<1>3. RSpec => []IInv
  BY EngineRuns, Invariance, PTL
<1> QED
  BY <1>1, <1>2, <1>3, TwinInit, GenInvariance, IdsInvariance, EngineRuns, PTL DEF RSpec

-----------------------------------------------------------------------------
(* The same book shows the same levels and volumes.                          *)

\* The sums over what rests are the same in both instances.
LEMMA SameSums ==
    /\ \A resting, side : BP!PricesOf(resting, side) = PricesOf(resting, side)
    /\ \A resting, side, p : BP!RestingSum(resting, side, p) = RestingSum(resting, side, p)
<1>1. \A f, S : BP!SumFunctionOnSet(f, S) = SumFunctionOnSet(f, S)
  BY DEF SumFunctionOnSet, BP!SumFunctionOnSet, FoldFunctionOnSet, BP!FoldFunctionOnSet,
     MapThenFoldSet, BP!MapThenFoldSet
<1>2. \A resting, side, p : BP!RestingSum(resting, side, p) = RestingSum(resting, side, p)
  BY <1>1 DEF BP!RestingSum, RestingSum, BP!AtPrice, AtPrice
<1> QED
  BY <1>2 DEF BP!PricesOf, PricesOf

\* Two engines with the same orders show the same levels and volumes.
LEMMA SameVolumes ==
    ASSUME IInv, VolumeOK, BP!ListInv, RestingOrders = BP!RestingOrders, NEW side \in Side
    PROVE  /\ DOMAIN levels[side] = DOMAIN b_levels[side]
           /\ \A p \in DOMAIN levels[side] :
                 levels[side][p].total_volume = b_levels[side][p].total_volume
<1>1. side \in BP!Side
  BY ListValues
<1>2. /\ DOMAIN b_levels[side] = BP!PricesOf(BP!RestingOrders, side)
      /\ \A p \in DOMAIN b_levels[side] :
            b_levels[side][p].total_volume = BP!RestingSum(BP!RestingOrders, side, p) % WordMod
  BY <1>1, BP!ListVolume, OrderAssumption, WordAssumption, ListValues
<1> QED
  BY <1>2, LevelVolume, SameSums

\* Over the same events the baseline and the optimized engine do the same work: call
\* by call the same ids, the same fills and the same orders found to cancel, and at
\* the end the same orders and volumes, whatever is traded, cancelled or refused in
\* between (benchmark_runner.cpp:123 calls the comparison fair).
THEOREM SameWork == ASSUME NoBuyAtZero PROVE RSpec => []SameResults
<1>1. ASSUME GenOK, AtOK, IdsInv, TwinOK, BP!ListInv, IInv, VolumeOK
      PROVE  SameResults
  <2> DEFINE r == ran["optimized"]
             b == ran["baseline"]
  <2>1. /\ IsSeq(r) /\ IsSeq(b) /\ DOMAIN r = 1..Len(r) /\ Len(events) \in Nat
        /\ stage \in {"generate", "baseline"} => Len(r) = 0
    BY <1>1, SeqFacts DEF IdsInv, IdsOK, RanOK, Engines, GenOK
  <2>2. CASE stage \in {"generate", "baseline"}
    BY <2>1, <2>2 DEF SameResults
  <2>3. CASE stage \in {"optimized", "reported", "threw"}
    <3>1. PICK list, s : list = events /\ s = BaselineAt(Len(events) + 1)
      OBVIOUS
    <3>2. PICK t : /\ Reached(list, t) /\ t.results = r
                   /\ stage = "reported" => t = OptimizedAt(Len(events) + 1)
      <4>1. OptimizedAt(at).results = r /\ OptimizedAt(Len(events) + 1).results = r
        BY DEF OptimizedAt, Point
      <4> QED
        BY <1>1, <2>3, <3>1, <4>1 DEF TwinOK
    <3>3. Reached(list, s) /\ s.n = Len(list) + 1 /\ s.results = b
          /\ s.resting = BP!RestingOrders
      BY <1>1, <2>3, <3>1 DEF TwinOK, BaselineAt, Point
    <3>4. Extends(t.results, s.results) /\ (t.n = Len(list) + 1 => t = s)
      BY <2>1, <3>1, <3>2, <3>3, RunOver
    <3>5. \A n \in DOMAIN r : r[n] = b[n]
      BY <2>1, <3>2, <3>3, <3>4 DEF Extends
    <3>6. ASSUME stage = "reported" PROVE RestingOrders = BP!RestingOrders
      <4>1. t.n = Len(list) + 1 /\ t.resting = RestingOrders
        BY <3>1, <3>2, <3>6 DEF OptimizedAt, Point
      <4> QED
        BY <3>3, <3>4, <4>1
    <3> QED
      BY <1>1, <3>5, <3>6, SameListEngine, SameVolumes DEF SameResults
  <2> QED
    BY <1>1, <2>2, <2>3 DEF TwinOK
<1>2. RSpec => []IInv /\ []VolumeOK
  BY EngineRuns, Invariance, VolumesCorrect, PTL
<1> QED
  BY <1>1, <1>2, TwinInvariance, BaselineInvariance, GenInvariance, IdsInvariance, EngineRuns, PTL

===============================================================================
