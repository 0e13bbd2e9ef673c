----------------------------- MODULE LatencyProofs -----------------------------
(***************************************************************************)
(* Proofs about LatencyStats: the samples and the percentiles of every     *)
(* benchmark, for any number of events, batch size and clock.              *)
(*                                                                         *)
(* A percentile is found by its rank in the sorted samples; that at least  *)
(* as many samples as its rank are no more than it is a statement about    *)
(* cardinalities, proved from the existence of a value of every rank.      *)
(***************************************************************************)
EXTENDS LatencyStats, DataFacts


-----------------------------------------------------------------------------
(* The samples.                                                             *)

RunType == [pc : {"loop", "batch", "done"}, i : Nat, j : Nat, batch_end : Nat, ns : Nat]

\* What the loop has timed; i is the first event of the batch being timed.
LoopInv ==
    /\ events \in Nat /\ run \in RunType
    /\ lats \in Seq(Nat) /\ sizes \in Seq(Nat)
    /\ \A n \in DOMAIN sizes : sizes[n] \in 1..BatchSize
    /\ run.pc = "batch" => /\ run.i < events
                           /\ run.batch_end = Least(run.i + BatchSize, events)
                           /\ run.j <= run.batch_end
    /\ SumFunction(sizes) = Least(run.i, events)
    /\ run.pc = "done" => /\ run.i >= events
                          /\ stats \in {Figures(Len(lats)), Figures(events)}

\* LoopInv is inductive.
LEMMA LoopInit == LInit => LoopInv
<1> SUFFICES ASSUME LInit PROVE LoopInv
  OBVIOUS
<1>1. /\ events \in Nat /\ run \in RunType /\ run.pc = "loop" /\ run.i = 0
      /\ lats = <<>> /\ sizes = <<>>
  BY StatsAssumption DEF LInit, RunType
<1>2. SumFunction(sizes) = Least(run.i, events)
  BY <1>1, SumOfSequence DEF Least
<1> QED
  BY <1>1, <1>2 DEF LoopInv

\* One sample more, of n events.
LEMMA SampleFacts ==
    ASSUME LoopInv, NEW n \in 1..BatchSize, NEW v \in Nat,
           lats' = Append(lats, v), sizes' = Append(sizes, n)
    PROVE  /\ lats' \in Seq(Nat) /\ sizes' \in Seq(Nat)
           /\ \A k \in DOMAIN sizes' : sizes'[k] \in 1..BatchSize
           /\ SumFunction(sizes') = Least(run.i, events) + n
<1>1. lats \in Seq(Nat) /\ sizes \in Seq(Nat) /\ n \in Nat /\ n \in Int
  BY StatsAssumption DEF LoopInv
<1>2. sizes \in Seq(Int)
  BY <1>1
<1>3. SumFunction(sizes') = SumFunction(sizes) + n
  BY <1>1, <1>2, SumOfSequence
<1>4. \A k \in DOMAIN sizes' : (k \in DOMAIN sizes /\ sizes'[k] = sizes[k]) \/ sizes'[k] = n
  <2>1. Len(sizes) \in Nat /\ DOMAIN sizes = 1..Len(sizes)
    BY <1>1
  <2>2. DOMAIN sizes' = 1..(Len(sizes) + 1) /\ sizes'[Len(sizes) + 1] = n
    BY <1>1
  <2>3. \A k \in DOMAIN sizes : sizes'[k] = sizes[k]
    BY <1>1
  <2> QED
    BY <2>1, <2>2, <2>3
<1> QED
  BY <1>1, <1>3, <1>4 DEF LoopInv

LEMMA BeginBatchKeeps == LoopInv /\ BeginBatch => LoopInv'
<1> SUFFICES ASSUME LoopInv, BeginBatch PROVE LoopInv'
  OBVIOUS
<1> DEFINE b == Least(run.i + BatchSize, events)
<1>1. /\ run.pc = "loop" /\ run.i < events /\ UNCHANGED <<events, lats, sizes>>
      /\ run' = [run EXCEPT !.pc = "batch", !.j = run.i, !.ns = 0, !.batch_end = b]
  BY DEF BeginBatch
<1>2. run \in RunType /\ run.i \in Nat /\ events \in Nat
  BY DEF LoopInv, RunType
<1>3. b \in Nat /\ run.i <= b
  BY <1>1, <1>2, StatsAssumption DEF Least
<1> HIDE DEF b
<1>4. /\ run' \in RunType /\ run'.pc = "batch" /\ run'.i = run.i /\ run'.j = run.i
      /\ run'.batch_end = b
  BY <1>1, <1>2, <1>3 DEF RunType
<1> QED
  BY <1>1, <1>2, <1>3, <1>4 DEF LoopInv, b

LEMMA RunEventKeeps == ASSUME LoopInv, NEW ns \in 0..MaxNs, RunEvent(ns) PROVE LoopInv'
<1>1. /\ run.pc = "batch" /\ run.j < run.batch_end /\ UNCHANGED <<events, lats, sizes>>
      /\ run' = [run EXCEPT !.j = @ + 1, !.ns = @ + ns]
  BY DEF RunEvent
<1>2. /\ run \in RunType /\ run.j \in Nat /\ run.ns \in Nat /\ ns \in Nat
      /\ run.batch_end \in Nat
  BY StatsAssumption DEF LoopInv, RunType
<1>3. run.j + 1 \in Nat /\ run.ns + ns \in Nat /\ run.j + 1 <= run.batch_end
  BY <1>1, <1>2
<1>4. /\ run' \in RunType /\ run'.pc = "batch" /\ run'.i = run.i /\ run'.j = run.j + 1
      /\ run'.batch_end = run.batch_end
  BY <1>1, <1>2, <1>3 DEF RunType
<1> QED
  BY <1>1, <1>3, <1>4 DEF LoopInv

\* A batch leaves one sample, and the next one begins where it ended.
LEMMA EndBatchKeeps == LoopInv /\ EndBatch => LoopInv'
<1> SUFFICES ASSUME LoopInv, EndBatch PROVE LoopInv'
  OBVIOUS
<1> DEFINE n == run.batch_end - run.i
           v == run.ns \div n
           next == IF program = "runner" THEN run.batch_end ELSE run.i + BatchSize
<1>1. /\ run.pc = "batch" /\ run.j = run.batch_end
      /\ lats' = Append(lats, v) /\ sizes' = Append(sizes, n)
      /\ run' = [run EXCEPT !.pc = "loop", !.i = next]
      /\ events' = events
  BY DEF EndBatch
<1>2. /\ run \in RunType /\ run.i \in Nat /\ run.batch_end \in Nat /\ run.ns \in Nat
      /\ events \in Nat /\ BatchSize \in Nat \ {0}
      /\ run.i < events /\ run.batch_end = Least(run.i + BatchSize, events)
  BY <1>1, StatsAssumption DEF LoopInv, RunType
<1>3. /\ n \in 1..BatchSize /\ next \in Nat
      /\ Least(run.i, events) + n = Least(next, events)
  BY <1>2 DEF Least
<1>4. v \in Nat
  <2> HIDE DEF n
  <2> QED
    BY <1>2, <1>3
<1> HIDE DEF n, v, next
<1>5. /\ lats' \in Seq(Nat) /\ sizes' \in Seq(Nat)
      /\ \A k \in DOMAIN sizes' : sizes'[k] \in 1..BatchSize
      /\ SumFunction(sizes') = Least(run.i, events) + n
  BY <1>1, <1>3, <1>4, SampleFacts
<1>6. run' \in RunType /\ run'.pc = "loop" /\ run'.i = next
  BY <1>1, <1>2, <1>3 DEF RunType
<1> QED
  BY <1>1, <1>2, <1>3, <1>5, <1>6 DEF LoopInv

\* The standalone benchmark: a batch of one.
LEMMA TimeEventKeeps == ASSUME LoopInv, NEW ns \in 0..MaxNs, TimeEvent(ns) PROVE LoopInv'
<1>1. /\ run.pc = "loop" /\ run.i < events /\ events' = events
      /\ lats' = Append(lats, ns) /\ sizes' = Append(sizes, 1)
      /\ run' = [run EXCEPT !.i = @ + 1]
  BY DEF TimeEvent
<1>2. run \in RunType /\ run.i \in Nat /\ events \in Nat /\ 1 \in 1..BatchSize /\ ns \in Nat
  BY StatsAssumption DEF LoopInv, RunType
<1>3. /\ lats' \in Seq(Nat) /\ sizes' \in Seq(Nat)
      /\ \A k \in DOMAIN sizes' : sizes'[k] \in 1..BatchSize
      /\ SumFunction(sizes') = Least(run.i, events) + 1
  BY <1>1, <1>2, SampleFacts
<1>4. run.i + 1 \in Nat /\ Least(run.i, events) + 1 = Least(run.i + 1, events)
  BY <1>1, <1>2 DEF Least
<1>5. run' \in RunType /\ run'.pc = "loop" /\ run'.i = run.i + 1
  BY <1>1, <1>2, <1>4 DEF RunType
<1> QED
  BY <1>1, <1>2, <1>3, <1>4, <1>5 DEF LoopInv

LEMMA FinishKeeps ==
    ASSUME LoopInv, NEW total, total = Len(lats) \/ total = events, Finish(total)
    PROVE  LoopInv'
<1>1. /\ run.pc = "loop" /\ run.i >= events /\ UNCHANGED <<events, lats, sizes>>
      /\ run' = [run EXCEPT !.pc = "done"] /\ stats' = Figures(total)
  BY DEF Finish
<1>2. run' \in RunType /\ run'.pc = "done" /\ run'.i = run.i
  BY <1>1 DEF LoopInv, RunType
<1>3. stats' \in {Figures(Len(lats))', Figures(events)'}
  BY <1>1 DEF Figures
<1> QED
  BY <1>1, <1>2, <1>3 DEF LoopInv

LEMMA LoopInductive == LoopInv /\ [LNext]_lvars => LoopInv'
<1> SUFFICES ASSUME LoopInv, [LNext]_lvars PROVE LoopInv'
  OBVIOUS
<1>1. CASE BeginBatch
  BY <1>1, BeginBatchKeeps
<1>2. CASE EndBatch
  BY <1>2, EndBatchKeeps
<1>3. ASSUME NEW ns \in 0..MaxNs, RunEvent(ns) PROVE LoopInv'
  BY <1>3, RunEventKeeps
<1>4. ASSUME NEW ns \in 0..MaxNs, TimeEvent(ns) PROVE LoopInv'
  BY <1>4, TimeEventKeeps
<1>5. CASE compute \/ run_benchmark_result \/ wasm_result
  BY <1>5, FinishKeeps DEF compute, run_benchmark_result, wasm_result
<1>6. CASE UNCHANGED lvars
  BY <1>6 DEF lvars, LoopInv, Figures
<1> QED
  BY <1>1, <1>2, <1>3, <1>4, <1>5, <1>6 DEF LNext

LEMMA LoopInvariant == LSpec => []LoopInv
<1> QED
  BY LoopInit, LoopInductive, PTL DEF LSpec

\* In every benchmark, for every number of events and batch size, each event is
\* run in exactly one batch, no batch is empty and none is longer than
\* BatchSize, whether the loop goes on at the end of the batch or a whole batch
\* further.
THEOREM EventsTimedOnce == LSpec => []EveryEventTimed
<1>1. LoopInv => EveryEventTimed
  BY DEF LoopInv, EveryEventTimed
<1> QED
  BY <1>1, LoopInvariant, PTL

-----------------------------------------------------------------------------
(* The percentiles.                                                         *)

\* The samples below v and those not above it, and how many are above.
Under(s, v) == {n \in DOMAIN s : s[n] < v}
UpTo(s, v)  == {n \in DOMAIN s : s[n] <= v}
Over(s, v)  == Cardinality({n \in DOMAIN s : s[n] > v})

\* Among some samples one is the largest.
LEMMA LargestSample ==
    ASSUME NEW s \in Seq(Nat), NEW W, W \subseteq DOMAIN s, W # {}
    PROVE  \E p \in W : \A q \in W : s[q] <= s[p]
<1> DEFINE Larger(p) == {q \in W : s[q] > s[p]}
           Sizes == {Cardinality(Larger(p)) : p \in W}
<1>1. IsFiniteSet(W) /\ \A p \in W : s[p] \in Nat
  <2>1. DOMAIN s = 1..Len(s) /\ Len(s) \in Nat
    OBVIOUS
  <2>2. IsFiniteSet(1..Len(s))
    BY <2>1, FS_Interval
  <2>3. IsFiniteSet(W)
    BY <2>1, <2>2, FS_Subset
  <2> QED
    BY <2>1, <2>3
<1>2. \A p \in W : Larger(p) \in SUBSET W /\ Cardinality(Larger(p)) \in Nat
  <2>1. \A p \in W : Larger(p) \in SUBSET W
    OBVIOUS
  <2> HIDE DEF Larger
  <2> QED
    BY <1>1, <2>1, SubsetFacts
<1>3. PICK p \in W : \A q \in W : Cardinality(Larger(p)) <= Cardinality(Larger(q))
  <2>1. Sizes \subseteq Nat /\ Sizes # {}
    BY <1>2
  <2>2. PICK c \in Sizes : \A d \in Sizes : c <= d
    <3> HIDE DEF Sizes
    <3> QED
      BY <2>1, LeastNatural
  <2> HIDE DEF Larger
  <2> QED
    BY <2>2
<1>4. ASSUME NEW q \in W, s[q] > s[p] PROVE FALSE
  <2>1. q \in Larger(p) /\ Larger(q) \subseteq Larger(p) \ {q}
    BY <1>1, <1>4
  <2>2. IsFiniteSet(Larger(p))
    BY <1>1, <1>2, SubsetFacts
  <2> HIDE DEF Larger
  <2>3. Cardinality(Larger(p) \ {q}) = Cardinality(Larger(p)) - 1 /\ IsFiniteSet(Larger(p) \ {q})
    BY <2>1, <2>2, SubsetFacts
  <2>4. Cardinality(Larger(q)) <= Cardinality(Larger(p) \ {q})
    BY <2>1, <2>3, FS_Subset
  <2> QED
    BY <1>2, <1>3, <2>3, <2>4
<1> QED
  BY <1>1, <1>4

\* Some sample has rank k: fewer than k are below it, at least k not above it.
LEMMA RankExists ==
    ASSUME NEW s \in Seq(Nat), NEW k \in 1..Len(s)
    PROVE  \E v \in Range(s) : /\ Cardinality(Under(s, v)) < k
                               /\ k <= Cardinality(UpTo(s, v))
<1> DEFINE T == {v \in Range(s) : k <= Cardinality(UpTo(s, v))}
<1>1. /\ DOMAIN s = 1..Len(s) /\ Len(s) \in Nat /\ Range(s) \subseteq Nat
      /\ \A n \in DOMAIN s : s[n] \in Nat /\ s[n] \in Range(s)
  BY DEF Range
<1>2. IsFiniteSet(DOMAIN s) /\ Cardinality(DOMAIN s) = Len(s)
  <2>1. PICK n \in Nat : n = Len(s)
    BY <1>1
  <2>2. IsFiniteSet(1..n) /\ Cardinality(1..n) = IF 1 > n THEN 0 ELSE n - 1 + 1
    BY FS_Interval
  <2>3. Cardinality(1..n) = n
    BY <2>2
  <2> QED
    BY <1>1, <2>1, <2>2, <2>3
<1>3. T # {}
  <2>1. PICK p \in DOMAIN s : \A q \in DOMAIN s : s[q] <= s[p]
    BY <1>1, LargestSample
  <2>2. UpTo(s, s[p]) = DOMAIN s
    BY <2>1 DEF UpTo
  <2>3. s[p] \in T
    BY <1>1, <1>2, <2>2
  <2> QED
    BY <2>3
<1>4. T \subseteq Nat
  BY <1>1
<1>5. PICK v \in T : \A w \in T : v <= w
  <2> HIDE DEF T
  <2> QED
    BY <1>3, <1>4, LeastNatural
<1>6. Cardinality(Under(s, v)) \in Nat
  <2>1. Under(s, v) \in SUBSET DOMAIN s
    BY DEF Under
  <2> QED
    BY <1>2, <2>1, SubsetFacts
<1>7. ASSUME k <= Cardinality(Under(s, v)) PROVE FALSE
  <2>1. Under(s, v) # {}
    <3>1. Cardinality({}) = 0 /\ ~(k <= 0)
      BY FS_EmptySet
    <3> QED
      BY <1>7, <3>1
  <2>2. Under(s, v) \subseteq DOMAIN s
    BY DEF Under
  <2>3. PICK p \in Under(s, v) : \A q \in Under(s, v) : s[q] <= s[p]
    BY <2>1, <2>2, LargestSample
  <2>4. p \in DOMAIN s /\ s[p] < v /\ v \in Nat
    BY <1>4, <2>3 DEF Under
  <2>5. UpTo(s, s[p]) = Under(s, v)
    BY <1>1, <2>3, <2>4 DEF UpTo, Under
  <2>6. s[p] \in T
    BY <1>1, <1>7, <2>4, <2>5
  <2> QED
    BY <1>1, <1>4, <1>5, <2>4, <2>6
<1>8. Cardinality(Under(s, v)) < k
  BY <1>6, <1>7
<1> QED
  BY <1>5, <1>8

\* The sorted samples go upwards, and after rank k at most the rest is larger.
LEMMA SortedFacts ==
    ASSUME NEW s \in Seq(Nat)
    PROVE  /\ DOMAIN Sorted(s) = 1..Len(s) /\ Len(Sorted(s)) = Len(s)
           /\ \A k \in 1..Len(s) :
                 /\ Sorted(s)[k] \in Nat
                 /\ Over(s, Sorted(s)[k]) \in Nat
                 /\ Over(s, Sorted(s)[k]) <= Len(s) - k
           /\ \A k, l \in 1..Len(s) : k <= l => Sorted(s)[k] <= Sorted(s)[l]
<1> DEFINE ns == Sorted(s)
           N == Len(s)
<1>1. /\ N \in Nat /\ DOMAIN s = 1..N /\ Range(s) \subseteq Nat
      /\ \A n \in DOMAIN s : s[n] \in Nat
  BY DEF Range
<1>2. IsFiniteSet(DOMAIN s) /\ Cardinality(DOMAIN s) = N
  BY <1>1, FS_Interval
<1>3. ns = [k \in 1..N |-> CHOOSE v \in Range(s) : /\ Cardinality(Under(s, v)) < k
                                                   /\ k <= Cardinality(UpTo(s, v))]
  BY <1>1 DEF Sorted, Under, UpTo
<1> HIDE DEF ns
<1>4. ASSUME NEW k \in 1..N
      PROVE  /\ ns[k] \in Range(s)
             /\ Cardinality(Under(s, ns[k])) < k
             /\ k <= Cardinality(UpTo(s, ns[k]))
  BY <1>3, RankExists
<1>5. \A v : /\ IsFiniteSet(Under(s, v)) /\ IsFiniteSet(UpTo(s, v))
             /\ Cardinality(Under(s, v)) \in Nat /\ Cardinality(UpTo(s, v)) \in Nat
  <2> SUFFICES ASSUME NEW v
               PROVE  /\ IsFiniteSet(Under(s, v)) /\ IsFiniteSet(UpTo(s, v))
                      /\ Cardinality(Under(s, v)) \in Nat
                      /\ Cardinality(UpTo(s, v)) \in Nat
    OBVIOUS
  <2>1. Under(s, v) \in SUBSET DOMAIN s /\ UpTo(s, v) \in SUBSET DOMAIN s
    BY DEF Under, UpTo
  <2> QED
    BY <1>2, <2>1, SubsetFacts
<1>6. ASSUME NEW k \in 1..N, NEW l \in 1..N, k <= l
      PROVE  ns[k] <= ns[l]
  <2>1. ns[k] \in Nat /\ ns[l] \in Nat
    BY <1>1, <1>4
  <2>2. CASE ns[l] < ns[k]
    <3>1. UpTo(s, ns[l]) \subseteq Under(s, ns[k])
      BY <1>1, <2>1, <2>2 DEF UpTo, Under
    <3>2. Cardinality(UpTo(s, ns[l])) <= Cardinality(Under(s, ns[k]))
      BY <1>5, <3>1, FS_Subset
    <3>3. l <= Cardinality(UpTo(s, ns[l])) /\ Cardinality(Under(s, ns[k])) < k
      BY <1>4
    <3> QED
      BY <1>5, <1>6, <3>2, <3>3
  <2> QED
    BY <2>1, <2>2
<1>7. ASSUME NEW k \in 1..N
      PROVE  Over(s, ns[k]) \in Nat /\ Over(s, ns[k]) <= N - k
  <2> DEFINE over == {n \in DOMAIN s : s[n] > ns[k]}
             u == UpTo(s, ns[k])
  <2>1. ns[k] \in Nat
    BY <1>1, <1>4
  <2>2. over = DOMAIN s \ u /\ u \subseteq DOMAIN s /\ (DOMAIN s) \cap u = u
    BY <1>1, <2>1 DEF UpTo
  <2>3. IsFiniteSet(u) /\ k <= Cardinality(u) /\ Cardinality(u) \in Nat
    BY <1>4, <1>5
  <2> HIDE DEF over, u
  <2>4. Cardinality(over) = N - Cardinality(u) /\ Cardinality(over) \in Nat
    <3>1. /\ IsFiniteSet(DOMAIN s \ u)
          /\ Cardinality(DOMAIN s \ u) = Cardinality(DOMAIN s) - Cardinality(DOMAIN s \cap u)
      BY <1>2, FS_Difference
    <3>2. Cardinality(DOMAIN s \ u) \in Nat
      BY <3>1, FS_CardinalityType
    <3> QED
      BY <1>2, <2>2, <3>1, <3>2
  <2> QED
    BY <1>1, <2>3, <2>4 DEF over, Over
<1>8. DOMAIN ns = 1..N /\ Len(ns) = N
  BY <1>1, <1>3
<1>9. \A k \in 1..N : ns[k] \in Nat
  BY <1>1, <1>4
<1> QED
  BY <1>6, <1>7, <1>8, <1>9 DEF ns

\* Rounding is to the nearest, and keeps the order.
LEMMA LroundFacts ==
    ASSUME NEW x \in Nat
    PROVE  Lround(x) \in Nat /\ 1000 * Lround(x) <= x + 500 /\ x + 500 < 1000 * Lround(x) + 1000
BY DEF Lround

\* The rank of a percentile, given p * m: no less than half a sample short of
\* its share of the samples.
LEMMA RankFacts ==
    ASSUME NEW m \in Nat, NEW x \in Nat
    PROVE  x <= 1000 * m =>
              /\ Least(Lround(x), m) \in 0..m
              /\ 1000 * (m - Least(Lround(x), m)) <= 1000 * m - x + 500
<1> DEFINE r == Lround(x)
<1>1. r \in Nat /\ x + 500 < 1000 * r + 1000
  BY LroundFacts
<1> HIDE DEF r
<1>2. 1000 * (m - r) <= 1000 * m - x + 500
  BY <1>1
<1>3. Least(Lround(x), m) = r \/ (Least(Lround(x), m) = m /\ m < r)
  BY <1>1 DEF Least, r
<1>4. Least(Lround(x), m) = r => r \in 0..m
  BY <1>1 DEF Least, r
<1> QED
  BY <1>1, <1>2, <1>3, <1>4

\* Rounding keeps the order of ranks.
LEMMA RankOrder ==
    ASSUME NEW m \in Nat, NEW x \in Nat, NEW y \in Nat, x <= y
    PROVE  Least(Lround(x), m) <= Least(Lround(y), m)
<1>1. PICK a \in Nat : a = Lround(x) /\ 1000 * a <= x + 500
  BY LroundFacts
<1>2. PICK b \in Nat : b = Lround(y) /\ y + 500 < 1000 * b + 1000
  BY LroundFacts
<1>3. a <= b
  BY <1>1, <1>2
<1> QED
  BY <1>1, <1>2, <1>3 DEF Least

\* One percentile of m + 1 samples, x being p * m.
LEMMA PercentileFacts ==
    ASSUME NEW s \in Seq(Nat), NEW m \in Nat, Len(s) = m + 1,
           NEW x \in Nat, x <= 1000 * m, NEW k, k = Least(Lround(x), m) + 1
    PROVE  /\ k \in 1..(m + 1)
           /\ 1000 * Over(s, Sorted(s)[k]) <= 1000 * m - x + 500
<1>1. PICK r : r = Least(Lround(x), m)
  OBVIOUS
<1>2. r \in 0..m /\ 1000 * (m - r) <= 1000 * m - x + 500
  BY <1>1, RankFacts
<1>3. k \in 1..(m + 1) /\ k = r + 1
  BY <1>1, <1>2
<1>4. PICK c : c = Over(s, Sorted(s)[k])
  OBVIOUS
<1>5. c \in Nat /\ c <= Len(s) - k
  BY <1>3, <1>4, SortedFacts
<1>6. 1000 * c <= 1000 * (m - r)
  BY <1>2, <1>3, <1>5
<1>7. 1000 * c <= 1000 * m - x + 500
  BY <1>2, <1>5, <1>6
<1> QED
  BY <1>3, <1>4, <1>7

\* Rounding to the nearest rank: for any samples at most the share of a
\* percentile, and half a sample, is larger than it, and the figures are in
\* order (latency_stats.hpp:45-55).
THEOREM RanksUnbiased == LSpec => []NoTruncationBias
<1>1. LoopInv => NoTruncationBias
  <2> SUFFICES ASSUME LoopInv, Computed PROVE NoTruncationBias
    BY DEF NoTruncationBias
  <2>1. lats \in Seq(Nat) /\ lats # <<>>
    BY DEF LoopInv, Computed
  <2>2. PICK m : m = Len(lats) - 1
    OBVIOUS
  <2>3. m \in Nat /\ Len(lats) = m + 1
    BY <2>1, <2>2
  <2>4. PICK ns : ns = Sorted(lats)
    OBVIOUS
  <2>5. /\ Len(ns) = m + 1 /\ ns # <<>>
        /\ \A i, j \in 1..(m + 1) : i <= j => ns[i] <= ns[j]
        /\ Over(lats, ns[m + 1]) = 0
    <3>1. /\ Len(ns) = m + 1
          /\ \A i, j \in 1..(m + 1) : i <= j => ns[i] <= ns[j]
          /\ \A i \in 1..(m + 1) : Over(lats, ns[i]) \in Nat /\ Over(lats, ns[i]) <= m + 1 - i
      <4>1. \A i \in 1..(m + 1) : Over(lats, ns[i]) \in Nat /\ Over(lats, ns[i]) <= Len(lats) - i
        BY <2>1, <2>3, <2>4, SortedFacts
      <4>2. /\ Len(ns) = m + 1
            /\ \A i, j \in 1..(m + 1) : i <= j => ns[i] <= ns[j]
        BY <2>1, <2>3, <2>4, SortedFacts
      <4> QED
        BY <2>3, <4>1, <4>2
    <3> QED
      BY <2>3, <3>1
  <2>6. PICK total : stats = Figures(total)
    BY DEF LoopInv, Computed
  <2>7. /\ stats.p50 = pct(ns, 500) /\ stats.p99 = pct(ns, 990)
        /\ stats.p999 = pct(ns, 999) /\ stats.max = ns[m + 1]
    BY <2>4, <2>5, <2>6 DEF Figures
  <2>8. PICK a, b, c : a = 500 * m /\ b = 990 * m /\ c = 999 * m
    OBVIOUS
  <2>9. /\ a \in Nat /\ b \in Nat /\ c \in Nat
        /\ a <= b /\ b <= c /\ c <= 1000 * m /\ a <= 1000 * m /\ b <= 1000 * m
        /\ 1000 * m - a + 500 = (1000 - 500) * m + 500
        /\ 1000 * m - b + 500 = (1000 - 990) * m + 500
        /\ 1000 * m - c + 500 = (1000 - 999) * m + 500
    BY <2>3, <2>8
  <2>10. PICK i, j, k : /\ i = Least(Lround(a), m) + 1 /\ j = Least(Lround(b), m) + 1
                        /\ k = Least(Lround(c), m) + 1
    OBVIOUS
  <2>11. i <= j /\ j <= k
    <3>1. a \in Nat /\ b \in Nat /\ c \in Nat /\ a <= b /\ b <= c
      BY <2>3, <2>9
    <3>2. Least(Lround(a), m) <= Least(Lround(b), m)
      BY <2>3, <3>1, RankOrder
    <3>3. Least(Lround(b), m) <= Least(Lround(c), m)
      BY <2>3, <3>1, RankOrder
    <3>4. \A x \in Nat : Least(Lround(x), m) \in Int
      BY <2>3, LroundFacts DEF Least
    <3> QED
      BY <2>10, <3>1, <3>2, <3>3, <3>4
  <2>a. ASSUME NEW x \in Nat, x <= 1000 * m, NEW r, r = Least(Lround(x), m) + 1
        PROVE  r \in 1..(m + 1) /\ 1000 * Over(lats, ns[r]) <= 1000 * m - x + 500
    BY <2>1, <2>3, <2>4, <2>a, PercentileFacts
  <2>b. /\ a \in Nat /\ a <= 1000 * m /\ b \in Nat /\ b <= 1000 * m
        /\ c \in Nat /\ c <= 1000 * m
    BY <2>9
  <2>12. /\ i \in 1..(m + 1)
         /\ 1000 * Over(lats, ns[i]) <= 1000 * m - a + 500
    BY <2>a, <2>b, <2>10
  <2>13. /\ j \in 1..(m + 1)
         /\ 1000 * Over(lats, ns[j]) <= 1000 * m - b + 500
    BY <2>a, <2>b, <2>10
  <2>14. /\ k \in 1..(m + 1)
         /\ 1000 * Over(lats, ns[k]) <= 1000 * m - c + 500
    BY <2>a, <2>b, <2>10
  <2>p. pct(ns, 500) = ns[i] /\ pct(ns, 990) = ns[j] /\ pct(ns, 999) = ns[k]
    <3>1. Len(ns) - 1 = m
      BY <2>3, <2>5
    <3> QED
      BY <2>8, <2>10, <3>1 DEF pct
  <2>15. \A v : Above(v) = Over(lats, v)
    BY DEF Above, Over
  <2>16. ns[i] <= ns[j] /\ ns[j] <= ns[k] /\ ns[k] <= ns[m + 1]
    BY <2>3, <2>5, <2>11, <2>12, <2>13, <2>14
  <2>17. /\ 1000 * Above(stats.p50) <= (1000 - 500) * m + 500
         /\ 1000 * Above(stats.p99) <= (1000 - 990) * m + 500
         /\ 1000 * Above(stats.p999) <= (1000 - 999) * m + 500
    BY <2>7, <2>9, <2>12, <2>13, <2>14, <2>p, <2>15
  <2>18. /\ stats.p50 <= stats.p99 /\ stats.p99 <= stats.p999
         /\ stats.p999 <= stats.max /\ Above(stats.max) = 0
    BY <2>5, <2>7, <2>p, <2>15, <2>16
  <2> QED
    BY <2>2, <2>17, <2>18 DEF NoTruncationBias
<1> QED
  BY <1>1, LoopInvariant, PTL

===============================================================================
