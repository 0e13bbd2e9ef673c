----------------------------- MODULE CallerProofs -----------------------------
(***************************************************************************)
(* Proofs about the callers of an engine: the two programs that own one    *)
(* (Hosts), their benchmark (BenchLive), the event logger (EventLog) and   *)
(* the scenario it exports (ExportEvents), for every value of the          *)
(* constants.                                                              *)
(*                                                                         *)
(* What a program keeps beside the engine is right only if it agrees with  *)
(* the submission just made: whether the order rests is decided from the   *)
(* fills alone (Filled(out) < qty).  So the invariants of the first two    *)
(* rest on CallInv, which relates the fills of the call in progress, what  *)
(* it has left and what was submitted.                                     *)
(*                                                                         *)
(* What a reader of the log holds after n events is a fold over the log,   *)
(* and the events of a submission are written only when it has returned.   *)
(* So its invariant is not about the fold: it says of each event, written  *)
(* or still due, that it takes the book before one change of the book to   *)
(* the book after it.  The fold is then that chain of books.               *)
(*                                                                         *)
(* The scenario is 26 fixed calls, random ones and two sweeps.  What its   *)
(* phases leave is not computed: the book stays apart (buys at 100 or      *)
(* less, sells above) because the two calls that cross it find enough of   *)
(* the orders added just before them, and never rest.  ExportAssumption,   *)
(* the size of the script, is used by the theorems of the scenario only.   *)
(***************************************************************************)
EXTENDS Hosts, BenchLive, ExportEvents, DataFacts

-----------------------------------------------------------------------------
(* The book and the call in progress.                                       *)

BookInv ==
    /\ TypeOK
    /\ \A i \in DOMAIN resting : resting[i].quantity > 0
    /\ Matching => call.id \notin DOMAIN resting

\* The last submission was order id of quantity qty: its fills so far and what
\* it has left make up qty, and once it returned it rests if they do not.
CallInv(id, is_market, qty) ==
    /\ id \in Ids /\ id = next_id - 1
    /\ \A n \in DOMAIN out : out[n].taker_id = id /\ out[n].quantity > 0
    /\ Busy => /\ call.id = id
               /\ call.is_market = is_market
               /\ Filled(out) + call.qty = qty
    /\ ~Busy => (id \in DOMAIN resting <=> ~is_market /\ Filled(out) < qty)

-----------------------------------------------------------------------------
(* The invariant of the hosts.                                              *)

MarketPcs == {"market", "tick_market"}
LimitPcs  == {"limit", "tick_limit", "bids_call", "asks_call"}
Pcs       == {"none", "entered", "bids", "asks", "batch"} \cup MarketPcs \cup LimitPcs

InCall == job.pc \in MarketPcs \cup LimitPcs

\* Ids of fills that the handler has not looked at yet.
Pending == IF InCall THEN Makers(out) ELSE {}

JobType == [pc : Pcs, left : Nat, side : Side, id : 0..MaxId, qty : Qtys]

JobOK ==
    /\ job \in JobType
    /\ job.pc = "none" => job = NoJob
    /\ Busy => InCall
    /\ InCall => CallInv(job.id, job.pc \in MarketPcs, job.qty)
    /\ job.pc \in {"bids_call", "asks_call"} => job.qty > 0
    /\ job.pc \in {"batch", "tick_limit", "tick_market"} => job.left > 0
    /\ ~eng => job = NoJob /\ next_id = 1

\* live_ids against the book, with the fills not looked at yet set apart.
LiveOK ==
    /\ live_ids \subseteq 1..(next_id - 1)
    /\ \A i \in DOMAIN resting :
          \/ i \in live_ids \cup past.made \cup Pending
          \/ InCall /\ i = job.id
    /\ live_ids \subseteq DOMAIN resting \cup past.unseen \cup Pending

LoggedTrade == [price : Prices, qty : Qtys \ {0}, buy_aggressor : BOOLEAN]

\* The ring r and its clock after the first m trades of hist.
RingAt(hist, m, r) ==
    /\ r.time = m
    /\ r.trades \in Seq(Trade_)
    /\ Len(r.trades) = Lesser(m, RingCap)
    /\ \A k \in DOMAIN r.trades : r.trades[k] = Stamped(hist[m + 1 - k], m + 1 - k)

Ring == [trades |-> trades, time |-> sim_time]

TradesOK ==
    /\ past \in [log : Seq(LoggedTrade), since : Nat, made : SUBSET Nat,
                 unseen : SUBSET Nat]
    /\ total_trades = Len(past.log)
    /\ RingAt(past.log, Len(past.log), Ring)

\* Every order counted was a submission, and the one in progress is not yet.
CountOK ==
    /\ total_orders \in Nat
    /\ InCall => total_orders + 1 <= next_id - 1
    /\ total_orders <= next_id - 1

\* The answer holds what was recorded since the call began.
Answered ==
    /\ Len(past.log) = past.since + Len(fills)
    /\ \A n \in DOMAIN fills :
          /\ fills[n].price = past.log[past.since + n].price
          /\ fills[n].quantity = past.log[past.since + n].qty

\* A liquidity order comes before anything is recorded.
EarlyPcs    == {"entered", "bids", "asks", "bids_call", "asks_call"}
AnsweredPcs == {"limit", "market", "batch", "tick_limit", "tick_market"}

AnswerOK ==
    /\ fills \in Seq(Fill)
    /\ job.pc \in EarlyPcs => past.since = Len(past.log)
    /\ job.pc = "entered" => fills = <<>>
    /\ job.pc \in AnsweredPcs => Answered

MidOK == mid \in MidMin..MidMax

HInv == BookInv /\ MidOK /\ JobOK /\ LiveOK /\ TradesOK /\ CountOK /\ AnswerOK

\* A step by which a call ends without an exception leaves its whole answer.
HStep == HInv' /\ (job # NoJob /\ job' = NoJob /\ ~Busy => Answered')

-----------------------------------------------------------------------------
(* The invariant of the benchmark.                                          *)

BatchPcs   == {"ops", "limit", "market", "bids", "asks", "bids_call", "asks_call"}
BenchCalls == {"limit", "market", "bids_call", "asks_call"}

BenchType == [host : {"server", "wasm"}, total : Totals, op : Nat, bn : Nat, i : Nat,
              nid : Nat, qty : Qtys,
              pc : {"called", "refused", "loop", "returned", "threw"} \cup BatchPcs]

BenchOK ==
    /\ bench \in BenchType
    /\ alt \in Side
    /\ Busy => bench.pc \in BenchCalls
    /\ bench.pc \in BenchCalls => CallInv(bench.nid, bench.pc = "market", bench.qty)

\* Every resting order can be drawn, or is the one just submitted.
BLiveOK ==
    bench.pc # "threw" =>
       \A i \in DOMAIN resting :
          i \in blive \/ (bench.pc \in BenchCalls /\ i = bench.nid)

\* The samples so far are the operations of the batches before bench.op.
LoopOK ==
    /\ lats \in Seq(Nat)
    /\ bench.pc \in BatchPcs => /\ bench.op < bench.total
                                /\ bench.bn = Lesser(BatchSize, bench.total - bench.op)
    /\ bench.pc # "threw" =>
          /\ SumFunction(lats) = Lesser(bench.op, bench.total)
          /\ \A n \in DOMAIN lats :
                /\ lats[n] > 0
                /\ lats[n] = BatchSize \/ (n = Len(lats) /\ bench.op >= bench.total)
    /\ bench.pc = "returned" => bench.op >= bench.total

BInv == BookInv /\ MidOK /\ BenchOK /\ BLiveOK /\ LoopOK

-----------------------------------------------------------------------------
(* The fills of a submission.                                               *)

\* Filled is a sum: one fill more adds its quantity.
LEMMA FilledFacts ==
    /\ Filled(<<>>) = 0
    /\ \A fs \in Seq(Fill), f \in Fill :
          /\ Filled(fs) \in Int
          /\ Filled(Append(fs, f)) = Filled(fs) + f.quantity
<1>1. Filled(<<>>) = 0
  <2>1. [n \in DOMAIN <<>> |-> <<>>[n].quantity] = <<>>
    OBVIOUS
  <2> QED
    BY <2>1, SumOfSequence DEF Filled
<1>2. ASSUME NEW fs \in Seq(Fill), NEW f \in Fill
      PROVE  /\ Filled(fs) \in Int
             /\ Filled(Append(fs, f)) = Filled(fs) + f.quantity
  <2> DEFINE q(s) == [n \in DOMAIN s |-> s[n].quantity]
  <2>1. /\ Len(fs) \in Nat /\ DOMAIN fs = 1..Len(fs)
        /\ \A k \in DOMAIN fs : fs[k] \in Fill
        /\ DOMAIN Append(fs, f) = 1..(Len(fs) + 1)
        /\ \A k \in DOMAIN fs : Append(fs, f)[k] = fs[k]
        /\ Append(fs, f)[Len(fs) + 1] = f
    OBVIOUS
  <2>2. \A g \in Fill : g.quantity \in Int
    BY OrderAssumption DEF Fill, Qtys
  <2>3. q(fs) \in Seq(Int) /\ f.quantity \in Int
    <3>1. q(fs) \in [1..Len(fs) -> Int]
      BY <2>1, <2>2
    <3> QED
      BY <2>1, <2>2, <3>1, SeqDef
  <2>4. q(Append(fs, f)) = Append(q(fs), f.quantity)
    <3>1. Append(q(fs), f.quantity) \in Seq(Int) /\ Len(q(fs)) = Len(fs)
      BY <2>1, <2>3
    <3> QED
      BY <2>1, <2>3, <3>1
  <2> QED
    BY <2>3, <2>4, SumOfSequence DEF Filled
<1> QED
  BY <1>1, <1>2

LEMMA FilledInt ==
    ASSUME NEW fs \in Seq(Fill)
    PROVE  Filled(fs) \in Int
<1>1. \A k \in 1..Len(fs) : fs[k].quantity \in Int
  <2>1. \A k \in 1..Len(fs) : fs[k] \in Fill
    OBVIOUS
  <2>2. \A g \in Fill : g.quantity \in Int
    BY OrderAssumption DEF Fill, Qtys
  <2> QED
    BY <2>1, <2>2
<1>2. IsFiniteSet(1..Len(fs))
  BY FS_Interval
<1>3. DOMAIN fs = 1..Len(fs)
  OBVIOUS
<1> QED
  BY <1>1, <1>2, <1>3, SumInt DEF Filled, SumFunction

\* One fill more adds its maker.
LEMMA MakersFacts ==
    /\ Makers(<<>>) = {} /\ Takers(<<>>) = {}
    /\ \A fs \in Seq(Fill), f \in Fill :
          /\ Makers(fs) \subseteq Nat
          /\ Takers(fs) \subseteq Nat
          /\ Makers(Append(fs, f)) = Makers(fs) \cup {f.maker_id}
<1>1. Makers(<<>>) = {} /\ Takers(<<>>) = {}
  BY DEF Makers, Takers
<1>2. ASSUME NEW fs \in Seq(Fill), NEW f \in Fill
      PROVE  /\ Makers(fs) \subseteq Nat
             /\ Takers(fs) \subseteq Nat
             /\ Makers(Append(fs, f)) = Makers(fs) \cup {f.maker_id}
  <2> DEFINE g == Append(fs, f)
  <2>1. /\ Len(fs) \in Nat /\ DOMAIN fs = 1..Len(fs)
        /\ \A k \in DOMAIN fs : fs[k] \in Fill
        /\ DOMAIN g = DOMAIN fs \cup {Len(fs) + 1}
        /\ \A k \in DOMAIN fs : g[k] = fs[k]
        /\ g[Len(fs) + 1] = f
    OBVIOUS
  <2>2. Ids \subseteq Nat
    BY OrderAssumption DEF Ids
  <2> HIDE DEF g
  <2>3. Makers(fs) \subseteq Nat /\ Takers(fs) \subseteq Nat
    BY <2>1, <2>2 DEF Makers, Takers, Fill
  <2>4. Makers(g) = Makers(fs) \cup {f.maker_id}
    BY <2>1 DEF Makers
  <2> QED
    BY <2>3, <2>4 DEF g
<1> QED
  BY <1>1, <1>2

-----------------------------------------------------------------------------
(* Steps of the engine.                                                     *)

\* A submission is one more id, and nothing of it is filled yet.
LEMMA BeginBook ==
    ASSUME BookInv, NEW side \in Side, NEW price \in Prices, NEW is_market \in BOOLEAN,
           NEW qty \in Qtys, Begin(side, price, is_market, qty),
           NEW id, id = next_id
    PROVE  /\ BookInv'
           /\ CallInv(id, is_market, qty)'
           /\ id \in Ids
           /\ Busy'
           /\ next_id' = next_id + 1
           /\ resting' = resting
           /\ out' = <<>>
<1>1. /\ next_id \in 1..(MaxId + 1) /\ next_id <= MaxId
      /\ next_id' = next_id + 1 /\ resting' = resting /\ out' = <<>>
      /\ call' = [pc |-> "match", side |-> side, id |-> id, price |-> price,
                  is_market |-> is_market, qty |-> qty]
  BY DEF BookInv, TypeOK, Begin
<1>2. id \in 1..MaxId /\ id \notin DOMAIN resting
  BY <1>1, OrderAssumption DEF BookInv, TypeOK
<1>3. call' \in Call
  BY <1>1, <1>2, OrderAssumption DEF Call
<1>4. TypeOK'
  <2>1. next_id' \in 1..(MaxId + 1) /\ DOMAIN resting' \subseteq 1..(next_id' - 1)
    BY <1>1, <1>2, OrderAssumption DEF BookInv, TypeOK
  <2>2. out' \in Seq(Fill) /\ call'.id = next_id' - 1
    BY <1>1, <1>2
  <2> QED
    BY <1>1, <1>3, <2>1, <2>2 DEF BookInv, TypeOK
<1>5. BookInv'
  BY <1>1, <1>2, <1>4 DEF BookInv, Matching
<1>6. CallInv(id, is_market, qty)'
  <2>1. Filled(out') = 0 /\ DOMAIN out' = {}
    BY <1>1, FilledFacts
  <2>2. id \in Ids /\ id = next_id' - 1 /\ call'.qty = qty /\ call'.id = id /\ call'.is_market = is_market
    BY <1>1, <1>2, OrderAssumption DEF Ids
  <2>3. Filled(out)' + call'.qty = qty
    BY <2>1, <2>2, OrderAssumption DEF Qtys
  <2> QED
    BY <1>1, <2>1, <2>2, <2>3 DEF CallInv, Busy
<1> QED
  BY <1>1, <1>2, <1>5, <1>6 DEF Busy, Ids

\* A trade takes from one order and from the call what it adds to the fills.
LEMMA TradeBook ==
    ASSUME BookInv, NEW i \in DOMAIN resting, Trade(i),
           NEW id, NEW is_market, NEW qty, CallInv(id, is_market, qty)
    PROVE  /\ BookInv'
           /\ CallInv(id, is_market, qty)'
           /\ Busy'
           /\ next_id' = next_id
           /\ DOMAIN resting' \subseteq DOMAIN resting
           /\ DOMAIN resting \ {i} \subseteq DOMAIN resting'
           /\ Makers(out') = Makers(out) \cup {i}
<1> DEFINE q == Lesser(call.qty, resting[i].quantity)
           f == [maker_id |-> i, taker_id |-> call.id,
                 price |-> resting[i].price, quantity |-> q]
<1>1. /\ call.pc = "match"
      /\ call.qty > 0
      /\ out' = Append(out, f)
      /\ call' = [call EXCEPT !.qty = @ - q]
      /\ resting' = IF q = resting[i].quantity THEN Without(resting, i)
                    ELSE [resting EXCEPT ![i].quantity = @ - q]
      /\ next_id' = next_id
  BY DEF Trade, Matching
<1>2. /\ call \in Call /\ resting[i] \in Order /\ resting[i].quantity > 0
      /\ i \in 1..(next_id - 1) /\ next_id \in 1..(MaxId + 1) /\ call.id = next_id - 1
      /\ out \in Seq(Fill)
  BY <1>1 DEF BookInv, TypeOK
<1>3. /\ call.qty \in Qtys /\ resting[i].quantity \in Qtys /\ resting[i].price \in Prices
      /\ call.id \in Ids /\ i \in Ids
  <2>1. call.qty \in Qtys /\ call.id \in 0..MaxId
    BY <1>2 DEF Call
  <2>2. resting[i].quantity \in Qtys /\ resting[i].price \in Prices
    BY <1>2 DEF Order
  <2>3. call.id \in Ids /\ i \in Ids
    BY <1>2, <2>1, OrderAssumption DEF Ids
  <2> QED
    BY <2>1, <2>2, <2>3
<1>4. /\ q \in Qtys /\ q > 0 /\ call.qty - q \in Qtys /\ resting[i].quantity - q \in Qtys
      /\ q # resting[i].quantity => resting[i].quantity - q > 0
  <2> DEFINE a == call.qty
             b == resting[i].quantity
  <2>1. a \in 0..MaxQty /\ b \in 0..MaxQty /\ a > 0 /\ b > 0 /\ MaxQty \in Nat
    BY <1>1, <1>2, <1>3, OrderAssumption DEF Qtys
  <2>2. q = IF a <= b THEN a ELSE b
    BY DEF Lesser
  <2> HIDE DEF a, b, q
  <2>3. q \in Nat /\ q > 0 /\ q <= a /\ q <= b
    BY <2>1, <2>2
  <2>4. /\ q \in 0..MaxQty /\ a - q \in 0..MaxQty /\ b - q \in 0..MaxQty
        /\ q # b => b - q > 0
    BY <2>1, <2>3
  <2> QED
    BY <2>3, <2>4 DEF Qtys, a, b
<1>5. f \in Fill /\ f.quantity = q /\ f.taker_id = call.id /\ f.maker_id = i
  BY <1>3, <1>4 DEF Fill
<1> HIDE DEF q, f
<1>6. /\ call' \in Call /\ call'.qty = call.qty - q
      /\ call'.pc = call.pc /\ call'.id = call.id /\ call'.is_market = call.is_market
  BY <1>1, <1>2, <1>4 DEF Call
<1>7. /\ out' \in Seq(Fill)
      /\ \A n \in DOMAIN out' : (n \in DOMAIN out /\ out'[n] = out[n]) \/ out'[n] = f
  BY <1>1, <1>2, <1>5
<1>8. /\ DOMAIN resting' \subseteq DOMAIN resting
      /\ DOMAIN resting \ {i} \subseteq DOMAIN resting'
      /\ \A j \in DOMAIN resting' : resting'[j] \in Order /\ resting'[j].quantity > 0
      /\ resting' = Restrict(resting', DOMAIN resting')
  <2>1. \A j \in DOMAIN resting : resting[j] \in Order /\ resting[j].quantity > 0
    BY DEF BookInv, TypeOK
  <2>2. CASE q = resting[i].quantity
    <3>1. resting' = [j \in DOMAIN resting \ {i} |-> resting[j]]
      BY <1>1, <2>2 DEF Without, Restrict
    <3> QED
      BY <2>1, <3>1 DEF Restrict
  <2>3. CASE q # resting[i].quantity
    <3>1. resting' = [resting EXCEPT ![i].quantity = @ - q]
      BY <1>1, <2>3
    <3>2. DOMAIN resting' = DOMAIN resting
      BY <3>1
    <3>3. \A j \in DOMAIN resting \ {i} : resting'[j] = resting[j]
      BY <3>1
    <3>4. resting'[i] = [resting[i] EXCEPT !.quantity = @ - q]
      BY <3>1
    <3>5. resting'[i] \in Order /\ resting'[i].quantity = resting[i].quantity - q
      BY <1>2, <1>4, <3>4 DEF Order
    <3>6. resting' = Restrict(resting', DOMAIN resting')
      BY <3>1 DEF Restrict
    <3> QED
      BY <1>4, <2>1, <2>3, <3>2, <3>3, <3>5, <3>6
  <2> QED
    BY <2>2, <2>3
<1>9. TypeOK'
  BY <1>1, <1>2, <1>6, <1>7, <1>8 DEF BookInv, TypeOK
<1>10. BookInv'
  BY <1>6, <1>8, <1>9 DEF BookInv, Matching
<1>11. Filled(out') + call'.qty = Filled(out) + call.qty
  <2>1. Filled(out') = Filled(out) + q /\ Filled(out) \in Int
    BY <1>1, <1>2, <1>5, FilledFacts
  <2> QED
    BY <1>3, <1>4, <1>6, <2>1 DEF Qtys
<1>12. CallInv(id, is_market, qty)'
  BY <1>1, <1>4, <1>5, <1>6, <1>7, <1>11 DEF CallInv, Busy
<1>13. Makers(out') = Makers(out) \cup {i}
  BY <1>1, <1>2, <1>5, MakersFacts
<1> QED
  BY <1>1, <1>6, <1>8, <1>10, <1>12, <1>13 DEF Busy

\* The remainder of a limit order comes to rest under the id of the call.
LEMMA RestBook ==
    ASSUME BookInv, Rest, NEW id, NEW is_market, NEW qty, CallInv(id, is_market, qty)
    PROVE  /\ BookInv'
           /\ CallInv(id, is_market, qty)'
           /\ ~Busy'
           /\ next_id' = next_id
           /\ DOMAIN resting' = DOMAIN resting \cup {id}
           /\ out' = out
<1>1. /\ call.pc = "match" /\ ~call.is_market /\ call.qty > 0
      /\ resting' = With(resting, call.id, Remainder)
      /\ call' = IdleCall /\ next_id' = next_id /\ out' = out
  BY DEF Rest, MatchOver, Matching
<1>2. /\ call \in Call /\ call.id = next_id - 1 /\ call.id = id
      /\ next_id \in 1..(MaxId + 1) /\ id \notin DOMAIN resting
      /\ call.is_market = is_market /\ Filled(out) + call.qty = qty
      /\ out \in Seq(Fill)
  BY <1>1 DEF BookInv, TypeOK, CallInv, Busy, Matching
<1>3. Remainder \in Order /\ Remainder.quantity > 0
  BY <1>1, <1>2 DEF Remainder, Order, Call
<1>4. /\ DOMAIN resting' = DOMAIN resting \cup {id}
      /\ resting'[id] = Remainder
      /\ \A j \in DOMAIN resting : resting'[j] = resting[j]
      /\ resting' = Restrict(resting', DOMAIN resting')
  <2> DEFINE r == Remainder
  <2>1. resting' = [j \in DOMAIN resting \cup {id} |-> IF j = id THEN r ELSE resting[j]]
    BY <1>1, <1>2 DEF With
  <2> HIDE DEF r
  <2>2. DOMAIN resting' = DOMAIN resting \cup {id} /\ resting'[id] = r
    BY <2>1
  <2>3. \A j \in DOMAIN resting : resting'[j] = resting[j]
    BY <1>2, <2>1
  <2>4. resting' = Restrict(resting', DOMAIN resting')
    BY <2>1 DEF Restrict
  <2> QED
    BY <2>2, <2>3, <2>4 DEF r
<1>5. IdleCall \in Call /\ IdleCall.pc = "idle"
  BY OrderAssumption DEF IdleCall, Call, Side, Prices, Qtys
<1>6. TypeOK'
  <2>1. DOMAIN resting' \subseteq 1..(next_id' - 1)
    BY <1>1, <1>2, <1>4, OrderAssumption DEF BookInv, TypeOK, CallInv, Ids
  <2>2. \A j \in DOMAIN resting' : resting'[j] \in Order
    BY <1>3, <1>4 DEF BookInv, TypeOK
  <2> QED
    BY <1>1, <1>2, <1>4, <1>5, <2>1, <2>2 DEF TypeOK
<1>7. BookInv'
  BY <1>1, <1>3, <1>4, <1>5, <1>6 DEF BookInv, Matching
<1>8. Filled(out) < qty /\ ~is_market
  <2>1. Filled(out) \in Int /\ call.qty \in Int
    BY <1>2, FilledInt, OrderAssumption DEF Call, Qtys
  <2> QED
    BY <1>1, <1>2, <2>1
<1>9. CallInv(id, is_market, qty)'
  BY <1>1, <1>4, <1>5, <1>8 DEF CallInv, Busy
<1> QED
  BY <1>1, <1>4, <1>5, <1>7, <1>9 DEF Busy

\* The call returns without resting: it was filled, or is a market order.
LEMMA ReturnBook ==
    ASSUME BookInv, Return, NEW id, NEW is_market, NEW qty, CallInv(id, is_market, qty)
    PROVE  /\ BookInv'
           /\ CallInv(id, is_market, qty)'
           /\ ~Busy'
           /\ UNCHANGED <<next_id, resting, out>>
<1>1. /\ call.pc = "match" /\ (call.is_market \/ call.qty = 0)
      /\ call' = IdleCall /\ UNCHANGED <<next_id, resting, out>>
  BY DEF Return, MatchOver, Matching
<1>2. /\ call.id = id /\ id \notin DOMAIN resting /\ call.is_market = is_market
      /\ Filled(out) + call.qty = qty /\ out \in Seq(Fill)
  BY <1>1 DEF BookInv, TypeOK, CallInv, Busy, Matching
<1>3. IdleCall \in Call /\ IdleCall.pc = "idle"
  BY OrderAssumption DEF IdleCall, Call, Side, Prices, Qtys
<1>4. BookInv'
  BY <1>1, <1>3 DEF BookInv, TypeOK, Matching
<1>5. ~(~is_market /\ Filled(out) < qty)
  <2>1. Filled(out) \in Int
    BY <1>2, FilledInt
  <2> QED
    BY <1>1, <1>2, <2>1
<1>6. CallInv(id, is_market, qty)'
  BY <1>1, <1>2, <1>3, <1>5 DEF CallInv, Busy
<1> QED
  BY <1>1, <1>3, <1>4, <1>6 DEF Busy

\* The call throws: its remainder is nowhere.
LEMMA RefuseBook ==
    ASSUME BookInv, Refuse
    PROVE  BookInv' /\ ~Busy' /\ UNCHANGED <<next_id, resting, out>>
<1>1. call' = IdleCall /\ UNCHANGED <<next_id, resting, out>>
  BY DEF Refuse
<1>2. IdleCall \in Call /\ IdleCall.pc = "idle"
  BY OrderAssumption DEF IdleCall, Call, Side, Prices, Qtys
<1> QED
  BY <1>1, <1>2 DEF BookInv, TypeOK, Matching, Busy

\* A cancel takes one order out, or none.
LEMMA CancelBook ==
    ASSUME BookInv, NEW id, cancel(id)
    PROVE  /\ BookInv'
           /\ ~Busy /\ ~Busy'
           /\ DOMAIN resting' = DOMAIN resting \ {id}
           /\ UNCHANGED <<next_id, out>>
<1>1. /\ call.pc = "idle" /\ UNCHANGED <<next_id, call, out>>
      /\ resting' = [j \in DOMAIN resting \ {id} |-> resting[j]]
  BY DEF cancel, Without, Restrict
<1> QED
  BY <1>1 DEF BookInv, TypeOK, Matching, Busy, Restrict

\* A new engine with its seeds.
LEMMA SeedsFacts ==
    /\ DOMAIN Seeds = 1..(2 * SeedLevels)
    /\ \A i \in DOMAIN Seeds : Seeds[i] \in Order /\ Seeds[i].quantity > 0
    /\ Seeds = Restrict(Seeds, DOMAIN Seeds)
    /\ 2 * SeedLevels + 1 \in 1..(MaxId + 1)
    /\ IdleCall \in Call
    /\ IdleCall.pc = "idle"
<1>1. ASSUME NEW i \in 1..(2 * SeedLevels)
      PROVE  Seeds[i] \in Order /\ Seeds[i].quantity > 0
  <2> DEFINE d == (i + 1) \div 2
  <2>1. SeedLevels \in Nat /\ MidInit \in Nat /\ SeedLevels < MidInit
        /\ MidInit + SeedLevels <= MaxPrice /\ MaxPrice \in Nat
    BY OrderAssumption, MarketAssumption
  <2>2. d \in Nat /\ d <= SeedLevels
    BY <2>1
  <2> HIDE DEF d
  <2>3. MidInit - d \in Prices /\ MidInit + d \in Prices
    BY <2>1, <2>2 DEF Prices
  <2>4. Seeds[i] = [side |-> IF i % 2 = 1 THEN "Buy" ELSE "Sell",
                    price |-> IF i % 2 = 1 THEN MidInit - d ELSE MidInit + d,
                    quantity |-> SeedQty]
    BY DEF Seeds, d
  <2>5. SeedQty \in Qtys /\ SeedQty > 0
    BY OrderAssumption, MarketAssumption DEF Qtys
  <2> QED
    BY <2>3, <2>4, <2>5 DEF Order, Side
<1>2. 2 * SeedLevels + 1 \in 1..(MaxId + 1)
  BY OrderAssumption, MarketAssumption
<1>3. IdleCall \in Call /\ IdleCall.pc = "idle"
  BY OrderAssumption DEF IdleCall, Call, Side, Prices, Qtys
<1>4. DOMAIN Seeds = 1..(2 * SeedLevels) /\ Seeds = Restrict(Seeds, DOMAIN Seeds)
  BY DEF Seeds, Restrict
<1> QED
  BY <1>1, <1>2, <1>3, <1>4

\* The book after init_engine or reset.
LEMMA SeededBook ==
    ASSUME Seeded
    PROVE  /\ BookInv /\ ~Busy /\ resting = Seeds /\ out = <<>>
           /\ next_id = 2 * SeedLevels + 1 /\ mid \in MidMin..MidMax
<1>1. /\ next_id = 2 * SeedLevels + 1 /\ resting = Seeds /\ call = IdleCall
      /\ out = <<>> /\ mid = MidInit
  BY DEF Seeded
<1>2. TypeOK
  <2>1. DOMAIN resting \subseteq 1..(next_id - 1)
    BY <1>1, SeedsFacts, MarketAssumption
  <2> QED
    BY <1>1, <2>1, SeedsFacts DEF TypeOK
<1> QED
  BY <1>1, <1>2, SeedsFacts, MarketAssumption DEF BookInv, Matching, Busy

LEMMA ReseedBook ==
    ASSUME Reseed
    PROVE  /\ BookInv' /\ ~Busy' /\ resting' = Seeds /\ out' = <<>>
           /\ next_id' = 2 * SeedLevels + 1 /\ mid' \in MidMin..MidMax
<1>1. /\ next_id' = 2 * SeedLevels + 1 /\ resting' = Seeds /\ call' = IdleCall
      /\ out' = <<>> /\ mid' = MidInit
  BY DEF Reseed
<1>2. TypeOK'
  <2>1. DOMAIN resting' \subseteq 1..(next_id' - 1)
    BY <1>1, SeedsFacts, MarketAssumption
  <2> QED
    BY <1>1, <2>1, SeedsFacts DEF TypeOK
<1> QED
  BY <1>1, <1>2, SeedsFacts, MarketAssumption DEF BookInv, Matching, Busy

\* The prices of the simulated orders.
LEMMA MarketPrices ==
    ASSUME mid \in MidMin..MidMax
    PROVE  /\ mid - 1 \in Prices /\ mid + 1 \in Prices
           /\ \A side \in Side, offset \in 0..MaxOffset : LimitPrice(side, offset) \in Prices
           /\ MoveMid => mid' \in MidMin..MidMax
<1>1. /\ mid \in Nat /\ mid > 1 /\ MidMin \in Nat /\ MidMax \in Int /\ MidMin <= mid
      /\ mid <= MidMax /\ MidMax + MaxOffset <= MaxPrice /\ MaxPrice \in Nat /\ mid < MaxPrice
      /\ MaxOffset \in Nat
  BY OrderAssumption, MarketAssumption
<1>2. mid - 1 \in Prices /\ mid + 1 \in Prices
  BY <1>1 DEF Prices
<1>3. ASSUME NEW side \in Side, NEW offset \in 0..MaxOffset
      PROVE  LimitPrice(side, offset) \in Prices
  BY <1>1 DEF Prices, LimitPrice
<1>4. MoveMid => mid' \in MidMin..MidMax
  BY <1>1 DEF MoveMid
<1> QED
  BY <1>2, <1>3, <1>4

-----------------------------------------------------------------------------
(* The ring of trades.                                                       *)

\* One unfolding of the fold of add_trade over the positions in s.
AddStep(st, new, s, g) ==
    IF s = {} THEN st ELSE add_trade(g[s \ {Max(s)}], new[Max(s)])

\* The largest of a set of positions.
LEMMA MaxFacts ==
    ASSUME NEW n \in Nat, NEW s \in SUBSET (1..n), s # {}
    PROVE  Max(s) \in s /\ \A k \in s : k <= Max(s)
<1>1. \E k \in s : \A j \in s : k >= j
  BY GreatestPosition
<1> QED
  BY <1>1 DEF Max

\* The recursion of the fold has a solution.
LEMMA FoldIterExists ==
    ASSUME NEW st, NEW new, NEW n \in Nat
    PROVE  \E g : g = [s \in SUBSET (1..n) |-> AddStep(st, new, s, g)]
<1> DEFINE S == 1..n
           Sub(m) == {s \in SUBSET S : Cardinality(s) <= m}
           Good(m) == \E g : g = [s \in Sub(m) |-> AddStep(st, new, s, g)]
<1>0. IsFiniteSet(S)
  BY FS_Interval
<1>m. \A s \in SUBSET S : s # {} => Max(s) \in s
  BY MaxFacts
<1> HIDE DEF S
<1>1. Good(0)
  <2> DEFINE g == [s \in Sub(0) |-> st]
  <2>1. \A s \in Sub(0) : s = {}
    BY <1>0, SubsetFacts
  <2>2. \A s \in Sub(0) : AddStep(st, new, s, g) = st
    BY <2>1 DEF AddStep
  <2>3. g = [s \in Sub(0) |-> AddStep(st, new, s, g)]
    BY <2>2
  <2> QED
    BY <2>3
<1>2. ASSUME NEW m \in Nat, Good(m) PROVE Good(m + 1)
  <2>1. PICK g : g = [s \in Sub(m) |-> AddStep(st, new, s, g)]
    BY <1>2
  <2> DEFINE h == [s \in Sub(m + 1) |-> AddStep(st, new, s, g)]
  <2>2. \A s \in Sub(m) : s \in Sub(m + 1)
    BY <1>0, SubsetFacts
  <2>3. \A s \in Sub(m) : h[s] = g[s]
    BY <2>1, <2>2
  <2>4. \A s \in Sub(m + 1) : s # {} => s \ {Max(s)} \in Sub(m)
    BY <1>0, <1>m, SubsetFacts
  <2>5. \A s \in Sub(m + 1) : AddStep(st, new, s, h) = AddStep(st, new, s, g)
    <3> HIDE DEF h, Sub
    <3> QED
      BY <2>3, <2>4 DEF AddStep
  <2>6. h = [s \in Sub(m + 1) |-> AddStep(st, new, s, h)]
    BY <2>5
  <2> QED
    BY <2>6
<1> HIDE DEF Good
<1>3. \A m \in Nat : Good(m)
  <2> SUFFICES ASSUME NEW l \in Nat, ~Good(l) PROVE FALSE
    OBVIOUS
  <2> DEFINE Bad == {m \in Nat : ~Good(m)}
  <2>1. PICK m \in Bad : \A k \in Bad : m <= k
    BY LeastNatural
  <2>2. m # 0 /\ m - 1 \in Nat /\ ~(m - 1 \in Bad)
    BY <1>1, <2>1
  <2>3. Good((m - 1) + 1)
    BY <1>2, <2>2
  <2> QED
    BY <2>1, <2>3
<1>4. Good(Cardinality(S))
  BY <1>0, <1>3, SubsetFacts
<1>5. Sub(Cardinality(S)) = SUBSET S
  BY <1>0, SubsetFacts
<1> QED
  BY <1>4, <1>5 DEF Good, S

\* The rings h that the trades of new make of ring st, one after another.
AdditionsOf(h, st, new) ==
    /\ h[0] = st
    /\ \A k \in 1..Len(new) : h[k] = add_trade(h[k - 1], new[k])
    /\ FoldLeft(add_trade, st, new) = h[Len(new)]

\* So a fold is a chain of additions, in the order of the fills.
LEMMA FoldTrades ==
    ASSUME NEW st, NEW new, IsSeq(new)
    PROVE  \E h : AdditionsOf(h, st, new)
<1> DEFINE n == Len(new)
           g == CHOOSE g : g = [s \in SUBSET (1..n) |-> AddStep(st, new, s, g)]
           h == [k \in 0..n |-> g[1..k]]
<1>1. n \in Nat /\ DOMAIN new = 1..n
  BY SeqFacts
<1>2. g = [s \in SUBSET (1..n) |-> AddStep(st, new, s, g)]
  BY <1>1, FoldIterExists
<1>3. FoldLeft(add_trade, st, new) = g[1..n]
  BY <1>1 DEF FoldLeft, MapThenFoldSet, AddStep
<1> HIDE DEF g, n
<1>4. h[0] = st
  <2>1. 1..0 = {}
    OBVIOUS
  <2>2. g[{}] = AddStep(st, new, {}, g)
    BY <1>2
  <2> QED
    BY <1>1, <2>1, <2>2 DEF AddStep
<1>5. ASSUME NEW k \in 1..n PROVE h[k] = add_trade(h[k - 1], new[k])
  <2>1. 1..k \in SUBSET (1..n) /\ k \in 1..k /\ k \in 0..n /\ k - 1 \in 0..n /\ k \in Nat
    BY <1>1
  <2>2. Max(1..k) = k
    <3>1. Max(1..k) \in 1..k /\ \A j \in 1..k : j <= Max(1..k)
      BY <2>1, MaxFacts
    <3> QED
      BY <2>1, <3>1
  <2>3. (1..k) \ {k} = 1..(k - 1)
    BY <2>1
  <2>4. g[1..k] = AddStep(st, new, 1..k, g)
    BY <1>2, <2>1
  <2> QED
    BY <2>1, <2>2, <2>3, <2>4 DEF AddStep
<1>6. FoldLeft(add_trade, st, new) = h[n]
  BY <1>1, <1>3
<1> HIDE DEF h
<1>7. \A k \in 1..n : h[k] = add_trade(h[k - 1], new[k])
  BY <1>5
<1>8. AdditionsOf(h, st, new)
  BY <1>4, <1>6, <1>7 DEF n, AdditionsOf
<1> QED
  BY <1>8

\* One trade more in the ring: the oldest goes when it is full.
LEMMA AddKeepsRing ==
    ASSUME NEW hist, NEW m \in Nat, hist[m + 1] \in LoggedTrade, NEW r, RingAt(hist, m, r)
    PROVE  RingAt(hist, m + 1, add_trade(r, hist[m + 1]))
<1> DEFINE e == Stamped(hist[m + 1], m + 1)
           kept == Kept(r.trades)
           c == Lesser(Len(r.trades), RingCap - 1)
           q == add_trade(r, hist[m + 1])
<1>1. /\ RingCap \in Nat /\ RingCap > 0
      /\ r.time = m /\ r.trades \in Seq(Trade_) /\ Len(r.trades) = Lesser(m, RingCap)
      /\ \A k \in DOMAIN r.trades : r.trades[k] = Stamped(hist[m + 1 - k], m + 1 - k)
  BY SharedAssumption DEF RingAt
<1>2. /\ c \in Nat /\ c <= Len(r.trades) /\ Len(r.trades) \in Nat
      /\ c + 1 = Lesser(m + 1, RingCap)
  BY <1>1 DEF Lesser
<1> HIDE DEF c
<1>3. /\ kept \in Seq(Trade_) /\ Len(kept) = c
      /\ \A k \in 1..c : kept[k] = r.trades[k]
  <2>1. kept = SubSeq(r.trades, 1, c)
    BY DEF Kept, c
  <2> QED
    BY <1>1, <1>2, <2>1
<1>4. e \in Trade_
  BY DEF Stamped, LoggedTrade, Trade_
<1>5. q.time = m + 1 /\ q.trades = <<e>> \o kept
  BY <1>1 DEF add_trade
<1> HIDE DEF q, e, kept
<1>6. /\ q.trades \in Seq(Trade_) /\ Len(q.trades) = c + 1
      /\ q.trades[1] = e
      /\ \A k \in 1..(c + 1) : k # 1 => q.trades[k] = kept[k - 1]
  BY <1>2, <1>3, <1>4, <1>5
<1>7. ASSUME NEW k \in DOMAIN q.trades
      PROVE  q.trades[k] = Stamped(hist[(m + 1) + 1 - k], (m + 1) + 1 - k)
  <2>1. k \in 1..(c + 1)
    BY <1>2, <1>6
  <2>2. CASE k = 1
    <3>1. (m + 1) + 1 - k = m + 1
      BY <2>2
    <3> QED
      BY <1>6, <2>2, <3>1 DEF e
  <2>3. CASE k # 1
    <3>1. k - 1 \in 1..c /\ k - 1 \in DOMAIN r.trades /\ m + 1 - (k - 1) = (m + 1) + 1 - k
      <4>1. k - 1 \in 1..c
        BY <1>2, <2>1, <2>3
      <4>2. DOMAIN r.trades = 1..Len(r.trades)
        BY <1>1
      <4>3. k - 1 \in DOMAIN r.trades
        BY <1>2, <4>1, <4>2
      <4> QED
        BY <2>1, <4>1, <4>3
    <3> QED
      BY <1>1, <1>3, <1>6, <2>1, <2>3, <3>1
  <2> QED
    BY <2>2, <2>3
<1>8. RingAt(hist, m + 1, q)
  BY <1>2, <1>5, <1>6, <1>7 DEF RingAt
<1> QED
  BY <1>8 DEF q

\* The ring after the loop over all fills of a call.
LEMMA FoldKeepsRing ==
    ASSUME NEW hist \in Seq(LoggedTrade), NEW new \in Seq(LoggedTrade), NEW st,
           RingAt(hist, Len(hist), st)
    PROVE  /\ hist \o new \in Seq(LoggedTrade)
           /\ Len(hist \o new) = Len(hist) + Len(new)
           /\ RingAt(hist \o new, Len(hist) + Len(new), FoldLeft(add_trade, st, new))
<1>2. IsSeq(new)
  BY SeqDef, LenProperties DEF IsSeq
<1>3. PICK h : AdditionsOf(h, st, new)
  BY <1>2, FoldTrades
<1> DEFINE full == hist \o new
           a == Len(hist)
           b == Len(new)
<1>1. /\ a \in Nat /\ b \in Nat
      /\ full \in Seq(LoggedTrade) /\ Len(full) = a + b
      /\ \A k \in 1..a : full[k] = hist[k]
      /\ \A k \in 1..b : full[a + k] = new[k] /\ full[a + k] \in LoggedTrade
  OBVIOUS
<1>4. RingAt(full, a, st)
  <2>1. \A k \in DOMAIN st.trades : a + 1 - k \in 1..a
    BY <1>1, SharedAssumption DEF RingAt, Lesser
  <2> QED
    BY <1>1, <2>1 DEF RingAt
<1>b. /\ \A k \in 1..b : h[k] = add_trade(h[k - 1], new[k])
      /\ FoldLeft(add_trade, st, new) = h[b]
      /\ h[0] = st
  BY <1>3 DEF AdditionsOf
<1> HIDE DEF full, a, b
<1>5. \A k \in 0..b : RingAt(full, a + k, h[k])
  <2> DEFINE Bad == {k \in 0..b : ~RingAt(full, a + k, h[k])}
  <2> SUFFICES ASSUME Bad # {} PROVE FALSE
    OBVIOUS
  <2>0. Bad \subseteq Nat
    BY <1>1
  <2>1. PICK k \in Bad : \A j \in Bad : k <= j
    <3> HIDE DEF Bad
    <3> QED
      BY <2>0, LeastNatural
  <2>2. k \in 0..b /\ k # 0
    <3>1. RingAt(full, a + 0, h[0]) /\ b \in Nat
      BY <1>1, <1>4, <1>b
    <3> QED
      BY <3>1
  <2>3. RingAt(full, a + (k - 1), h[k - 1])
    BY <1>1, <2>1, <2>2
  <2>4. /\ h[k] = add_trade(h[k - 1], full[a + k]) /\ full[a + k] \in LoggedTrade
        /\ a + (k - 1) \in Nat /\ (a + (k - 1)) + 1 = a + k
    BY <1>1, <1>b, <2>2
  <2>5. RingAt(full, a + k, h[k])
    BY <2>3, <2>4, AddKeepsRing
  <2> QED
    BY <2>5
<1> QED
  BY <1>1, <1>b, <1>5 DEF full, a, b

-----------------------------------------------------------------------------
(* Steps of the hosts.                                                       *)

\* The parts of the invariant that a step leaves alone.
LEMMA TradesSame ==
    ASSUME TradesOK, UNCHANGED <<total_trades, sim_time, trades>>,
           past' \in [log : Seq(LoggedTrade), since : Nat, made : SUBSET Nat,
                      unseen : SUBSET Nat],
           past'.log = past.log
    PROVE  TradesOK'
BY DEF TradesOK, RingAt, Ring

LEMMA IdsNatural == Ids \subseteq Nat /\ \A n \in Nat : 1..n \subseteq Nat
BY OrderAssumption DEF Ids

\* What the auxiliary past remembers of a call that begins.
LEMMA EnteredPast ==
    ASSUME TradesOK, Entered
    PROVE  /\ past' \in [log : Seq(LoggedTrade), since : Nat, made : SUBSET Nat,
                         unseen : SUBSET Nat]
           /\ past'.log = past.log /\ past'.since = Len(past.log)
           /\ past'.made = past.made /\ past'.unseen = past.unseen
<1>1. past.log \in Seq(LoggedTrade)
  BY DEF TradesOK
<1>2. Len(past.log) \in Nat
  BY <1>1
<1> QED
  BY <1>1, <1>2 DEF TradesOK, Entered

\* What it remembers of fills that no handler records.
LEMMA OverlookPast ==
    ASSUME TradesOK, BookInv, Overlook
    PROVE  /\ past' \in [log : Seq(LoggedTrade), since : Nat, made : SUBSET Nat,
                         unseen : SUBSET Nat]
           /\ past'.log = past.log /\ past'.since = past.since
           /\ past'.made = past.made \cup Makers(out)
           /\ past'.unseen = past.unseen \cup Makers(out) \cup Takers(out)
<1>1. Makers(out) \subseteq Nat /\ Takers(out) \subseteq Nat
  <2>1. out \in Seq(Fill)
    BY DEF BookInv, TypeOK
  <2>2. \A k \in DOMAIN out : out[k] \in Fill
    BY <2>1
  <2> QED
    BY <2>2, IdsNatural DEF Makers, Takers, Fill
<1> QED
  BY <1>1 DEF TradesOK, Overlook

\* A job that waits for no engine call.
LEMMA QuietJob ==
    ASSUME BookInv', ~Busy', job' \in JobType, job'.pc \notin MarketPcs \cup LimitPcs,
           job'.pc = "none" => job' = NoJob,
           job'.pc = "batch" => job'.left > 0, eng'
    PROVE  JobOK' /\ ~InCall'
BY DEF JobOK, InCall, MarketPcs, LimitPcs

LEMMA NoJobType == NoJob \in JobType /\ NoJob.pc = "none" /\ NoJob.id = 0
BY OrderAssumption DEF NoJob, JobType, Pcs, Side, Qtys

\* The engine works on the call of the handler.
LEMMA EngineStepKeeps == HInv /\ EngineStep => HStep
<1> SUFFICES ASSUME HInv, EngineStep PROVE HStep
  OBVIOUS
<1> SUFFICES ASSUME NEW id, id = job.id, NEW m, m = (job.pc \in MarketPcs),
                    NEW q, q = job.qty
             PROVE  HStep
  OBVIOUS
<1>1. /\ BookInv /\ MidOK /\ JobOK /\ LiveOK /\ TradesOK /\ CountOK /\ AnswerOK
      /\ UNCHANGED <<eng, live_ids, mid, total_orders, total_trades, sim_time, trades,
                     fills, job, past>>
  BY DEF HInv, EngineStep, state, counters
<1>2. Busy
  BY DEF EngineStep, Trade, Rest, Return, MatchOver, Matching, Busy
<1>3. InCall /\ CallInv(id, m, q) /\ id \in Ids
  BY <1>1, <1>2 DEF JobOK, CallInv
<1>4. /\ BookInv' /\ CallInv(id, m, q)' /\ next_id' = next_id
      /\ \A i \in DOMAIN resting' : i \in DOMAIN resting \/ i = id
      /\ \A i \in DOMAIN resting : i \in DOMAIN resting' \/ i \in Makers(out')
      /\ Makers(out) \subseteq Makers(out')
  <2>1. CASE \E i \in DOMAIN resting : Trade(i)
    <3>1. PICK i \in DOMAIN resting : Trade(i)
      BY <2>1
    <3> QED
      BY <1>1, <1>3, <3>1, TradeBook
  <2>2. CASE Rest
    <3>1. /\ BookInv' /\ CallInv(id, m, q)' /\ next_id' = next_id
          /\ DOMAIN resting' = DOMAIN resting \cup {id} /\ out' = out
      BY <1>1, <1>3, <2>2, RestBook
    <3> QED
      BY <3>1
  <2>3. CASE Return
    <3>1. /\ BookInv' /\ CallInv(id, m, q)' /\ next_id' = next_id
          /\ resting' = resting /\ out' = out
      BY <1>1, <1>3, <2>3, ReturnBook
    <3> QED
      BY <3>1
  <2> QED
    BY <2>1, <2>2, <2>3 DEF EngineStep
<1>5. InCall'
  BY <1>1, <1>3 DEF InCall
<1>6. JobOK'
  <2>1. CallInv(job.id, job.pc \in MarketPcs, job.qty)'
    BY <1>1, <1>4 DEF CallInv
  <2> QED
    BY <1>1, <1>4, <1>5, <2>1 DEF JobOK
<1>7. LiveOK'
  <2>1. \A i \in DOMAIN resting' :
           i \in live_ids \cup past.made \cup Makers(out') \/ i = id
    BY <1>1, <1>3, <1>4 DEF LiveOK, Pending
  <2>2. live_ids \subseteq DOMAIN resting' \cup past.unseen \cup Makers(out')
    BY <1>1, <1>3, <1>4 DEF LiveOK, Pending
  <2>3. live_ids \subseteq 1..(next_id - 1)
    BY <1>1 DEF LiveOK
  <2>4. Pending' = Makers(out')
    BY <1>5 DEF Pending, Makers
  <2> QED
    BY <1>1, <1>4, <1>5, <2>1, <2>2, <2>3, <2>4 DEF LiveOK
<1>8. MidOK' /\ CountOK' /\ AnswerOK'
  BY <1>1, <1>3, <1>4, <1>5 DEF MidOK, CountOK, AnswerOK, Answered
<1>9. TradesOK'
  BY <1>1, TradesSame DEF TradesOK
<1> QED
  BY <1>2, <1>4, <1>6, <1>7, <1>8, <1>9 DEF HInv, HStep

\* The call throws and its fills are lost.
LEMMA EngineThrowsKeeps == HInv /\ EngineThrows => HStep
<1> SUFFICES ASSUME HInv, EngineThrows PROVE HStep
  OBVIOUS
<1>1. /\ BookInv /\ MidOK /\ JobOK /\ LiveOK /\ TradesOK /\ CountOK /\ AnswerOK
      /\ UNCHANGED <<eng, live_ids, mid, total_orders, total_trades, sim_time, trades, fills>>
      /\ Refuse /\ Overlook /\ job' = NoJob
  BY DEF HInv, EngineThrows, state, counters
<1>2. Busy /\ Matching
  BY <1>1 DEF Refuse, MatchOver, Matching, Busy
<1>3. InCall /\ job.id \notin DOMAIN resting /\ eng
  <2>1. InCall /\ CallInv(job.id, job.pc \in MarketPcs, job.qty)
    BY <1>1, <1>2 DEF JobOK
  <2>2. call.id = job.id
    BY <1>2, <2>1 DEF CallInv
  <2>3. eng
    BY <1>1, <2>1, NoJobType DEF JobOK, InCall, MarketPcs, LimitPcs
  <2> QED
    BY <1>1, <1>2, <2>1, <2>2, <2>3 DEF BookInv
<1>4. BookInv' /\ ~Busy' /\ next_id' = next_id /\ resting' = resting /\ out' = out
  BY <1>1, RefuseBook
<1>5. JobOK' /\ ~InCall'
  <2>1. eng'
    BY <1>1, <1>3
  <2>2. job' \in JobType /\ job'.pc = "none"
    BY <1>1, NoJobType
  <2>3. "none" \notin MarketPcs \cup LimitPcs
    BY DEF MarketPcs, LimitPcs
  <2> QED
    BY <1>1, <1>4, <2>1, <2>2, <2>3, QuietJob
<1>6. /\ past' \in [log : Seq(LoggedTrade), since : Nat, made : SUBSET Nat,
                    unseen : SUBSET Nat]
      /\ past'.log = past.log /\ past'.since = past.since
      /\ past'.made = past.made \cup Makers(out)
      /\ past'.unseen = past.unseen \cup Makers(out) \cup Takers(out)
  BY <1>1, OverlookPast
<1>7. LiveOK'
  <2>1. Pending' = {} /\ Pending = Makers(out)
    BY <1>3, <1>5 DEF Pending
  <2> QED
    BY <1>1, <1>3, <1>4, <1>5, <1>6, <2>1 DEF LiveOK
<1>8. MidOK' /\ CountOK' /\ AnswerOK'
  BY <1>1, <1>4, <1>5, <1>6, NoJobType DEF MidOK, CountOK, AnswerOK, EarlyPcs, AnsweredPcs
<1>9. TradesOK'
  BY <1>1, <1>6, TradesSame
<1> QED
  BY <1>2, <1>4, <1>5, <1>7, <1>8, <1>9 DEF HInv, HStep

\* The handler makes an engine call: one more id, and no fill of it yet.
LEMMA SubmitKeeps ==
    ASSUME HInv, eng, ~InCall, NEW pc \in MarketPcs \cup LimitPcs, NEW side \in Side,
           NEW price \in Prices, NEW is_market \in BOOLEAN, NEW qty \in Qtys,
           Submit(pc, side, price, is_market, qty),
           is_market <=> pc \in MarketPcs,
           pc \in {"bids_call", "asks_call"} => qty > 0,
           pc \in {"tick_limit", "tick_market"} => job.left > 0,
           past' \in [log : Seq(LoggedTrade), since : Nat, made : SUBSET Nat,
                      unseen : SUBSET Nat],
           past'.log = past.log, past'.made = past.made, past'.unseen = past.unseen,
           AnswerOK'
    PROVE  HStep
<1> SUFFICES ASSUME NEW id, id = next_id PROVE HStep
  OBVIOUS
<1>1. /\ BookInv /\ MidOK /\ JobOK /\ LiveOK /\ TradesOK /\ CountOK
      /\ UNCHANGED <<eng, live_ids, mid, total_orders, total_trades, sim_time, trades>>
      /\ Begin(side, price, is_market, qty)
      /\ job' = [job EXCEPT !.pc = pc, !.side = side, !.id = id, !.qty = qty]
  BY DEF HInv, Submit, counters
<1>2. /\ BookInv' /\ CallInv(id, is_market, qty)' /\ id \in Ids /\ Busy'
      /\ next_id' = next_id + 1 /\ resting' = resting /\ out' = <<>>
      /\ next_id \in Nat
  <2>1. next_id \in Nat
    BY <1>1, OrderAssumption DEF BookInv, TypeOK
  <2> QED
    BY <1>1, <2>1, BeginBook
<1>3. /\ job' \in JobType /\ job'.pc = pc /\ job'.id = id /\ job'.qty = qty
      /\ job'.left = job.left
  <2>1. job \in JobType /\ pc \in Pcs /\ id \in 0..MaxId
    BY <1>1, <1>2, OrderAssumption DEF JobOK, Pcs, Ids
  <2> QED
    BY <1>1, <2>1 DEF JobType
<1>4. InCall' /\ pc # "none" /\ pc # "batch"
  BY <1>3 DEF InCall, MarketPcs, LimitPcs
<1>5. CallInv(job.id, job.pc \in MarketPcs, job.qty)'
  BY <1>2, <1>3 DEF CallInv
<1>6. JobOK'
  BY <1>1, <1>2, <1>3, <1>4, <1>5 DEF JobOK
<1>7. LiveOK'
  <2>1. Pending = {} /\ Pending' = {}
    BY <1>2, MakersFacts DEF Pending
  <2>2. live_ids' \subseteq 1..(next_id' - 1)
    BY <1>1, <1>2 DEF LiveOK
  <2> QED
    BY <1>1, <1>2, <2>1, <2>2 DEF LiveOK
<1>8. MidOK' /\ CountOK'
  BY <1>1, <1>2 DEF MidOK, CountOK
<1>9. TradesOK'
  BY <1>1, TradesSame
<1>10. job' # NoJob
  BY <1>3, <1>4, NoJobType
<1> QED
  BY <1>2, <1>6, <1>7, <1>8, <1>9, <1>10 DEF HInv, HStep

\* A call can begin.
LEMMA EntryFacts ==
    ASSUME HInv, Entry
    PROVE  /\ eng /\ ~InCall
           /\ TradesOK /\ fills \in Seq(Fill)
           /\ job.pc = "entered" \/ job = NoJob
BY NoJobType DEF HInv, Entry, JobOK, InCall, MarketPcs, LimitPcs, AnswerOK

LEMMA ClientSubmitKeeps ==
    ASSUME HInv, NEW side \in Side, NEW price \in Prices, NEW qty \in Qtys
    PROVE  /\ SubmitLimit(side, price, qty) => HStep
           /\ SubmitMarket(side, qty) => HStep
<1> DEFINE PastType == [log : Seq(LoggedTrade), since : Nat, made : SUBSET Nat,
                        unseen : SUBSET Nat]
<1>0. ASSUME Entry, Entered, fills' = <<>>, NEW pc \in {"limit", "market"}, job'.pc = pc
      PROVE  /\ AnswerOK' /\ past' \in PastType
             /\ past'.log = past.log /\ past'.made = past.made /\ past'.unseen = past.unseen
  <2>1. /\ past' \in PastType /\ past'.log = past.log /\ past'.since = Len(past.log)
        /\ past'.made = past.made /\ past'.unseen = past.unseen
    BY <1>0, EntryFacts, EnteredPast
  <2>2. Answered'
    <3>1. Len(past'.log) = past'.since /\ past'.since \in Nat
      BY <2>1
    <3>2. Len(fills') = 0 /\ DOMAIN fills' = {}
      BY <1>0
    <3> QED
      BY <3>1, <3>2 DEF Answered
  <2>3. AnswerOK'
    BY <1>0, <2>2 DEF AnswerOK, EarlyPcs
  <2> QED
    BY <2>1, <2>3
<1>1. ASSUME SubmitLimit(side, price, qty) PROVE HStep
  <2> SUFFICES ASSUME NEW pc, pc = "limit" PROVE HStep
    OBVIOUS
  <2>1. /\ Entry /\ Entered /\ fills' = <<>> /\ job'.pc = pc
        /\ Submit(pc, side, price, FALSE, qty)
    BY <1>1, EntryFacts DEF SubmitLimit, Submit, HInv, JobOK, JobType
  <2>2. /\ pc \in MarketPcs \cup LimitPcs /\ pc \notin MarketPcs
        /\ pc \notin {"bids_call", "asks_call", "tick_limit", "tick_market"}
        /\ pc \in {"limit", "market"}
    BY DEF MarketPcs, LimitPcs
  <2>3. /\ AnswerOK' /\ past' \in PastType
        /\ past'.log = past.log /\ past'.made = past.made /\ past'.unseen = past.unseen
    BY <1>0, <2>1, <2>2
  <2>4. eng /\ ~InCall
    BY <2>1, EntryFacts
  <2> HIDE DEF PastType
  <2> QED
    BY <2>1, <2>2, <2>3, <2>4, SubmitKeeps DEF PastType
<1>2. ASSUME SubmitMarket(side, qty) PROVE HStep
  <2> SUFFICES ASSUME NEW pc, pc = "market" PROVE HStep
    OBVIOUS
  <2>1. /\ Entry /\ Entered /\ fills' = <<>> /\ job'.pc = pc
        /\ Submit(pc, side, 0, TRUE, qty)
    BY <1>2, EntryFacts DEF SubmitMarket, Submit, HInv, JobOK, JobType
  <2>2. /\ pc \in MarketPcs
        /\ pc \notin {"bids_call", "asks_call", "tick_limit", "tick_market"}
        /\ pc \in {"limit", "market"} /\ 0 \in Prices
    BY OrderAssumption DEF MarketPcs, Prices
  <2>3. /\ AnswerOK' /\ past' \in PastType
        /\ past'.log = past.log /\ past'.made = past.made /\ past'.unseen = past.unseen
    BY <1>0, <2>1, <2>2
  <2>4. eng /\ ~InCall
    BY <2>1, EntryFacts
  <2> QED
    BY <2>1, <2>2, <2>3, <2>4, SubmitKeeps
<1> QED
  BY <1>1, <1>2

LEMMA TickSubmitKeeps ==
    ASSUME HInv, NEW side \in Side, NEW qty \in Qtys
    PROVE  /\ \A offset \in 0..MaxOffset : tick_limit(side, offset, qty) => HStep
           /\ tick_market(side, qty) => HStep
<1>0. ASSUME job.pc = "batch", UNCHANGED <<fills, past>>,
             NEW pc \in {"tick_limit", "tick_market"}, job'.pc = pc
      PROVE  /\ eng /\ ~InCall /\ job.left > 0 /\ AnswerOK'
             /\ past' \in [log : Seq(LoggedTrade), since : Nat, made : SUBSET Nat,
                           unseen : SUBSET Nat]
             /\ past'.log = past.log /\ past'.made = past.made /\ past'.unseen = past.unseen
  <2>1. eng /\ ~InCall /\ job.left > 0
    BY <1>0, NoJobType DEF HInv, JobOK, InCall, MarketPcs, LimitPcs
  <2>2. AnswerOK'
    BY <1>0 DEF HInv, AnswerOK, Answered, EarlyPcs, AnsweredPcs
  <2> QED
    BY <1>0, <2>1, <2>2 DEF HInv, TradesOK
<1>1. ASSUME NEW offset \in 0..MaxOffset, tick_limit(side, offset, qty) PROVE HStep
  <2> SUFFICES ASSUME NEW pc, pc = "tick_limit", NEW price, price = LimitPrice(side, offset)
               PROVE  HStep
    OBVIOUS
  <2>1. /\ job.pc = "batch" /\ UNCHANGED <<fills, past>> /\ job'.pc = pc
        /\ Submit(pc, side, price, FALSE, qty)
    BY <1>1 DEF tick_limit, Submit, HInv, JobOK, JobType
  <2>2. /\ pc \in MarketPcs \cup LimitPcs /\ pc \notin MarketPcs
        /\ pc \notin {"bids_call", "asks_call"} /\ pc \in {"tick_limit", "tick_market"}
    BY DEF MarketPcs, LimitPcs
  <2>3. price \in Prices
    BY MarketPrices DEF HInv, MidOK
  <2>4. /\ eng /\ ~InCall /\ job.left > 0 /\ AnswerOK'
        /\ past' \in [log : Seq(LoggedTrade), since : Nat, made : SUBSET Nat,
                      unseen : SUBSET Nat]
        /\ past'.log = past.log /\ past'.made = past.made /\ past'.unseen = past.unseen
    BY <1>0, <2>1, <2>2
  <2> QED
    BY <2>1, <2>2, <2>3, <2>4, SubmitKeeps
<1>2. ASSUME tick_market(side, qty) PROVE HStep
  <2> SUFFICES ASSUME NEW pc, pc = "tick_market" PROVE HStep
    OBVIOUS
  <2>1. /\ job.pc = "batch" /\ UNCHANGED <<fills, past>> /\ job'.pc = pc
        /\ Submit(pc, side, 0, TRUE, qty)
    BY <1>2 DEF tick_market, Submit, HInv, JobOK, JobType
  <2>2. /\ pc \in MarketPcs /\ 0 \in Prices
        /\ pc \notin {"bids_call", "asks_call"} /\ pc \in {"tick_limit", "tick_market"}
    BY OrderAssumption DEF MarketPcs, Prices
  <2>4. /\ eng /\ ~InCall /\ job.left > 0 /\ AnswerOK'
        /\ past' \in [log : Seq(LoggedTrade), since : Nat, made : SUBSET Nat,
                      unseen : SUBSET Nat]
        /\ past'.log = past.log /\ past'.made = past.made /\ past'.unseen = past.unseen
    BY <1>0, <2>1, <2>2
  <2> QED
    BY <2>1, <2>2, <2>4, SubmitKeeps
<1> QED
  BY <1>1, <1>2

\* An order for an empty side.
LEMMA MaintainSubmitKeeps == HInv /\ (maintain_bids \/ maintain_asks) => HStep
<1> SUFFICES ASSUME HInv, maintain_bids \/ maintain_asks PROVE HStep
  OBVIOUS
<1>1. PICK pc \in {"bids_call", "asks_call"}, side \in Side, price \in {mid - 1, mid + 1} :
         /\ job.pc \in {"bids", "asks"}
         /\ Submit(pc, side, price, FALSE, SeedQty)
         /\ fills' = <<>> /\ past' = past
  BY DEF maintain_bids, maintain_asks, Side
<1>2. /\ pc \in MarketPcs \cup LimitPcs /\ pc \notin MarketPcs
      /\ pc \notin {"tick_limit", "tick_market"} /\ pc # "entered" /\ pc \notin AnsweredPcs
  BY DEF MarketPcs, LimitPcs, AnsweredPcs
<1>3. price \in Prices /\ SeedQty \in Qtys /\ SeedQty > 0
  BY MarketPrices, MarketAssumption, OrderAssumption DEF HInv, MidOK, Qtys
<1>4. eng /\ ~InCall
  BY <1>1, NoJobType DEF HInv, JobOK, InCall, MarketPcs, LimitPcs
<1>5. job'.pc = pc
  BY <1>1 DEF Submit, HInv, JobOK, JobType
<1>6. AnswerOK'
  <2>1. past.since = Len(past.log)
    BY <1>1 DEF HInv, AnswerOK, EarlyPcs
  <2> QED
    BY <1>1, <1>2, <1>5, <2>1 DEF AnswerOK
<1>7. past' \in [log : Seq(LoggedTrade), since : Nat, made : SUBSET Nat,
                 unseen : SUBSET Nat]
  BY <1>1 DEF HInv, TradesOK
<1> QED
  BY <1>1, <1>2, <1>3, <1>4, <1>6, <1>7, SubmitKeeps

\* What a submission leaves for the handler: its order rests, or was filled.
LEMMA CallOver ==
    ASSUME HInv, InCall, ~Busy
    PROVE  /\ job.id \in 1..(next_id - 1)
           /\ job.id \in DOMAIN resting <=> job.pc \in LimitPcs /\ Filled(out) < job.qty
           /\ \A k \in DOMAIN out : out[k] \in Fill /\ out[k].quantity > 0
           /\ out \in Seq(Fill)
           /\ job.qty > 0 => job.pc \in MarketPcs \/ job.id \in DOMAIN resting \cup Takers(out)
<1>1. /\ CallInv(job.id, job.pc \in MarketPcs, job.qty) /\ TypeOK /\ job.qty \in Qtys
  BY DEF HInv, JobOK, JobType, BookInv
<1>2. /\ job.id \in Ids /\ job.id = next_id - 1
      /\ \A k \in DOMAIN out : out[k].taker_id = job.id /\ out[k].quantity > 0
      /\ job.id \in DOMAIN resting <=> job.pc \notin MarketPcs /\ Filled(out) < job.qty
  BY <1>1 DEF CallInv
<1>3. out \in Seq(Fill) /\ \A k \in DOMAIN out : out[k] \in Fill
  BY <1>1 DEF TypeOK
<1>4. job.id \in 1..(next_id - 1)
  BY <1>1, <1>2, OrderAssumption DEF Ids, TypeOK
<1>5. job.pc \in LimitPcs <=> job.pc \notin MarketPcs
  BY DEF InCall, MarketPcs, LimitPcs
<1>6. ASSUME job.qty > 0, job.pc \notin MarketPcs, job.id \notin DOMAIN resting
      PROVE  job.id \in Takers(out)
  <2>1. Filled(out) \in Int /\ job.qty \in Int
    BY <1>1, <1>3, FilledInt, OrderAssumption DEF Qtys
  <2>2. out # <<>>
    BY <1>2, <1>6, <2>1, FilledFacts
  <2>3. 1 \in DOMAIN out
    BY <1>3, <2>2
  <2> QED
    BY <1>2, <2>3 DEF Takers
<1> QED
  BY <1>2, <1>3, <1>4, <1>5, <1>6

\* The trades of some fills.
LEMMA TradesOfFacts ==
    ASSUME NEW fs \in Seq(Fill), \A k \in DOMAIN fs : fs[k].quantity > 0,
           NEW side, NEW new, new = TradesOf(fs, side)
    PROVE  /\ new \in Seq(LoggedTrade) /\ Len(new) = Len(fs)
           /\ \A k \in 1..Len(fs) : new[k].price = fs[k].price /\ new[k].qty = fs[k].quantity
<1>1. Len(fs) \in Nat /\ DOMAIN fs = 1..Len(fs) /\ \A k \in DOMAIN fs : fs[k] \in Fill
  OBVIOUS
<1>2. new = [k \in 1..Len(fs) |-> [price |-> fs[k].price, qty |-> fs[k].quantity,
                                   buy_aggressor |-> side = "Buy"]]
  BY <1>1 DEF TradesOf
<1>3. \A f \in Fill : f.price \in Prices /\ f.quantity \in Qtys
  BY DEF Fill
<1>4. ASSUME NEW k \in 1..Len(fs)
      PROVE  [price |-> fs[k].price, qty |-> fs[k].quantity,
              buy_aggressor |-> side = "Buy"] \in LoggedTrade
  <2>1. fs[k].price \in Prices /\ fs[k].quantity \in Qtys \ {0}
    BY <1>1, <1>3, <1>4, OrderAssumption DEF Qtys
  <2>2. (side = "Buy") \in BOOLEAN
    OBVIOUS
  <2> QED
    BY <2>1, <2>2 DEF LoggedTrade
<1>5. new \in [1..Len(fs) -> LoggedTrade]
  BY <1>2, <1>4
<1>6. new \in Seq(LoggedTrade) /\ Len(new) = Len(fs)
  BY <1>1, <1>5, SeqDef
<1> QED
  BY <1>2, <1>6

\* The handler records the fills of the call.
LEMMA RecordKeeps ==
    ASSUME HInv, InCall, ~Busy, NEW rests \in BOOLEAN, Record(rests),
           job.pc \in AnsweredPcs, rests <=> job.pc \in LimitPcs,
           UNCHANGED <<vars, eng>>, MidOK',
           job' \in JobType, job'.pc = "none" => job' = NoJob,
           job'.pc \in {"none", "batch"},
           job'.pc = "batch" => job'.left > 0
    PROVE  HStep
<1> SUFFICES ASSUME NEW new, new = TradesOf(out, job.side) PROVE HStep
  OBVIOUS
<1>1. /\ BookInv /\ JobOK /\ LiveOK /\ TradesOK /\ CountOK /\ AnswerOK
      /\ UNCHANGED <<next_id, resting, call, out, eng>>
  BY DEF HInv, vars
<1>2. /\ total_orders' = total_orders + 1
      /\ trades' = FoldLeft(add_trade, Ring, new).trades
      /\ sim_time' = FoldLeft(add_trade, Ring, new).time
      /\ total_trades' = total_trades + Len(out)
      /\ live_ids' = (live_ids \ Makers(out)) \cup (IF rests /\ Remains THEN {job.id} ELSE {})
      /\ fills' = fills \o out
      /\ past' = [past EXCEPT !.log = @ \o new, !.made = @ \cup Makers(out)]
  BY DEF Record, Ring
<1>3. /\ job.id \in 1..(next_id - 1)
      /\ job.id \in DOMAIN resting <=> rests /\ Remains
      /\ \A k \in DOMAIN out : out[k] \in Fill /\ out[k].quantity > 0
      /\ out \in Seq(Fill)
  BY CallOver DEF Remains
<1>4. /\ new \in Seq(LoggedTrade) /\ Len(new) = Len(out)
      /\ \A k \in 1..Len(out) : new[k].price = out[k].price /\ new[k].qty = out[k].quantity
  BY <1>3, TradesOfFacts
<1>5. Makers(out) \subseteq Nat
  BY <1>3, IdsNatural DEF Makers, Fill
<1>6. /\ past \in [log : Seq(LoggedTrade), since : Nat, made : SUBSET Nat,
                   unseen : SUBSET Nat]
      /\ past'.log = past.log \o new /\ past'.since = past.since
      /\ past'.made = past.made \cup Makers(out) /\ past'.unseen = past.unseen
      /\ past' \in [log : Seq(LoggedTrade), since : Nat, made : SUBSET Nat,
                    unseen : SUBSET Nat]
  <2>1. past \in [log : Seq(LoggedTrade), since : Nat, made : SUBSET Nat,
                  unseen : SUBSET Nat]
    BY <1>1 DEF TradesOK
  <2>2. past.log \o new \in Seq(LoggedTrade)
    BY <1>4, <2>1
  <2> QED
    BY <1>2, <1>5, <2>1, <2>2
<1>7. BookInv' /\ ~Busy'
  BY <1>1 DEF BookInv, TypeOK, Matching, Busy
<1>8. JobOK' /\ ~InCall'
  <2>1. eng'
    BY <1>1, NoJobType DEF JobOK, InCall, MarketPcs, LimitPcs
  <2>2. job'.pc \notin MarketPcs \cup LimitPcs
    BY DEF MarketPcs, LimitPcs
  <2> QED
    BY <1>7, <2>1, <2>2, QuietJob
<1>9. LiveOK'
  <2>1. Pending' = {} /\ Pending = Makers(out)
    BY <1>8 DEF Pending
  <2>2. live_ids' \subseteq 1..(next_id' - 1)
    BY <1>1, <1>2, <1>3 DEF LiveOK
  <2>3. ASSUME NEW i \in DOMAIN resting PROVE i \in live_ids' \cup past'.made
    BY <1>1, <1>2, <1>3, <1>6, <2>1 DEF LiveOK
  <2>4. live_ids' \subseteq DOMAIN resting \cup past'.unseen
    BY <1>1, <1>2, <1>3, <1>6, <2>1 DEF LiveOK
  <2> QED
    BY <1>1, <2>1, <2>2, <2>3, <2>4 DEF LiveOK
<1>10. TradesOK'
  <2>1. /\ Len(past.log \o new) = Len(past.log) + Len(new)
        /\ RingAt(past.log \o new, Len(past.log) + Len(new), FoldLeft(add_trade, Ring, new))
    BY <1>1, <1>4, <1>6, FoldKeepsRing DEF TradesOK
  <2>2. RingAt(past'.log, Len(past'.log), Ring')
    <3>1. PICK r, hist : r = FoldLeft(add_trade, Ring, new) /\ hist = past.log \o new
      OBVIOUS
    <3>2. /\ RingAt(hist, Len(hist), r) /\ past'.log = hist
          /\ Ring'.trades = r.trades /\ Ring'.time = r.time
      BY <1>2, <1>6, <2>1, <3>1 DEF Ring
    <3>3. RingAt(hist, Len(hist), Ring')
      BY <3>2 DEF RingAt
    <3> QED
      BY <3>2, <3>3
  <2>3. total_trades' = Len(past'.log)
    BY <1>1, <1>2, <1>4, <1>6, <2>1 DEF TradesOK
  <2> QED
    BY <1>6, <2>2, <2>3 DEF TradesOK, Ring
<1>11. CountOK'
  <2>1. next_id \in Nat
    BY <1>1, OrderAssumption DEF BookInv, TypeOK
  <2> QED
    BY <1>1, <1>2, <1>8, <2>1 DEF CountOK
<1>12. Answered' /\ fills' \in Seq(Fill)
  <2> DEFINE a == Len(past.log)
             b == past.since
             c == Len(fills)
  <2>1. /\ a = b + c /\ b \in Nat /\ fills \in Seq(Fill)
        /\ \A k \in 1..c : /\ fills[k].price = past.log[b + k].price
                           /\ fills[k].quantity = past.log[b + k].qty
    BY <1>1, <1>6 DEF AnswerOK, Answered
  <2>2. a \in Nat /\ c \in Nat /\ Len(out) \in Nat
    BY <1>3, <1>6, <2>1
  <2>3. /\ Len(past'.log) = a + Len(out)
        /\ \A k \in 1..a : past'.log[k] = past.log[k]
        /\ \A k \in 1..Len(out) : past'.log[a + k] = new[k]
    <3> DEFINE l == past.log
               r == past'.log
    <3>1. l \in Seq(LoggedTrade) /\ new \in Seq(LoggedTrade) /\ r = l \o new
      BY <1>4, <1>6
    <3> HIDE DEF l, r
    <3>2. /\ Len(r) = Len(l) + Len(new)
          /\ \A k \in 1..Len(l) : r[k] = l[k]
          /\ \A k \in 1..Len(new) : r[Len(l) + k] = new[k]
      BY <3>1
    <3> QED
      BY <1>4, <3>2 DEF l, r
  <2>4. /\ fills' \in Seq(Fill) /\ Len(fills') = c + Len(out)
        /\ \A k \in 1..c : fills'[k] = fills[k]
        /\ \A k \in 1..Len(out) : fills'[c + k] = out[k]
    BY <1>2, <1>3, <2>1
  <2> HIDE DEF a, b, c
  <2>5. ASSUME NEW k \in 1..(c + Len(out))
        PROVE  /\ fills'[k].price = past'.log[b + k].price
               /\ fills'[k].quantity = past'.log[b + k].qty
    <3>1. CASE k <= c
      <4>1. k \in 1..c /\ b + k \in 1..a
        BY <2>1, <2>2, <3>1
      <4> QED
        BY <2>1, <2>3, <2>4, <4>1
    <3>2. CASE k > c
      <4> DEFINE j == k - c
      <4>1. j \in 1..Len(out) /\ k = c + j /\ b + k = a + j
        BY <2>1, <2>2, <3>2
      <4> HIDE DEF j
      <4>2. fills'[k] = out[j] /\ past'.log[b + k] = new[j]
        BY <2>3, <2>4, <4>1
      <4> QED
        BY <1>4, <4>1, <4>2
    <3> QED
      BY <2>2, <3>1, <3>2
  <2>6. DOMAIN fills' = 1..(c + Len(out)) /\ past'.since = b
    BY <1>6, <2>4 DEF b
  <2>7. Len(past'.log) = b + Len(fills')
    BY <2>1, <2>2, <2>3, <2>4
  <2> QED
    BY <2>4, <2>5, <2>6, <2>7 DEF Answered
<1>13. AnswerOK'
  BY <1>12 DEF AnswerOK, EarlyPcs
<1> QED
  BY <1>7, <1>8, <1>9, <1>10, <1>11, <1>12, <1>13 DEF HInv, HStep

\* A batch goes on while operations are left.
LEMMA NextOperationJob ==
    ASSUME HInv, NextOperation, job.left > 0
    PROVE  /\ job' \in JobType
           /\ job'.pc = "none" => job' = NoJob
           /\ job'.pc \in {"none", "batch"}
           /\ job'.pc = "batch" => job'.left > 0
<1>1. job.left \in Nat
  BY DEF HInv, JobOK, JobType
<1>2. CASE job.left = 1
  BY <1>2, NoJobType DEF NextOperation
<1>3. CASE job.left # 1
  <2>1. job' = [NoJob EXCEPT !.pc = "batch", !.left = job.left - 1]
    BY <1>3 DEF NextOperation
  <2>2. job.left - 1 \in Nat /\ job.left - 1 > 0
    BY <1>1, <1>3
  <2>3. job'.pc = "batch" /\ job'.left = job.left - 1
    BY <2>1 DEF NoJob
  <2>4. job' \in JobType
    BY <2>1, <2>2, NoJobType DEF JobType, Pcs
  <2> QED
    BY <2>2, <2>3, <2>4
<1> QED
  BY <1>2, <1>3

LEMMA RecordedKeeps == HInv /\ (submit_done \/ tick_limit_done \/ tick_market_done) => HStep
<1> SUFFICES ASSUME HInv PROVE (submit_done \/ tick_limit_done \/ tick_market_done) => HStep
  OBVIOUS
<1>1. ASSUME submit_done PROVE HStep
  <2>1. PICK rests \in BOOLEAN : rests = (job.pc = "limit")
    OBVIOUS
  <2>2. /\ job.pc \in {"limit", "market"} /\ ~Busy /\ Record(rests) /\ job' = NoJob
        /\ UNCHANGED <<vars, eng>> /\ MidOK'
    BY <1>1, <2>1 DEF submit_done, MidOK, HInv
  <2>3. InCall /\ job.pc \in AnsweredPcs /\ (rests <=> job.pc \in LimitPcs)
    BY <2>1, <2>2 DEF InCall, AnsweredPcs, MarketPcs, LimitPcs
  <2>4. job' \in JobType /\ job'.pc = "none"
    BY <2>2, NoJobType
  <2> QED
    BY <2>2, <2>3, <2>4, RecordKeeps
<1>2. ASSUME tick_limit_done PROVE HStep
  <2>1. PICK rests \in BOOLEAN : rests = TRUE
    OBVIOUS
  <2>2. /\ job.pc = "tick_limit" /\ ~Busy /\ Record(rests) /\ NextOperation
        /\ UNCHANGED <<vars, eng>> /\ MidOK'
    BY <1>2, <2>1, MarketPrices DEF tick_limit_done, MidOK, HInv
  <2>3. /\ InCall /\ job.pc \in AnsweredPcs /\ (rests <=> job.pc \in LimitPcs)
        /\ job.left > 0
    BY <2>1, <2>2 DEF InCall, AnsweredPcs, MarketPcs, LimitPcs, HInv, JobOK
  <2> QED
    BY <2>2, <2>3, NextOperationJob, RecordKeeps
<1>3. ASSUME tick_market_done PROVE HStep
  <2>1. PICK rests \in BOOLEAN : rests = FALSE
    OBVIOUS
  <2>2. /\ job.pc = "tick_market" /\ ~Busy /\ Record(rests) /\ NextOperation
        /\ UNCHANGED <<vars, eng>> /\ MidOK'
    BY <1>3, <2>1 DEF tick_market_done, MidOK, HInv
  <2>3. /\ InCall /\ job.pc \in AnsweredPcs /\ (rests <=> job.pc \in LimitPcs)
        /\ job.left > 0
    BY <2>1, <2>2 DEF InCall, AnsweredPcs, MarketPcs, LimitPcs, HInv, JobOK
  <2> QED
    BY <2>2, <2>3, NextOperationJob, RecordKeeps
<1> QED
  BY <1>1, <1>2, <1>3

\* The handler goes on without an engine call.
LEMMA QuietKeeps ==
    ASSUME HInv, ~Busy, eng, UNCHANGED <<vars, eng, mid, counters>>,
           job' \in JobType, job'.pc \notin MarketPcs \cup LimitPcs,
           job'.pc = "none" => job' = NoJob, job'.pc = "batch" => job'.left > 0,
           LiveOK', AnswerOK',
           past' \in [log : Seq(LoggedTrade), since : Nat, made : SUBSET Nat,
                      unseen : SUBSET Nat],
           past'.log = past.log
    PROVE  HInv'
<1>1. /\ BookInv /\ TradesOK /\ CountOK /\ MidOK
      /\ UNCHANGED <<next_id, resting, call, out, eng, mid>>
      /\ UNCHANGED <<total_trades, sim_time, trades, total_orders>>
  BY DEF HInv, vars, counters
<1>2. BookInv' /\ ~Busy'
  BY <1>1 DEF BookInv, TypeOK, Matching, Busy
<1>3. JobOK' /\ ~InCall'
  BY <1>1, <1>2, QuietJob
<1>4. TradesOK'
  BY <1>1, TradesSame
<1>5. CountOK' /\ MidOK'
  BY <1>1, <1>3 DEF CountOK, MidOK
<1> QED
  BY <1>2, <1>3, <1>4, <1>5 DEF HInv

\* The first of the two checks is done, or both.
LEMMA AfterCheckJob ==
    ASSUME HInv, NEW vec \in Seq(Fill), AfterCheck(vec),
           job.pc \in {"bids", "bids_call", "asks", "asks_call"},
           past'.log = past.log, past'.since = past.since
    PROVE  /\ job' \in JobType /\ job'.pc \notin MarketPcs \cup LimitPcs
           /\ job'.pc \in {"asks", "batch"} /\ job' # NoJob
           /\ job'.pc = "batch" => job'.left > 0
           /\ AnswerOK'
<1>1. past.since = Len(past.log) /\ Len(past.log) \in Nat
  BY DEF HInv, AnswerOK, EarlyPcs, TradesOK
<1>2. CASE job.pc \in {"bids", "bids_call"}
  <2>1. job' = [NoJob EXCEPT !.pc = "asks"] /\ fills' = vec
    BY <1>2 DEF AfterCheck
  <2>2. job' \in JobType /\ job'.pc = "asks" /\ job' # NoJob
    BY <2>1, NoJobType DEF JobType, Pcs, NoJob
  <2>3. AnswerOK'
    BY <1>1, <2>1, <2>2 DEF AnswerOK, AnsweredPcs
  <2> QED
    BY <2>2, <2>3 DEF MarketPcs, LimitPcs
<1>3. CASE job.pc \notin {"bids", "bids_call"}
  <2>1. fills' = <<>> /\ \E n \in 1..MaxBatch : job' = [NoJob EXCEPT !.pc = "batch", !.left = n]
    BY <1>3 DEF AfterCheck
  <2>2. job' \in JobType /\ job'.pc = "batch" /\ job' # NoJob /\ job'.left > 0
    <3>1. PICK n \in 1..MaxBatch : job' = [NoJob EXCEPT !.pc = "batch", !.left = n]
      BY <2>1
    <3>2. n \in Nat /\ n > 0
      BY SharedAssumption
    <3>3. job'.pc = "batch" /\ job'.left = n
      BY <3>1 DEF NoJob
    <3> QED
      BY <3>1, <3>2, <3>3, NoJobType DEF JobType, Pcs
  <2>3. Answered'
    <3>1. Len(fills') = 0 /\ DOMAIN fills' = {}
      BY <2>1
    <3> QED
      BY <1>1, <3>1 DEF Answered
  <2>4. AnswerOK'
    BY <1>1, <2>1, <2>2, <2>3 DEF AnswerOK, EarlyPcs
  <2> QED
    BY <2>2, <2>4 DEF MarketPcs, LimitPcs
<1> QED
  BY <1>2, <1>3

LEMMA MaintainSkipKeeps == HInv /\ maintain_skip => HStep
<1> SUFFICES ASSUME HInv, maintain_skip PROVE HStep
  OBVIOUS
<1>1. /\ job.pc \in {"bids", "asks"} /\ AfterCheck(fills) /\ fills \in Seq(Fill)
      /\ UNCHANGED <<vars, eng, live_ids, mid, counters, past>>
  BY DEF maintain_skip, HInv, AnswerOK
<1>2. eng /\ ~InCall /\ ~Busy
  BY <1>1, NoJobType DEF HInv, JobOK, InCall, MarketPcs, LimitPcs
<1>3. /\ job' \in JobType /\ job'.pc \notin MarketPcs \cup LimitPcs
      /\ job'.pc \in {"asks", "batch"} /\ job' # NoJob
      /\ job'.pc = "batch" => job'.left > 0
      /\ AnswerOK'
  BY <1>1, AfterCheckJob
<1>4. LiveOK'
  BY <1>1, <1>2, <1>3 DEF HInv, LiveOK, InCall, Pending, vars
<1>5. past' \in [log : Seq(LoggedTrade), since : Nat, made : SUBSET Nat,
                 unseen : SUBSET Nat]
  BY <1>1 DEF HInv, TradesOK
<1> QED
  BY <1>1, <1>2, <1>3, <1>4, <1>5, QuietKeeps DEF HStep

\* The id of a liquidity order goes into live_ids even when the order does not
\* rest: then it has fills, which nobody looks at.
LEMMA MaintainDoneKeeps == HInv /\ maintain_done => HStep
<1> SUFFICES ASSUME HInv, maintain_done PROVE HStep
  OBVIOUS
<1>1. /\ job.pc \in {"bids_call", "asks_call"} /\ ~Busy
      /\ live_ids' = live_ids \cup {job.id} /\ Overlook /\ AfterCheck(out)
      /\ UNCHANGED <<vars, eng, mid, counters>>
      /\ BookInv /\ TradesOK /\ LiveOK
      /\ next_id' = next_id /\ resting' = resting
  BY DEF maintain_done, HInv, vars
<1>2. InCall /\ eng /\ job.pc \notin MarketPcs /\ job.qty > 0
  BY <1>1, NoJobType DEF HInv, JobOK, InCall, MarketPcs, LimitPcs
<1>3. /\ job.id \in 1..(next_id - 1) /\ out \in Seq(Fill)
      /\ job.id \in DOMAIN resting \cup Takers(out)
  BY <1>1, <1>2, CallOver
<1>4. /\ past' \in [log : Seq(LoggedTrade), since : Nat, made : SUBSET Nat,
                    unseen : SUBSET Nat]
      /\ past'.log = past.log /\ past'.since = past.since
      /\ past'.made = past.made \cup Makers(out)
      /\ past'.unseen = past.unseen \cup Makers(out) \cup Takers(out)
  BY <1>1, OverlookPast
<1>5. /\ job' \in JobType /\ job'.pc \notin MarketPcs \cup LimitPcs
      /\ job'.pc \in {"asks", "batch"} /\ job' # NoJob
      /\ job'.pc = "batch" => job'.left > 0
      /\ AnswerOK'
  BY <1>1, <1>3, <1>4, AfterCheckJob
<1>6. LiveOK'
  <2>1. Pending = Makers(out) /\ Pending' = {}
    BY <1>2, <1>5 DEF Pending, InCall
  <2>2. live_ids' \subseteq 1..(next_id' - 1)
    BY <1>1, <1>3 DEF LiveOK
  <2>3. \A i \in DOMAIN resting : i \in live_ids' \cup past'.made
    BY <1>1, <1>4, <2>1 DEF LiveOK
  <2>4. live_ids' \subseteq DOMAIN resting \cup past'.unseen
    BY <1>1, <1>3, <1>4, <2>1 DEF LiveOK
  <2> QED
    BY <1>1, <2>1, <2>2, <2>3, <2>4 DEF LiveOK
<1> QED
  BY <1>1, <1>2, <1>4, <1>5, <1>6, QuietKeeps DEF HStep

\* A cancel takes the id out of the book and of live_ids together.
LEMMA CancelKeeps ==
    ASSUME HInv, NEW id, cancel(id), ~InCall, eng,
           live_ids' = IF id \in DOMAIN resting THEN live_ids \ {id} ELSE live_ids,
           UNCHANGED <<eng, mid, counters, fills, past>>,
           job.pc \in {"entered", "batch"} \/ job = NoJob,
           job' \in JobType, job'.pc \in {"none", "batch"},
           job'.pc = "none" => job' = NoJob,
           job'.pc = "batch" => job.pc = "batch" /\ job'.left > 0
    PROVE  HStep
<1>1. /\ BookInv /\ TradesOK /\ CountOK /\ MidOK /\ LiveOK /\ AnswerOK
      /\ UNCHANGED <<total_trades, sim_time, trades, total_orders>>
  BY DEF HInv, counters
<1>2. /\ BookInv' /\ ~Busy /\ ~Busy' /\ DOMAIN resting' = DOMAIN resting \ {id}
      /\ next_id' = next_id
  BY <1>1, CancelBook
<1>3. JobOK' /\ ~InCall'
  <2>1. job'.pc \notin MarketPcs \cup LimitPcs
    BY DEF MarketPcs, LimitPcs
  <2> QED
    BY <1>2, <2>1, QuietJob
<1>4. LiveOK'
  <2>1. Pending = {} /\ Pending' = {}
    BY <1>3 DEF Pending
  <2> QED
    BY <1>1, <1>2, <1>3, <2>1 DEF LiveOK
<1>5. TradesOK'
  BY <1>1, TradesSame DEF TradesOK
<1>6. CountOK' /\ MidOK'
  BY <1>1, <1>2, <1>3 DEF CountOK, MidOK
<1>7. job # NoJob => Answered'
  <2>1. CASE job.pc = "batch"
    BY <1>1, <2>1 DEF AnswerOK, AnsweredPcs, Answered
  <2>2. CASE job.pc = "entered"
    <3>1. past.since = Len(past.log) /\ fills = <<>> /\ past.log \in Seq(LoggedTrade)
      BY <1>1, <2>2 DEF AnswerOK, EarlyPcs, TradesOK
    <3>2. Len(fills') = 0 /\ DOMAIN fills' = {} /\ Len(past.log) \in Nat
      BY <3>1
    <3> QED
      BY <3>1, <3>2 DEF Answered
  <2> QED
    BY <2>1, <2>2
<1>8. AnswerOK'
  <2>1. job'.pc = "batch" => Answered'
    BY <1>7, NoJobType
  <2> QED
    BY <1>1, <2>1 DEF AnswerOK, EarlyPcs, AnsweredPcs
<1> QED
  BY <1>2, <1>3, <1>4, <1>5, <1>6, <1>7, <1>8 DEF HInv, HStep

LEMMA CancelsKeep ==
    ASSUME HInv, NEW id
    PROVE  /\ CancelOrder(id) => HStep
           /\ tick_cancel(id) => HStep
<1>1. ASSUME CancelOrder(id) PROVE HStep
  <2>1. /\ eng /\ ~InCall /\ (job.pc = "entered" \/ job = NoJob)
    BY <1>1, EntryFacts DEF CancelOrder
  <2> QED
    BY <1>1, <2>1, NoJobType, CancelKeeps DEF CancelOrder, remove_live
<1>2. ASSUME tick_cancel(id) PROVE HStep
  <2>1. job.pc = "batch" /\ NextOperation
    BY <1>2 DEF tick_cancel
  <2>2. eng /\ ~InCall /\ job.left > 0
    BY <2>1, NoJobType DEF HInv, JobOK, InCall, MarketPcs, LimitPcs
  <2> QED
    BY <1>2, <2>1, <2>2, NextOperationJob, CancelKeeps DEF tick_cancel, remove_live
<1> QED
  BY <1>1, <1>2

LEMMA CancelNoneKeeps == HInv /\ tick_cancel_none => HStep
<1> SUFFICES ASSUME HInv, tick_cancel_none PROVE HStep
  OBVIOUS
<1>1. /\ job.pc = "batch" /\ NextOperation
      /\ UNCHANGED <<vars, eng, live_ids, mid, counters, fills, past>>
  BY DEF tick_cancel_none, state
<1>2. eng /\ ~InCall /\ ~Busy /\ job.left > 0
  BY <1>1, NoJobType DEF HInv, JobOK, InCall, MarketPcs, LimitPcs
<1>3. /\ job' \in JobType /\ (job'.pc = "none" => job' = NoJob)
      /\ job'.pc \in {"none", "batch"}
      /\ job'.pc = "batch" => job'.left > 0
  BY <1>1, <1>2, NextOperationJob
<1>4. job'.pc \notin MarketPcs \cup LimitPcs
  BY <1>3 DEF MarketPcs, LimitPcs
<1>5. LiveOK'
  BY <1>1, <1>2, <1>4 DEF HInv, LiveOK, InCall, Pending, vars
<1>6. Answered' /\ AnswerOK'
  BY <1>1, <1>3 DEF HInv, AnswerOK, Answered, EarlyPcs, AnsweredPcs
<1>7. past' \in [log : Seq(LoggedTrade), since : Nat, made : SUBSET Nat,
                 unseen : SUBSET Nat]
  BY <1>1 DEF HInv, TradesOK
<1> QED
  BY <1>1, <1>2, <1>3, <1>4, <1>5, <1>6, <1>7, QuietKeeps DEF HStep

LEMMA BeginTickKeeps == HInv /\ BeginTick => HStep
<1> SUFFICES ASSUME HInv, BeginTick PROVE HStep
  OBVIOUS
<1>1. /\ Entry /\ job' = [NoJob EXCEPT !.pc = "bids"] /\ Entered
      /\ UNCHANGED <<vars, eng, live_ids, mid, counters, fills>>
  BY DEF BeginTick, state
<1>2. eng /\ ~InCall /\ ~Busy /\ TradesOK
  BY <1>1, EntryFacts DEF HInv, JobOK
<1>3. job' \in JobType /\ job'.pc = "bids" /\ job' # NoJob
  BY <1>1, NoJobType DEF JobType, Pcs, NoJob
<1>4. job'.pc \notin MarketPcs \cup LimitPcs
  BY <1>3 DEF MarketPcs, LimitPcs
<1>5. /\ past' \in [log : Seq(LoggedTrade), since : Nat, made : SUBSET Nat,
                    unseen : SUBSET Nat]
      /\ past'.log = past.log /\ past'.since = Len(past.log)
      /\ past'.made = past.made /\ past'.unseen = past.unseen
  BY <1>1, <1>2, EnteredPast
<1>6. LiveOK'
  BY <1>1, <1>2, <1>4, <1>5 DEF HInv, LiveOK, InCall, Pending, vars
<1>7. AnswerOK'
  BY <1>1, <1>3, <1>5 DEF HInv, AnswerOK, EarlyPcs, AnsweredPcs
<1> QED
  BY <1>1, <1>2, <1>3, <1>4, <1>5, <1>6, <1>7, QuietKeeps DEF HStep

-----------------------------------------------------------------------------
(* A new engine.                                                             *)

\* Nothing recorded: the invariant of what is kept beside a seeded book.
LEMMA NoTrades ==
    /\ NoPast \in [log : Seq(LoggedTrade), since : Nat, made : SUBSET Nat,
                   unseen : SUBSET Nat]
    /\ Len(NoPast.log) = 0 /\ NoPast.since = 0
    /\ RingAt(NoPast.log, Len(NoPast.log), [trades |-> <<>>, time |-> 0])
<1>1. Lesser(0, RingCap) = 0
  BY SharedAssumption DEF Lesser
<1> QED
  BY <1>1 DEF NoPast, RingAt

LEMMA InitEngineKeeps ==
    ASSUME HInv, init_engine, job' = NoJob \/ job' = [NoJob EXCEPT !.pc = "entered"],
           job = NoJob
    PROVE  HStep
<1>1. /\ Reseed /\ eng' /\ live_ids' = DOMAIN Seeds
      /\ total_orders' = 0 /\ total_trades' = 0 /\ sim_time' = 0
      /\ trades' = <<>> /\ fills' = <<>> /\ past' = NoPast
  BY DEF init_engine
<1>2. /\ BookInv' /\ ~Busy' /\ resting' = Seeds /\ next_id' = 2 * SeedLevels + 1
      /\ mid' \in MidMin..MidMax
  BY <1>1, ReseedBook
<1>3. /\ job' \in JobType /\ job'.pc \in {"none", "entered"}
      /\ job'.pc = "none" => job' = NoJob
  BY NoJobType DEF JobType, Pcs, NoJob
<1>4. JobOK' /\ ~InCall'
  <2>1. job'.pc \notin MarketPcs \cup LimitPcs /\ job'.pc # "batch"
    BY <1>3 DEF MarketPcs, LimitPcs
  <2> QED
    BY <1>1, <1>2, <1>3, <2>1, QuietJob
<1>5. LiveOK'
  <2>1. live_ids' = 1..(next_id' - 1) /\ live_ids' = DOMAIN resting'
    BY <1>1, <1>2, SeedsFacts, MarketAssumption
  <2> QED
    BY <1>4, <2>1 DEF LiveOK, Pending
<1>6. TradesOK'
  BY <1>1, NoTrades DEF TradesOK, Ring
<1>7. CountOK' /\ MidOK'
  BY <1>1, <1>2, <1>4, MarketAssumption DEF CountOK, MidOK
<1>8. AnswerOK'
  BY <1>1, <1>3, NoTrades DEF AnswerOK, EarlyPcs, AnsweredPcs
<1> QED
  BY <1>2, <1>4, <1>5, <1>6, <1>7, <1>8 DEF HInv, HStep

\* HInv is inductive.
LEMMA HostsInit == HInit => HInv
<1> SUFFICES ASSUME NEW created \in BOOLEAN, SharedInit(created) PROVE HInv
  BY DEF HInit, main, g_state
<1>1. /\ total_orders = 0 /\ total_trades = 0 /\ sim_time = 0
      /\ trades = <<>> /\ fills = <<>> /\ job = NoJob /\ past = NoPast
  BY DEF SharedInit
<1>2. /\ BookInv /\ ~Busy /\ MidOK
      /\ live_ids \subseteq 1..(next_id - 1) /\ live_ids = DOMAIN resting
      /\ next_id \in Nat \ {0} /\ (~eng => next_id = 1)
  <2>1. CASE created
    <3>1. eng /\ Seeded /\ live_ids = DOMAIN Seeds
      BY <2>1 DEF SharedInit
    <3> QED
      BY <3>1, SeededBook, SeedsFacts, MarketAssumption DEF MidOK
  <2>2. CASE ~created
    <3>1. ~eng /\ Init /\ mid = MidInit /\ live_ids = {}
      BY <2>2 DEF SharedInit
    <3>2. IdleCall \in Call /\ IdleCall.pc = "idle"
      BY SeedsFacts
    <3>3. TypeOK /\ DOMAIN resting = {} /\ next_id = 1
      BY <3>1, <3>2, OrderAssumption DEF Init, TypeOK, Empty, Restrict
    <3> QED
      BY <3>1, <3>2, <3>3, MarketAssumption DEF Init, BookInv, Matching, Busy, MidOK
  <2> QED
    BY <2>1, <2>2
<1>3. JobOK /\ ~InCall
  BY <1>1, <1>2, NoJobType DEF JobOK, InCall, MarketPcs, LimitPcs
<1>4. LiveOK
  BY <1>2, <1>3 DEF LiveOK, Pending
<1>5. TradesOK
  BY <1>1, NoTrades DEF TradesOK, Ring
<1>6. CountOK
  BY <1>1, <1>2, <1>3 DEF CountOK
<1>7. AnswerOK
  BY <1>1, NoJobType DEF AnswerOK, EarlyPcs, AnsweredPcs
<1> QED
  BY <1>2, <1>3, <1>4, <1>5, <1>6, <1>7 DEF HInv

-----------------------------------------------------------------------------
(* The two programs.                                                         *)

LEMMA HandlerKeeps == HInv /\ Handler => HStep
<1> SUFFICES ASSUME HInv, Handler PROVE HStep
  OBVIOUS
<1>1. CASE EngineStep \/ EngineThrows
  BY <1>1, EngineStepKeeps, EngineThrowsKeeps
<1>2. CASE submit_done
  BY <1>2, RecordedKeeps
<1>3. CASE maintain_liquidity
  BY <1>3, MaintainSkipKeeps, MaintainSubmitKeeps, MaintainDoneKeeps DEF maintain_liquidity
<1>4. CASE dispatch_workload_tick
  <2>1. \A qty \in Qtys \ {0} : qty \in Qtys
    OBVIOUS
  <2> QED
    BY <1>4, <2>1, TickSubmitKeeps, RecordedKeeps, CancelsKeep, CancelNoneKeeps
       DEF dispatch_workload_tick
<1> QED
  BY <1>1, <1>2, <1>3, <1>4 DEF Handler

\* The ints that the WASM module casts stay in range.
LEMMA CastFacts ==
    /\ \A p \in Ints(MaxPrice) : ToPrice(p) \in Prices
    /\ \A q \in Ints(MaxQty) : ToQty(q) \in Qtys
BY OrderAssumption DEF Ints, ToPrice, ToQty, Prices, Qtys

LEMMA HostsStep == HInv /\ HNext => HStep
<1> SUFFICES ASSUME HInv, HNext PROVE HStep
  OBVIOUS
<1>1. CASE ServerNext
  <2>1. CASE Handler
    BY <2>1, HandlerKeeps
  <2>2. ASSUME NEW side \in Side, NEW price \in Prices, NEW qty \in Qtys,
               post_submit_limit(side, price, qty)
        PROVE  HStep
    BY <2>2, ClientSubmitKeeps DEF post_submit_limit
  <2>3. ASSUME NEW side \in Side, NEW qty \in Qtys, post_submit_market(side, qty)
        PROVE  HStep
    <3>1. PICK price : price \in Prices
      BY OrderAssumption DEF Prices
    <3> QED
      BY <2>3, <3>1, ClientSubmitKeeps DEF post_submit_market
  <2>4. ASSUME NEW raw \in RawIds, post_cancel(raw) PROVE HStep
    <3>1. PICK id : id = ToInt(raw)
      OBVIOUS
    <3> QED
      BY <2>4, <3>1, CancelsKeep DEF post_cancel
  <2>5. CASE post_tick
    BY <2>5, BeginTickKeeps DEF post_tick
  <2>6. CASE post_reset
    BY <2>6, InitEngineKeeps DEF post_reset
  <2> QED
    BY <1>1, <2>1, <2>2, <2>3, <2>4, <2>5, <2>6 DEF ServerNext
<1>2. CASE WasmNext
  <2>1. CASE EngineStep \/ EngineThrows \/ wasm_submitted \/ wasm_minimum_liquidity \/ wasm_batch
    BY <2>1, HandlerKeeps DEF wasm_submitted, wasm_minimum_liquidity, wasm_batch, Handler
  <2>2. ASSUME NEW side \in Side, NEW p \in Ints(MaxPrice), NEW q \in Ints(MaxQty),
               wasm_submit_limit(side, p, q)
        PROVE  HStep
    <3>1. PICK price \in Prices, qty \in Qtys : price = ToPrice(p) /\ qty = ToQty(q)
      BY CastFacts
    <3> QED
      BY <2>2, <3>1, ClientSubmitKeeps DEF wasm_submit_limit
  <2>3. ASSUME NEW side \in Side, NEW q \in Ints(MaxQty), wasm_submit_market(side, q)
        PROVE  HStep
    <3>1. PICK price \in Prices, qty \in Qtys : qty = ToQty(q)
      BY CastFacts, OrderAssumption DEF Prices
    <3> QED
      BY <2>3, <3>1, ClientSubmitKeeps DEF wasm_submit_market
  <2>4. ASSUME NEW id \in {-1} \cup Ids, wasm_cancel(id) PROVE HStep
    BY <2>4, CancelsKeep DEF wasm_cancel
  <2>5. CASE wasm_tick
    BY <2>5, BeginTickKeeps DEF wasm_tick
  <2>6. CASE first_call \/ wasm_reset
    BY <2>6, InitEngineKeeps DEF first_call, wasm_reset
  <2> QED
    BY <1>2, <2>1, <2>2, <2>3, <2>4, <2>5, <2>6 DEF WasmNext, wasm_call
<1> QED
  BY <1>1, <1>2 DEF HNext

LEMMA HostsInductive == HInv /\ [HNext]_hvars => HInv'
<1> SUFFICES ASSUME HInv, [HNext]_hvars PROVE HInv'
  OBVIOUS
<1>1. CASE HNext
  BY <1>1, HostsStep DEF HStep
<1>2. CASE UNCHANGED hvars
  <2>1. UNCHANGED <<next_id, resting, call, out, eng, live_ids, mid, total_orders,
                    total_trades, sim_time, trades, fills, job, past>>
    BY <1>2 DEF hvars, svars, vars, state, counters
  <2> QED
    BY <2>1 DEF HInv, BookInv, TypeOK, Matching, MidOK, JobOK, InCall, CallInv, Busy, LiveOK,
                Pending, TradesOK, RingAt, Ring, CountOK, AnswerOK, Answered
<1> QED
  BY <1>1, <1>2

LEMMA HostsInvariant == HSpec => []HInv
BY HostsInit, HostsInductive, PTL DEF HSpec

\* Types of everything around the engine, and the bounds the code relies on: ids
\* of live_ids were given out, the ring holds at most TRADE_RING_CAP entries.
THEOREM SharedTypes == HSpec => []STypeOK
<1>1. HInv => STypeOK
  <2> SUFFICES ASSUME HInv PROVE STypeOK
    OBVIOUS
  <2>1. /\ TypeOK /\ live_ids \subseteq 1..(next_id - 1) /\ mid \in MidMin..MidMax
        /\ fills \in Seq(Fill) /\ total_trades \in Nat
        /\ trades \in Seq(Trade_) /\ Len(trades) = Lesser(Len(past.log), RingCap)
        /\ Len(past.log) \in Nat
    BY DEF HInv, BookInv, MidOK, LiveOK, AnswerOK, TradesOK, RingAt, Ring
  <2>2. Len(trades) <= RingCap
    BY <2>1, SharedAssumption DEF Lesser
  <2>3. total_orders \in 0..MaxId
    BY <2>1, OrderAssumption DEF HInv, CountOK, TypeOK
  <2>4. job.id \in 0..MaxId /\ (Busy => job # NoJob) /\ (~eng => next_id = 1)
    BY NoJobType DEF HInv, JobOK, JobType, InCall, MarketPcs, LimitPcs
  <2> QED
    BY <2>1, <2>2, <2>3, <2>4 DEF STypeOK
<1> QED
  BY <1>1, HostsInvariant, PTL

\* The ring of GET /data and of wasm_get_data shows the most recent trades, newest
\* first, none missing or repeated, for any capacity and any number of fills that
\* one call brings.
THEOREM RingRecent == HSpec => []RingIsRecent
<1>1. HInv => RingIsRecent
  BY DEF HInv, TradesOK, RingAt, Ring, RingIsRecent
<1> QED
  BY <1>1, HostsInvariant, PTL

\* Between calls the simulation can cancel every resting order that never traded
\* as a maker.
THEOREM UntouchedLive == HSpec => []UntouchedIsLive
<1>1. HInv => UntouchedIsLive
  BY NoJobType DEF HInv, LiveOK, Pending, InCall, MarketPcs, LimitPcs, UntouchedIsLive
<1> QED
  BY <1>1, HostsInvariant, PTL

\* An id of live_ids that is not in the book comes from fills that no handler
\* recorded: those of a liquidity order, or of a submission that threw.
THEOREM StaleUnseen == HSpec => []StaleOnlyUnseen
<1>1. HInv => StaleOnlyUnseen
  BY NoJobType DEF HInv, LiveOK, Pending, InCall, MarketPcs, LimitPcs, StaleOnlyUnseen
<1> QED
  BY <1>1, HostsInvariant, PTL

\* A call that ends without an exception answers with exactly the trades it put
\* in the ring, in their order.
THEOREM AnswersRecorded == HSpec => AnswerIsRecorded
<1> DEFINE New == SubSeq(past.log, past.since + 1, Len(past.log))
           Exact == /\ Len(fills) = Len(New)
                    /\ \A n \in DOMAIN New : /\ fills[n].price = New[n].price
                                             /\ fills[n].quantity = New[n].qty
<1>1. HInv /\ Answered => Exact
  <2> SUFFICES ASSUME HInv, Answered PROVE Exact
    OBVIOUS
  <2> DEFINE l == past.log
             b == past.since
             c == Len(fills)
  <2>1. /\ l \in Seq(LoggedTrade) /\ b \in Nat /\ c \in Nat /\ Len(l) = b + c
        /\ \A n \in 1..c : fills[n].price = l[b + n].price /\ fills[n].quantity = l[b + n].qty
    BY DEF HInv, TradesOK, AnswerOK, Answered
  <2> HIDE DEF l, b, c
  <2>2. /\ Len(SubSeq(l, b + 1, Len(l))) = c
        /\ \A n \in 1..c : SubSeq(l, b + 1, Len(l))[n] = l[b + n]
        /\ DOMAIN SubSeq(l, b + 1, Len(l)) = 1..c
    BY <2>1
  <2> QED
    BY <2>1, <2>2 DEF l, b, c
<1>2. ASSUME HInv, [HNext]_hvars, ~(UNCHANGED svars), job # NoJob, job' = NoJob, ~Busy
      PROVE  Exact'
  <2>1. HNext
    BY <1>2 DEF hvars
  <2>2. HInv' /\ Answered'
    BY <1>2, <2>1, HostsStep DEF HStep
  <2>3. (HInv /\ Answered => Exact)'
    BY <1>1, PTL
  <2> QED
    BY <2>2, <2>3
<1>3. HInv /\ [HNext]_hvars =>
         [job # NoJob /\ job' = NoJob /\ ~Busy =>
             LET new == SubSeq(past'.log, past'.since + 1, Len(past'.log))
             IN  /\ Len(fills') = Len(new)
                 /\ \A n \in DOMAIN new : /\ fills'[n].price = new[n].price
                                          /\ fills'[n].quantity = new[n].qty]_svars
  BY <1>2
<1> QED
  BY <1>3, HostsInvariant, PTL DEF AnswerIsRecorded, HSpec

-----------------------------------------------------------------------------
(* The benchmark.                                                            *)

\* A step within a batch leaves the count of operations alone.
LEMMA LoopSame ==
    ASSUME LoopOK, bench.pc \in BatchPcs, bench'.pc \in BatchPcs \/ bench'.pc = "threw",
           bench'.op = bench.op, bench'.bn = bench.bn, bench'.total = bench.total, lats' = lats
    PROVE  LoopOK'
BY DEF LoopOK, BatchPcs

\* A step of the loops between two engine calls.
LEMMA BenchQuiet ==
    ASSUME BInv, UNCHANGED vars, ~Busy, MidOK', alt' = alt,
           bench' \in BenchType, bench'.pc \notin BenchCalls, BLiveOK', LoopOK'
    PROVE  BInv'
<1>1. BookInv' /\ ~Busy'
  BY DEF BInv, BookInv, TypeOK, Matching, Busy, vars
<1> QED
  BY <1>1 DEF BInv, BenchOK

\* The benchmark makes an engine call.
LEMMA BenchSubmits ==
    ASSUME BInv, bench.pc \in BatchPcs \ BenchCalls, NEW pc \in BenchCalls,
           NEW side \in Side, NEW price \in Prices, NEW is_market \in BOOLEAN,
           NEW qty \in Qtys, is_market <=> pc = "market",
           Begin(side, price, is_market, qty),
           bench' = [bench EXCEPT !.pc = pc, !.nid = next_id, !.qty = qty],
           UNCHANGED <<mid, blive, lats>>, alt' \in Side
    PROVE  BInv'
<1> SUFFICES ASSUME NEW id, id = next_id PROVE BInv'
  OBVIOUS
<1>1. BookInv /\ BenchOK /\ BLiveOK /\ LoopOK /\ bench \in BenchType
  BY DEF BInv, BenchOK
<1>2. /\ BookInv' /\ CallInv(id, is_market, qty)' /\ id \in Ids /\ resting' = resting
  BY <1>1, BeginBook
<1>3. /\ bench' \in BenchType /\ bench'.pc = pc /\ bench'.nid = id /\ bench'.qty = qty
      /\ bench'.op = bench.op /\ bench'.bn = bench.bn /\ bench'.total = bench.total
  <2>1. id \in Nat /\ pc \in BatchPcs
    BY <1>2, IdsNatural DEF BatchPcs, BenchCalls
  <2> QED
    BY <1>1, <2>1 DEF BenchType
<1>4. CallInv(bench.nid, bench.pc = "market", bench.qty)'
  BY <1>2, <1>3 DEF CallInv
<1>5. BenchOK'
  BY <1>3, <1>4 DEF BenchOK
<1>6. BLiveOK' /\ MidOK'
  BY <1>1, <1>2, <1>3 DEF BLiveOK, MidOK, BatchPcs, BenchCalls, BInv
<1>7. LoopOK'
  <2>1. pc \in BatchPcs
    BY DEF BatchPcs, BenchCalls
  <2> QED
    BY <1>1, <1>3, <2>1, LoopSame
<1> QED
  BY <1>2, <1>5, <1>6, <1>7 DEF BInv

\* The engine works on the call of the benchmark.
LEMMA BenchEngineKeeps == BInv /\ BenchEngine => BInv'
<1> SUFFICES ASSUME BInv, BenchEngine PROVE BInv'
  OBVIOUS
<1> SUFFICES ASSUME NEW id, id = bench.nid, NEW m, m = (bench.pc = "market"),
                    NEW q, q = bench.qty
             PROVE  BInv'
  OBVIOUS
<1>1. /\ BookInv /\ MidOK /\ BenchOK /\ BLiveOK /\ LoopOK
      /\ UNCHANGED <<mid, blive, alt, bench, lats>>
  BY DEF BInv, BenchEngine
<1>2. Busy
  BY DEF BenchEngine, Trade, Rest, Return, MatchOver, Matching, Busy
<1>3. bench.pc \in BenchCalls /\ CallInv(id, m, q)
  BY <1>1, <1>2 DEF BenchOK
<1>4. /\ BookInv' /\ CallInv(id, m, q)'
      /\ \A i \in DOMAIN resting' : i \in DOMAIN resting \/ i = id
  <2>1. CASE \E i \in DOMAIN resting : Trade(i)
    <3>1. PICK i \in DOMAIN resting : Trade(i)
      BY <2>1
    <3> QED
      BY <1>1, <1>3, <3>1, TradeBook
  <2>2. CASE Rest
    <3>1. BookInv' /\ CallInv(id, m, q)' /\ DOMAIN resting' = DOMAIN resting \cup {id}
      BY <1>1, <1>3, <2>2, RestBook
    <3> QED
      BY <3>1
  <2>3. CASE Return
    <3>1. BookInv' /\ CallInv(id, m, q)' /\ resting' = resting
      BY <1>1, <1>3, <2>3, ReturnBook
    <3> QED
      BY <3>1
  <2> QED
    BY <2>1, <2>2, <2>3 DEF BenchEngine
<1>5. BenchOK'
  <2>1. CallInv(bench.nid, bench.pc = "market", bench.qty)'
    BY <1>1, <1>4 DEF CallInv
  <2> QED
    BY <1>1, <1>3, <2>1 DEF BenchOK
<1>6. BLiveOK' /\ LoopOK' /\ MidOK'
  BY <1>1, <1>3, <1>4 DEF BLiveOK, LoopOK, MidOK
<1> QED
  BY <1>4, <1>5, <1>6 DEF BInv

\* The submission that threw ends the benchmark.
LEMMA BenchThrowsKeeps == BInv /\ BenchThrows => BInv'
<1> SUFFICES ASSUME BInv, BenchThrows PROVE BInv'
  OBVIOUS
<1>1. /\ BookInv /\ MidOK /\ BenchOK /\ LoopOK /\ Refuse
      /\ bench' = [bench EXCEPT !.pc = "threw"]
      /\ UNCHANGED <<mid, blive, alt, lats>>
  BY DEF BInv, BenchThrows
<1>2. BookInv' /\ ~Busy'
  BY <1>1, RefuseBook
<1>3. bench.pc \in BatchPcs
  <2>1. Busy
    BY <1>1 DEF Refuse, MatchOver, Matching, Busy
  <2> QED
    BY <1>1, <2>1 DEF BenchOK, BenchCalls, BatchPcs
<1>4. /\ bench' \in BenchType /\ bench'.pc = "threw"
      /\ bench'.op = bench.op /\ bench'.bn = bench.bn /\ bench'.total = bench.total
  BY <1>1 DEF BenchOK, BenchType
<1>5. BenchOK' /\ BLiveOK' /\ MidOK'
  BY <1>1, <1>2, <1>4 DEF BenchOK, BLiveOK, MidOK, BenchCalls
<1>6. LoopOK'
  BY <1>1, <1>3, <1>4, LoopSame
<1> QED
  BY <1>2, <1>5, <1>6 DEF BInv

LEMMA TotalNatural ==
    ASSUME bench \in BenchType
    PROVE  bench.total \in Nat /\ BatchSize \in Nat /\ BatchSize > 0 /\ bench.op \in Nat
<1>1. Totals \subseteq Nat /\ BatchSize \in Nat \ {0}
  BY BenchAssumption
<1>2. bench.total \in Totals /\ bench.op \in Nat
  BY DEF BenchType
<1>3. BatchSize \in Nat /\ BatchSize > 0
  BY ONLY <1>1
<1> QED
  BY <1>1, <1>2, <1>3

\* A batch begins, or the loop ends.
LEMMA LoopKeeps == BInv /\ (NextBatch \/ BReturn) => BInv'
<1> SUFFICES ASSUME BInv, NextBatch \/ BReturn PROVE BInv'
  OBVIOUS
<1>1. /\ bench.pc = "loop" /\ UNCHANGED <<vars, mid, blive, alt, lats>>
      /\ bench \in BenchType /\ BLiveOK /\ LoopOK /\ MidOK /\ UNCHANGED resting
  BY DEF NextBatch, BReturn, BInv, BenchOK, vars
<1>2. ~Busy
  BY <1>1 DEF BInv, BenchOK, BenchCalls
<1>3. bench.total \in Nat /\ BatchSize \in Nat /\ BatchSize > 0 /\ bench.op \in Nat
  BY <1>1, TotalNatural
<1>4. CASE NextBatch
  <2>1. /\ bench.op < bench.total
        /\ bench' = [bench EXCEPT !.pc = "ops", !.i = 0,
                                  !.bn = Lesser(BatchSize, bench.total - bench.op)]
    BY <1>4 DEF NextBatch
  <2>2. Lesser(BatchSize, bench.total - bench.op) \in Nat
    BY <1>3, <2>1 DEF Lesser
  <2>3. /\ bench' \in BenchType /\ bench'.pc = "ops" /\ bench'.op = bench.op
        /\ bench'.total = bench.total
        /\ bench'.bn = Lesser(BatchSize, bench.total - bench.op)
    BY <1>1, <2>1, <2>2 DEF BenchType, BatchPcs
  <2>4. LoopOK'
    BY <1>1, <2>1, <2>3 DEF LoopOK
  <2>5. BLiveOK' /\ MidOK' /\ bench'.pc \notin BenchCalls
    BY <1>1, <2>3 DEF BLiveOK, MidOK, BenchCalls
  <2> QED
    BY <1>1, <1>2, <2>3, <2>4, <2>5, BenchQuiet
<1>5. CASE BReturn
  <2>1. bench.op >= bench.total /\ bench' = [bench EXCEPT !.pc = "returned"]
    BY <1>5 DEF BReturn
  <2>3. /\ bench' \in BenchType /\ bench'.pc = "returned" /\ bench'.op = bench.op
        /\ bench'.total = bench.total
    BY <1>1, <2>1 DEF BenchType, BatchPcs
  <2>4. LoopOK'
    BY <1>1, <2>1, <2>3 DEF LoopOK, BatchPcs
  <2>5. BLiveOK' /\ MidOK' /\ bench'.pc \notin BenchCalls
    BY <1>1, <2>3 DEF BLiveOK, MidOK, BenchCalls
  <2> QED
    BY <1>1, <1>2, <2>3, <2>4, <2>5, BenchQuiet
<1> QED
  BY <1>4, <1>5

\* The sample of a batch is what it had left to run.
LEMMA EndBatchKeeps == BInv /\ EndBatch => BInv'
<1> SUFFICES ASSUME BInv, EndBatch PROVE BInv'
  OBVIOUS
<1>1. /\ bench.pc = "ops" /\ UNCHANGED <<vars, mid, blive, alt>>
      /\ lats' = Append(lats, bench.bn)
      /\ bench' = [bench EXCEPT !.pc = "loop", !.op = @ + BatchSize]
      /\ bench \in BenchType /\ BLiveOK /\ LoopOK /\ MidOK /\ UNCHANGED resting
  BY DEF EndBatch, BInv, BenchOK, vars
<1>2. ~Busy
  BY <1>1 DEF BInv, BenchOK, BenchCalls
<1>3. /\ bench.total \in Nat /\ BatchSize \in Nat /\ BatchSize > 0 /\ bench.op \in Nat
      /\ bench.op < bench.total /\ bench.bn = Lesser(BatchSize, bench.total - bench.op)
      /\ lats \in Seq(Nat)
      /\ SumFunction(lats) = Lesser(bench.op, bench.total)
      /\ \A n \in DOMAIN lats : lats[n] > 0 /\ lats[n] = BatchSize
  BY <1>1, TotalNatural DEF LoopOK, BatchPcs
<1>4. /\ bench' \in BenchType /\ bench'.pc = "loop" /\ bench'.op = bench.op + BatchSize
      /\ bench'.total = bench.total
  <2> DEFINE o == bench.op + BatchSize
  <2>1. o \in Nat
    BY <1>3
  <2>2. bench' = [bench EXCEPT !.pc = "loop", !.op = o]
    BY <1>1 DEF BenchType
  <2> HIDE DEF o
  <2>3. /\ bench' \in BenchType /\ bench'.pc = "loop" /\ bench'.op = o
        /\ bench'.total = bench.total
    BY <1>1, <2>1, <2>2 DEF BenchType
  <2> QED
    BY <2>3 DEF o
<1>5. LoopOK'
  <2> DEFINE a == bench.op
             b == bench.bn
             s == SumFunction(lats)
             total == SumFunction(lats')
  <2>1. a \in Nat /\ a < bench.total /\ b = Lesser(BatchSize, bench.total - a) /\ s = a
    BY <1>3 DEF Lesser
  <2>2. /\ b \in Nat /\ b > 0 /\ a + b = Lesser(a + BatchSize, bench.total)
        /\ b = BatchSize \/ a + BatchSize >= bench.total
    BY <1>3, <2>1 DEF Lesser
  <2>3. total = s + b
    <3>1. lats \in Seq(Int) /\ b \in Int
      BY <1>3, <2>2
    <3> QED
      BY <1>1, <3>1, SumOfSequence
  <2>4. total = Lesser(a + BatchSize, bench.total)
    BY <2>1, <2>2, <2>3
  <2>5. /\ lats' \in Seq(Nat) /\ Len(lats') = Len(lats) + 1
        /\ \A n \in DOMAIN lats' : (n \in DOMAIN lats /\ lats'[n] = lats[n])
                                   \/ (n = Len(lats') /\ lats'[n] = b)
    BY <1>1, <1>3, <2>2
  <2>6. \A n \in DOMAIN lats' :
           /\ lats'[n] > 0
           /\ lats'[n] = BatchSize \/ (n = Len(lats') /\ bench'.op >= bench.total)
    BY <1>3, <1>4, <2>2, <2>5
  <2> QED
    BY <1>4, <2>4, <2>5, <2>6 DEF LoopOK, BatchPcs
<1>6. BLiveOK' /\ MidOK' /\ bench'.pc \notin BenchCalls
  BY <1>1, <1>4 DEF BLiveOK, MidOK, BenchCalls
<1> QED
  BY <1>1, <1>2, <1>4, <1>5, <1>6, BenchQuiet

\* Where the benchmark goes on after an operation.
LEMMA OpDoneFacts ==
    ASSUME BInv, bench.pc \in BatchPcs, bench' = OpDone
    PROVE  /\ bench' \in BenchType /\ bench'.pc = "ops"
           /\ bench'.op = bench.op /\ bench'.bn = bench.bn /\ bench'.total = bench.total
           /\ bench'.pc \notin BenchCalls /\ bench'.pc \in BatchPcs
<1> DEFINE k == bench.i + 1
<1>1. bench \in BenchType
  BY DEF BInv, BenchOK
<1>2. k \in Nat
  BY <1>1 DEF BenchType
<1>3. bench' = [bench EXCEPT !.pc = "ops", !.i = k]
  BY <1>1 DEF OpDone, BenchType
<1> HIDE DEF k
<1> QED
  BY <1>1, <1>2, <1>3 DEF BenchType, BatchPcs, BenchCalls

\* The simulated submissions.
LEMMA BenchSubmitKeeps ==
    ASSUME BInv, NEW qty \in Qtys
    PROVE  /\ \A offset \in 0..MaxOffset : bench_limit(offset, qty) => BInv'
           /\ bench_market(qty) => BInv'
<1>1. InBatch => bench.pc \in BatchPcs \ BenchCalls
  BY DEF InBatch, BatchPcs, BenchCalls
<1>2. alt \in Side /\ Opposite(alt) \in Side /\ 0 \in Prices
  BY OrderAssumption DEF BInv, BenchOK, Opposite, Side, Prices
<1>3. ASSUME NEW offset \in 0..MaxOffset, bench_limit(offset, qty) PROVE BInv'
  <2>1. PICK side \in Side, price \in Prices, pc \in BenchCalls :
           side = alt /\ price = LimitPrice(alt, offset) /\ pc = "limit"
    BY <1>2, MarketPrices DEF BInv, MidOK, BenchCalls
  <2>2. /\ Begin(side, price, FALSE, qty)
        /\ bench' = [bench EXCEPT !.pc = pc, !.nid = next_id, !.qty = qty]
        /\ UNCHANGED <<mid, blive, lats>> /\ alt' \in Side /\ InBatch
    BY <1>2, <1>3, <2>1 DEF bench_limit, submit_limit, Calls
  <2> QED
    BY <1>1, <2>1, <2>2, BenchSubmits
<1>4. ASSUME bench_market(qty) PROVE BInv'
  <2>1. PICK side \in Side, price \in Prices, pc \in BenchCalls :
           side = alt /\ price = 0 /\ pc = "market"
    BY <1>2 DEF BenchCalls
  <2>2. /\ Begin(side, price, TRUE, qty)
        /\ bench' = [bench EXCEPT !.pc = pc, !.nid = next_id, !.qty = qty]
        /\ UNCHANGED <<mid, blive, lats>> /\ alt' \in Side /\ InBatch
    BY <1>2, <1>4, <2>1 DEF bench_market, submit_market, Calls
  <2> QED
    BY <1>1, <2>1, <2>2, BenchSubmits
<1> QED
  BY <1>3, <1>4

\* The order submitted is known to blive if it rests, whatever it was for.
LEMMA BenchDoneKeeps == BInv /\ (limit_done \/ market_done \/ refill_done) => BInv'
<1> SUFFICES ASSUME BInv, limit_done \/ market_done \/ refill_done PROVE BInv'
  OBVIOUS
<1>1. /\ bench.pc \in BenchCalls /\ bench.pc \in BatchPcs /\ ~Busy
      /\ UNCHANGED <<vars, alt, lats>> /\ UNCHANGED resting
      /\ bench \in BenchType /\ BLiveOK /\ LoopOK
      /\ CallInv(bench.nid, bench.pc = "market", bench.qty)
  BY DEF BInv, BenchOK, limit_done, market_done, refill_done, BenchCalls, BatchPcs, vars
<1>2. bench.nid \in DOMAIN resting => bench.pc # "market" /\ Filled(out) < bench.qty
  BY <1>1 DEF CallInv
<1>3. blive \subseteq blive' /\ (bench.nid \in DOMAIN resting => bench.nid \in blive')
  BY <1>2 DEF limit_done, market_done, refill_done
<1>4. MidOK'
  BY MarketPrices DEF BInv, MidOK, limit_done, market_done, refill_done
<1>5. /\ bench' \in BenchType /\ bench'.op = bench.op /\ bench'.bn = bench.bn
      /\ bench'.total = bench.total
      /\ bench'.pc \notin BenchCalls /\ bench'.pc \in BatchPcs
  <2>1. CASE bench' = OpDone
    BY <1>1, <2>1, OpDoneFacts
  <2>2. CASE \E pc \in {"bids", "asks"} : bench' = [bench EXCEPT !.pc = pc]
    BY <1>1, <2>2 DEF BenchType, BatchPcs, BenchCalls
  <2> QED
    BY <2>1, <2>2 DEF limit_done, market_done, refill_done
<1>6. BLiveOK'
  BY <1>1, <1>3, <1>5 DEF BLiveOK, BatchPcs
<1>7. LoopOK'
  BY <1>1, <1>5, LoopSame
<1> QED
  BY <1>1, <1>4, <1>5, <1>6, <1>7, BenchQuiet

\* An empty side gets an order, or the loop goes on.
LEMMA RefillKeeps == BInv /\ (refill_bids \/ refill_asks) => BInv'
<1> SUFFICES ASSUME BInv, refill_bids \/ refill_asks PROVE BInv'
  OBVIOUS
<1>1. /\ bench.pc \in {"bids", "asks"} /\ UNCHANGED <<mid, blive, alt, lats>>
      /\ bench \in BenchType /\ BLiveOK /\ LoopOK /\ MidOK /\ alt \in Side
  BY DEF BInv, BenchOK, refill_bids, refill_asks
<1>2. bench.pc \in BatchPcs \ BenchCalls /\ ~Busy
  BY <1>1 DEF BInv, BenchOK, BatchPcs, BenchCalls
<1>3. CASE vars' = vars /\ (bench' = OpDone \/ bench' = [bench EXCEPT !.pc = "asks"])
  <2>1. /\ bench' \in BenchType /\ bench'.op = bench.op /\ bench'.bn = bench.bn
        /\ bench'.total = bench.total
        /\ bench'.pc \notin BenchCalls /\ bench'.pc \in BatchPcs
    <3>1. CASE bench' = OpDone
      BY <1>2, <3>1, OpDoneFacts
    <3>2. CASE bench' = [bench EXCEPT !.pc = "asks"]
      BY <1>1, <3>2 DEF BenchType, BatchPcs, BenchCalls
    <3> QED
      BY <1>3, <3>1, <3>2
  <2>2. BLiveOK' /\ MidOK'
    BY <1>1, <1>2, <1>3, <2>1 DEF BLiveOK, MidOK, BatchPcs, vars
  <2>3. LoopOK'
    BY <1>1, <1>2, <2>1, LoopSame
  <2> QED
    BY <1>1, <1>2, <1>3, <2>1, <2>2, <2>3, BenchQuiet
<1>4. CASE \E pc \in {"bids_call", "asks_call"}, side \in Side, price \in {mid - 1, mid + 1} :
              submit_limit(side, price, RefillQty) /\ bench' = Calls(pc, RefillQty)
  <2>1. PICK pc \in {"bids_call", "asks_call"}, side \in Side, price \in {mid - 1, mid + 1} :
              submit_limit(side, price, RefillQty) /\ bench' = Calls(pc, RefillQty)
    BY <1>4
  <2>2. pc \in BenchCalls /\ pc # "market" /\ price \in Prices /\ RefillQty \in Qtys
    BY <1>1, MarketPrices, BenchAssumption DEF BenchCalls, MidOK
  <2>3. /\ Begin(side, price, FALSE, RefillQty)
        /\ bench' = [bench EXCEPT !.pc = pc, !.nid = next_id, !.qty = RefillQty]
    BY <2>1 DEF submit_limit, Calls
  <2> QED
    BY <1>1, <1>2, <2>2, <2>3, BenchSubmits
<1> QED
  BY <1>3, <1>4 DEF refill_bids, refill_asks, Side

LEMMA BenchCancelKeeps == BInv /\ (bench_nothing \/ \E id \in blive : bench_cancel(id)) => BInv'
<1> SUFFICES ASSUME BInv, bench_nothing \/ \E id \in blive : bench_cancel(id) PROVE BInv'
  OBVIOUS
<1>1. /\ bench.pc = "ops" /\ bench' = OpDone /\ UNCHANGED <<mid, alt, lats>>
      /\ BookInv /\ BLiveOK /\ LoopOK /\ MidOK /\ alt \in Side
  BY DEF BInv, BenchOK, bench_nothing, bench_cancel, InBatch
<1>2. bench.pc \in BatchPcs /\ bench.pc \notin BenchCalls
  BY <1>1 DEF BatchPcs, BenchCalls
<1>3. /\ bench' \in BenchType /\ bench'.op = bench.op /\ bench'.bn = bench.bn
      /\ bench'.total = bench.total
      /\ bench'.pc \notin BenchCalls /\ bench'.pc \in BatchPcs
  BY <1>1, <1>2, OpDoneFacts
<1>4. LoopOK' /\ MidOK'
  BY <1>1, <1>2, <1>3, LoopSame DEF MidOK
<1>5. CASE bench_nothing
  <2>1. UNCHANGED vars /\ UNCHANGED <<resting, blive>> /\ ~Busy
    BY <1>2, <1>5 DEF bench_nothing, vars, BInv, BenchOK
  <2>2. BLiveOK'
    BY <1>1, <1>2, <1>3, <2>1 DEF BLiveOK, BatchPcs
  <2> QED
    BY <1>1, <1>3, <1>4, <2>1, <2>2, BenchQuiet
<1>6. ASSUME NEW id \in blive, bench_cancel(id) PROVE BInv'
  <2>1. cancel(id) /\ blive' = blive \ {id}
    BY <1>6 DEF bench_cancel
  <2>2. BookInv' /\ ~Busy' /\ DOMAIN resting' = DOMAIN resting \ {id}
    BY <1>1, <2>1, CancelBook
  <2>3. BLiveOK'
    BY <1>1, <1>2, <1>3, <2>1, <2>2 DEF BLiveOK, BatchPcs
  <2>4. BenchOK'
    BY <1>1, <1>3, <2>2 DEF BenchOK
  <2> QED
    BY <1>4, <2>2, <2>3, <2>4 DEF BInv
<1> QED
  BY <1>5, <1>6

\* The request arrives.
LEMMA BenchCalledKeeps ==
    ASSUME BInv, bench.pc = "called", UNCHANGED <<vars, mid, blive, alt, lats>>,
           NEW pc \in {"refused", "loop"}, bench' = [bench EXCEPT !.pc = pc]
    PROVE  BInv'
<1>1. /\ bench \in BenchType /\ BLiveOK /\ LoopOK /\ MidOK /\ UNCHANGED resting
      /\ pc \notin BenchCalls /\ pc \notin BatchPcs /\ ~Busy
  BY DEF BInv, BenchOK, BenchCalls, BatchPcs, vars
<1>2. /\ bench' \in BenchType /\ bench'.pc = pc /\ bench'.op = bench.op
      /\ bench'.total = bench.total
  BY <1>1 DEF BenchType
<1>3. BLiveOK' /\ MidOK'
  BY <1>1, <1>2 DEF BLiveOK, MidOK, BenchCalls
<1>4. LoopOK'
  BY <1>1, <1>2 DEF LoopOK
<1> QED
  BY <1>1, <1>2, <1>3, <1>4, BenchQuiet

\* BInv is inductive.
LEMMA BenchInit == BInit => BInv
<1> SUFFICES ASSUME BInit PROVE BInv
  OBVIOUS
<1>1. /\ Seeded /\ blive = DOMAIN Seeds /\ alt = "Buy" /\ lats = <<>>
      /\ bench.pc = "called" /\ bench.op = 0
      /\ bench \in BenchType
  BY OrderAssumption DEF BInit, BenchType, Qtys
<1>2. BookInv /\ ~Busy /\ resting = Seeds /\ MidOK
  BY <1>1, SeededBook DEF MidOK
<1>3. BenchOK /\ BLiveOK
  BY <1>1, <1>2 DEF BenchOK, BLiveOK, BenchCalls, Side
<1>4. LoopOK
  <2>1. SumFunction(lats) = 0 /\ lats \in Seq(Nat) /\ DOMAIN lats = {}
    BY <1>1, SumOfSequence
  <2>2. Lesser(bench.op, bench.total) = 0
    <3>1. bench.total \in Nat
      BY <1>1, TotalNatural
    <3> QED
      BY <1>1, <3>1 DEF Lesser
  <2> QED
    BY <1>1, <2>1, <2>2 DEF LoopOK, BatchPcs
<1> QED
  BY <1>2, <1>3, <1>4 DEF BInv

LEMMA BenchInductive == BInv /\ [BNext]_bvars => BInv'
<1> SUFFICES ASSUME BInv, [BNext]_bvars PROVE BInv'
  OBVIOUS
<1>1. CASE run_benchmark
  <2>1. \A qty \in Qtys \ {0} : qty \in Qtys
    OBVIOUS
  <2> QED
    BY <1>1, <2>1, LoopKeeps, EndBatchKeeps, BenchSubmitKeeps, BenchDoneKeeps, RefillKeeps,
       BenchCancelKeeps, BenchEngineKeeps, BenchThrowsKeeps DEF run_benchmark
<1>2. CASE post_benchmark
  BY <1>2, BenchCalledKeeps DEF post_benchmark
<1>3. CASE wasm_run_benchmark
  BY <1>1, <1>3, BenchCalledKeeps DEF wasm_run_benchmark
<1>4. CASE UNCHANGED bvars
  <2>1. UNCHANGED <<next_id, resting, call, out, mid, blive, alt, bench, lats>>
    BY <1>4 DEF bvars, vars
  <2> QED
    BY <2>1 DEF BInv, BookInv, TypeOK, Matching, MidOK, BenchOK, CallInv, Busy, BLiveOK, LoopOK
<1> QED
  BY <1>1, <1>2, <1>3, <1>4 DEF BNext

LEMMA BenchInvariant == BSpec => []BInv
BY BenchInit, BenchInductive, PTL DEF BSpec

\* Between two operations of the benchmark every resting order can be drawn for a
\* cancel, for any mix of operations, book size and batch size.
THEOREM RestingLive == BSpec => []RestingInLive
<1>1. BInv => RestingInLive
  BY DEF BInv, BLiveOK, RestingInLive, InBatch, BenchCalls
<1> QED
  BY <1>1, BenchInvariant, PTL

\* A benchmark that returns has run each operation it was asked for once: the
\* samples add up to the total, only the last batch is shorter, and none is empty,
\* whether or not the total is a multiple of the batch.
THEOREM OperationsOnce == BSpec => []EveryOpOnce
<1>1. BInv => EveryOpOnce
  <2> SUFFICES ASSUME BInv, bench.pc = "returned" PROVE EveryOpOnce
    BY DEF EveryOpOnce
  <2>1. /\ SumFunction(lats) = Lesser(bench.op, bench.total) /\ bench.op >= bench.total
        /\ \A n \in DOMAIN lats : lats[n] > 0 /\ (lats[n] = BatchSize \/ n = Len(lats))
        /\ bench.op \in Nat /\ bench.total \in Nat
    BY TotalNatural DEF BInv, LoopOK, BenchOK
  <2>2. Lesser(bench.op, bench.total) = bench.total
    BY <2>1 DEF Lesser
  <2> QED
    BY <2>1, <2>2 DEF EveryOpOnce
<1> QED
  BY <1>1, BenchInvariant, PTL

-----------------------------------------------------------------------------
(* The event log.                                                           *)


\* The book after n changes of it.
BookAt(n) == IF n = 0 THEN Empty ELSE books[n]

Event == [type : {"trade", "add", "cancel"}, t : Nat, id : 0..MaxId, side : Side,
          price : Prices, qty : Qtys]

\* A trade names an order of the book, with enough left.
Matches(book, e) ==
    e.type = "trade" =>
       /\ e.id \in DOMAIN book
       /\ book[e.id].side = e.side
       /\ book[e.id].price = e.price
       /\ book[e.id].quantity >= e.qty

\* Event e is what the reader needs to follow the n-th change.
Explains(n, e) ==
    /\ n \in DOMAIN books
    /\ e \in Event
    /\ e.t = n - 1
    /\ Matches(BookAt(n - 1), e)
    /\ BookAt(n) = Applied(BookAt(n - 1), e)

Waiting == submission.kind \in {"limit", "market"}

WillAdd == ~Busy /\ submission.kind = "limit" /\ Left > 0

LogOK ==
    /\ log \in Seq(Event) /\ IsSeq(books) /\ t = Len(log)
    /\ \A n \in DOMAIN log : Explains(n, log[n])

SubmissionOK ==
    /\ submission \in [kind : {"none", "limit", "market", "threw"}, side : Side,
                       id : 0..MaxId, price : Prices, qty : Qtys]
    /\ submission.kind = "none" => submission = NoSubmission
    /\ Busy => /\ Waiting
               /\ call.side = submission.side
               /\ call.price = submission.price
    /\ Waiting => CallInv(submission.id, submission.kind = "market", submission.qty)

\* The events still due for the submission, one for each change since t.
DueOK ==
    submission.kind # "threw" =>
       /\ resting = BookAt(Len(books))
       /\ submission.kind = "none" => Len(books) = t
       /\ Waiting =>
            /\ \A n \in DOMAIN out : Explains(t + n, TradeEvents[n])
            /\ Len(books) = t + Len(out) + (IF WillAdd THEN 1 ELSE 0)
            /\ WillAdd => Explains(t + Len(out) + 1, AddEvents[1])

EInv == BookInv /\ LogOK /\ SubmissionOK /\ DueOK

-----------------------------------------------------------------------------
(* The chain of books.                                                       *)

\* A change of the book leaves the earlier ones explained.
LEMMA ExplainsKeeps ==
    ASSUME IsSeq(books), NEW book, books' = books \/ books' = Append(books, book),
           NEW n, NEW e, Explains(n, e)
    PROVE  Explains(n, e)'
<1>1. DOMAIN books = 1..Len(books) /\ Len(books) \in Nat
  BY SeqFacts
<1>2. \A k \in DOMAIN books : k \in DOMAIN books' /\ books'[k] = books[k]
  BY AppendFacts
<1>3. n \in DOMAIN books /\ (n - 1 = 0 \/ n - 1 \in DOMAIN books) /\ n # 0
  BY <1>1 DEF Explains
<1>4. BookAt(n)' = BookAt(n) /\ BookAt(n - 1)' = BookAt(n - 1)
  BY <1>2, <1>3 DEF BookAt
<1> QED
  BY <1>2, <1>3, <1>4 DEF Explains

\* One change more, and the event that explains it.
LEMMA ChangeExplained ==
    ASSUME IsSeq(books), NEW book, books' = Append(books, book), resting = BookAt(Len(books)),
           NEW e \in Event, e.t = Len(books), Matches(resting, e),
           book = Applied(resting, e), NEW n, n = Len(books) + 1
    PROVE  /\ Explains(n, e)'
           /\ IsSeq(books')
           /\ Len(books') = n
           /\ BookAt(n)' = book
<1>1. DOMAIN books = 1..Len(books) /\ Len(books) \in Nat
  BY SeqFacts
<1>2. /\ IsSeq(books') /\ DOMAIN books' = DOMAIN books \cup {n}
      /\ \A k \in DOMAIN books : books'[k] = books[k]
      /\ books'[n] = book
  BY AppendFacts
<1>3. Len(books') = n
  <2>1. DOMAIN books' = 1..Len(books') /\ Len(books') \in Nat
    BY <1>2, SeqFacts
  <2>2. DOMAIN books' = 1..n /\ n \in Nat
    BY <1>1, <1>2
  <2>3. n \in 1..Len(books') /\ (Len(books') = 0 \/ Len(books') \in 1..n)
    BY <2>1, <2>2
  <2> QED
    BY <2>1, <2>2, <2>3
<1>4. BookAt(n)' = book /\ n # 0
  BY <1>1, <1>2 DEF BookAt
<1>5. BookAt(n - 1)' = resting
  <2>1. n - 1 = Len(books) /\ (n - 1 = 0 \/ n - 1 \in DOMAIN books)
    BY <1>1
  <2> QED
    BY <1>2, <2>1 DEF BookAt
<1>6. n - 1 = Len(books)
  BY <1>1
<1> QED
  BY <1>2, <1>3, <1>4, <1>5, <1>6 DEF Explains

\* What a trade does to the book and to the fills.
LEMMA TradeEffect ==
    ASSUME BookInv, NEW i \in DOMAIN resting, Trade(i)
    PROVE  \E f \in Fill :
              /\ out' = Append(out, f)
              /\ f.maker_id = i /\ f.price = resting[i].price
              /\ f.quantity > 0 /\ f.quantity <= resting[i].quantity
              /\ resting' = IF f.quantity = resting[i].quantity THEN Without(resting, i)
                            ELSE [resting EXCEPT ![i].quantity = @ - f.quantity]
              /\ resting[i].side = Opposite(call.side)
<1> DEFINE q == Lesser(call.qty, resting[i].quantity)
           f == [maker_id |-> i, taker_id |-> call.id,
                 price |-> resting[i].price, quantity |-> q]
<1>1. /\ call.pc = "match" /\ call.qty > 0
      /\ out' = Append(out, f)
      /\ resting' = IF q = resting[i].quantity THEN Without(resting, i)
                    ELSE [resting EXCEPT ![i].quantity = @ - q]
      /\ resting[i].side = Opposite(call.side)
  BY DEF Trade, Matching, IsMaker
<1>2. /\ call \in Call /\ resting[i] \in Order /\ resting[i].quantity > 0
      /\ i \in 1..(next_id - 1) /\ next_id \in 1..(MaxId + 1) /\ call.id = next_id - 1
  BY <1>1 DEF BookInv, TypeOK
<1>3. /\ call.qty \in Qtys /\ resting[i].quantity \in Qtys /\ resting[i].price \in Prices
      /\ call.id \in Ids /\ i \in Ids
  <2>1. call.qty \in Qtys /\ call.id \in 0..MaxId
    BY <1>2 DEF Call
  <2>2. resting[i].quantity \in Qtys /\ resting[i].price \in Prices
    BY <1>2 DEF Order
  <2>3. call.id \in Ids /\ i \in Ids
    BY <1>2, <2>1, OrderAssumption DEF Ids
  <2> QED
    BY <2>1, <2>2, <2>3
<1>4. q \in Qtys /\ q > 0 /\ q <= resting[i].quantity
  <2> DEFINE a == call.qty
             b == resting[i].quantity
  <2>1. a \in 0..MaxQty /\ b \in 0..MaxQty /\ a > 0 /\ b > 0 /\ MaxQty \in Nat
    BY <1>1, <1>2, <1>3, OrderAssumption DEF Qtys
  <2>2. q = IF a <= b THEN a ELSE b
    BY DEF Lesser
  <2> HIDE DEF a, b, q
  <2> QED
    BY <2>1, <2>2 DEF Qtys, b
<1>5. f \in Fill /\ f.quantity = q /\ f.maker_id = i /\ f.price = resting[i].price
  BY <1>3, <1>4 DEF Fill
<1> HIDE DEF q, f
<1> QED
  BY <1>1, <1>4, <1>5

\* So the reader's book follows a trade.
LEMMA TradeApplied ==
    ASSUME NEW book, NEW i \in DOMAIN book, book[i].quantity \in Nat,
           NEW e, e.type = "trade", e.id = i, e.qty \in Nat, e.qty <= book[i].quantity
    PROVE  Applied(book, e) = IF e.qty = book[i].quantity THEN Without(book, i)
                              ELSE [book EXCEPT ![i].quantity = @ - e.qty]
<1>1. book[i].quantity <= e.qty <=> e.qty = book[i].quantity
  OBVIOUS
<1>2. Applied(book, e) = IF book[i].quantity <= e.qty THEN Without(book, i)
                         ELSE [book EXCEPT ![i].quantity = @ - e.qty]
  BY DEF Applied
<1> QED
  BY <1>1, <1>2

\* A book that an order leaves, or where it has less left, is another book.
LEMMA BookMoved ==
    ASSUME NEW book, NEW i \in DOMAIN book, NEW q \in Nat, q > 0,
           book[i].quantity \in Nat, book[i] \in Order,
           NEW next, next = IF q = book[i].quantity THEN Without(book, i)
                            ELSE [book EXCEPT ![i].quantity = @ - q]
    PROVE  next # book
<1>1. CASE q = book[i].quantity
  <2>1. DOMAIN next = DOMAIN book \ {i}
    BY <1>1 DEF Without, Restrict
  <2> QED
    BY <2>1
<1>2. CASE q # book[i].quantity
  <2>1. next[i] = [book[i] EXCEPT !.quantity = @ - q]
    BY <1>2
  <2>2. next[i].quantity = book[i].quantity - q
    BY <2>1 DEF Order
  <2>3. \A a \in Nat : a - q # a
    OBVIOUS
  <2> QED
    BY <2>2, <2>3
<1> QED
  BY <1>1, <1>2

-----------------------------------------------------------------------------
(* Steps of the logger.                                                      *)

\* Types of what the invariant speaks of.
LEMMA LogFacts ==
    ASSUME EInv
    PROVE  /\ IsSeq(books) /\ DOMAIN books = 1..Len(books) /\ Len(books) \in Nat
           /\ t \in Nat /\ DOMAIN log = 1..t
           /\ out \in Seq(Fill) /\ DOMAIN out = 1..Len(out) /\ Len(out) \in Nat
           /\ Filled(out) \in Int
           /\ submission.qty \in Int
           /\ Left = submission.qty - Filled(out)
<1>1. IsSeq(books) /\ out \in Seq(Fill) /\ log \in Seq(Event) /\ t = Len(log)
  BY DEF EInv, LogOK, BookInv, TypeOK
<1>2. DOMAIN books = 1..Len(books) /\ Len(books) \in Nat
  BY <1>1, SeqFacts
<1>3. Filled(out) \in Int
  BY <1>1, FilledInt
<1>4. submission.qty \in Int
  BY OrderAssumption DEF EInv, SubmissionOK, Qtys
<1>5. Left = submission.qty - Filled(out)
  BY DEF Left, Filled
<1> QED
  BY <1>1, <1>2, <1>3, <1>4, <1>5

\* The log is as it was, and books may have one more.
LEMMA LogSame ==
    ASSUME EInv, NEW book, books' = books \/ books' = Append(books, book),
           UNCHANGED <<log, t>>, IsSeq(books')
    PROVE  LogOK'
<1>1. \A n \in DOMAIN log : Explains(n, log[n])'
  BY ExplainsKeeps DEF EInv, LogOK
<1> QED
  BY <1>1 DEF EInv, LogOK

\* A submission begins: nothing of it is due.
LEMMA LogSubmitKeeps ==
    ASSUME EInv, NEW kind \in {"limit", "market"}, NEW side \in Side, NEW price \in Prices,
           NEW qty \in Qtys, log_submit(kind, side, price, qty)
    PROVE  EInv'
<1> DEFINE id == next_id
           is_market == kind = "market"
<1>1. /\ submission = NoSubmission /\ UNCHANGED <<log, t, books>>
      /\ Begin(side, price, is_market, qty)
      /\ submission' = [kind |-> kind, side |-> side, id |-> id, price |-> price,
                        qty |-> qty]
  BY DEF log_submit
<1>2. /\ call'.side = side /\ call'.price = price
  BY <1>1 DEF Begin
<1>3. PICK nid : nid = next_id
  OBVIOUS
<1>4. /\ BookInv' /\ CallInv(nid, is_market, qty)' /\ nid \in Ids /\ Busy'
      /\ resting' = resting /\ out' = <<>>
  BY <1>1, <1>3, BeginBook DEF EInv
<1>5. /\ submission'.kind = kind /\ submission'.side = side /\ submission'.id = nid
      /\ submission'.price = price /\ submission'.qty = qty
  BY <1>1, <1>3
<1>6. SubmissionOK'
  <2>1. nid \in 0..MaxId
    BY <1>4, OrderAssumption DEF Ids
  <2>2. submission' \in [kind : {"none", "limit", "market", "threw"}, side : Side,
                         id : 0..MaxId, price : Prices, qty : Qtys]
    BY <1>1, <1>3, <2>1
  <2>3. CallInv(submission.id, submission.kind = "market", submission.qty)'
    BY <1>4, <1>5 DEF CallInv, Busy
  <2> QED
    BY <1>2, <1>5, <2>2, <2>3 DEF SubmissionOK, Waiting
<1>7. LogOK'
  BY <1>1 DEF EInv, LogOK, Explains, BookAt
<1>8. DueOK'
  <2>1. resting = BookAt(Len(books)) /\ Len(books) = t
    BY <1>1 DEF EInv, DueOK, NoSubmission
  <2>2. DOMAIN out' = {} /\ Len(out') = 0 /\ t' + 0 = t /\ ~WillAdd'
    BY <1>1, <1>4, LogFacts DEF WillAdd
  <2> QED
    BY <1>1, <1>4, <1>5, <2>1, <2>2 DEF DueOK, BookAt, Waiting
<1> QED
  BY <1>4, <1>6, <1>7, <1>8 DEF EInv

\* The event of the next fill.
TradeEvent(f, at) ==
    [type |-> "trade", t |-> at, id |-> f.maker_id, side |-> Opposite(submission.side),
     price |-> f.price, qty |-> f.quantity]

\* What the engine does for a submission that waits.
LEMMA InEngine ==
    ASSUME EInv, Busy
    PROVE  /\ Waiting /\ submission.kind # "threw" /\ submission.kind # "none"
           /\ CallInv(submission.id, submission.kind = "market", submission.qty)
           /\ call.side = submission.side /\ call.price = submission.price
           /\ resting = BookAt(Len(books))
           /\ \A n \in DOMAIN out : Explains(t + n, TradeEvents[n])
           /\ Len(books) = t + Len(out)
<1>1. /\ Waiting /\ call.side = submission.side /\ call.price = submission.price
      /\ CallInv(submission.id, submission.kind = "market", submission.qty)
  BY DEF EInv, SubmissionOK
<1>2. submission.kind # "threw" /\ submission.kind # "none" /\ ~WillAdd
  BY <1>1 DEF Waiting, WillAdd
<1>3. t + Len(out) + 0 = t + Len(out)
  BY LogFacts
<1> QED
  BY <1>1, <1>2, <1>3 DEF EInv, DueOK

\* A trade: one change, one event due.
LEMMA LogTradeKeeps ==
    ASSUME EInv, NEW i \in DOMAIN resting, Trade(i), UNCHANGED <<log, t, submission>>,
           books' = IF resting' = resting THEN books ELSE Append(books, resting')
    PROVE  EInv'
<1>1. PICK f \in Fill :
         /\ out' = Append(out, f)
         /\ f.maker_id = i /\ f.price = resting[i].price
         /\ f.quantity > 0 /\ f.quantity <= resting[i].quantity
         /\ resting' = IF f.quantity = resting[i].quantity THEN Without(resting, i)
                       ELSE [resting EXCEPT ![i].quantity = @ - f.quantity]
         /\ resting[i].side = Opposite(call.side)
  BY TradeEffect DEF EInv
<1>2. Busy /\ call'.side = call.side /\ call'.price = call.price
  BY DEF Trade, Matching, Busy, EInv, BookInv, TypeOK, Call
<1>3. /\ Waiting /\ submission.kind # "threw" /\ submission.kind # "none"
      /\ CallInv(submission.id, submission.kind = "market", submission.qty)
      /\ call.side = submission.side /\ call.price = submission.price
      /\ resting = BookAt(Len(books))
      /\ \A n \in DOMAIN out : Explains(t + n, TradeEvents[n])
      /\ Len(books) = t + Len(out)
  BY <1>2, InEngine
<1>4. PICK id, is_market, qty :
         id = submission.id /\ is_market = (submission.kind = "market") /\ qty = submission.qty
  OBVIOUS
<1>5. BookInv' /\ CallInv(id, is_market, qty)' /\ Busy'
  BY <1>3, <1>4, TradeBook DEF EInv
<1>6. SubmissionOK'
  BY <1>2, <1>3, <1>4, <1>5 DEF EInv, SubmissionOK, CallInv, Busy, Waiting
<1>7. PICK book, e, n : book = resting' /\ e = TradeEvent(f, Len(books)) /\ n = Len(books) + 1
  OBVIOUS
<1>8. resting[i] \in Order /\ resting[i].quantity \in Nat /\ f.quantity \in Nat
  BY OrderAssumption DEF EInv, BookInv, TypeOK, Order, Qtys, Fill
<1>9. book # resting
  BY <1>1, <1>7, <1>8, BookMoved
<1>10. books' = Append(books, book)
  BY <1>7, <1>9
<1>11. /\ e.type = "trade" /\ e.t = Len(books) /\ e.id = i /\ e.qty = f.quantity
       /\ e.side = resting[i].side /\ e.price = resting[i].price
  BY <1>1, <1>3, <1>7 DEF TradeEvent
<1>12. e \in Event
  <2>1. i \in 0..MaxId
    BY <1>1, OrderAssumption DEF Fill, Ids
  <2>2. Len(books) \in Nat /\ f.price \in Prices /\ f.quantity \in Qtys
    BY LogFacts DEF Fill
  <2>3. Opposite(submission.side) \in Side
    BY DEF Opposite, Side
  <2> QED
    BY <1>1, <1>7, <2>1, <2>2, <2>3 DEF TradeEvent, Event
<1>13. Matches(resting, e)
  BY <1>1, <1>8, <1>11 DEF Matches
<1>14. book = Applied(resting, e)
  BY <1>1, <1>7, <1>8, <1>11, TradeApplied
<1>15. Explains(n, e)' /\ IsSeq(books') /\ Len(books') = n /\ BookAt(n)' = book
  BY <1>3, <1>7, <1>10, <1>11, <1>12, <1>13, <1>14, ChangeExplained, LogFacts
<1>16. LogOK'
  BY <1>10, <1>15, LogSame
<1>17. /\ DOMAIN out' = DOMAIN out \cup {Len(out) + 1} /\ Len(out') = Len(out) + 1
       /\ \A k \in DOMAIN out : out'[k] = out[k]
       /\ out'[Len(out) + 1] = f
       /\ n = t' + (Len(out) + 1) /\ n = t' + Len(out')
       /\ Len(books) = t' + (Len(out) + 1) - 1
  BY <1>1, <1>3, <1>7, LogFacts
<1>18. ASSUME NEW k \in DOMAIN out'
       PROVE  Explains(t + k, TradeEvents[k])'
  <2>1. CASE k \in DOMAIN out
    <3>1. PICK m, d : m = t + k /\ d = TradeEvents[k]
      OBVIOUS
    <3>2. Explains(m, d)'
      <4>1. Explains(m, d)
        BY <1>3, <2>1, <3>1
      <4> QED
        BY <1>10, <4>1, ExplainsKeeps, LogFacts
    <3>3. TradeEvents'[k] = d
      BY <1>17, <2>1, <3>1 DEF TradeEvents
    <3> QED
      BY <3>1, <3>2, <3>3 DEF Explains
  <2>2. CASE k = Len(out) + 1
    <3>1. TradeEvents'[k] = e
      BY <1>7, <1>17, <2>2 DEF TradeEvents, TradeEvent
    <3> QED
      BY <1>15, <1>17, <2>2, <3>1 DEF Explains
  <2> QED
    BY <1>17, <2>1, <2>2
<1>19. DueOK'
  <2>1. Len(books') = t' + Len(out') + 0 /\ resting' = BookAt(Len(books))'
    BY <1>7, <1>15, <1>17, LogFacts DEF BookAt
  <2>2. ~WillAdd'
    BY <1>5 DEF WillAdd
  <2> QED
    BY <1>3, <1>18, <2>1, <2>2 DEF DueOK
<1> QED
  BY <1>5, <1>6, <1>16, <1>19 DEF EInv

\* What is due does not change when the call returns.
LEMMA DueSame ==
    ASSUME EInv, Busy, UNCHANGED <<t, submission, out>>, NEW book,
           books' = books \/ books' = Append(books, book)
    PROVE  \A n \in DOMAIN out : Explains(t + n, TradeEvents[n])'
<1> SUFFICES ASSUME NEW k \in DOMAIN out
             PROVE  Explains(t + k, TradeEvents[k])'
  OBVIOUS
<1>1. PICK m, d : m = t + k /\ d = TradeEvents[k]
  OBVIOUS
<1>2. Explains(m, d)'
  <2>1. Explains(m, d)
    BY <1>1, InEngine
  <2> QED
    BY <2>1, ExplainsKeeps, LogFacts
<1>3. TradeEvents'[k] = d
  BY <1>1 DEF TradeEvents
<1> QED
  BY <1>1, <1>2, <1>3 DEF Explains

\* The remainder rests: one change, and the add is due.
LEMMA LogRestKeeps ==
    ASSUME EInv, Rest, UNCHANGED <<log, t, submission>>,
           books' = IF resting' = resting THEN books ELSE Append(books, resting')
    PROVE  EInv'
<1>1. /\ Busy /\ call.pc = "match" /\ ~call.is_market /\ call.qty > 0 /\ out' = out
      /\ resting' = With(resting, call.id, Remainder)
  BY DEF Rest, MatchOver, Matching, Busy
<1>2. /\ Waiting /\ submission.kind # "threw" /\ submission.kind # "none"
      /\ CallInv(submission.id, submission.kind = "market", submission.qty)
      /\ call.side = submission.side /\ call.price = submission.price
      /\ resting = BookAt(Len(books))
      /\ Len(books) = t + Len(out)
  BY <1>1, InEngine
<1>3. PICK id, is_market, qty :
         id = submission.id /\ is_market = (submission.kind = "market") /\ qty = submission.qty
  OBVIOUS
<1>4. /\ BookInv' /\ CallInv(id, is_market, qty)' /\ ~Busy'
      /\ DOMAIN resting' = DOMAIN resting \cup {id}
  BY <1>2, <1>3, RestBook DEF EInv
<1>5. SubmissionOK'
  BY <1>2, <1>3, <1>4 DEF EInv, SubmissionOK, CallInv, Busy, Waiting
<1>6. /\ submission.kind = "limit" /\ call.id = id /\ call.id \notin DOMAIN resting
      /\ Left = call.qty /\ call.qty \in Qtys /\ call.price \in Prices /\ call.side \in Side
      /\ id \in 0..MaxId
  <2>1. /\ call.id = id /\ call.is_market = (submission.kind = "market")
        /\ Filled(out) + call.qty = submission.qty
    BY <1>1, <1>2, <1>3 DEF CallInv
  <2>2. /\ call.id \notin DOMAIN resting /\ call.qty \in Qtys /\ call.price \in Prices
        /\ call.side \in Side /\ call.id \in 0..MaxId
    BY <1>1 DEF EInv, BookInv, TypeOK, Matching, Call
  <2>3. Filled(out) \in Int /\ Left = submission.qty - Filled(out) /\ call.qty \in Int
    BY <2>2, LogFacts, OrderAssumption DEF Qtys
  <2>4. Left = call.qty
    BY <2>1, <2>3
  <2>5. submission.kind = "limit"
    BY <1>1, <1>2, <2>1 DEF Waiting
  <2> QED
    BY <2>1, <2>2, <2>4, <2>5
<1>7. PICK book, e, n : book = resting' /\ e = AddEvents[1] /\ n = Len(books) + 1
  OBVIOUS
<1>8. books' = Append(books, book)
  <2>1. resting' # resting
    BY <1>4, <1>6
  <2> QED
    BY <1>7, <2>1
<1>9. e = [type |-> "add", t |-> Len(books), id |-> id, side |-> call.side,
           price |-> call.price, qty |-> call.qty]
  <2>1. Left > 0
    BY <1>1, <1>6
  <2> QED
    BY <1>2, <1>3, <1>6, <1>7, <2>1 DEF AddEvents
<1>10. e \in Event /\ e.type = "add" /\ e.t = Len(books) /\ Matches(resting, e)
  BY <1>6, <1>9, LogFacts DEF Event, Matches
<1>11. book = Applied(resting, e)
  BY <1>1, <1>6, <1>7, <1>9 DEF Applied, Remainder
<1>12. Explains(n, e)' /\ IsSeq(books') /\ Len(books') = n /\ BookAt(n)' = book
  BY <1>2, <1>7, <1>8, <1>10, <1>11, ChangeExplained, LogFacts
<1>13. LogOK'
  BY <1>8, <1>12, LogSame
<1>14. WillAdd' /\ AddEvents'[1] = e
  <2>1. Left' = Left
    BY <1>1 DEF Left
  <2>2. AddEvents' = AddEvents
    BY <1>1, <2>1 DEF AddEvents
  <2> QED
    BY <1>1, <1>4, <1>6, <1>7, <2>1, <2>2 DEF WillAdd
<1>15. DueOK'
  <2>1. \A k \in DOMAIN out' : Explains(t + k, TradeEvents[k])'
    BY <1>1, <1>8, DueSame
  <2>2. n = t' + Len(out') + 1
    BY <1>1, <1>2, <1>7
  <2>3. Explains(t + Len(out) + 1, AddEvents[1])'
    BY <1>12, <1>14, <2>2 DEF Explains
  <2>4. resting' = BookAt(Len(books))'
    BY <1>7, <1>12 DEF BookAt
  <2> QED
    BY <1>2, <1>12, <1>14, <2>1, <2>2, <2>3, <2>4 DEF DueOK
<1> QED
  BY <1>4, <1>5, <1>13, <1>15 DEF EInv

\* The call returns: no change, and no add is due.
LEMMA LogReturnKeeps ==
    ASSUME EInv, Return, UNCHANGED <<log, t, submission>>,
           books' = IF resting' = resting THEN books ELSE Append(books, resting')
    PROVE  EInv'
<1>1. Busy /\ (call.is_market \/ call.qty = 0) /\ UNCHANGED <<out, resting, books>>
  BY DEF Return, MatchOver, Matching, Busy
<1>2. /\ Waiting /\ submission.kind # "threw" /\ submission.kind # "none"
      /\ CallInv(submission.id, submission.kind = "market", submission.qty)
      /\ resting = BookAt(Len(books))
      /\ Len(books) = t + Len(out)
  BY <1>1, InEngine
<1>3. PICK id, is_market, qty :
         id = submission.id /\ is_market = (submission.kind = "market") /\ qty = submission.qty
  OBVIOUS
<1>4. BookInv' /\ CallInv(id, is_market, qty)' /\ ~Busy'
  BY <1>2, <1>3, ReturnBook DEF EInv
<1>5. SubmissionOK'
  BY <1>2, <1>3, <1>4 DEF EInv, SubmissionOK, CallInv, Busy, Waiting
<1>6. ~WillAdd'
  <2>1. /\ call.is_market = (submission.kind = "market")
        /\ Filled(out) + call.qty = submission.qty
    BY <1>1, <1>2 DEF CallInv
  <2>2. call.qty \in Int
    BY OrderAssumption DEF EInv, BookInv, TypeOK, Call, Qtys
  <2>3. submission.kind = "limit" => call.qty = 0
    BY <1>1, <2>1
  <2>4. call.qty = 0 => Left = 0
    BY <2>1, LogFacts
  <2>5. Left' = Left
    BY <1>1 DEF Left
  <2> QED
    BY <2>3, <2>4, <2>5 DEF WillAdd
<1>7. LogOK'
  BY <1>1, LogSame DEF EInv, LogOK
<1>8. DueOK'
  <2>1. \A k \in DOMAIN out' : Explains(t + k, TradeEvents[k])'
    BY <1>1, DueSame
  <2>2. Len(books') = t' + Len(out') + 0 /\ resting' = BookAt(Len(books))'
    BY <1>1, <1>2, LogFacts DEF BookAt
  <2> QED
    BY <1>2, <1>6, <2>1, <2>2 DEF DueOK
<1> QED
  BY <1>4, <1>5, <1>7, <1>8 DEF EInv

\* The call throws: what was traded stays unlogged, what was logged stays right.
LEMMA LogThrowsKeeps == EInv /\ LogThrows => EInv'
<1> SUFFICES ASSUME EInv, LogThrows PROVE EInv'
  OBVIOUS
<1>1. Refuse /\ submission' = [NoSubmission EXCEPT !.kind = "threw"] /\ UNCHANGED <<log, t, books>>
  BY DEF LogThrows
<1>2. BookInv' /\ ~Busy'
  BY <1>1, RefuseBook DEF EInv
<1>3. submission' = [kind |-> "threw", side |-> "Buy", id |-> 0, price |-> 0, qty |-> 0]
  BY <1>1 DEF NoSubmission
<1>4. SubmissionOK'
  BY <1>2, <1>3, OrderAssumption DEF SubmissionOK, Waiting, Side, Prices, Qtys
<1>5. LogOK'
  BY <1>1, LogSame DEF EInv, LogOK
<1>6. DueOK'
  BY <1>3 DEF DueOK
<1> QED
  BY <1>2, <1>4, <1>5, <1>6 DEF EInv

\* One event more, or as many as a call had: the log is a longer one.
LEMMA LongerLog ==
    ASSUME NEW events, IsSeq(events), NEW entries, entries \in Seq(Event), NEW n, n = Len(entries),
           \A k \in DOMAIN events : events[k] \in Event
    PROVE  /\ entries \o events \in Seq(Event)
           /\ Len(entries \o events) = n + Len(events)
           /\ \A k \in 1..n : (entries \o events)[k] = entries[k]
           /\ \A k \in DOMAIN events : (entries \o events)[n + k] = events[k]
<1>1. DOMAIN events = 1..Len(events) /\ Len(events) \in Nat
  BY SeqFacts
<1>2. events \in Seq(Event)
  <2>1. events \in [1..Len(events) -> Event]
    BY <1>1, SeqDef DEF IsSeq
  <2> QED
    BY <1>1, <2>1, SeqDef
<1> QED
  BY <1>1, <1>2

\* The events of a call that returned.
LEMMA CallEvents ==
    ASSUME EInv, Waiting, ~Busy, NEW events, events = TradeEvents \o AddEvents
    PROVE  /\ IsSeq(events) /\ Len(books) = t + Len(events)
           /\ \A k \in DOMAIN events : Explains(t + k, events[k])
<1>1. /\ Len(out) \in Nat /\ DOMAIN out = 1..Len(out) /\ t \in Nat
      /\ Len(books) = t + Len(out) + (IF WillAdd THEN 1 ELSE 0)
      /\ \A n \in DOMAIN out : Explains(t + n, TradeEvents[n])
      /\ WillAdd => Explains(t + Len(out) + 1, AddEvents[1])
  BY LogFacts DEF EInv, DueOK, Waiting
<1>2. IsSeq(TradeEvents) /\ DOMAIN TradeEvents = DOMAIN out /\ Len(TradeEvents) = Len(out)
  <2>1. DOMAIN TradeEvents = 1..Len(out) /\ IsSeq(TradeEvents)
    <3>1. TradeEvents = [k \in 1..Len(out) |-> TradeEvents[k]]
      BY <1>1 DEF TradeEvents
    <3> QED
      BY <1>1, <3>1, FunctionIsSeq
  <2>2. TradeEvents \in Seq({TradeEvents[k] : k \in DOMAIN TradeEvents})
    BY <2>1 DEF IsSeq
  <2> QED
    BY <1>1, <2>1, <2>2
<1>3. CASE WillAdd
  <2>1. PICK e : AddEvents = <<e>>
    BY <1>3 DEF WillAdd, AddEvents
  <2>2. e = AddEvents[1]
    BY <2>1
  <2>3. events = Append(TradeEvents, e)
    BY <1>2, <2>1, <2>2 DEF IsSeq
  <2>4. /\ IsSeq(events) /\ DOMAIN events = DOMAIN out \cup {Len(out) + 1}
        /\ \A k \in DOMAIN out : events[k] = TradeEvents[k]
        /\ events[Len(out) + 1] = e
    BY <1>2, <2>3, AppendFacts
  <2>5. Len(events) = Len(out) + 1
    <3>1. DOMAIN events = 1..Len(events) /\ Len(events) \in Nat
      BY <2>4, SeqFacts
    <3>2. DOMAIN events = 1..(Len(out) + 1)
      BY <1>1, <2>4
    <3>3. Len(out) + 1 \in 1..Len(events) /\ (Len(events) = 0 \/ Len(events) \in 1..(Len(out) + 1))
      BY <1>1, <3>1, <3>2
    <3> QED
      BY <1>1, <3>1, <3>2, <3>3
  <2>6. Len(books) = t + Len(events) /\ t + (Len(out) + 1) = t + Len(out) + 1
    BY <1>1, <1>3, <2>5
  <2>7. \A k \in DOMAIN events : Explains(t + k, events[k])
    BY <1>1, <1>3, <2>2, <2>4, <2>6
  <2> QED
    BY <2>4, <2>6, <2>7
<1>4. CASE ~WillAdd
  <2>1. AddEvents = <<>>
    BY <1>4 DEF WillAdd, AddEvents
  <2>2. events = TradeEvents
    BY <1>2, <2>1 DEF IsSeq
  <2> QED
    BY <1>1, <1>2, <1>4, <2>2
<1> QED
  BY <1>3, <1>4

\* The events of the call are written: the log has all changes again.
LEMMA LogDoneKeeps == EInv /\ log_done => EInv'
<1> SUFFICES ASSUME EInv, log_done PROVE EInv'
  OBVIOUS
<1>1. /\ Waiting /\ ~Busy /\ submission' = NoSubmission
      /\ UNCHANGED <<next_id, resting, call, out, books>>
      /\ log' = log \o (TradeEvents \o AddEvents)
      /\ t' = t + Len(TradeEvents \o AddEvents)
  BY DEF log_done, Waiting, Busy, Emitted, vars
<1>2. PICK events : events = TradeEvents \o AddEvents
  OBVIOUS
<1>3. /\ IsSeq(events) /\ Len(books) = t + Len(events)
      /\ \A k \in DOMAIN events : Explains(t + k, events[k])
  BY <1>1, <1>2, CallEvents
<1>4. /\ log \in Seq(Event) /\ t = Len(log) /\ t \in Nat /\ DOMAIN log = 1..t
      /\ \A n \in DOMAIN log : Explains(n, log[n])
  BY LogFacts DEF EInv, LogOK
<1>5. /\ log' \in Seq(Event) /\ Len(log') = t + Len(events)
      /\ \A k \in 1..t : log'[k] = log[k]
      /\ \A k \in DOMAIN events : log'[t + k] = events[k]
  <2>1. \A k \in DOMAIN events : events[k] \in Event
    BY <1>3 DEF Explains
  <2>2. log' = log \o events
    BY <1>1, <1>2
  <2>3. /\ log \o events \in Seq(Event)
        /\ Len(log \o events) = t + Len(events)
        /\ \A k \in 1..t : (log \o events)[k] = log[k]
        /\ \A k \in DOMAIN events : (log \o events)[t + k] = events[k]
    BY <1>3, <1>4, <2>1, LongerLog
  <2> QED
    BY <2>2, <2>3
<1>6. \A n \in DOMAIN log' : Explains(n, log[n])'
  <2> SUFFICES ASSUME NEW n \in DOMAIN log' PROVE Explains(n, log'[n])
    BY <1>1 DEF Explains, BookAt
  <2>1. DOMAIN events = 1..Len(events) /\ Len(events) \in Nat
    BY <1>3, SeqFacts
  <2>2. n \in 1..(t + Len(events))
    BY <1>5
  <2>3. CASE n <= t
    BY <1>4, <1>5, <2>2, <2>3
  <2>4. CASE n > t
    <3>1. n - t \in DOMAIN events /\ t + (n - t) = n
      BY <1>4, <2>1, <2>2, <2>4
    <3> QED
      BY <1>3, <1>5, <3>1
  <2> QED
    BY <1>4, <2>2, <2>3, <2>4
<1>7. LogOK'
  BY <1>1, <1>2, <1>5, <1>6 DEF EInv, LogOK
<1>8. BookInv'
  BY <1>1 DEF EInv, BookInv, TypeOK, Matching
<1>9. SubmissionOK'
  BY <1>1, OrderAssumption DEF SubmissionOK, Busy, Waiting, NoSubmission, Side, Prices, Qtys
<1>10. DueOK'
  <2>1. resting = BookAt(Len(books))
    BY <1>1 DEF EInv, DueOK, Waiting
  <2> QED
    BY <1>1, <1>2, <1>3, <2>1 DEF DueOK, Waiting, NoSubmission, BookAt
<1> QED
  BY <1>7, <1>8, <1>9, <1>10 DEF EInv

\* A cancel that finds its order: one change, one event.
LEMMA LogCancelKeeps == ASSUME EInv, NEW id \in Ids, log_cancel(id) PROVE EInv'
<1>1. /\ submission = NoSubmission /\ submission' = submission /\ cancel(id)
      /\ resting' = Without(resting, id) /\ UNCHANGED <<call, next_id, out>>
  BY DEF log_cancel, cancel
<1>2. BookInv' /\ ~Busy /\ ~Busy'
  BY <1>1, CancelBook DEF EInv
<1>3. resting = BookAt(Len(books)) /\ Len(books) = t
  BY <1>1 DEF EInv, DueOK, NoSubmission
<1>4. SubmissionOK'
  BY <1>1, <1>2 DEF EInv, SubmissionOK, Waiting, NoSubmission
<1>5. CASE id \notin DOMAIN resting
  <2>1. UNCHANGED <<log, t, books>> /\ resting' = resting
    <3>1. resting' = [j \in DOMAIN resting |-> resting[j]]
      BY <1>1, <1>5 DEF Without, Restrict
    <3>2. resting = [j \in DOMAIN resting |-> resting[j]]
      BY DEF EInv, BookInv, TypeOK, Restrict
    <3> QED
      BY <1>5, <3>1, <3>2 DEF log_cancel
  <2>2. LogOK'
    BY <2>1, LogSame DEF EInv, LogOK
  <2>3. DueOK'
    BY <1>1, <1>3, <2>1 DEF DueOK, BookAt, Waiting, NoSubmission
  <2> QED
    BY <1>2, <1>4, <2>2, <2>3 DEF EInv
<1>6. CASE id \in DOMAIN resting
  <2>1. PICK e, n, book :
           /\ e = [type |-> "cancel", t |-> t, id |-> id, side |-> "Buy", price |-> 0, qty |-> 0]
           /\ n = t + 1 /\ book = resting'
    OBVIOUS
  <2>2. log' = log \o <<e>> /\ t' = t + Len(<<e>>) /\ books' = Append(books, book)
    BY <1>6, <2>1 DEF log_cancel, Emitted
  <2>3. e \in Event /\ Matches(resting, e) /\ book = Applied(resting, e) /\ e.t = Len(books)
    <3>1. id \in 0..MaxId /\ 0 \in Prices /\ 0 \in Qtys /\ "Buy" \in Side /\ t \in Nat
      BY LogFacts, OrderAssumption DEF Ids, Prices, Qtys, Side
    <3>2. book = Applied(resting, e)
      BY <1>1, <2>1 DEF Applied
    <3> QED
      BY <1>3, <2>1, <3>1, <3>2 DEF Event, Matches
  <2>4. Explains(n, e)' /\ IsSeq(books') /\ Len(books') = n /\ BookAt(n)' = book
    BY <1>3, <2>1, <2>2, <2>3, ChangeExplained, LogFacts
  <2>5. log \in Seq(Event) /\ t = Len(log) /\ t \in Nat /\ DOMAIN log = 1..t
    BY LogFacts DEF EInv, LogOK
  <2>6. /\ log' \in Seq(Event) /\ Len(log') = n /\ t' = n
        /\ \A k \in 1..t : log'[k] = log[k]
        /\ log'[n] = e
    BY <2>1, <2>2, <2>3, <2>5
  <2>7. \A k \in DOMAIN log' : Explains(k, log[k])'
    <3> SUFFICES ASSUME NEW k \in DOMAIN log' PROVE Explains(k, log[k])'
      OBVIOUS
    <3>1. k \in 1..t \/ k = n
      BY <2>1, <2>5, <2>6
    <3>2. CASE k \in 1..t
      <4>1. PICK d : d = log[k]
        OBVIOUS
      <4>2. Explains(k, d)'
        <5>1. Explains(k, d)
          BY <2>5, <3>2, <4>1 DEF EInv, LogOK
        <5> QED
          BY <2>2, <5>1, ExplainsKeeps, LogFacts
      <4> QED
        BY <2>6, <3>2, <4>1, <4>2 DEF Explains
    <3>3. CASE k = n
      BY <2>4, <2>6, <3>3 DEF Explains
    <3> QED
      BY <3>1, <3>2, <3>3
  <2>8. LogOK'
    BY <2>4, <2>6, <2>7 DEF LogOK
  <2>9. DueOK'
    BY <1>1, <2>1, <2>4, <2>6 DEF DueOK, BookAt, Waiting, NoSubmission
  <2> QED
    BY <1>2, <1>4, <2>8, <2>9 DEF EInv
<1> QED
  BY <1>5, <1>6

-----------------------------------------------------------------------------
(* The invariant, and the reader.                                            *)

\* EInv is inductive.
LEMMA LogInit == EInit => EInv
<1> SUFFICES ASSUME EInit PROVE EInv
  OBVIOUS
<1>1. /\ next_id = 1 /\ resting = Empty /\ call = IdleCall /\ out = <<>>
      /\ log = <<>> /\ t = 0 /\ submission = NoSubmission /\ books = <<>>
  BY DEF EInit, Init
<1>2. IdleCall \in Call /\ IdleCall.pc = "idle"
  BY OrderAssumption DEF IdleCall, Call, Side, Prices, Qtys
<1>3. DOMAIN resting = {} /\ resting = Restrict(resting, DOMAIN resting)
  BY <1>1 DEF Empty, Restrict
<1>4. BookInv
  BY <1>1, <1>2, <1>3, OrderAssumption DEF BookInv, TypeOK, Matching
<1>5. LogOK
  BY <1>1 DEF LogOK, IsSeq
<1>6. SubmissionOK
  BY <1>1, <1>2, OrderAssumption DEF SubmissionOK, NoSubmission, Busy, Waiting, Side, Prices, Qtys
<1>7. DueOK
  BY <1>1 DEF DueOK, NoSubmission, Waiting, BookAt
<1> QED
  BY <1>4, <1>5, <1>6, <1>7 DEF EInv

LEMMA LogInductive == EInv /\ [ENext]_evars => EInv'
<1> SUFFICES ASSUME EInv, [ENext]_evars PROVE EInv'
  OBVIOUS
<1> USE DEF ENext
<1>1. ASSUME NEW side \in Side, NEW price \in Prices, NEW qty \in Qtys,
             log_submit("limit", side, price, qty)
      PROVE  EInv'
  <2>1. PICK kind \in {"limit", "market"} : kind = "limit"
    OBVIOUS
  <2> QED
    BY <1>1, <2>1, LogSubmitKeeps
<1>2. ASSUME NEW side \in Side, NEW qty \in Qtys, log_submit("market", side, 0, qty)
      PROVE  EInv'
  <2>1. PICK kind \in {"limit", "market"} : kind = "market"
    OBVIOUS
  <2>2. 0 \in Prices
    BY OrderAssumption DEF Prices
  <2> QED
    BY <1>2, <2>1, <2>2, LogSubmitKeeps
<1>3. CASE LogEngine
  <2>1. /\ (\E i \in DOMAIN resting : Trade(i)) \/ Rest \/ Return
        /\ UNCHANGED <<log, t, submission>>
        /\ books' = IF resting' = resting THEN books ELSE Append(books, resting')
    BY <1>3 DEF LogEngine
  <2> QED
    BY <2>1, LogTradeKeeps, LogRestKeeps, LogReturnKeeps
<1>4. CASE LogThrows
  BY <1>4, LogThrowsKeeps
<1>5. CASE log_done
  BY <1>5, LogDoneKeeps
<1>6. ASSUME NEW id \in Ids, log_cancel(id) PROVE EInv'
  BY <1>6, LogCancelKeeps
<1>7. CASE UNCHANGED evars
  BY <1>7 DEF evars, vars, EInv, BookInv, TypeOK, Matching, LogOK, Explains, BookAt,
     SubmissionOK, Busy, Waiting, CallInv, DueOK, TradeEvents, AddEvents, WillAdd, Left
<1> QED
  BY <1>1, <1>2, <1>3, <1>4, <1>5, <1>6, <1>7

LEMMA LogInvariant == ESpec => []EInv
<1> QED
  BY LogInit, LogInductive, PTL DEF ESpec

\* One unfolding of the reader's fold over the positions in s.
ReadStep(st, es, s, g) ==
    IF s = {} THEN st ELSE Applied(g[s \ {Max(s)}], es[Max(s)])

\* The recursion of the fold has a solution.
LEMMA ReadIterExists ==
    ASSUME NEW st, NEW es, NEW n \in Nat
    PROVE  \E g : g = [s \in SUBSET (1..n) |-> ReadStep(st, es, s, g)]
<1> DEFINE S == 1..n
           Sub(m) == {s \in SUBSET S : Cardinality(s) <= m}
           Good(m) == \E g : g = [s \in Sub(m) |-> ReadStep(st, es, s, g)]
<1>0. IsFiniteSet(S)
  BY FS_Interval
<1>m. \A s \in SUBSET S : s # {} => Max(s) \in s
  BY MaxFacts
<1> HIDE DEF S
<1>1. Good(0)
  <2> DEFINE g == [s \in Sub(0) |-> st]
  <2>1. \A s \in Sub(0) : s = {}
    BY <1>0, SubsetFacts
  <2>2. \A s \in Sub(0) : ReadStep(st, es, s, g) = st
    BY <2>1 DEF ReadStep
  <2>3. g = [s \in Sub(0) |-> ReadStep(st, es, s, g)]
    BY <2>2
  <2> QED
    BY <2>3
<1>2. ASSUME NEW m \in Nat, Good(m) PROVE Good(m + 1)
  <2>1. PICK g : g = [s \in Sub(m) |-> ReadStep(st, es, s, g)]
    BY <1>2
  <2> DEFINE h == [s \in Sub(m + 1) |-> ReadStep(st, es, s, g)]
  <2>2. \A s \in Sub(m) : s \in Sub(m + 1)
    BY <1>0, SubsetFacts
  <2>3. \A s \in Sub(m) : h[s] = g[s]
    BY <2>1, <2>2
  <2>4. \A s \in Sub(m + 1) : s # {} => s \ {Max(s)} \in Sub(m)
    BY <1>0, <1>m, SubsetFacts
  <2>5. \A s \in Sub(m + 1) : ReadStep(st, es, s, h) = ReadStep(st, es, s, g)
    <3> HIDE DEF h, Sub
    <3> QED
      BY <2>3, <2>4 DEF ReadStep
  <2>6. h = [s \in Sub(m + 1) |-> ReadStep(st, es, s, h)]
    BY <2>5
  <2> QED
    BY <2>6
<1> HIDE DEF Good
<1>3. \A m \in Nat : Good(m)
  <2> SUFFICES ASSUME NEW l \in Nat, ~Good(l) PROVE FALSE
    OBVIOUS
  <2> DEFINE Bad == {m \in Nat : ~Good(m)}
  <2>1. PICK m \in Bad : \A k \in Bad : m <= k
    BY LeastNatural
  <2>2. m # 0 /\ m - 1 \in Nat /\ ~(m - 1 \in Bad)
    BY <1>1, <2>1
  <2>3. Good((m - 1) + 1)
    BY <1>2, <2>2
  <2> QED
    BY <2>1, <2>3
<1>4. Good(Cardinality(S))
  BY <1>0, <1>3, SubsetFacts
<1>5. Sub(Cardinality(S)) = SUBSET S
  BY <1>0, SubsetFacts
<1> QED
  BY <1>4, <1>5 DEF Good, S

\* The books h that a reader of es, who starts with st, has one after another.
ReadingOf(h, st, es) ==
    /\ h[0] = st
    /\ \A k \in 1..Len(es) : h[k] = Applied(h[k - 1], es[k])
    /\ FoldLeft(Applied, st, es) = h[Len(es)]

\* So reading a log is a chain of events applied in order.
LEMMA ReadChain ==
    ASSUME NEW st, NEW es, IsSeq(es)
    PROVE  \E h : ReadingOf(h, st, es)
<1> DEFINE n == Len(es)
           g == CHOOSE g : g = [s \in SUBSET (1..n) |-> ReadStep(st, es, s, g)]
           h == [k \in 0..n |-> g[1..k]]
<1>1. n \in Nat /\ DOMAIN es = 1..n
  BY SeqFacts
<1>2. g = [s \in SUBSET (1..n) |-> ReadStep(st, es, s, g)]
  BY <1>1, ReadIterExists
<1>3. FoldLeft(Applied, st, es) = g[1..n]
  BY <1>1 DEF FoldLeft, MapThenFoldSet, ReadStep
<1> HIDE DEF g, n
<1>4. h[0] = st
  <2>1. 1..0 = {}
    OBVIOUS
  <2>2. g[{}] = ReadStep(st, es, {}, g)
    BY <1>2
  <2> QED
    BY <1>1, <2>1, <2>2 DEF ReadStep
<1>5. ASSUME NEW k \in 1..n PROVE h[k] = Applied(h[k - 1], es[k])
  <2>1. 1..k \in SUBSET (1..n) /\ k \in 1..k /\ k \in 0..n /\ k - 1 \in 0..n /\ k \in Nat
    BY <1>1
  <2>2. Max(1..k) = k
    <3>1. Max(1..k) \in 1..k /\ \A j \in 1..k : j <= Max(1..k)
      BY <2>1, MaxFacts
    <3> QED
      BY <2>1, <3>1
  <2>3. (1..k) \ {k} = 1..(k - 1)
    BY <2>1
  <2>4. g[1..k] = ReadStep(st, es, 1..k, g)
    BY <1>2, <2>1
  <2> QED
    BY <2>1, <2>2, <2>3, <2>4 DEF ReadStep
<1>6. FoldLeft(Applied, st, es) = h[n]
  BY <1>1, <1>3
<1> HIDE DEF h
<1>7. \A k \in 1..n : h[k] = Applied(h[k - 1], es[k])
  BY <1>5
<1> QED
  BY <1>4, <1>6, <1>7 DEF n, ReadingOf

\* After n events the reader has the book after n changes.
LEMMA ReaderHasBook ==
    ASSUME LogOK, NEW n \in 0..Len(log)
    PROVE  Replay(n) = BookAt(n)
<1>1. log \in Seq(Event) /\ DOMAIN log = 1..Len(log) /\ Len(log) \in Nat /\ n \in Nat /\ n <= Len(log)
  BY DEF LogOK
<1>2. PICK es : es = SubSeq(log, 1, n)
  OBVIOUS
<1>3. es \in Seq(Event) /\ Len(es) = n /\ \A k \in 1..n : es[k] = log[k]
  BY <1>1, <1>2
<1>4. IsSeq(es)
  BY <1>3, LenProperties DEF IsSeq
<1>5. PICK h : /\ h[0] = Empty
               /\ \A k \in 1..n : h[k] = Applied(h[k - 1], es[k])
               /\ FoldLeft(Applied, Empty, es) = h[n]
  <2>1. PICK st : st = Empty
    OBVIOUS
  <2>2. \E h : ReadingOf(h, st, es)
    BY <1>4, ReadChain
  <2> QED
    BY <1>3, <2>1, <2>2 DEF ReadingOf
<1>6. \A k \in 0..n : h[k] = BookAt(k)
  <2> DEFINE Bad == {k \in 0..n : h[k] # BookAt(k)}
  <2> SUFFICES ASSUME Bad # {} PROVE FALSE
    OBVIOUS
  <2>1. Bad \subseteq Nat
    BY <1>1
  <2>2. PICK k \in Bad : \A j \in Bad : k <= j
    <3> HIDE DEF Bad
    <3> QED
      BY <2>1, LeastNatural
  <2>3. k \in 1..n /\ k - 1 \in 0..n /\ k - 1 \notin Bad
    <3>1. h[0] = BookAt(0)
      BY <1>5 DEF BookAt
    <3> QED
      BY <1>1, <2>2, <3>1
  <2>4. h[k - 1] = BookAt(k - 1) /\ h[k] = Applied(h[k - 1], log[k])
    BY <1>3, <1>5, <2>3
  <2>5. k \in DOMAIN log
    BY <1>1, <2>3
  <2>6. BookAt(k) = Applied(BookAt(k - 1), log[k])
    BY <2>5 DEF LogOK, Explains
  <2> QED
    BY <2>2, <2>4, <2>6
<1>7. n \in 0..n
  BY <1>1
<1> QED
  BY <1>2, <1>5, <1>6, <1>7 DEF Replay

\* Whoever replays the log has, event by event, the books that the engine had one
\* change after the other, and all of them between two calls of the logger; after
\* a submission that threw, the log has those of the calls before it
\* (event_logger.hpp:21, :33).
THEOREM LogMirrors == ESpec => []ReplayMirrors
<1>1. ASSUME EInv PROVE ReplayMirrors
  <2>1. /\ LogOK /\ Len(log) \in Nat /\ DOMAIN log = 1..Len(log)
        /\ Len(books) \in Nat /\ DOMAIN books = 1..Len(books)
    BY <1>1, LogFacts DEF EInv, LogOK
  <2>2. \A n \in DOMAIN log : n \in DOMAIN books /\ n \in 0..Len(log) /\ n # 0
    BY <2>1 DEF LogOK, Explains
  <2>3. \A n \in DOMAIN log : Replay(n) = books[n]
    BY <2>1, <2>2, ReaderHasBook DEF BookAt
  <2>4. submission = NoSubmission => Len(log) = Len(books)
    BY <1>1 DEF EInv, LogOK, DueOK, NoSubmission
  <2>5. DOMAIN log \subseteq DOMAIN books
    BY <2>2
  <2>6. Len(log) <= Len(books)
    BY <2>1, <2>5
  <2> QED
    BY <2>3, <2>4, <2>6 DEF ReplayMirrors
<1> QED
  BY <1>1, LogInvariant, PTL

\* Every trade in the log is of an order the reader still has, at its price, on
\* its side and for no more than is left of it, also when a later submission
\* threw; times count the events.
THEOREM LogTradesMatch == ESpec => []TradesMatch
<1>1. EInv => TradesMatch
  <2> SUFFICES ASSUME EInv PROVE TradesMatch
    OBVIOUS
  <2>1. LogOK /\ t = Len(log) /\ DOMAIN log = 1..Len(log) /\ Len(log) \in Nat
    BY LogFacts DEF EInv, LogOK
  <2>2. ASSUME NEW n \in DOMAIN log
        PROVE  /\ log[n].t = n - 1
               /\ log[n].type = "trade" =>
                    LET book == Replay(n - 1)
                    IN  /\ log[n].id \in DOMAIN book
                        /\ book[log[n].id].side = log[n].side
                        /\ book[log[n].id].price = log[n].price
                        /\ book[log[n].id].quantity >= log[n].qty
    <3>1. n - 1 \in 0..Len(log)
      BY <2>1
    <3>2. Replay(n - 1) = BookAt(n - 1)
      BY <2>1, <3>1, ReaderHasBook
    <3>3. log[n].t = n - 1 /\ Matches(BookAt(n - 1), log[n])
      BY <2>1 DEF LogOK, Explains
    <3> QED
      BY <3>2, <3>3 DEF Matches
  <2> QED
    BY <2>1, <2>2 DEF TradesMatch
<1> QED
  BY <1>1, LogInvariant, PTL

-----------------------------------------------------------------------------
(* The scenario of export_events.                                           *)

\* The id that the next submission gets after n calls of the scenario, two of
\* which are cancels.
IdAfter(n) == IF n <= 16 THEN n + 1 ELSE IF n <= 18 THEN 17 ELSE n - 1

\* A limit order that leaves a book around 100 uncrossed.
Apart(side, price) == IF side = "Buy" THEN price <= 100 ELSE price >= 101

\* A limit order of phase 7.
InBand(side, price) == price \in IF side = "Buy" THEN 97..99 ELSE 101..103

\* The calls of phase 6.
Crossing == {25, 26}

\* The calls whose orders the two crossing ones trade with, and the call until
\* which they rest untouched.
Supplies == {19, 20, 22, 23}

Until(n) == IF n <= 20 THEN 25 ELSE 26

\* The orders that a crossing call cannot use up.
Pair(n) == IF n = 25 THEN [a |-> 17, b |-> 18] ELSE [a |-> 20, b |-> 21]

LeftOf(i) == IF i \in DOMAIN resting THEN resting[i].quantity ELSE 0

\* Order i is one that the call in progress may trade with, if it still rests.
Takes(i) ==
    i \in DOMAIN resting =>
       /\ resting[i].side = Opposite(call.side)
       /\ Ahead(Opposite(call.side), resting[i].price, call.price)

\* The ids of the script are those that its comments give.
PlaceOK ==
    /\ done \in Nat /\ done <= Fixed + RandomOps + 2
    /\ next_id = IdAfter(done)

\* No buy rests above 100 and no sell below 101; only two calls would.
ApartOK ==
    /\ \A i \in DOMAIN resting : Apart(resting[i].side, resting[i].price)
    /\ Busy => \/ call.is_market
               \/ Apart(call.side, call.price)
               \/ done \in Crossing

\* The call in progress is that of the script.
CallOK ==
    Busy =>
       /\ done \in {15, 16} \/ done > Fixed + RandomOps => call.is_market
       /\ done \notin {17, 18}
       /\ done \in 19..26 =>
             /\ ~call.is_market
             /\ call.side = Script[done].side /\ call.price = Script[done].price
       /\ done \in Supplies => call.qty = Script[done].qty

\* The supplies rest in full until they are wanted.
SuppliesOK ==
    \A n \in Supplies :
       (n < done \/ (n = done /\ ~Busy)) /\ (done < Until(n)) =>
          /\ n - 2 \in DOMAIN resting
          /\ resting[n - 2] = [side |-> Script[n].side, price |-> Script[n].price,
                               quantity |-> Script[n].qty]

\* And are enough.
EnoughOK ==
    Busy /\ done \in Crossing =>
       /\ Takes(Pair(done).a) /\ Takes(Pair(done).b)
       /\ call.qty <= LeftOf(Pair(done).a) + LeftOf(Pair(done).b)

\* The random orders, in progress or resting, keep to their side.
DrawnOK ==
    /\ drawn \subseteq 1..(next_id - 1)
    /\ Busy /\ call.id \in drawn => ~call.is_market /\ InBand(call.side, call.price)
    /\ \A n \in DOMAIN out : out[n].taker_id \notin drawn
    /\ \A i \in drawn \cap DOMAIN resting : InBand(resting[i].side, resting[i].price)

\* Ids of orders that may rest: not those of the two sweeps of phase 3.
RestIds == (1..14) \cup (17..(24 + RandomOps))

RoomOK == DOMAIN resting \subseteq RestIds

SceneOK == PlaceOK /\ ApartOK /\ CallOK /\ SuppliesOK /\ EnoughOK /\ DrawnOK /\ RoomOK

XInv == EInv /\ SceneOK

-----------------------------------------------------------------------------
(* The script.                                                               *)

\* Phases 1 to 6 are 26 calls.
LEMMA ScriptLength == Fixed = 26
BY DEF Script, Fixed, build_book, deepen_levels, market_sweeps, cancellations, replenish,
   cross_spread

\* What the n-th call of the scenario may be.
CallAt(c, n) ==
    /\ c.kind \in {"limit", "market", "cancel"} /\ c.side \in Side
    /\ c.kind # "cancel" => c.price \in Prices /\ c.qty \in Qtys
    /\ c.kind = "market" => c.price = 0
    /\ c.kind = "cancel" <=> n \in {17, 18}
    /\ c.kind = "cancel" => c.qty \in {2, 7}
    /\ n \in {15, 16} \/ n > Fixed + RandomOps => c.kind = "market"
    /\ c.kind = "limit" => Apart(c.side, c.price) \/ n \in Crossing
    /\ n \in 19..26 =>
          /\ c.kind = "limit"
          /\ c.side = Script[n].side /\ c.price = Script[n].price /\ c.qty = Script[n].qty
    /\ n > Fixed /\ c.kind = "limit" => c.qty > 0 /\ InBand(c.side, c.price)

\* The calls of the script, and what they have in common.
LEMMA ScriptEntries ==
    /\ Script[1] = Limit("Sell", 104, 80) /\ Script[2] = Limit("Sell", 103, 120)
    /\ Script[3] = Limit("Sell", 102, 200) /\ Script[4] = Limit("Sell", 101, 150)
    /\ Script[5] = Limit("Buy", 97, 80) /\ Script[6] = Limit("Buy", 98, 120)
    /\ Script[7] = Limit("Buy", 99, 200) /\ Script[8] = Limit("Buy", 100, 150)
    /\ Script[9] = Limit("Sell", 101, 100) /\ Script[10] = Limit("Sell", 101, 80)
    /\ Script[11] = Limit("Sell", 102, 100) /\ Script[12] = Limit("Buy", 100, 100)
    /\ Script[13] = Limit("Buy", 100, 80) /\ Script[14] = Limit("Buy", 99, 120)
    /\ Script[15] = Market("Buy", 280) /\ Script[16] = Market("Sell", 280)
    /\ Script[17] = Cancel(2) /\ Script[18] = Cancel(7)
    /\ Script[19] = Limit("Sell", 101, 200) /\ Script[20] = Limit("Sell", 102, 150)
    /\ Script[21] = Limit("Sell", 103, 180) /\ Script[22] = Limit("Buy", 100, 200)
    /\ Script[23] = Limit("Buy", 99, 150) /\ Script[24] = Limit("Buy", 98, 180)
    /\ Script[25] = Limit("Buy", 102, 300) /\ Script[26] = Limit("Sell", 99, 300)
BY DEF Script, build_book, deepen_levels, market_sweeps, cancellations, replenish, cross_spread

ScriptShape(c, n) ==
    /\ c.kind = IF n \in {15, 16} THEN "market" ELSE IF n \in {17, 18} THEN "cancel" ELSE "limit"
    /\ c.side \in Side /\ c.price \in 0..104 /\ c.qty \in 1..600
    /\ n \in {15, 16} => c.price = 0
    /\ n \in {17, 18} => c.qty \in {2, 7}
    /\ c.kind = "limit" => Apart(c.side, c.price) \/ n \in Crossing

\* Call by call.
LEMMA ScriptShapes == \A n \in 1..26 : ScriptShape(Script[n], n)
<1> USE ScriptEntries DEF ScriptShape, Limit, Market, Cancel, Apart, Crossing, Side
<1>1. \A n \in 1..4 : ScriptShape(Script[n], n)
  OBVIOUS
<1>2. \A n \in 5..8 : ScriptShape(Script[n], n)
  OBVIOUS
<1>3. \A n \in 9..12 : ScriptShape(Script[n], n)
  OBVIOUS
<1>4. \A n \in 13..16 : ScriptShape(Script[n], n)
  OBVIOUS
<1>5. \A n \in 17..20 : ScriptShape(Script[n], n)
  OBVIOUS
<1>6. \A n \in 21..24 : ScriptShape(Script[n], n)
  OBVIOUS
<1>7. \A n \in 25..26 : ScriptShape(Script[n], n)
  OBVIOUS
<1> HIDE DEF ScriptShape
<1> QED
  BY <1>1, <1>2, <1>3, <1>4, <1>5, <1>6, <1>7

\* The script calls what CallAt allows.
LEMMA ScriptCall == ASSUME NEW n \in 1..26 PROVE CallAt(Script[n], n)
<1>1. MaxPrice >= 104 /\ MaxQty >= 600 /\ MaxPrice \in Nat /\ MaxQty \in Nat /\ RandomOps \in Nat
  BY ExportAssumption, OrderAssumption
<1>2. PICK c : c = Script[n] /\ ScriptShape(c, n)
  BY ScriptShapes
<1>3. c.price \in Prices /\ c.qty \in Qtys
  <2>1. PICK p \in 0..104, q \in 1..600 : p = c.price /\ q = c.qty
    BY <1>2 DEF ScriptShape
  <2>2. p \in 0..MaxPrice /\ q \in 0..MaxQty
    BY <1>1
  <2> QED
    BY <2>1, <2>2 DEF Prices, Qtys
<1>4. ~(n > Fixed) /\ ~(n > Fixed + RandomOps)
  BY <1>1, ScriptLength
<1> QED
  BY <1>2, <1>3, <1>4 DEF ScriptShape, CallAt

\* The calls that may come next are those that CallAt describes.
LEMMA ComingFacts ==
    ASSUME done \in Nat, NEW c \in Coming
    PROVE  CallAt(c, done + 1) /\ done + 1 <= Fixed + RandomOps + 2
<1>0. /\ MaxPrice >= 104 /\ MaxQty >= 600 /\ MaxPrice \in Nat /\ MaxQty \in Nat
      /\ RandomOps \in Nat /\ RandomQtys \subseteq Qtys \ {0} /\ Fixed = 26
  BY ExportAssumption, OrderAssumption, ScriptLength
<1>1. CASE done < Fixed
  <2>1. c = Script[done + 1] /\ done + 1 \in 1..26
    BY <1>0, <1>1 DEF Coming, InRandom
  <2>2. CallAt(Script[done + 1], done + 1)
    BY <2>1, ScriptCall
  <2> QED
    BY <1>0, <2>1, <2>2
<1>2. CASE InRandom
  <2>1. c \in RandomCalls /\ done >= 26 /\ done < 26 + RandomOps
    BY <1>0, <1>2 DEF Coming, InRandom
  <2>2. CASE \E side \in Side, qty \in RandomQtys : c = Market(side, qty)
    BY <1>0, <2>1, <2>2 DEF CallAt, Market, Crossing, Supplies, Prices
  <2>3. ASSUME NEW side \in Side, NEW level \in 1..3, NEW qty \in RandomQtys,
               c = Limit(side, RandomPrice(side, level), qty)
        PROVE  CallAt(c, done + 1)
    <3>1. PICK p : p = RandomPrice(side, level)
      OBVIOUS
    <3>2. InBand(side, p) /\ p \in 97..103
      BY <3>1 DEF InBand, RandomPrice
    <3>3. Apart(side, p) /\ p \in Prices /\ qty \in Qtys /\ qty > 0
      BY <1>0, <3>2 DEF InBand, Apart, Prices, Qtys
    <3>4. c.kind = "limit" /\ c.side = side /\ c.price = p /\ c.qty = qty
      BY <2>3, <3>1 DEF Limit
    <3> QED
      BY <1>0, <2>1, <3>2, <3>3, <3>4 DEF CallAt, Crossing, Supplies
  <2> QED
    BY <1>0, <2>1, <2>2, <2>3 DEF RandomCalls
<1>3. CASE done >= Fixed + RandomOps
  <2>1. /\ done < 26 + RandomOps + 2
        /\ c = final_sweeps[done - 26 - RandomOps + 1]
    BY <1>0, <1>3 DEF Coming, InRandom
  <2>2. c = Market("Buy", 600) \/ c = Market("Sell", 600)
    BY <1>0, <1>3, <2>1 DEF final_sweeps
  <2> QED
    BY <1>0, <1>3, <2>1, <2>2 DEF CallAt, Market, Crossing, Supplies, Side, Prices, Qtys
<1> QED
  BY <1>0, <1>1, <1>2, <1>3 DEF InRandom

-----------------------------------------------------------------------------

\* Whatever is best on a side with an order within the limit trades next.
LEMMA MakerExists ==
    ASSUME BookInv, call.side \in Side, call.price \in Prices, NEW i \in DOMAIN resting,
           resting[i].side = Opposite(call.side),
           Ahead(Opposite(call.side), resting[i].price, call.price)
    PROVE  \E j \in DOMAIN resting : IsMaker(j)
<1> DEFINE s == Opposite(call.side)
           D == {j \in DOMAIN resting : resting[j].side = s}
<1>1. /\ \A j \in DOMAIN resting : j \in Nat /\ resting[j].price \in 0..MaxPrice
      /\ s \in Side /\ MaxPrice \in Nat /\ call.price \in Nat
  BY OrderAssumption DEF BookInv, TypeOK, Order, Prices, Opposite, Side
<1>2. PICK p : /\ \E j \in D : p = resting[j].price
               /\ \A j \in D : Ahead(s, p, resting[j].price)
  <2>1. CASE s = "Sell"
    <3> DEFINE P == {resting[j].price : j \in D}
    <3>1. P \subseteq Nat /\ P # {}
      BY <1>1
    <3>2. PICK x \in P : \A y \in P : x <= y
      <4> HIDE DEF P
      <4> QED
        BY <3>1, LeastNatural
    <3> QED
      BY <2>1, <3>2 DEF Ahead
  <2>2. CASE s = "Buy"
    <3> DEFINE P == {MaxPrice - resting[j].price : j \in D}
    <3>1. P \subseteq Nat /\ P # {}
      BY <1>1
    <3>2. PICK x \in P : \A y \in P : x <= y
      <4> HIDE DEF P
      <4> QED
        BY <3>1, LeastNatural
    <3>3. PICK k \in D : x = MaxPrice - resting[k].price
      OBVIOUS
    <3>4. ASSUME NEW j \in D PROVE resting[k].price >= resting[j].price
      <4>1. x <= MaxPrice - resting[j].price
        BY <3>2
      <4> QED
        BY <1>1, <3>3, <4>1
    <3> QED
      BY <2>2, <3>4 DEF Ahead
  <2> QED
    BY <1>1, <2>1, <2>2 DEF Side
<1> DEFINE B == {j \in D : resting[j].price = p}
<1>3. PICK m \in B : \A j \in B : m <= j
  <2>1. B \subseteq Nat /\ B # {}
    BY <1>1, <1>2
  <2> HIDE DEF B
  <2> QED
    BY <2>1, LeastNatural
<1>4. m \in DOMAIN resting /\ resting[m].side = s /\ resting[m].price = p /\ p \in Nat
  BY <1>1
<1>5. Crosses(p)
  <2>1. Ahead(s, p, resting[i].price)
    BY <1>2
  <2> QED
    BY <1>1, <1>4, <2>1 DEF Ahead, Crosses
<1>6. ASSUME NEW j \in DOMAIN resting \ {m}, resting[j].side = resting[m].side
      PROVE  Before(m, j)
  <2>1. CASE resting[j].price = p
    <3>1. m <= j /\ m \in Nat /\ j \in Nat /\ m # j
      BY <1>1, <1>3, <1>4, <1>6, <2>1
    <3> QED
      BY <1>4, <2>1, <3>1 DEF Before
  <2>2. CASE resting[j].price # p
    BY <1>2, <1>4, <1>6, <2>2 DEF Before
  <2> QED
    BY <2>1, <2>2
<1> QED
  BY <1>4, <1>5, <1>6 DEF IsMaker

\* A limit order on its own side of 100 finds nobody to trade with.
LEMMA NoMaker ==
    ASSUME BookInv, ApartOK, call.price \in Nat, call.side \in Side, ~call.is_market,
           Apart(call.side, call.price), NEW i \in DOMAIN resting
    PROVE  ~IsMaker(i)
<1>1. resting[i].price \in Nat /\ Apart(resting[i].side, resting[i].price)
  BY OrderAssumption DEF BookInv, TypeOK, Order, Prices, ApartOK
<1> QED
  BY <1>1 DEF IsMaker, Crosses, Ahead, Apart, Opposite, Side

\* A trade in terms of what is left.
LEMMA TradeMoves ==
    ASSUME BookInv, NEW i \in DOMAIN resting, Trade(i)
    PROVE  \E q \in Nat :
              /\ q <= call.qty /\ call' = [call EXCEPT !.qty = @ - q]
              /\ DOMAIN resting' \subseteq DOMAIN resting
              /\ \A j \in DOMAIN resting \ {i} : j \in DOMAIN resting' /\ resting'[j] = resting[j]
              /\ \A j \in DOMAIN resting' : /\ resting'[j].side = resting[j].side
                                           /\ resting'[j].price = resting[j].price
              /\ \A j \in Nat : LeftOf(j)' = IF j = i THEN LeftOf(j) - q ELSE LeftOf(j)
<1> DEFINE a == call.qty
           b == resting[i].quantity
           q == Lesser(a, b)
<1>1. /\ call' = [call EXCEPT !.qty = @ - q]
      /\ resting' = IF q = b THEN Without(resting, i)
                    ELSE [resting EXCEPT ![i].quantity = @ - q]
  BY DEF Trade
<1>2. a \in Nat /\ b \in Nat /\ i \in Nat /\ \A j \in DOMAIN resting : resting[j] \in Order
  BY OrderAssumption DEF BookInv, TypeOK, Order, Call, Qtys
<1>3. q \in Nat /\ q <= a /\ q <= b
  BY <1>2 DEF Lesser
<1>4. PICK r : r = resting'
  OBVIOUS
<1> HIDE DEF q, a, b
<1>5. /\ DOMAIN r \subseteq DOMAIN resting
      /\ \A j \in DOMAIN resting \ {i} : j \in DOMAIN r /\ r[j] = resting[j]
      /\ i \in DOMAIN r => r[i] = [resting[i] EXCEPT !.quantity = @ - q] /\ q # b
      /\ i \notin DOMAIN r => q = b
  BY <1>1, <1>4 DEF Without, Restrict
<1>6. \A j \in DOMAIN r : r[j].side = resting[j].side /\ r[j].price = resting[j].price
  BY <1>2, <1>5 DEF Order
<1>7. ASSUME NEW j \in Nat
      PROVE  (IF j \in DOMAIN r THEN r[j].quantity ELSE 0) = IF j = i THEN LeftOf(j) - q ELSE LeftOf(j)
  <2>1. CASE j = i /\ i \in DOMAIN r
    <3>1. r[i].quantity = b - q
      BY <1>2, <1>5, <2>1 DEF Order, b
    <3> QED
      BY <2>1, <3>1 DEF LeftOf, b
  <2>2. CASE j = i /\ i \notin DOMAIN r
    <3>1. LeftOf(i) = b /\ b - q = 0
      BY <1>2, <1>3, <1>5, <2>2 DEF LeftOf, b
    <3> QED
      BY <2>2, <3>1
  <2>3. CASE j # i
    BY <1>5, <2>3 DEF LeftOf
  <2> QED
    BY <2>1, <2>2, <2>3
<1>8. \A j \in Nat : LeftOf(j)' = IF j = i THEN LeftOf(j) - q ELSE LeftOf(j)
  BY <1>4, <1>7 DEF LeftOf
<1> QED
  BY <1>1, <1>3, <1>4, <1>5, <1>6, <1>8 DEF a

\* What the invariant says of the call in progress.
LEMMA SceneFacts ==
    ASSUME XInv
    PROVE  /\ BookInv /\ SceneOK
           /\ next_id \in 1..(MaxId + 1) /\ DOMAIN resting \subseteq 1..(next_id - 1)
           /\ call.side \in Side /\ call.price \in Nat /\ call.price \in Prices /\ call.qty \in Nat
           /\ Busy => /\ Matching /\ call.id = next_id - 1 /\ call.id >= 1
                      /\ call.id \notin DOMAIN resting
           /\ done \in Nat /\ RandomOps \in Nat /\ Fixed = 26
<1>1. BookInv /\ SceneOK /\ TypeOK /\ SubmissionOK
  BY DEF XInv, EInv, BookInv
<1>2. /\ next_id \in 1..(MaxId + 1) /\ DOMAIN resting \subseteq 1..(next_id - 1)
      /\ call.side \in Side /\ call.price \in Nat /\ call.price \in Prices /\ call.qty \in Nat
      /\ call.pc \in {"idle", "match"}
  BY <1>1, OrderAssumption DEF TypeOK, Call, Prices, Qtys
<1>3. Busy => /\ Matching /\ call.id = next_id - 1 /\ call.id \notin DOMAIN resting
              /\ call.id \in Ids
  BY <1>1, <1>2 DEF Busy, Matching, BookInv, TypeOK, SubmissionOK, CallInv
<1> QED
  BY <1>1, <1>2, <1>3, ExportAssumption, OrderAssumption, ScriptLength DEF SceneOK, PlaceOK, Ids

\* A submission of the scenario begins.
LEMMA SceneSubmits ==
    ASSUME XInv, NEW c \in Coming, c.kind # "cancel", call_logger(c)
    PROVE  SceneOK'
<1>1. /\ Begin(c.side, c.price, c.kind = "market", c.qty)
      /\ done' = done + 1
      /\ drawn' = IF InRandom /\ c.kind = "limit" THEN drawn \cup {next_id} ELSE drawn
  BY DEF call_logger, log_submit
<1>2. /\ call.pc = "idle" /\ next_id' = next_id + 1 /\ out' = <<>> /\ resting' = resting
      /\ call'.pc = "match" /\ call'.side = c.side /\ call'.id = next_id
      /\ call'.price = c.price /\ call'.is_market = (c.kind = "market") /\ call'.qty = c.qty
  BY <1>1 DEF Begin
<1>3. /\ ~Busy /\ Busy'
      /\ done \in Nat /\ RandomOps \in Nat /\ Fixed = 26
      /\ next_id \in Nat /\ next_id >= 1 /\ DOMAIN resting \subseteq 1..(next_id - 1)
  BY <1>2, SceneFacts, OrderAssumption DEF Busy
<1>4. CallAt(c, done') /\ done + 1 <= Fixed + RandomOps + 2
  BY <1>1, <1>3, ComingFacts
<1>5. /\ PlaceOK /\ ApartOK /\ SuppliesOK /\ DrawnOK /\ RoomOK
  BY DEF XInv, SceneOK
<1>6. PlaceOK'
  BY <1>1, <1>2, <1>3, <1>4, <1>5 DEF PlaceOK, IdAfter, CallAt, Fixed
<1>7. ApartOK'
  BY <1>2, <1>4, <1>5 DEF ApartOK, CallAt
<1>8. CallOK'
  <2>1. c.kind = "market" => call'.is_market
    BY <1>2
  <2>2. c.kind = "limit" => ~call'.is_market
    BY <1>2
  <2> QED
    BY <1>1, <1>2, <1>4, <2>1, <2>2 DEF CallOK, CallAt, Supplies
<1>9. SuppliesOK'
  BY <1>1, <1>2, <1>3, <1>5 DEF SuppliesOK, Supplies, Until
<1>10. EnoughOK'
  <2> SUFFICES ASSUME done' \in Crossing PROVE EnoughOK'
    BY DEF EnoughOK
  <2>1. CASE done' = 25
    <3>1. done = 24 /\ 17 \in DOMAIN resting /\ 18 \in DOMAIN resting
          /\ resting[17] = [side |-> "Sell", price |-> 101, quantity |-> 200]
          /\ resting[18] = [side |-> "Sell", price |-> 102, quantity |-> 150]
      BY <1>1, <1>3, <1>5, <2>1, ScriptEntries DEF SuppliesOK, Supplies, Until, Limit
    <3>2. c.side = "Buy" /\ c.price = 102 /\ c.qty = 300
      BY <1>4, <2>1, ScriptEntries DEF CallAt, Limit
    <3> QED
      BY <1>2, <2>1, <3>1, <3>2 DEF EnoughOK, Pair, Takes, LeftOf, Ahead, Opposite
  <2>2. CASE done' = 26
    <3>1. done = 25 /\ 20 \in DOMAIN resting /\ 21 \in DOMAIN resting
          /\ resting[20] = [side |-> "Buy", price |-> 100, quantity |-> 200]
          /\ resting[21] = [side |-> "Buy", price |-> 99, quantity |-> 150]
      BY <1>1, <1>3, <1>5, <2>2, ScriptEntries DEF SuppliesOK, Supplies, Until, Limit
    <3>2. c.side = "Sell" /\ c.price = 99 /\ c.qty = 300
      BY <1>4, <2>2, ScriptEntries DEF CallAt, Limit
    <3> QED
      BY <1>2, <2>2, <3>1, <3>2 DEF EnoughOK, Pair, Takes, LeftOf, Ahead, Opposite
  <2> QED
    BY <2>1, <2>2 DEF Crossing
<1>11. DrawnOK'
  <2>1. next_id \notin drawn /\ next_id \notin DOMAIN resting
    BY <1>3, <1>5 DEF DrawnOK
  <2>2. drawn' \subseteq 1..(next_id' - 1)
    BY <1>1, <1>2, <1>3, <1>5 DEF DrawnOK
  <2>3. Busy' /\ call'.id \in drawn' => ~call'.is_market /\ InBand(call'.side, call'.price)
    <3> SUFFICES ASSUME call'.id \in drawn' PROVE ~call'.is_market /\ InBand(c.side, c.price)
      BY <1>2
    <3>1. InRandom /\ c.kind = "limit"
      BY <1>1, <1>2, <2>1
    <3>2. ~call'.is_market
      BY <1>2, <3>1
    <3>3. done >= 26 /\ done' = done + 1
      BY <1>1, <1>3, <3>1 DEF InRandom
    <3>4. done' > Fixed
      BY <1>3, <3>3
    <3> QED
      BY <1>4, <3>1, <3>2, <3>4 DEF CallAt
  <2>4. \A i \in drawn' \cap DOMAIN resting' : InBand(resting'[i].side, resting'[i].price)
    BY <1>1, <1>2, <1>5, <2>1 DEF DrawnOK
  <2> QED
    BY <1>2, <2>2, <2>3, <2>4 DEF DrawnOK
<1>12. RoomOK'
  BY <1>2, <1>5 DEF RoomOK, RestIds
<1> QED
  BY <1>6, <1>7, <1>8, <1>9, <1>10, <1>11, <1>12 DEF SceneOK

\* A cancel of the scenario.
LEMMA SceneCancels ==
    ASSUME XInv, NEW c \in Coming, c.kind = "cancel", call_logger(c)
    PROVE  SceneOK'
<1>1. /\ cancel(c.qty) /\ done' = done + 1 /\ drawn' = drawn
  BY DEF call_logger, log_cancel
<1>2. /\ call.pc = "idle" /\ UNCHANGED <<next_id, call, out>>
      /\ resting' = Without(resting, c.qty)
  BY <1>1 DEF cancel
<1>3. /\ ~Busy /\ ~Busy' /\ done \in Nat /\ RandomOps \in Nat /\ Fixed = 26
  BY <1>2, SceneFacts DEF Busy
<1>4. done' \in {17, 18} /\ done + 1 <= Fixed + RandomOps + 2
  BY <1>1, <1>3, ComingFacts DEF CallAt
<1>5. /\ DOMAIN resting' \subseteq DOMAIN resting
      /\ \A i \in DOMAIN resting' : resting'[i] = resting[i]
  BY <1>2 DEF Without, Restrict
<1>6. /\ PlaceOK /\ ApartOK /\ DrawnOK /\ RoomOK
  BY DEF XInv, SceneOK
<1>7. PlaceOK'
  BY <1>1, <1>2, <1>3, <1>4, <1>6 DEF PlaceOK, IdAfter, Fixed
<1>8. ApartOK' /\ CallOK' /\ EnoughOK'
  BY <1>3, <1>5, <1>6 DEF ApartOK, CallOK, EnoughOK
<1>9. SuppliesOK'
  BY <1>4 DEF SuppliesOK, Supplies
<1>10. DrawnOK' /\ RoomOK'
  BY <1>1, <1>2, <1>3, <1>5, <1>6 DEF DrawnOK, RoomOK, RestIds
<1> QED
  BY <1>7, <1>8, <1>9, <1>10 DEF SceneOK

\* A trade: by a market order, or by one of the two crossing calls.
LEMMA SceneTrades ==
    ASSUME XInv, EInv', NEW i \in DOMAIN resting, Trade(i), UNCHANGED <<done, drawn, submission>>
    PROVE  SceneOK'
<1>1. PICK q \in Nat :
         /\ q <= call.qty /\ call' = [call EXCEPT !.qty = @ - q]
         /\ DOMAIN resting' \subseteq DOMAIN resting
         /\ \A j \in DOMAIN resting \ {i} : j \in DOMAIN resting' /\ resting'[j] = resting[j]
         /\ \A j \in DOMAIN resting' : /\ resting'[j].side = resting[j].side
                                      /\ resting'[j].price = resting[j].price
         /\ \A j \in Nat : LeftOf(j)' = IF j = i THEN LeftOf(j) - q ELSE LeftOf(j)
  BY TradeMoves, SceneFacts
<1>2. /\ Matching /\ IsMaker(i) /\ next_id' = next_id /\ done' = done /\ drawn' = drawn
      /\ resting[i].side = Opposite(call.side)
  BY DEF Trade, IsMaker
<1>3. /\ BookInv /\ ApartOK /\ PlaceOK /\ CallOK /\ SuppliesOK /\ EnoughOK /\ DrawnOK /\ RoomOK
      /\ call.side \in Side /\ call.price \in Nat /\ call.qty \in Nat /\ done \in Nat
      /\ Busy /\ call \in Call /\ Fixed = 26
      /\ DOMAIN resting \subseteq Nat
  <2>1. DOMAIN resting \subseteq 1..(next_id - 1) /\ next_id \in 1..(MaxId + 1)
    BY SceneFacts
  <2> QED
    BY <1>2, <2>1, SceneFacts, OrderAssumption DEF SceneOK, Busy, Matching, BookInv, TypeOK
<1>4. /\ Busy' /\ call'.side = call.side /\ call'.price = call.price /\ call'.id = call.id
      /\ call'.is_market = call.is_market /\ call'.qty = call.qty - q
  BY <1>1, <1>3 DEF Busy, Call
<1>5. call.is_market \/ (done \in Crossing /\ ~Apart(call.side, call.price))
  BY <1>2, <1>3, NoMaker DEF ApartOK
<1>6. PlaceOK'
  BY <1>2, <1>3 DEF PlaceOK
<1>7. ApartOK'
  BY <1>1, <1>2, <1>3, <1>4 DEF ApartOK
<1>8. done \in 19..26 => done \in Crossing
  BY <1>3, <1>5 DEF CallOK
<1>9. CallOK'
  BY <1>2, <1>3, <1>4, <1>8 DEF CallOK, Supplies, Crossing
<1>10. SuppliesOK'
  <2> SUFFICES ASSUME NEW n \in Supplies, n < done, done < Until(n)
               PROVE  /\ n - 2 \in DOMAIN resting'
                      /\ resting'[n - 2] = [side |-> Script[n].side, price |-> Script[n].price,
                                            quantity |-> Script[n].qty]
    BY <1>2, <1>4 DEF SuppliesOK
  <2>1. done \in 19..26 /\ done = 25 /\ n \in {22, 23}
    BY <1>3, <1>8 DEF Supplies, Until, Crossing
  <2>2. /\ n - 2 \in DOMAIN resting
        /\ resting[n - 2] = [side |-> Script[n].side, price |-> Script[n].price,
                             quantity |-> Script[n].qty]
    BY <1>3 DEF SuppliesOK
  <2>3. call.side = "Buy" /\ Script[n].side = "Buy"
    BY <1>3, <2>1, ScriptEntries DEF CallOK, Limit
  <2>4. n - 2 # i
    BY <1>2, <2>2, <2>3 DEF Opposite
  <2> QED
    BY <1>1, <2>2, <2>4
<1>11. EnoughOK'
  <2> SUFFICES ASSUME done \in Crossing PROVE EnoughOK'
    BY <1>2 DEF EnoughOK
  <2>1. PICK a \in Nat, b \in Nat : a = Pair(done).a /\ b = Pair(done).b /\ a # b
    BY DEF Pair
  <2>2. Takes(a) /\ Takes(b) /\ call.qty <= LeftOf(a) + LeftOf(b)
    BY <1>3, <2>1 DEF EnoughOK
  <2>3. Takes(a)' /\ Takes(b)'
    BY <1>1, <1>4, <2>2 DEF Takes
  <2>4. LeftOf(a) \in Nat /\ LeftOf(b) \in Nat
    BY <1>3, OrderAssumption DEF LeftOf, BookInv, TypeOK, Order, Qtys
  <2>5. call.qty - q <= LeftOf(a)' + LeftOf(b)'
    BY <1>1, <1>3, <2>1, <2>2, <2>4
  <2> QED
    BY <1>2, <1>4, <2>1, <2>3, <2>5 DEF EnoughOK
<1>12. DrawnOK'
  <2>1. call.id \notin drawn
    <3> SUFFICES ASSUME call.id \in drawn PROVE FALSE
      OBVIOUS
    <3>1. ~call.is_market /\ InBand(call.side, call.price)
      BY <1>3 DEF DrawnOK
    <3>2. Apart(call.side, call.price)
      BY <1>3, <3>1 DEF InBand, Apart
    <3> QED
      BY <1>5, <3>1, <3>2
  <2>2. \A n \in DOMAIN out' : out'[n].taker_id = call.id
    <3>1. SubmissionOK' /\ BookInv'
      BY DEF EInv
    <3>2. CallInv(submission.id, submission.kind = "market", submission.qty)'
      BY <1>4, <3>1 DEF SubmissionOK
    <3> QED
      BY <1>4, <3>2 DEF CallInv
  <2> QED
    BY <1>1, <1>2, <1>3, <1>4, <2>1, <2>2 DEF DrawnOK
<1>13. RoomOK'
  BY <1>1, <1>3 DEF RoomOK, RestIds
<1> QED
  BY <1>6, <1>7, <1>9, <1>10, <1>11, <1>12, <1>13 DEF SceneOK

\* A crossing call never rests: its supplies are enough for it.
LEMMA CrossingFilled == ASSUME XInv, Rest PROVE done \notin Crossing
<1> SUFFICES ASSUME done \in Crossing PROVE FALSE
  OBVIOUS
<1>1. /\ Busy /\ call.qty > 0 /\ \A j \in DOMAIN resting : ~IsMaker(j)
  BY SceneFacts DEF Rest, MatchOver, Matching, Busy
<1>2. PICK a \in Nat, b \in Nat : a = Pair(done).a /\ b = Pair(done).b
  BY DEF Pair
<1>3. Takes(a) /\ Takes(b) /\ call.qty <= LeftOf(a) + LeftOf(b) /\ call.qty \in Nat
  BY <1>1, <1>2, SceneFacts DEF SceneOK, EnoughOK
<1>4. ~(LeftOf(a) = 0 /\ LeftOf(b) = 0)
  BY <1>1, <1>3
<1>5. PICK i \in {a, b} : i \in DOMAIN resting
  BY <1>4 DEF LeftOf
<1>6. /\ resting[i].side = Opposite(call.side)
      /\ Ahead(Opposite(call.side), resting[i].price, call.price)
  BY <1>3, <1>5 DEF Takes
<1>7. \E j \in DOMAIN resting : IsMaker(j)
  BY <1>5, <1>6, MakerExists, SceneFacts
<1> QED
  BY <1>1, <1>7

\* What the call in progress leaves may rest.
LEMMA RestRoom ==
    ASSUME XInv, Busy, ~call.is_market
    PROVE  call.id \in RestIds
<1>1. /\ done \in Nat /\ RandomOps \in Nat /\ Fixed = 26 /\ PlaceOK /\ CallOK
      /\ call.id = next_id - 1 /\ call.id >= 1
  BY SceneFacts DEF SceneOK
<1>2. done <= 26 + RandomOps /\ done \notin {15, 16, 17, 18} /\ call.id = IdAfter(done) - 1
  BY <1>1 DEF PlaceOK, CallOK
<1>3. CASE done <= 14
  <2>1. call.id = done
    BY <1>1, <1>2, <1>3 DEF IdAfter
  <2>2. done \in 1..14
    <3>1. done >= 1
      BY <1>1, <2>1
    <3> QED
      BY <1>1, <1>3, <3>1
  <2> QED
    BY <2>1, <2>2 DEF RestIds
<1>4. CASE done >= 19
  <2>1. call.id = done - 2
    BY <1>1, <1>2, <1>4 DEF IdAfter
  <2>2. call.id \in 17..(24 + RandomOps)
    BY <1>1, <1>2, <1>4, <2>1
  <2> QED
    BY <2>2 DEF RestIds
<1> QED
  BY <1>1, <1>2, <1>3, <1>4

\* A remainder rests.
LEMMA SceneRests ==
    ASSUME XInv, Rest, UNCHANGED <<done, drawn>>
    PROVE  SceneOK'
<1>1. /\ Matching /\ ~call.is_market /\ call.qty > 0
      /\ resting' = With(resting, call.id, Remainder)
      /\ call' = IdleCall /\ next_id' = next_id /\ out' = out /\ done' = done /\ drawn' = drawn
  BY DEF Rest, MatchOver
<1>2. /\ ApartOK /\ PlaceOK /\ CallOK /\ SuppliesOK /\ DrawnOK /\ RoomOK
      /\ Busy /\ call.id = next_id - 1 /\ call.id \notin DOMAIN resting
      /\ done \in Nat /\ ~Busy'
  BY <1>1, SceneFacts DEF SceneOK, Busy, Matching, IdleCall
<1>3. PICK r : r = [side |-> call.side, price |-> call.price, quantity |-> call.qty]
  OBVIOUS
<1>4. /\ DOMAIN resting' = DOMAIN resting \cup {call.id}
      /\ resting'[call.id] = r
      /\ \A j \in DOMAIN resting : resting'[j] = resting[j]
  BY <1>1, <1>2, <1>3 DEF With, Remainder
<1>5. Apart(call.side, call.price)
  BY <1>1, <1>2, CrossingFilled DEF ApartOK
<1>6. PlaceOK'
  BY <1>1, <1>2 DEF PlaceOK
<1>7. ApartOK' /\ CallOK' /\ EnoughOK'
  BY <1>2, <1>3, <1>4, <1>5 DEF ApartOK, CallOK, EnoughOK
<1>8. SuppliesOK'
  <2> SUFFICES ASSUME NEW n \in Supplies, n <= done, done < Until(n)
               PROVE  /\ n - 2 \in DOMAIN resting'
                      /\ resting'[n - 2] = [side |-> Script[n].side, price |-> Script[n].price,
                                            quantity |-> Script[n].qty]
    BY <1>1, <1>2 DEF SuppliesOK, Supplies
  <2>1. CASE n < done
    <3>1. /\ n - 2 \in DOMAIN resting
          /\ resting[n - 2] = [side |-> Script[n].side, price |-> Script[n].price,
                               quantity |-> Script[n].qty]
      BY <1>2, <2>1 DEF SuppliesOK
    <3> QED
      BY <1>4, <3>1
  <2>2. CASE n = done
    <3>1. call.id = n - 2
      BY <1>2, <2>2 DEF PlaceOK, IdAfter, Supplies
    <3>2. /\ call.side = Script[n].side /\ call.price = Script[n].price
          /\ call.qty = Script[n].qty
      BY <1>2, <2>2 DEF CallOK, Supplies
    <3> QED
      BY <1>3, <1>4, <3>1, <3>2
  <2> QED
    BY <1>2, <2>1, <2>2 DEF Supplies
<1>9. DrawnOK'
  BY <1>1, <1>2, <1>3, <1>4 DEF DrawnOK
<1>10. RoomOK'
  BY <1>1, <1>2, <1>4, RestRoom DEF RoomOK, RestIds
<1> QED
  BY <1>6, <1>7, <1>8, <1>9, <1>10 DEF SceneOK

\* A submission ends with nothing to rest; the supplies never do.
LEMMA SceneReturns ==
    ASSUME XInv, Return, UNCHANGED <<done, drawn>>
    PROVE  SceneOK'
<1>1. /\ Matching /\ (call.is_market \/ call.qty = 0)
      /\ call' = IdleCall /\ UNCHANGED <<next_id, resting, out, done, drawn>>
  BY DEF Return, MatchOver
<1>2. /\ ApartOK /\ PlaceOK /\ CallOK /\ SuppliesOK /\ DrawnOK /\ RoomOK
      /\ Busy /\ ~Busy' /\ done \in Nat
  BY <1>1, SceneFacts DEF SceneOK, Busy, Matching, IdleCall
<1>3. done \notin Supplies
  BY <1>1, <1>2, ScriptEntries DEF CallOK, Supplies, Limit
<1>4. SuppliesOK'
  BY <1>1, <1>2, <1>3 DEF SuppliesOK, Supplies
<1>5. PlaceOK' /\ ApartOK' /\ CallOK' /\ EnoughOK' /\ DrawnOK' /\ RoomOK'
  BY <1>1, <1>2 DEF PlaceOK, ApartOK, CallOK, EnoughOK, DrawnOK, RoomOK, RestIds
<1> QED
  BY <1>4, <1>5 DEF SceneOK

\* Steps that leave the book and the call alone.
LEMMA SceneSame ==
    ASSUME XInv, UNCHANGED <<next_id, resting, call, out, done, drawn>>
    PROVE  SceneOK'
<1>1. SceneOK
  BY DEF XInv
<1> QED
  BY <1>1 DEF SceneOK, PlaceOK, ApartOK, CallOK, SuppliesOK, EnoughOK, DrawnOK, RoomOK, RestIds,
     Busy, Takes, LeftOf

-----------------------------------------------------------------------------
\* Every step of the scenario is one of the logger.
LEMMA SceneIsLogged == XInv /\ [XNext]_xvars => [ENext]_evars
<1> SUFFICES ASSUME XInv, [XNext]_xvars PROVE [ENext]_evars
  OBVIOUS
<1>1. ASSUME NEW c \in Coming, call_logger(c) PROVE ENext
  <2>1. CallAt(c, done + 1)
    BY ComingFacts, SceneFacts
  <2>2. CASE c.kind = "cancel"
    <3>1. c.qty \in Ids /\ log_cancel(c.qty)
      BY <1>1, <2>1, <2>2, ExportAssumption, OrderAssumption DEF call_logger, CallAt, Ids
    <3> QED
      BY <3>1 DEF ENext
  <2>3. CASE c.kind = "limit"
    <3>1. c.side \in Side /\ c.price \in Prices /\ c.qty \in Qtys
          /\ log_submit("limit", c.side, c.price, c.qty)
      BY <1>1, <2>1, <2>3 DEF call_logger, CallAt
    <3> QED
      BY <3>1 DEF ENext
  <2>4. CASE c.kind = "market"
    <3>1. c.side \in Side /\ c.qty \in Qtys /\ log_submit("market", c.side, 0, c.qty)
      BY <1>1, <2>1, <2>4 DEF call_logger, CallAt
    <3> QED
      BY <3>1 DEF ENext
  <2> QED
    BY <2>1, <2>2, <2>3, <2>4 DEF CallAt
<1> QED
  BY <1>1 DEF XNext, ENext, xvars, evars, vars

\* XInv is inductive.
LEMMA SceneInductive == XInv /\ [XNext]_xvars => XInv'
<1> SUFFICES ASSUME XInv, [XNext]_xvars PROVE XInv'
  OBVIOUS
<1>1. EInv'
  <2>1. EInv
    BY DEF XInv
  <2>2. [ENext]_evars
    BY SceneIsLogged
  <2> QED
    BY <2>1, <2>2, LogInductive
<1>2. ASSUME NEW c \in Coming, call_logger(c) PROVE SceneOK'
  <2>1. CASE c.kind = "cancel"
    BY <1>2, <2>1, SceneCancels
  <2>2. CASE c.kind # "cancel"
    BY <1>2, <2>2, SceneSubmits
  <2> QED
    BY <2>1, <2>2
<1>3. ASSUME LogEngine, UNCHANGED <<done, drawn>> PROVE SceneOK'
  <2>1. UNCHANGED <<done, drawn, submission>>
    BY <1>3 DEF LogEngine
  <2>2. ASSUME NEW i \in DOMAIN resting, Trade(i) PROVE SceneOK'
    BY <1>1, <2>1, <2>2, SceneTrades
  <2>3. CASE Rest
    BY <2>1, <2>3, SceneRests
  <2>4. CASE Return
    BY <2>1, <2>4, SceneReturns
  <2> QED
    BY <1>3, <2>2, <2>3, <2>4 DEF LogEngine
<1>4. ASSUME log_done, UNCHANGED <<done, drawn>> PROVE SceneOK'
  BY <1>4, SceneSame DEF log_done, vars
<1>5. ASSUME UNCHANGED xvars PROVE SceneOK'
  BY <1>5, SceneSame DEF xvars, evars, vars
<1> QED
  BY <1>1, <1>2, <1>3, <1>4, <1>5 DEF XNext, XInv

\* XInv holds before the first call.
LEMMA SceneInit == XInit => XInv
<1> SUFFICES ASSUME XInit PROVE XInv
  OBVIOUS
<1>1. EInv /\ next_id = 1 /\ DOMAIN resting = {} /\ ~Busy /\ DOMAIN out = {} /\ done = 0 /\ drawn = {}
  BY LogInit DEF XInit, EInit, Init, Empty, IdleCall, Busy
<1>2. PlaceOK
  BY <1>1, ExportAssumption, ScriptLength DEF PlaceOK, IdAfter
<1>3. ApartOK /\ CallOK /\ EnoughOK /\ DrawnOK /\ RoomOK
  BY <1>1 DEF ApartOK, CallOK, EnoughOK, DrawnOK, RoomOK
<1>4. SuppliesOK
  BY <1>1 DEF SuppliesOK, Supplies
<1> QED
  BY <1>1, <1>2, <1>3, <1>4 DEF XInv, SceneOK

\* XInv is an invariant of the scenario.
LEMMA SceneInvariant == XSpec => []XInv
<1> QED
  BY SceneInit, SceneInductive, PTL DEF XSpec

\* The random limit orders of phase 7 only ever rest, on their own side of 100,
\* however many there are and whatever they ask for: phases 1 to 6 leave no order
\* beyond 100 on either side (export_events.cpp:106).
THEOREM RandomOrdersRest == XSpec => []RandomLimitsRest
<1>1. XInv => RandomLimitsRest
  BY DEF XInv, SceneOK, DrawnOK, RandomLimitsRest, InBand
<1> QED
  BY <1>1, SceneInvariant, PTL

\* What is exported is a log of the logger, so that LogMirrors and LogTradesMatch
\* hold of it: whoever replays the file has the books that the engine had.
THEOREM ScenarioIsLogged == XSpec => ESpec
<1>1. XInit => EInit
  BY DEF XInit
<1> QED
  BY <1>1, SceneIsLogged, SceneInvariant, PTL DEF XSpec, ESpec

\* Whenever a limit order is in progress the pool has a slot for its remainder.
PoolSuffices == Busy /\ ~call.is_market => Cardinality(DOMAIN resting) < Capacity

\* No call of the scenario throws: with 22 slots and one more for each random call
\* submit_limit never finds the pool used up, so that the scenario needs no step
\* for an exception (export_events.cpp:34, order_pool.hpp:42).
THEOREM NobodyRefused == XSpec => []PoolSuffices
<1>1. XInv => PoolSuffices
  <2> SUFFICES ASSUME XInv, Busy, ~call.is_market PROVE Cardinality(DOMAIN resting) < Capacity
    BY DEF PoolSuffices
  <2>1. DOMAIN resting \subseteq RestIds \ {call.id} /\ call.id \in RestIds
    <3>1. call.id \in RestIds
      BY RestRoom
    <3>2. SceneOK /\ call.id \notin DOMAIN resting
      BY SceneFacts
    <3> QED
      BY <3>1, <3>2 DEF SceneOK, RoomOK
  <2>2. RandomOps \in Nat /\ Capacity \in Nat /\ Capacity >= 22 + RandomOps
    BY ExportAssumption, OrderAssumption
  <2>3. IsFiniteSet(1..14) /\ Cardinality(1..14) = 14
    <3>1. PICK a \in Int, b \in Int : a = 1 /\ b = 14
      OBVIOUS
    <3>2. IsFiniteSet(a..b) /\ Cardinality(a..b) = IF a > b THEN 0 ELSE b - a + 1
      BY FS_Interval
    <3> QED
      BY <3>1, <3>2
  <2>4. IsFiniteSet(17..(24 + RandomOps)) /\ Cardinality(17..(24 + RandomOps)) = 8 + RandomOps
    BY <2>2, FS_Interval
  <2>5. IsFiniteSet(RestIds) /\ Cardinality(RestIds) = 22 + RandomOps
    <3>1. (1..14) \cap (17..(24 + RandomOps)) = {}
      BY <2>2
    <3>2. /\ IsFiniteSet(RestIds)
          /\ Cardinality(RestIds) = Cardinality(1..14) + Cardinality(17..(24 + RandomOps))
                                     - Cardinality((1..14) \cap (17..(24 + RandomOps)))
      BY <2>3, <2>4, FS_Union DEF RestIds
    <3>3. Cardinality((1..14) \cap (17..(24 + RandomOps))) = 0
      BY <3>1, FS_EmptySet
    <3> QED
      BY <2>2, <2>3, <2>4, <3>2, <3>3
  <2>6. IsFiniteSet(RestIds \ {call.id}) /\ Cardinality(RestIds \ {call.id}) = 22 + RandomOps - 1
    <3>1. PICK x, S : x = call.id /\ S = RestIds
      OBVIOUS
    <3>2. Cardinality(S \ {x}) = Cardinality(S) - 1 /\ IsFiniteSet(S \ {x})
      BY <2>1, <2>5, <3>1, FS_RemoveElement
    <3> QED
      BY <2>2, <2>5, <3>1, <3>2
  <2>7. Cardinality(DOMAIN resting) <= 22 + RandomOps - 1 /\ Cardinality(DOMAIN resting) \in Nat
    BY <2>1, <2>6, FS_Subset, FS_CardinalityType
  <2> QED
    BY <2>2, <2>7
<1> QED
  BY <1>1, SceneInvariant, PTL

===============================================================================
