------------------------------ MODULE SharedState ------------------------------
(***************************************************************************)
(* The state around one engine and what both programs that own one do with *)
(* it (matching_engine/src/shared_state.hpp, and the bodies that           *)
(* server.cpp and wasm_bridge.cpp have in common).  The engine is the      *)
(* abstract LimitOrderBook.                                                *)
(*                                                                         *)
(* job is the call being handled and where it is: a step before and a step *)
(* after each engine call it makes, with the steps of the engine between.  *)
(* In the server it holds s_mu from its first access to its response; the  *)
(* WASM module is called by one thread.  The random generator is any       *)
(* choice.  A request that fails validation changes nothing and is left    *)
(* out, and so is a benchmark, which works on an engine of its own.        *)
(***************************************************************************)
EXTENDS SimulatedMarket, SequencesExt

CONSTANTS
    MaxBatch,  \* operations of one tick (5)
    RingCap    \* TRADE_RING_CAP (20)

ASSUME SharedAssumption == MaxBatch \in Nat \ {0} /\ RingCap \in Nat \ {0}

VARIABLES
    eng,      \* SharedState::eng is set
    live_ids, total_orders, total_trades, sim_time,
    trades,   \* the first trade_count entries of SharedState::trades
    fills,    \* the vector the answer is built from
    job,      \* the call being handled and where it is, or NoJob
    past      \* auxiliary: what happened since the last init_engine

counters == <<total_orders, total_trades, sim_time, trades>>
state    == <<eng, live_ids, mid, counters, fills>>
svars    == <<vars, state, job, past>>

NoJob == [pc |-> "none", left |-> 0, side |-> "Buy", id |-> 0, qty |-> 0]

\* log: the trades recorded; since: how many when the call began; made: ids
\* that traded as a maker; unseen: ids in fills that no handler recorded.
NoPast == [log |-> <<>>, since |-> 0, made |-> {}, unseen |-> {}]

\* A call begins: of the program's caller, or after the engine was created.
Entry == (job = NoJob /\ eng) \/ job.pc = "entered"

Entered == past' = [past EXCEPT !.since = Len(past.log)]

-----------------------------------------------------------------------------
(* shared_state.hpp.                                                        *)

\* Mutant of init_engine: live_ids is not cleared.
init_engine_KeepsLive ==
    /\ Reseed
    /\ eng' = TRUE
    /\ live_ids' = live_ids \cup DOMAIN Seeds
    /\ total_orders' = 0 /\ total_trades' = 0 /\ sim_time' = 0
    /\ trades' = <<>> /\ fills' = <<>>
    /\ past' = NoPast

\* A new engine, with the same seeds and the ids from 1 again.
init_engine ==
    /\ Reseed
    /\ eng' = TRUE
    /\ live_ids' = DOMAIN Seeds
    /\ total_orders' = 0 /\ total_trades' = 0 /\ sim_time' = 0
    /\ trades' = <<>> /\ fills' = <<>>
    /\ past' = NoPast

\* At the start of the program, with the engine already created or not.
SharedInit(created) ==
    /\ eng = created
    /\ IF created THEN Seeded /\ live_ids = DOMAIN Seeds
       ELSE Init /\ mid = MidInit /\ live_ids = {}
    /\ total_orders = 0 /\ total_trades = 0 /\ sim_time = 0
    /\ trades = <<>> /\ fills = <<>>
    /\ job = NoJob
    /\ past = NoPast

\* Mutant of Kept: the ring is one entry short once it is full.
Kept_Short(ring) == SubSeq(ring, 1, Lesser(Len(ring), RingCap - 2))

\* What stays of the ring when an entry is put in front: the oldest falls off.
Kept(ring) == SubSeq(ring, 1, Lesser(Len(ring), RingCap - 1))

\* The entry of the ring for a trade.
Stamped(trade, time) ==
    [t |-> time, price |-> trade.price, qty |-> trade.qty,
     buy_aggressor |-> trade.buy_aggressor]

add_trade(st, trade) ==
    [trades |-> <<Stamped(trade, st.time + 1)>> \o Kept(st.trades),
     time   |-> st.time + 1]

TradesOf(fs, side) ==
    [n \in DOMAIN fs |-> [price |-> fs[n].price, qty |-> fs[n].quantity,
                          buy_aggressor |-> side = "Buy"]]

Makers(fs) == {fs[n].maker_id : n \in DOMAIN fs}
Takers(fs) == {fs[n].taker_id : n \in DOMAIN fs}

\* Mutant of Remains: only an order without any fill remains.
Remains_Untouched == out = <<>> /\ job.qty > 0

\* The submission was not filled to its end: a limit order rests.
Remains == Filled(out) < job.qty

\* The loop over the fills that follows a submission, and what it inserts.
Record(rests) ==
    LET new == TradesOf(out, job.side)
        st  == FoldLeft(add_trade, [trades |-> trades, time |-> sim_time], new)
    IN  /\ total_orders' = total_orders + 1
        /\ trades' = st.trades
        /\ sim_time' = st.time
        /\ total_trades' = total_trades + Len(out)
        /\ live_ids' = (live_ids \ Makers(out))
                       \cup (IF rests /\ Remains THEN {job.id} ELSE {})
        /\ fills' = fills \o out
        /\ past' = [past EXCEPT !.log = @ \o new, !.made = @ \cup Makers(out)]

\* Fills that reach no response and no ring.
Overlook ==
    past' = [past EXCEPT !.made = @ \cup Makers(out),
                         !.unseen = @ \cup Makers(out) \cup Takers(out)]

-----------------------------------------------------------------------------
(* The engine, called by the handler.                                       *)

EngineStep ==
    /\ (\E i \in DOMAIN resting : Trade(i)) \/ Rest \/ Return
    /\ UNCHANGED <<state, job, past>>

\* bad_alloc leaves the handler with the fills made so far in its vector.
EngineThrows ==
    /\ Refuse
    /\ Overlook
    /\ job' = NoJob
    /\ UNCHANGED state

\* The handler makes its next engine call, a submission.
Submit(pc, side, price, is_market, qty) ==
    /\ Begin(side, price, is_market, qty)
    /\ job' = [job EXCEPT !.pc = pc, !.side = side, !.id = next_id, !.qty = qty]
    /\ UNCHANGED <<eng, live_ids, mid, counters>>

-----------------------------------------------------------------------------
(* Submissions and cancels of a client.                                     *)

SubmitLimit(side, price, qty) ==
    /\ Entry
    /\ Submit("limit", side, price, FALSE, qty)
    /\ fills' = <<>>
    /\ Entered

SubmitMarket(side, qty) ==
    /\ Entry
    /\ Submit("market", side, 0, TRUE, qty)
    /\ fills' = <<>>
    /\ Entered

submit_done ==
    /\ job.pc \in {"limit", "market"} /\ ~Busy
    /\ Record(job.pc = "limit")
    /\ job' = NoJob
    /\ UNCHANGED <<vars, eng, mid>>

\* Mutant of remove_live: the id stays in live_ids.
remove_live_Not(id) == live_ids

remove_live(id) == live_ids \ {id}

\* A client's cancel: the id leaves live_ids if the engine had it.
CancelOrder(id) ==
    /\ Entry
    /\ cancel(id)
    /\ live_ids' = IF id \in DOMAIN resting THEN remove_live(id) ELSE live_ids
    /\ job' = NoJob
    /\ UNCHANGED <<eng, mid, counters, fills, past>>

-----------------------------------------------------------------------------
(* A tick: maintain_liquidity, then dispatch_workload_tick.                 *)

\* Bound of the model: a tick starts only if ids are left for both liquidity
\* orders; when none is left for the batch, its operations are cancels.
BeginTick ==
    /\ Entry
    /\ next_id + 1 <= MaxId
    /\ job' = [NoJob EXCEPT !.pc = "bids"]
    /\ Entered
    /\ UNCHANGED <<vars, state>>

\* Mutant of AfterCheck: the batch goes on with the vector as it is.
AfterCheck_KeepsFills(vec) ==
    /\ fills' = vec
    /\ IF job.pc \in {"bids", "bids_call"} THEN job' = [NoJob EXCEPT !.pc = "asks"]
       ELSE \E n \in 1..MaxBatch : job' = [NoJob EXCEPT !.pc = "batch", !.left = n]

\* The next of the two checks, then the batch of n operations, whose fills are
\* collected from none.
AfterCheck(vec) ==
    IF job.pc \in {"bids", "bids_call"}
    THEN fills' = vec /\ job' = [NoJob EXCEPT !.pc = "asks"]
    ELSE /\ fills' = <<>>
         /\ \E n \in 1..MaxBatch : job' = [NoJob EXCEPT !.pc = "batch", !.left = n]

maintain_skip ==
    /\ \/ job.pc = "bids" /\ ~NoSide("Buy")
       \/ job.pc = "asks" /\ ~NoSide("Sell")
    /\ AfterCheck(fills)
    /\ UNCHANGED <<vars, eng, live_ids, mid, counters, past>>

maintain_bids ==
    /\ job.pc = "bids" /\ NoSide("Buy")
    /\ Submit("bids_call", "Buy", mid - 1, FALSE, SeedQty)
    /\ fills' = <<>>
    /\ UNCHANGED past

maintain_asks ==
    /\ job.pc = "asks" /\ NoSide("Sell")
    /\ Submit("asks_call", "Sell", mid + 1, FALSE, SeedQty)
    /\ fills' = <<>>
    /\ UNCHANGED past

\* live_ids.insert(nid), whatever became of the order; its fills are dropped.
maintain_done ==
    /\ job.pc \in {"bids_call", "asks_call"} /\ ~Busy
    /\ live_ids' = live_ids \cup {job.id}
    /\ Overlook
    /\ AfterCheck(out)
    /\ UNCHANGED <<vars, eng, mid, counters>>

maintain_liquidity == maintain_skip \/ maintain_bids \/ maintain_asks \/ maintain_done

\* Mutant of NextOperation: the operations are not counted.
NextOperation_Uncounted ==
    job' = [NoJob EXCEPT !.pc = "batch", !.left = job.left]

\* The end of one iteration of the batch, or of the handler.
NextOperation ==
    job' = IF job.left = 1 THEN NoJob
           ELSE [NoJob EXCEPT !.pc = "batch", !.left = job.left - 1]

tick_limit(side, offset, qty) ==
    /\ job.pc = "batch"
    /\ Submit("tick_limit", side, LimitPrice(side, offset), FALSE, qty)
    /\ UNCHANGED <<fills, past>>

tick_market(side, qty) ==
    /\ job.pc = "batch"
    /\ Submit("tick_market", side, 0, TRUE, qty)
    /\ UNCHANGED <<fills, past>>

tick_limit_done ==
    /\ job.pc = "tick_limit" /\ ~Busy
    /\ Record(TRUE)
    /\ MoveMid
    /\ NextOperation
    /\ UNCHANGED <<vars, eng>>

tick_market_done ==
    /\ job.pc = "tick_market" /\ ~Busy
    /\ Record(FALSE)
    /\ NextOperation
    /\ UNCHANGED <<vars, eng, mid>>

\* A random id of live_ids; a stale one stays, for the next tick to draw.
tick_cancel(id) ==
    /\ job.pc = "batch"
    /\ id \in live_ids
    /\ cancel(id)
    /\ live_ids' = IF id \in DOMAIN resting THEN remove_live(id) ELSE live_ids
    /\ NextOperation
    /\ UNCHANGED <<eng, mid, counters, fills, past>>

tick_cancel_none ==
    /\ job.pc = "batch"
    /\ live_ids = {}
    /\ NextOperation
    /\ UNCHANGED <<vars, state, past>>

dispatch_workload_tick ==
    \/ \E side \in Side, qty \in Qtys \ {0} :
          \/ \E offset \in 0..MaxOffset : tick_limit(side, offset, qty)
          \/ tick_market(side, qty)
    \/ tick_limit_done
    \/ tick_market_done
    \/ \E id \in live_ids : tick_cancel(id)
    \/ tick_cancel_none

\* What a call does once it has begun.
Handler ==
    EngineStep \/ EngineThrows \/ submit_done
    \/ maintain_liquidity \/ dispatch_workload_tick

-----------------------------------------------------------------------------
Trade_ == [t : Nat, price : Prices, qty : Qtys \ {0}, buy_aggressor : BOOLEAN]

STypeOK ==
    /\ TypeOK
    /\ live_ids \subseteq 1..(next_id - 1)
    /\ mid \in MidMin..MidMax
    /\ total_orders \in 0..MaxId
    /\ total_trades \in Nat
    /\ trades \in Seq(Trade_) /\ Len(trades) <= RingCap
    /\ fills \in Seq(Fill)
    /\ job.id \in 0..MaxId
    /\ Busy => job # NoJob
    /\ ~eng => next_id = 1

\* The ring shows the most recent trades, newest first, none missing or
\* repeated, with consecutive times, however many fills one request brings and
\* however often the ring was full (shared_state.hpp:76-82).
RingIsRecent ==
    LET log == past.log
        n   == Len(log)
    IN  /\ sim_time = n /\ total_trades = n
        /\ Len(trades) = Lesser(n, RingCap)
        /\ \A k \in DOMAIN trades :
              trades[k] = Stamped(log[n + 1 - k], n + 1 - k)

\* The simulation can cancel every order that has never traded as a maker: a
\* resting order missing from live_ids was filled in part (server.cpp:212,
\* :296, :333 drop a maker although the rest of it is still in the book).
UntouchedIsLive ==
    job = NoJob => DOMAIN resting \ past.made \subseteq live_ids

\* An id in live_ids that is not in the book comes from fills that no handler
\* recorded: a crossing liquidity order, or a submission that threw
\* (server.cpp:183, :189, :288).  Every other path keeps the set exact.
StaleOnlyUnseen ==
    job = NoJob => live_ids \ DOMAIN resting \subseteq past.unseen

\* The answer of a call carries exactly the trades that the call put in the
\* ring, in their order: not those of a liquidity order that the tick placed
\* first, and none of an earlier call (wasm_bridge.cpp:52, :76, :120;
\* server.cpp:287, :327, :359).
AnswerIsRecorded ==
    [][job # NoJob /\ job' = NoJob /\ ~Busy =>
         LET new == SubSeq(past'.log, past'.since + 1, Len(past'.log))
         IN  /\ Len(fills') = Len(new)
             /\ \A n \in DOMAIN new : /\ fills'[n].price = new[n].price
                                      /\ fills'[n].quantity = new[n].qty]_svars

\* Every call is answered: no handler keeps s_mu for ever.
RequestAnswered == job # NoJob ~> job = NoJob
===============================================================================
