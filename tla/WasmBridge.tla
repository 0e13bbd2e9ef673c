------------------------------ MODULE WasmBridge ------------------------------
(***************************************************************************)
(* The C interface of the WASM module (matching_engine/src/                *)
(* wasm_bridge.cpp): the same calls as the server's, without HTTP, lock    *)
(* and validation.  The first call creates the engine.  An int of the      *)
(* caller becomes uint64: one below 0 is a huge price or quantity; prices  *)
(* and quantities are modulo MaxPrice + 1 and MaxQty + 1, which stand for  *)
(* 2^64.                                                                   *)
(***************************************************************************)
EXTENDS SharedState

\* g_state, before the first call.
g_state == SharedInit(FALSE)

\* if (!g_state.eng) init_engine(g_state), the first statement of every call
\* but wasm_reset, which is then at its next statement.
first_call ==
    /\ job = NoJob /\ ~eng
    /\ init_engine
    /\ job' = [NoJob EXCEPT !.pc = "entered"]

\* static_cast<uint64_t> of an int, and the ints a caller may pass.
ToPrice(price_i) == price_i % (MaxPrice + 1)
ToQty(qty_i)     == qty_i % (MaxQty + 1)

Ints(max) == -1..(max - 1)

wasm_submit_limit(side, price_i, qty_i) ==
    SubmitLimit(side, ToPrice(price_i), ToQty(qty_i))

wasm_submit_market(side, qty_i) == SubmitMarket(side, ToQty(qty_i))

\* What follows the engine call of a submission.
wasm_submitted == submit_done

\* An int below 0 is the id of no order.
wasm_cancel(id) == CancelOrder(id)

wasm_tick == BeginTick

\* The statements of wasm_tick, which repeats the two functions of the server.
wasm_minimum_liquidity == maintain_liquidity

wasm_batch == dispatch_workload_tick

wasm_reset == job = NoJob /\ init_engine /\ UNCHANGED job

wasm_call ==
    \/ \E side \in Side, price_i \in Ints(MaxPrice), qty_i \in Ints(MaxQty) :
          wasm_submit_limit(side, price_i, qty_i)
    \/ \E side \in Side, qty_i \in Ints(MaxQty) : wasm_submit_market(side, qty_i)
    \/ \E id \in {-1} \cup Ids : wasm_cancel(id)
    \/ wasm_tick

WasmNext ==
    \/ EngineStep \/ EngineThrows \/ wasm_submitted
    \/ wasm_minimum_liquidity \/ wasm_batch
    \/ wasm_call
    \/ first_call
    \/ wasm_reset
===============================================================================
