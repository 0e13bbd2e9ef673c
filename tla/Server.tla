-------------------------------- MODULE Server --------------------------------
(***************************************************************************)
(* The HTTP server (matching_engine/src/server.cpp).  main creates the     *)
(* engine; a handler validates its request before it takes s_mu, and holds *)
(* it from there to its response, so job serialises the handlers.          *)
(***************************************************************************)
EXTENDS SharedState

CONSTANTS
    IntMod,      \* 2^32: an id in a request is cast to int
    MaxWrap      \* bound of the model: ids in requests are below (MaxWrap + 1) * IntMod

ASSUME ServerAssumption ==
    IntMod \in Nat /\ IntMod > 2 * MaxId /\ MaxWrap \in Nat

main == SharedInit(TRUE)

post_submit_limit(side, price, qty) ==
    /\ price > 0 /\ qty > 0
    /\ SubmitLimit(side, price, qty)

post_submit_market(side, qty) ==
    /\ qty > 0
    /\ SubmitMarket(side, qty)

\* The ids a client can send: those of this engine, and those an int wraps to.
RawIds == {IntMod * w + i : i \in Ids, w \in 0..MaxWrap}

\* static_cast<int>; an int below 0 is the id of no order.
ToInt(raw) == raw % IntMod

post_cancel(raw) == CancelOrder(ToInt(raw))

post_tick == BeginTick

post_reset == job = NoJob /\ init_engine /\ UNCHANGED job

ServerNext ==
    \/ Handler
    \/ \E side \in Side, price \in Prices, qty \in Qtys :
          post_submit_limit(side, price, qty)
    \/ \E side \in Side, qty \in Qtys : post_submit_market(side, qty)
    \/ \E raw \in RawIds : post_cancel(raw)
    \/ post_tick
    \/ post_reset
===============================================================================
