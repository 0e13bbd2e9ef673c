-------------------------------- MODULE MCClient --------------------------------
(***************************************************************************)
(* The deployments that TLC checks the client in: a server without the     *)
(* WASM module and with overlapping requests; the same with navigations;   *)
(* the same with a client that resets the server; the WASM module alone;   *)
(* and both, with a network that may fail.                                 *)
(***************************************************************************)
EXTENDS Client

ServerOnly == [server |-> TRUE, wasm |-> FALSE, fails |-> FALSE, resets |-> FALSE,
               shown |-> 1, qty |-> 2, ids |-> 4, flight |-> 2, rows |-> 1, reloads |-> 0]

\* A navigation with fills in part, and one with answers that overtake each other.
ServerReload  == [ServerOnly EXCEPT !.flight = 1, !.reloads = 1]
ServerOverlap == [ServerOnly EXCEPT !.qty = 1, !.reloads = 1]

Resets == [ServerOnly EXCEPT !.resets = TRUE, !.qty = 1, !.ids = 3]

WasmOnly == [server |-> FALSE, wasm |-> TRUE, fails |-> FALSE, resets |-> FALSE,
             shown |-> 2, qty |-> 2, ids |-> 3, flight |-> 1, rows |-> 4, reloads |-> 1]

Both == [server |-> TRUE, wasm |-> TRUE, fails |-> TRUE, resets |-> FALSE,
         shown |-> 1, qty |-> 1, ids |-> 3, flight |-> 2, rows |-> 1, reloads |-> 0]

BothReload == [Both EXCEPT !.flight = 1, !.reloads = 1]

MCDeployments ==
    {ServerOnly, ServerReload, ServerOverlap, Resets, WasmOnly, Both, BothReload}
===============================================================================
