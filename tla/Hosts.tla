--------------------------------- MODULE Hosts ---------------------------------
(***************************************************************************)
(* Either program around an engine: the two share their state and most of  *)
(* their code, and are asked the same questions.                           *)
(***************************************************************************)
EXTENDS Server, WasmBridge

VARIABLE host    \* the program that runs: "server" or "wasm"

hvars == <<svars, host>>

HInit == \/ host = "server" /\ main
         \/ host = "wasm" /\ g_state

HNext == /\ \/ host = "server" /\ ServerNext
            \/ host = "wasm" /\ WasmNext
         /\ UNCHANGED host

\* A call that has begun runs on; no call is ever forced to come.
HSpec == HInit /\ [][HNext]_hvars
               /\ WF_hvars(UNCHANGED host /\ (Handler \/ (job # NoJob /\ wasm_call)))
===============================================================================
