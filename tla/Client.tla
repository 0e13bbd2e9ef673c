-------------------------------- MODULE Client --------------------------------
(***************************************************************************)
(* The browser page (docs/script.js) over two engines: the native server,  *)
(* reached by asynchronous requests, and the WASM module in the page.      *)
(*                                                                         *)
(* A call of the page is one slot of calls: sent, then answered by the     *)
(* server, then continued in the page, in any order among the calls in     *)
(* flight; a fetch may also fail at any time, and the call then goes to    *)
(* WASM.  A WASM call has no await that lets another task in: it is one    *)
(* step.  Reload is a navigation away and back: rows survive in session    *)
(* storage, everything else in the page is new, WASM included.             *)
(*                                                                         *)
(* An engine is what the page can tell of it: ids and the quantity left in *)
(* each resting order.  Prices are left out, so that any resting orders    *)
(* may be the makers of a submission, and any tick may find a side of the  *)
(* book empty; it submits at most one liquidity order and simulates at     *)
(* most one operation.                                                     *)
(***************************************************************************)
EXTENDS Naturals, Sequences, FiniteSets, Functions

CONSTANT
    Deployments  \* where the page may run; see Deployment

\* A deployment: is a server there when the page looks for it, was engine.js
\* found, may the fetch of a call be rejected, may another client reset the
\* server, the rows that the page shows (50); and the bounds of the model for it:
\* the largest quantity, the ids of an engine, the calls in flight, the rows
\* beyond which nothing more is submitted, and the navigations.
Deployment == [server : BOOLEAN, wasm : BOOLEAN, fails : BOOLEAN, resets : BOOLEAN,
               shown : Nat \ {0}, qty : Nat \ {0}, ids : Nat \ {0},
               flight : Nat \ {0}, rows : Nat, reloads : Nat]

ASSUME ClientAssumption == Deployments \subseteq Deployment

VARIABLES
    site,        \* the deployment
    engine,      \* "native" or "wasm" -> the engine
    useNative, engineReady,
    health,      \* the fetch of /health: "pending" or "done"
    calls,       \* slot -> the call in flight, or NoCall
    orders,      \* the rows of the page, with those it shows no more
    dropped,     \* how many it shows no more: userOrders has the rows after them
    map,         \* userOrderMap: id -> position in orders
    session,     \* currentSessionIds
    saved,       \* session storage
    reloads,     \* navigations so far
    missed,      \* auxiliary: native ids with fills that found no row to go to,
                 \* or with a row that was not shown when the page was left
    mixed        \* auxiliary: ids that both engines have given out, or the server
                 \* before it was reset

page  == <<orders, dropped, map, session>>
cvars == <<site, engine, useNative, engineReady, health, calls, page, saved, reloads,
           missed, mixed>>

Qtys  == 1..site.qty
Slots == 1..site.flight

Nothing == [i \in {} |-> 0]
NoCall  == [stage |-> "free", kind |-> "tick", id |-> 0, qty |-> 0, native |-> TRUE,
            answer |-> 0, fills |-> Nothing]

At(f, i)   == IF i \in DOMAIN f THEN f[i] ELSE 0
Total(f)   == SumFunction(f)
Drop(f, S) == Restrict(f, DOMAIN f \ S)
Put(f, i, v) == [j \in DOMAIN f \cup {i} |-> IF j = i THEN v ELSE f[j]]

-----------------------------------------------------------------------------
(* An engine, as far as the page can tell.                                  *)

\* After init_engine: one order stands for the seeds.  traded and lost are
\* auxiliary: what each later order traded, and which of them traded with a
\* liquidity order, whose fills are in no answer.
NewEngine == [next_id |-> 2, book |-> [i \in {1} |-> site.qty],
              traded |-> Nothing, lost |-> {}]

\* The orders that were filled, without the seed, which no page submitted.
Later(fills) == DOMAIN fills \ {1}

\* What a submission of qty can take from the book: whole orders, and of the
\* last one a part, if that ends the submission.
Fillings(book, qty) ==
    {f \in UNION {[S -> Qtys] : S \in SUBSET DOMAIN book} :
       LET partly == {i \in DOMAIN f : f[i] < book[i]}
       IN  /\ \A i \in DOMAIN f : f[i] <= book[i]
           /\ Total(f) <= qty
           /\ Cardinality(partly) <= 1
           /\ partly # {} => Total(f) = qty}

Executed(e, qty, f, rests) ==
    LET gone == {i \in DOMAIN f : f[i] = e.book[i]}
        left == [i \in DOMAIN e.book \ gone |-> e.book[i] - At(f, i)]
    IN  [e EXCEPT !.next_id = @ + 1,
                  !.book = IF rests /\ Total(f) < qty
                           THEN Put(left, e.next_id, qty - Total(f)) ELSE left,
                  !.traded = Put([i \in DOMAIN @ |-> @[i] + At(f, i)],
                                 e.next_id, Total(f))]

\* The outcomes of a call: the engine after it, the id and the fills answered.
Submitted(e, qty, rests, id) ==
    {[engine |-> Executed(e, qty, f, rests), answer |-> id, fills |-> f] :
        f \in IF e.next_id <= site.ids THEN Fillings(e.book, qty) ELSE {}}

Cancelled(e, id) ==
    IF id \in DOMAIN e.book
    THEN [engine |-> [e EXCEPT !.book = Drop(@, {id})],
          answer |-> id, fills |-> Nothing]
    ELSE [engine |-> e, answer |-> 0, fills |-> Nothing]

\* The engine when a side of its book was empty, or not: the liquidity order may
\* trade with the other side, and its fills are cleared.
Maintained(e) ==
    {e} \cup {[r.engine EXCEPT !.lost = @ \cup Later(r.fills)] :
                r \in UNION {Submitted(e, q, TRUE, 0) : q \in Qtys}}

\* One operation of the simulation, or none; a tick answers the id 0.
Simulated(e) ==
    {[engine |-> e, answer |-> 0, fills |-> Nothing]}
    \cup {[Cancelled(e, i) EXCEPT !.answer = 0] : i \in DOMAIN e.book}
    \cup (UNION {Submitted(e, q, rests, 0) : q \in Qtys, rests \in BOOLEAN})

Ticked(e) == UNION {Simulated(m) : m \in Maintained(e)}

Outcomes(e, c) ==
    CASE c.kind = "limit"  -> Submitted(e, c.qty, TRUE, e.next_id)
      [] c.kind = "market" -> Submitted(e, c.qty, FALSE, 0)
      [] c.kind = "cancel" -> {Cancelled(e, c.id)}
      [] c.kind = "tick"   -> Ticked(e)

-----------------------------------------------------------------------------
(* The rows of the page.                                                    *)

Open(row) == row.status \in {"OPEN", "PARTIAL"}

\* Mutant of Reached: fills are processed from any session.
Reached_AnySession(fills, native) ==
    {i \in DOMAIN fills \cap DOMAIN map : orders[map[i]].status # "CANCELED"}

\* The rows that the fills of an answer reach, in the mode of the page.
Reached(fills, native) ==
    {i \in DOMAIN fills \cap DOMAIN map :
        /\ native \/ i \in session
        /\ orders[map[i]].status # "CANCELED"}

\* Mutant of Refilled: any fill completes the order.
Refilled_Eager(row, qty) ==
    LET filled == IF row.filled + qty > row.orig THEN row.orig ELSE row.filled + qty
    IN  [row EXCEPT !.filled = filled, !.status = "FILLED"]

Refilled(row, qty) ==
    LET filled == IF row.filled + qty > row.orig THEN row.orig ELSE row.filled + qty
    IN  [row EXCEPT !.filled = filled,
                    !.status = IF filled >= row.orig THEN "FILLED" ELSE "PARTIAL"]

\* applyFillsState: the rows and the map after the fills.
RowsFilled(fills, native) ==
    [k \in DOMAIN orders |->
       LET hits == {i \in Reached(fills, native) : map[i] = k}
       IN  IF hits = {} THEN orders[k]
           ELSE Refilled(orders[k], fills[CHOOSE i \in hits : TRUE])]

\* Mutant of MapFilled: a row that is done is still tracked.
MapFilled_KeepsDone(fills, native) == map

MapFilled(fills, native) ==
    LET rows == RowsFilled(fills, native)
    IN  Drop(map, {i \in Reached(fills, native) : rows[map[i]].status = "FILLED"})

\* Mutant of NewRow: the fills that came with the answer are not counted.
NewRow_Unfilled(c, r, home) ==
    [id |-> r.answer, orig |-> c.qty, filled |-> 0, home |-> home,
     status |-> IF c.kind = "market" THEN "REJECTED" ELSE "OPEN"]

\* addUserOrder: id 0 is null; home is auxiliary, the engine of the order.
NewRow(c, r, home) ==
    LET filled == Total(r.fills)
    IN  [id |-> r.answer, orig |-> c.qty, filled |-> filled, home |-> home,
         status |-> IF filled >= c.qty THEN "FILLED"
                    ELSE IF filled > 0 THEN "PARTIAL"
                    ELSE IF c.kind = "market" THEN "REJECTED" ELSE "OPEN"]

\* The oldest row goes when there are too many.
ShiftRows ==
    dropped' = IF Len(orders') - dropped > site.shown THEN dropped + 1 ELSE dropped

\* Mutant of AfterSubmit: the id is not added to currentSessionIds.
AfterSubmit_NoSession(c, r, native, home) ==
    LET rows == RowsFilled(r.fills, native)
        open == MapFilled(r.fills, native)
    IN  /\ orders' = Append(rows, NewRow(c, r, home))
        /\ ShiftRows
        /\ map' = IF r.answer > 0 THEN Put(open, r.answer, Len(rows) + 1) ELSE open
        /\ UNCHANGED session

\* What follows the await of a submission: the fills, then the new row.
AfterSubmit(c, r, native, home) ==
    LET rows == RowsFilled(r.fills, native)
        open == MapFilled(r.fills, native)
    IN  /\ orders' = Append(rows, NewRow(c, r, home))
        /\ ShiftRows
        /\ map' = IF r.answer > 0 THEN Put(open, r.answer, Len(rows) + 1) ELSE open
        /\ session' = IF r.answer > 0 /\ ~native THEN session \cup {r.answer} ELSE session

\* Mutant of AfterCancel: the row is marked but still tracked.
AfterCancel_Tracked(id, wasm) ==
    /\ orders' = IF id \in DOMAIN map
                 THEN [orders EXCEPT ![map[id]].status = "CANCELED"] ELSE orders
    /\ UNCHANGED <<map, dropped>>
    /\ session' = IF wasm /\ id \in DOMAIN map THEN session \ {id} ELSE session

\* What follows the await of a cancel, whatever the answer was.
AfterCancel(id, wasm) ==
    /\ orders' = IF id \in DOMAIN map
                 THEN [orders EXCEPT ![map[id]].status = "CANCELED"] ELSE orders
    /\ map' = Drop(map, {id})
    /\ UNCHANGED dropped
    /\ session' = IF wasm /\ id \in DOMAIN map THEN session \ {id} ELSE session

AfterTick(r, native) ==
    /\ orders' = RowsFilled(r.fills, native)
    /\ map' = MapFilled(r.fills, native)
    /\ UNCHANGED <<session, dropped>>

\* The rest of call c with answer r, in a page in native mode or not.
Continue(c, r, native, home) ==
    CASE c.kind \in {"limit", "market"} -> AfterSubmit(c, r, native, home)
      [] c.kind = "cancel" -> AfterCancel(c.id, ~c.native)
      [] c.kind = "tick"   -> AfterTick(r, native)

-----------------------------------------------------------------------------
(* callEngine.                                                              *)

\* One call from start to end in the WASM engine of the page.
WasmCall(c) ==
    /\ engineReady
    /\ \E r \in Outcomes(engine["wasm"], c) :
          /\ engine' = [engine EXCEPT !["wasm"] = r.engine]
          /\ Continue(c, r, FALSE, "wasm")

\* No engine answers: a submission ends, a cancel still marks its row.
NoEngine(c) ==
    /\ ~engineReady
    /\ IF c.kind = "cancel" THEN AfterCancel(c.id, ~c.native) ELSE UNCHANGED page
    /\ UNCHANGED engine

FirstFree(n) == calls[n] = NoCall /\ \A k \in 1..(n - 1) : calls[k] # NoCall

\* The request of c leaves the page.
Send(c) ==
    \E n \in Slots : /\ FirstFree(n)
                    /\ calls' = [calls EXCEPT ![n] = [c EXCEPT !.stage = "sent"]]

Request(kind, id, qty) ==
    [NoCall EXCEPT !.kind = kind, !.id = id, !.qty = qty, !.native = useNative]

Start(kind, id, qty) ==
    LET c == Request(kind, id, qty)
    IN  /\ IF useNative
           THEN Send(c) /\ UNCHANGED <<engine, page>>
           ELSE (WasmCall(c) \/ NoEngine(c)) /\ UNCHANGED calls
        /\ UNCHANGED <<useNative, engineReady, health, saved, reloads, missed>>

\* The submit button of the form.
Submit(kind, qty) == Len(orders) < site.rows /\ Start(kind, 0, qty)

\* The button in row k.
cancelOrder(k) ==
    /\ k > dropped
    /\ Open(orders[k]) /\ orders[k].id # 0
    /\ Start("cancel", orders[k].id, 0)

\* The timer of the simulation.
generateBatch == Start("tick", 0, 0)

\* The server handles the request of call n.
Serve(n) ==
    /\ calls[n].stage = "sent"
    /\ \E r \in Outcomes(engine["native"], calls[n]) :
          /\ engine' = [engine EXCEPT !["native"] = r.engine]
          /\ calls' = [calls EXCEPT ![n].stage = "answered", ![n].answer = r.answer,
                                    ![n].fills = r.fills]
    /\ UNCHANGED <<useNative, engineReady, health, page, saved, reloads, missed>>

\* Another client of the server: its fills are in no answer to this page.
OtherClient ==
    /\ site.server
    /\ \E r \in Ticked(engine["native"]) :
          /\ engine' = [engine EXCEPT !["native"] = r.engine]
          /\ missed' = missed \cup Later(r.fills)
    /\ UNCHANGED <<useNative, engineReady, health, calls, page, saved, reloads>>

\* A client resets the server, which gives its ids out again.
ServerReset ==
    /\ site.server /\ site.resets
    /\ engine' = [engine EXCEPT !["native"] = NewEngine]
    /\ UNCHANGED <<useNative, engineReady, health, calls, page, saved, reloads, missed>>

\* Native ids that have no row, or only rows that were marked CANCELED.
Rowless(S) == {i \in S : \A k \in DOMAIN orders :
                  orders[k].id = i => orders[k].status = "CANCELED"}

\* The answer of call n arrives, in whatever mode the page is now.
Receive(n) ==
    /\ calls[n].stage = "answered"
    /\ Continue(calls[n], calls[n], useNative, "native")
    /\ calls' = [calls EXCEPT ![n] = NoCall]
    /\ missed' = missed \cup IF useNative THEN Rowless(Later(calls[n].fills))
                             ELSE Later(calls[n].fills)
    /\ UNCHANGED <<engine, useNative, engineReady, health, saved, reloads>>

\* The fetch of call n is rejected, before or after the server handled it.
FetchFails(n) ==
    /\ site.fails
    /\ calls[n] # NoCall
    /\ WasmCall(calls[n]) \/ NoEngine(calls[n])
    /\ useNative' = FALSE
    /\ calls' = [calls EXCEPT ![n] = NoCall]
    /\ missed' = missed \cup Later(calls[n].fills)
    /\ UNCHANGED <<engineReady, health, saved, reloads>>

-----------------------------------------------------------------------------
(* Start-up and navigation.                                                 *)

\* The saved rows, after those of the page; the open ones are tracked again.
tryRestoreState ==
    LET rows == orders \o saved
        back == {k \in DOMAIN rows : k > dropped /\ rows[k].id # 0 /\ Open(rows[k])}
    IN  /\ orders' = rows
        /\ UNCHANGED dropped
        /\ map' = [i \in DOMAIN map \cup {rows[k].id : k \in back} |->
                     IF \E k \in back : rows[k].id = i
                     THEN CHOOSE k \in back : /\ rows[k].id = i
                                              /\ \A j \in back : rows[j].id = i => j <= k
                     ELSE map[i]]

\* Its tick, and the timer it starts, are generateBatch.
startEngineInit(native) ==
    /\ tryRestoreState
    /\ IF native THEN UNCHANGED <<engine, session>>
       ELSE /\ session' = {}
            /\ engine' = [engine EXCEPT !["wasm"] = NewEngine]

HealthAnswers ==
    /\ health = "pending"
    /\ health' = "done"
    /\ \/ /\ site.server
          /\ useNative' = TRUE
          /\ IF engineReady THEN UNCHANGED <<engine, page>> ELSE startEngineInit(TRUE)
       \/ UNCHANGED <<engine, useNative, page>>
    /\ UNCHANGED <<engineReady, calls, saved, reloads, missed>>

onRuntimeInitialized ==
    /\ site.wasm
    /\ ~engineReady
    /\ engineReady' = TRUE
    /\ startEngineInit(useNative)
    /\ UNCHANGED <<useNative, health, calls, saved, reloads, missed>>

\* A row in session storage: its WASM engine ends with the page.
Kept(row) == IF row.home = "wasm" THEN [row EXCEPT !.home = "old"] ELSE row

\* saveState, and a new page.  Requests that have left the page may still be
\* handled: OtherClient.
Reload ==
    /\ reloads < site.reloads
    /\ reloads' = reloads + 1
    /\ saved' = [k \in 1..(Len(orders) - dropped) |-> Kept(orders[dropped + k])]
    /\ orders' = <<>> /\ dropped' = 0 /\ map' = Nothing /\ session' = {}
    /\ engine' = [engine EXCEPT !["wasm"] = NewEngine]
    /\ useNative' = FALSE /\ engineReady' = FALSE /\ health' = "pending"
    /\ missed' = missed \cup (UNION {Later(calls[n].fills) : n \in Slots})
                        \cup {orders[k].id : k \in 1..dropped}
    /\ calls' = [n \in Slots |-> NoCall]

CInit ==
    /\ site \in Deployments
    /\ engine = [m \in {"native", "wasm"} |-> NewEngine]
    /\ useNative = FALSE /\ engineReady = FALSE /\ health = "pending"
    /\ calls = [n \in Slots |-> NoCall]
    /\ orders = <<>> /\ dropped = 0 /\ map = Nothing /\ session = {}
    /\ saved = <<>> /\ reloads = 0 /\ missed = {} /\ mixed = {}

CNext ==
    /\ \/ \E kind \in {"limit", "market"}, qty \in Qtys : Submit(kind, qty)
       \/ \E k \in DOMAIN orders : cancelOrder(k)
       \/ generateBatch
       \/ \E n \in Slots : Serve(n) \/ Receive(n) \/ FetchFails(n)
       \/ OtherClient
       \/ ServerReset
       \/ HealthAnswers
       \/ onRuntimeInitialized
       \/ Reload
    /\ mixed' = mixed \cup (DOMAIN engine'["native"].traded \cap
                            DOMAIN engine'["wasm"].traded)
                     \cup (DOMAIN engine["native"].traded \
                            DOMAIN engine'["native"].traded)
    /\ UNCHANGED site

CSpec == CInit /\ [][CNext]_cvars

-----------------------------------------------------------------------------
\* The map leads to the row of the id, and a cancelled row is in it no more,
\* so a fill or the answer to a second cancel cannot bring it back
\* (script.js:137, :240, :249, :712-714).
TrackedOK ==
    \A i \in DOMAIN map : orders[map[i]].id = i /\ orders[map[i]].status # "CANCELED"

\* As long as the other engine has not given out its id, a row of the server
\* never claims more than the server traded: not when answers overtake each
\* other, nor when the page turns to WASM, nor after a navigation
\* (script.js:134-144).
FillsSound ==
    \A k \in DOMAIN orders :
       LET row == orders[k]
       IN  row.home = "native" /\ row.id \notin mixed \cup {0} =>
              /\ row.filled <= engine["native"].traded[row.id]
              /\ row.status = "FILLED" => row.id \notin DOMAIN engine["native"].book

\* Once no answer with a fill of the order is on its way, its row shows what
\* traded, unless a liquidity order of a tick took from it (server.cpp:357), or a
\* fill went to another client or arrived while the order had no row, or one
\* marked CANCELED, or the page was in WASM mode, or the order has two rows
\* because both starts of the page restored it, or its row was one of those no
\* longer shown when the page was left, or a reset of the server gives its id out
\* again (script.js:134-144, :201, :637; server.cpp:401-406).
FillsArrive ==
    \A k \in DOMAIN orders :
       LET row == orders[k]
       IN  /\ row.home = "native"
           /\ row.id \notin missed \cup mixed \cup engine["native"].lost \cup {0}
           /\ \A j \in DOMAIN orders : orders[j].id = row.id => j = k
           /\ \A n \in Slots : row.id \notin DOMAIN calls[n].fills
           => row.filled = engine["native"].traded[row.id]

\* Nothing of the WASM engine is ever in flight: as long as the server has not
\* given out its id, a row of this page's WASM engine shows what its order
\* traded after every call.  It shows less, and never more, in two cases only: a
\* liquidity order of a tick took from the order, whose fills are cleared
\* (wasm_bridge.cpp:120), or the page sent a cancel of it to the server while it
\* was in native mode, and the order is at work behind its row (script.js:134,
\* :204, :236).
SessionExact ==
    \A k \in DOMAIN orders :
       LET row    == orders[k]
           traded == engine["wasm"].traded[row.id]
       IN  row.home = "wasm" /\ row.id \notin mixed \cup {0} =>
              \/ row.filled = traded
              \/ /\ row.filled < traded
                 /\ \/ row.id \in engine["wasm"].lost
                    \/ row.status = "CANCELED" /\ site.server

\* A row that is done stays as it is, whatever answers are still to come and
\* whichever engine they are from, as long as no other row of the page has its
\* id (script.js:137, :141, :240).
StatusFinal ==
    [][\A k \in DOMAIN orders :
          /\ reloads' = reloads
          /\ orders[k].status \in {"FILLED", "CANCELED", "REJECTED"}
          /\ orders[k].id = 0 \/ \A j \in DOMAIN orders :
                                    orders[j].id = orders[k].id => j = k
          => orders'[k] = orders[k]]_cvars

\* "Restored orders from a previous session cannot receive fills from a fresh
\* engine" (script.js:131): while the page is in WASM mode a row of an earlier
\* WASM session gains nothing, whichever ids come again.
SessionFillsOnly ==
    [][\A k \in DOMAIN orders :
          /\ reloads' = reloads
          /\ ~useNative /\ ~useNative'
          /\ orders[k].home = "old"
          => orders'[k].filled = orders[k].filled]_cvars
===============================================================================
