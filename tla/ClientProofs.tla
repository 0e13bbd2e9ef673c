------------------------------ MODULE ClientProofs ------------------------------
(***************************************************************************)
(* Proofs about Client, for every set of deployments and any number of     *)
(* navigations, in whatever order calls, answers, failures and start-ups   *)
(* come: the map of the page leads to the right row; a row of the server   *)
(* never claims more than traded, and shows all of it in the end unless a  *)
(* fill was missed; a row of the session shows what its order traded; a    *)
(* row of an earlier session gains nothing; a row that is done stays.      *)
(*                                                                         *)
(* TrackInv: the map holds positions in a list that answers extend, that a *)
(* restore rebuilds and that a navigation empties, so every entry lies     *)
(* within the list, rows keep their id when they are filled, and two ids   *)
(* never share a row.  FillInv: what a row shows and what all answers in   *)
(* flight will add to it is no more than what traded, even for a row that  *)
(* its answer has yet to make.  ExactInv: a row of the session that is     *)
(* open is in the map and in the session, so that no fill of an answer     *)
(* passes it by.  SessInv: nothing in the session leads to a row of an     *)
(* earlier one.  DoneInv: a fill of a full row changes nothing, and a      *)
(* cancel on its way has an open row of its id or one that the map leads   *)
(* to no more.  ArriveInv: of a row that is alone and has missed nothing,  *)
(* FillInv holds with equality.                                            *)
(***************************************************************************)
EXTENDS Client, DataFacts

\* The rows of a page or of the session storage.
RowsOK(rows) ==
    /\ IsSeq(rows)
    /\ \A k \in DOMAIN rows : DOMAIN rows[k] = {"id", "orig", "filled", "home", "status"}

Kinds == {"limit", "market", "cancel", "tick"}

CallsOK ==
    /\ DOMAIN calls = Slots
    /\ \A n \in Slots : /\ DOMAIN calls[n] = DOMAIN NoCall
                        /\ calls[n].kind \in Kinds

\* Every entry of m leads to an open or a filled row with its id.
Leads(m, rows) ==
    \A i \in DOMAIN m : /\ m[i] \in DOMAIN rows
                        /\ rows[m[i]].id = i
                        /\ rows[m[i]].status # "CANCELED"

\* What the page shows no more is of its rows.
Shifted == dropped \in Nat /\ dropped <= Len(orders)

TrackInv ==
    /\ RowsOK(orders) /\ RowsOK(saved) /\ Shifted
    /\ CallsOK
    /\ Leads(map, orders)

-----------------------------------------------------------------------------
(* What each continuation does to the rows and the map.                     *)

LEMMA DropFacts ==
    ASSUME NEW f, NEW S
    PROVE  /\ DOMAIN Drop(f, S) = DOMAIN f \ S
           /\ \A i \in DOMAIN f \ S : Drop(f, S)[i] = f[i]
BY DEF Drop, Restrict

\* Fills leave every row its id and cancel none.
LEMMA RowsFilledFacts ==
    ASSUME RowsOK(orders), NEW fills, NEW native,
           NEW rows, rows = RowsFilled(fills, native)
    PROVE  /\ RowsOK(rows)
           /\ DOMAIN rows = DOMAIN orders
           /\ \A k \in DOMAIN orders :
                 /\ rows[k].id = orders[k].id /\ rows[k].home = orders[k].home
                 /\ orders[k].status # "CANCELED" => rows[k].status # "CANCELED"
<1>1. Len(orders) \in Nat /\ DOMAIN orders = 1..Len(orders)
  BY SeqFacts DEF RowsOK
<1>2. /\ DOMAIN rows = 1..Len(orders)
      /\ rows = [k \in 1..Len(orders) |-> rows[k]]
  BY <1>1 DEF RowsFilled
<1>3. ASSUME NEW k \in DOMAIN orders
      PROVE  /\ DOMAIN rows[k] = {"id", "orig", "filled", "home", "status"}
             /\ rows[k].id = orders[k].id /\ rows[k].home = orders[k].home
             /\ orders[k].status # "CANCELED" => rows[k].status # "CANCELED"
  <2>1. DOMAIN orders[k] = {"id", "orig", "filled", "home", "status"}
    BY DEF RowsOK
  <2>2. rows[k] = orders[k] \/ \E qty : rows[k] = Refilled(orders[k], qty)
    BY DEF RowsFilled
  <2>3. ASSUME NEW qty
        PROVE  LET row == Refilled(orders[k], qty)
               IN  /\ DOMAIN row = DOMAIN orders[k]
                   /\ row.id = orders[k].id /\ row.home = orders[k].home
                   /\ row.status # "CANCELED"
    BY <2>1 DEF Refilled
  <2> QED
    BY <2>1, <2>2, <2>3
<1> QED
  BY <1>1, <1>2, <1>3, FunctionIsSeq DEF RowsOK

\* The map after the fills leads to the rows after the fills.
LEMMA MapFilledLeads ==
    ASSUME RowsOK(orders), Leads(map, orders), NEW fills, NEW native
    PROVE  Leads(MapFilled(fills, native), RowsFilled(fills, native))
<1> DEFINE rows == RowsFilled(fills, native)
           m    == MapFilled(fills, native)
<1>1. DOMAIN m \subseteq DOMAIN map /\ \A i \in DOMAIN m : m[i] = map[i]
  <2>1. PICK S : m = Drop(map, S)
    BY DEF MapFilled
  <2> HIDE DEF m
  <2>2. DOMAIN m = DOMAIN map \ S /\ \A i \in DOMAIN map \ S : m[i] = map[i]
    BY <2>1, DropFacts
  <2> QED
    BY <2>2
<1>2. /\ DOMAIN rows = DOMAIN orders
      /\ \A k \in DOMAIN orders :
            /\ rows[k].id = orders[k].id
            /\ orders[k].status # "CANCELED" => rows[k].status # "CANCELED"
  BY RowsFilledFacts
<1> HIDE DEF rows, m
<1>3. Leads(m, rows)
  BY <1>1, <1>2 DEF Leads
<1> QED
  BY <1>3 DEF m, rows

LEMMA AfterSubmitTracks ==
    ASSUME RowsOK(orders), Leads(map, orders), NEW c, NEW r, NEW native, NEW home,
           AfterSubmit(c, r, native, home)
    PROVE  RowsOK(orders') /\ Leads(map', orders')
<1> DEFINE rows == RowsFilled(r.fills, native)
           open == MapFilled(r.fills, native)
           row  == NewRow(c, r, home)
           last == Len(rows) + 1
<1>1. RowsOK(rows) /\ Leads(open, rows)
  BY RowsFilledFacts, MapFilledLeads
<1>2. /\ orders' = Append(rows, row)
      /\ map' = IF r.answer > 0 THEN Put(open, r.answer, last) ELSE open
  BY DEF AfterSubmit
<1>3. /\ row.id = r.answer
      /\ row.status # "CANCELED"
      /\ DOMAIN row = {"id", "orig", "filled", "home", "status"}
  BY DEF NewRow
<1> HIDE DEF rows, open, row
<1>4. /\ IsSeq(orders')
      /\ DOMAIN orders' = DOMAIN rows \cup {last}
      /\ \A k \in DOMAIN rows : orders'[k] = rows[k]
      /\ orders'[last] = row
  <2>1. IsSeq(rows)
    BY <1>1 DEF RowsOK
  <2> QED
    BY <1>2, <2>1, AppendFacts
<1>5. RowsOK(orders')
  BY <1>1, <1>3, <1>4 DEF RowsOK
<1>6. Leads(open, orders')
  BY <1>1, <1>4 DEF Leads
<1>7. CASE map' = Put(open, r.answer, last)
  <2>1. /\ DOMAIN map' = DOMAIN open \cup {r.answer}
        /\ map'[r.answer] = last
        /\ \A i \in DOMAIN open \ {r.answer} : map'[i] = open[i]
    BY <1>7 DEF Put
  <2> QED
    BY <1>3, <1>4, <1>5, <1>6, <2>1 DEF Leads
<1> QED
  BY <1>2, <1>5, <1>6, <1>7

\* Two ids never share a row, so that only the id cancelled leaves the map.
LEMMA AfterCancelTracks ==
    ASSUME RowsOK(orders), Leads(map, orders), NEW id, NEW wasm, AfterCancel(id, wasm)
    PROVE  RowsOK(orders') /\ Leads(map', orders')
<1>1. /\ orders' = IF id \in DOMAIN map
                   THEN [orders EXCEPT ![map[id]].status = "CANCELED"] ELSE orders
      /\ DOMAIN map' = DOMAIN map \ {id}
      /\ \A i \in DOMAIN map \ {id} : map'[i] = map[i]
  BY DropFacts DEF AfterCancel
<1>2. CASE id \notin DOMAIN map
  BY <1>1, <1>2 DEF Leads
<1>3. CASE id \in DOMAIN map
  <2>1. Len(orders) \in Nat /\ DOMAIN orders = 1..Len(orders)
    BY SeqFacts DEF RowsOK
  <2>2. /\ orders' = [k \in 1..Len(orders) |-> orders'[k]]
        /\ DOMAIN orders' = DOMAIN orders
        /\ \A k \in DOMAIN orders : DOMAIN orders'[k] = DOMAIN orders[k]
        /\ \A k \in DOMAIN orders \ {map[id]} : orders'[k] = orders[k]
    BY <1>1, <1>3, <2>1
  <2>3. RowsOK(orders')
    BY <2>1, <2>2, FunctionIsSeq DEF RowsOK
  <2>4. \A i \in DOMAIN map \ {id} : map[i] # map[id]
    BY <1>3 DEF Leads
  <2> QED
    BY <1>1, <2>2, <2>3, <2>4 DEF Leads
<1> QED
  BY <1>2, <1>3

LEMMA AfterTickTracks ==
    ASSUME RowsOK(orders), Leads(map, orders), NEW r, NEW native, AfterTick(r, native)
    PROVE  RowsOK(orders') /\ Leads(map', orders')
BY RowsFilledFacts, MapFilledLeads DEF AfterTick

LEMMA ContinueTracks ==
    ASSUME RowsOK(orders), Leads(map, orders), NEW c, c.kind \in Kinds,
           NEW r, NEW native, NEW home, Continue(c, r, native, home)
    PROVE  RowsOK(orders') /\ Leads(map', orders')
<1>1. CASE c.kind \in {"limit", "market"}
  BY <1>1, AfterSubmitTracks DEF Continue
<1>2. CASE c.kind = "cancel"
  BY <1>2, AfterCancelTracks DEF Continue
<1>3. CASE c.kind = "tick"
  BY <1>3, AfterTickTracks DEF Continue
<1> QED
  BY <1>1, <1>2, <1>3 DEF Kinds

\* A call that ends within the page, in the WASM engine or without one.
LEMMA LocalCallTracks ==
    ASSUME RowsOK(orders), Leads(map, orders), NEW c, c.kind \in Kinds,
           WasmCall(c) \/ NoEngine(c)
    PROVE  RowsOK(orders') /\ Leads(map', orders')
<1>1. CASE WasmCall(c)
  <2>1. PICK r \in Outcomes(engine["wasm"], c) : Continue(c, r, FALSE, "wasm")
    BY <1>1 DEF WasmCall
  <2> QED
    BY <2>1, ContinueTracks
<1>2. CASE NoEngine(c)
  BY <1>2, AfterCancelTracks DEF NoEngine, page
<1> QED
  BY <1>1, <1>2

\* A restore extends the rows, and tracks the last open row of every saved id.
LEMMA RestoreTracks ==
    ASSUME RowsOK(orders), RowsOK(saved), Leads(map, orders), tryRestoreState
    PROVE  RowsOK(orders') /\ Leads(map', orders')
<1> DEFINE rows == orders \o saved
           back == {k \in DOMAIN rows : k > dropped /\ rows[k].id # 0 /\ Open(rows[k])}
           of(i) == {k \in back : rows[k].id = i}
           last(i) == CHOOSE k \in back : /\ rows[k].id = i
                                          /\ \A j \in back : rows[j].id = i => j <= k
<1>1. /\ orders' = rows
      /\ map' = [i \in DOMAIN map \cup {rows[k].id : k \in back} |->
                   IF \E k \in back : rows[k].id = i THEN last(i) ELSE map[i]]
  BY DEF tryRestoreState
<1>2. /\ IsSeq(rows)
      /\ \A k \in DOMAIN orders : k \in DOMAIN rows /\ rows[k] = orders[k]
      /\ \A k \in DOMAIN rows : \/ k \in DOMAIN orders
                                \/ \E j \in DOMAIN saved : rows[k] = saved[j]
  <2>1. IsSeq(orders) /\ IsSeq(saved)
    BY DEF RowsOK
  <2> QED
    <3>1. ASSUME NEW t, t = orders \o saved
          PROVE  /\ IsSeq(t)
                 /\ \A k \in DOMAIN orders : k \in DOMAIN t /\ t[k] = orders[k]
                 /\ \A k \in DOMAIN t : \/ k \in DOMAIN orders
                                        \/ \E j \in DOMAIN saved : t[k] = saved[j]
      <4>1. \A k \in DOMAIN t \ DOMAIN orders :
               /\ k - Len(orders) \in DOMAIN saved
               /\ t[k] = saved[k - Len(orders)]
        BY <2>1, <3>1, ConcatFacts
      <4>2. IsSeq(t) /\ \A k \in DOMAIN orders : k \in DOMAIN t /\ t[k] = orders[k]
        BY <2>1, <3>1, ConcatFacts
      <4> QED
        BY <4>1, <4>2
    <3> QED
      BY <3>1
<1> HIDE DEF rows
<1>3. RowsOK(rows)
  BY <1>2 DEF RowsOK
<1>4. ASSUME NEW i, \E k \in back : rows[k].id = i
      PROVE  /\ last(i) \in DOMAIN rows
             /\ rows[last(i)].id = i
             /\ rows[last(i)].status # "CANCELED"
  <2>1. of(i) \subseteq 1..Len(rows) /\ of(i) # {} /\ Len(rows) \in Nat
    BY <1>2, <1>4, SeqFacts
  <2>2. \E k \in of(i) : \A j \in of(i) : j <= k
    BY <2>1, GreatestPosition
  <2>3. \E k \in back : /\ rows[k].id = i
                        /\ \A j \in back : rows[j].id = i => j <= k
    BY <2>2
  <2>4. last(i) \in back /\ rows[last(i)].id = i
    BY <2>3
  <2> QED
    BY <2>4 DEF Open
<1>5. ASSUME NEW i \in DOMAIN map, ~ \E k \in back : rows[k].id = i
      PROVE  /\ map[i] \in DOMAIN rows
             /\ rows[map[i]].id = i
             /\ rows[map[i]].status # "CANCELED"
  BY <1>2 DEF Leads
<1> HIDE DEF last, back
<1>6. ASSUME NEW i \in DOMAIN map'
      PROVE  /\ map'[i] \in DOMAIN rows
             /\ rows[map'[i]].id = i
             /\ rows[map'[i]].status # "CANCELED"
  <2>1. i \in DOMAIN map \cup {rows[k].id : k \in back}
    BY <1>1
  <2>2. CASE \E k \in back : rows[k].id = i
    <3>1. map'[i] = last(i)
      BY <1>1, <2>1, <2>2
    <3> QED
      BY <1>4, <2>2, <3>1
  <2>3. CASE ~ \E k \in back : rows[k].id = i
    <3>1. map'[i] = map[i] /\ i \in DOMAIN map
      BY <1>1, <2>1, <2>3
    <3> QED
      BY <1>5, <2>3, <3>1
  <2> QED
    BY <2>2, <2>3
<1> QED
  BY <1>1, <1>3, <1>6 DEF Leads

LEMMA SameLength ==
    ASSUME NEW a \in Nat, NEW b \in Nat, 1..a = 1..b
    PROVE  a = b
<1>1. a > 0 => a \in 1..b
  BY SMT
<1>2. b > 0 => b \in 1..a
  BY SMT
<1> QED
  BY <1>1, <1>2

\* No more rows are dropped than there are, since only a new row drops one.
LEMMA ShiftedAfter ==
    ASSUME RowsOK(orders), RowsOK(orders'), Shifted, DOMAIN orders \subseteq DOMAIN orders',
           \/ dropped' = dropped
           \/ dropped' = dropped + 1 /\ Len(orders) + 1 \in DOMAIN orders'
    PROVE  Shifted'
<1>1. /\ Len(orders) \in Nat /\ DOMAIN orders = 1..Len(orders)
      /\ Len(orders') \in Nat /\ DOMAIN orders' = 1..Len(orders')
  BY SeqFacts DEF RowsOK
<1>2. Len(orders) <= Len(orders')
  <2>1. CASE Len(orders) = 0
    BY <1>1, <2>1
  <2>2. CASE Len(orders) # 0
    <3>1. Len(orders) \in DOMAIN orders
      BY <1>1, <2>2
    <3> QED
      BY <1>1, <3>1
  <2> QED
    BY <2>1, <2>2
<1> QED
  BY <1>1, <1>2 DEF Shifted

LEMMA ContinueShifted ==
    ASSUME RowsOK(orders), RowsOK(orders'), Shifted, NEW c, c.kind \in Kinds,
           NEW r, NEW native, NEW home, Continue(c, r, native, home)
    PROVE  Shifted'
<1>1. CASE c.kind \in {"limit", "market"}
  <2> DEFINE rows == RowsFilled(r.fills, native)
  <2>1. /\ orders' = Append(rows, NewRow(c, r, home))
        /\ dropped' = dropped \/ dropped' = dropped + 1
    BY <1>1 DEF Continue, AfterSubmit, ShiftRows
  <2>2. RowsOK(rows) /\ DOMAIN rows = DOMAIN orders
    BY RowsFilledFacts
  <2> HIDE DEF rows
  <2>3. /\ DOMAIN orders' = DOMAIN rows \cup {Len(rows) + 1}
        /\ Len(rows) \in Nat /\ DOMAIN rows = 1..Len(rows)
        /\ Len(orders) \in Nat /\ DOMAIN orders = 1..Len(orders)
    BY <2>1, <2>2, AppendFacts, SeqFacts DEF RowsOK
  <2>4. Len(rows) = Len(orders)
    BY <2>2, <2>3, SameLength
  <2> QED
    BY <2>1, <2>2, <2>3, <2>4, ShiftedAfter
<1>2. CASE c.kind = "cancel"
  BY <1>2, ShiftedAfter DEF Continue, AfterCancel
<1>3. CASE c.kind = "tick"
  BY <1>3, RowsFilledFacts, ShiftedAfter DEF Continue, AfterTick
<1> QED
  BY <1>1, <1>2, <1>3 DEF Kinds

LEMMA LocalCallShifted ==
    ASSUME RowsOK(orders), RowsOK(orders'), Shifted, NEW c, c.kind \in Kinds,
           WasmCall(c) \/ NoEngine(c)
    PROVE  Shifted'
<1>1. CASE WasmCall(c)
  <2>1. PICK r \in Outcomes(engine["wasm"], c) : Continue(c, r, FALSE, "wasm")
    BY <1>1 DEF WasmCall
  <2> QED
    BY <2>1, ContinueShifted
<1>2. CASE NoEngine(c)
  BY <1>2, ShiftedAfter DEF NoEngine, page, AfterCancel
<1> QED
  BY <1>1, <1>2

LEMMA RestoreShifted ==
    ASSUME RowsOK(orders), RowsOK(saved), RowsOK(orders'), Shifted, tryRestoreState
    PROVE  Shifted'
<1>1. orders' = orders \o saved /\ dropped' = dropped
  BY DEF tryRestoreState
<1>2. DOMAIN orders \subseteq DOMAIN orders'
  BY <1>1, ConcatFacts DEF RowsOK
<1> QED
  BY <1>1, <1>2, ShiftedAfter

-----------------------------------------------------------------------------
(* Steps.                                                                   *)

\* The calls keep their shape when one is sent, answered or taken away.
LEMMA CallsAfter ==
    ASSUME CallsOK, site' = site, NEW n \in Slots,
           \/ \E c : /\ DOMAIN c = DOMAIN NoCall /\ c.kind \in Kinds
                     /\ calls' = [calls EXCEPT ![n] = c]
           \/ \E answer, fills :
                 calls' = [calls EXCEPT ![n].stage = "answered", ![n].answer = answer,
                                        ![n].fills = fills]
    PROVE  CallsOK'
<1>1. Slots' = Slots
  BY DEF Slots
<1>2. CASE \E c : /\ DOMAIN c = DOMAIN NoCall /\ c.kind \in Kinds
                  /\ calls' = [calls EXCEPT ![n] = c]
  BY <1>1, <1>2 DEF CallsOK
<1>3. CASE \E answer, fills :
              calls' = [calls EXCEPT ![n].stage = "answered", ![n].answer = answer,
                                     ![n].fills = fills]
  <2>1. PICK answer, fills :
           calls' = [calls EXCEPT ![n].stage = "answered", ![n].answer = answer,
                                  ![n].fills = fills]
    BY <1>3
  <2>2. DOMAIN calls[n] = DOMAIN NoCall /\ calls[n].kind \in Kinds
    BY DEF CallsOK
  <2>3. /\ DOMAIN calls' = Slots
        /\ DOMAIN calls'[n] = DOMAIN NoCall
        /\ calls'[n].kind = calls[n].kind
        /\ \A k \in Slots \ {n} : calls'[k] = calls[k]
    BY <2>1, <2>2 DEF CallsOK, NoCall
  <2> QED
    BY <1>1, <2>2, <2>3 DEF CallsOK
<1> QED
  BY <1>2, <1>3

LEMMA StartTracks ==
    ASSUME TrackInv, site' = site, NEW kind \in Kinds, NEW id, NEW qty,
           Start(kind, id, qty)
    PROVE  TrackInv'
<1> DEFINE c == Request(kind, id, qty)
<1>1. DOMAIN c = DOMAIN NoCall /\ c.kind = kind
  BY DEF Request, NoCall
<1>2. saved' = saved
  BY DEF Start
<1>3. CASE useNative
  <2>1. Send(c) /\ UNCHANGED page
    BY <1>3 DEF Start
  <2>2. PICK n \in Slots : calls' = [calls EXCEPT ![n] = [c EXCEPT !.stage = "sent"]]
    BY <2>1 DEF Send
  <2>3. DOMAIN [c EXCEPT !.stage = "sent"] = DOMAIN NoCall
        /\ [c EXCEPT !.stage = "sent"].kind \in Kinds
    BY <1>1 DEF NoCall
  <2>4. CallsOK'
    BY <2>2, <2>3, CallsAfter DEF TrackInv
  <2> QED
    BY <1>2, <2>1, <2>4 DEF TrackInv, Shifted, page
<1>4. CASE ~useNative
  <2>1. (WasmCall(c) \/ NoEngine(c)) /\ calls' = calls
    BY <1>4 DEF Start
  <2>2. RowsOK(orders') /\ Leads(map', orders')
    BY <1>1, <2>1, LocalCallTracks DEF TrackInv
  <2>3. Shifted'
    BY <1>1, <2>1, <2>2, LocalCallShifted DEF TrackInv
  <2> QED
    BY <1>2, <2>1, <2>2, <2>3 DEF TrackInv, CallsOK, Slots
<1> QED
  BY <1>3, <1>4

LEMMA ServeTracks ==
    ASSUME TrackInv, site' = site, NEW n \in Slots, Serve(n)
    PROVE  TrackInv'
<1>1. PICK r \in Outcomes(engine["native"], calls[n]) :
         calls' = [calls EXCEPT ![n].stage = "answered", ![n].answer = r.answer,
                                ![n].fills = r.fills]
  BY DEF Serve
<1>2. CallsOK'
  BY <1>1, CallsAfter DEF TrackInv
<1> QED
  BY <1>2 DEF TrackInv, Shifted, Serve, page

\* A free slot may take the place of any call.
LEMMA FreedCalls ==
    ASSUME CallsOK, site' = site, NEW n \in Slots, calls' = [calls EXCEPT ![n] = NoCall]
    PROVE  CallsOK'
<1>1. NoCall.kind \in Kinds
  BY DEF NoCall, Kinds
<1> QED
  BY <1>1, CallsAfter

LEMMA ReceiveTracks ==
    ASSUME TrackInv, site' = site, NEW n \in Slots, Receive(n)
    PROVE  TrackInv'
<1>1. calls[n].kind \in Kinds
  BY DEF TrackInv, CallsOK
<1>2. RowsOK(orders') /\ Leads(map', orders')
  BY <1>1, ContinueTracks DEF TrackInv, Receive
<1>3. Shifted'
  BY <1>1, <1>2, ContinueShifted DEF TrackInv, Receive
<1> QED
  BY <1>2, <1>3, FreedCalls DEF TrackInv, Receive

LEMMA FetchFailsTracks ==
    ASSUME TrackInv, site' = site, NEW n \in Slots, FetchFails(n)
    PROVE  TrackInv'
<1>1. calls[n].kind \in Kinds
  BY DEF TrackInv, CallsOK
<1>2. RowsOK(orders') /\ Leads(map', orders')
  BY <1>1, LocalCallTracks DEF TrackInv, FetchFails
<1>3. Shifted'
  BY <1>1, <1>2, LocalCallShifted DEF TrackInv, FetchFails
<1> QED
  BY <1>2, <1>3, FreedCalls DEF TrackInv, FetchFails

\* Calls and saved rows that stay as they are.
LEMMA SameCalls ==
    ASSUME TrackInv, site' = site, UNCHANGED <<calls, saved>>,
           RowsOK(orders') /\ Leads(map', orders') /\ Shifted'
    PROVE  TrackInv'
BY DEF TrackInv, CallsOK, Slots

LEMMA StartUpTracks ==
    ASSUME TrackInv, site' = site, HealthAnswers \/ onRuntimeInitialized
    PROVE  TrackInv'
<1>1. UNCHANGED <<calls, saved>>
  BY DEF HealthAnswers, onRuntimeInitialized
<1>2. tryRestoreState \/ UNCHANGED page
  BY DEF HealthAnswers, onRuntimeInitialized, startEngineInit
<1>3. RowsOK(orders') /\ Leads(map', orders')
  BY <1>2, RestoreTracks DEF TrackInv, page
<1>4. Shifted'
  BY <1>2, <1>3, RestoreShifted DEF TrackInv, Shifted, page
<1> QED
  BY <1>1, <1>3, <1>4, SameCalls

\* A navigation leaves no row and no call, and saves rows like those there were.
LEMMA ReloadTracks ==
    ASSUME TrackInv, site' = site, Reload
    PROVE  TrackInv'
<1>1. Len(orders) \in Nat /\ DOMAIN orders = 1..Len(orders)
  BY SeqFacts DEF TrackInv, RowsOK
<1> DEFINE kept == Len(orders) - dropped
<1>2. kept \in Nat /\ \A k \in 1..kept : dropped + k \in DOMAIN orders
  BY <1>1 DEF TrackInv, Shifted
<1>3. saved' = [k \in 1..kept |-> Kept(orders[dropped + k])]
  BY DEF Reload
<1> HIDE DEF kept
<1>4. \A k \in 1..kept : DOMAIN saved'[k] = DOMAIN orders[dropped + k]
  BY <1>3 DEF Kept
<1>5. IsSeq(saved') /\ DOMAIN saved' = 1..kept
  BY <1>2, <1>3, FunctionIsSeq
<1>6. RowsOK(saved')
  BY <1>2, <1>4, <1>5 DEF TrackInv, RowsOK
<1>7. orders' = <<>> /\ DOMAIN map' = {} /\ dropped' = 0
  BY DEF Reload, Nothing
<1>8. RowsOK(orders') /\ Leads(map', orders') /\ Shifted'
  BY <1>7, EmptySeq DEF RowsOK, IsSeq, Leads, Shifted
<1>9. CallsOK'
  BY DEF Reload, CallsOK, Slots, NoCall, Kinds
<1> QED
  BY <1>6, <1>8, <1>9 DEF TrackInv

LEMMA TrackInductive == TrackInv /\ [CNext]_cvars => TrackInv'
<1> SUFFICES ASSUME TrackInv, [CNext]_cvars PROVE TrackInv'
  OBVIOUS
<1>1. site' = site
  BY DEF CNext, cvars
<1>2. ASSUME NEW kind \in {"limit", "market"}, NEW qty, Submit(kind, qty)
      PROVE  TrackInv'
  BY <1>1, <1>2, StartTracks DEF Submit, Kinds
<1>3. ASSUME NEW k, cancelOrder(k)
      PROVE  TrackInv'
  BY <1>1, <1>3, StartTracks DEF cancelOrder, Kinds
<1>4. ASSUME generateBatch
      PROVE  TrackInv'
  BY <1>1, <1>4, StartTracks DEF generateBatch, Kinds
<1>5. ASSUME NEW n \in Slots, Serve(n) \/ Receive(n) \/ FetchFails(n)
      PROVE  TrackInv'
  BY <1>1, <1>5, ServeTracks, ReceiveTracks, FetchFailsTracks
<1>6. ASSUME OtherClient \/ ServerReset
      PROVE  TrackInv'
  BY <1>1, <1>6, SameCalls DEF OtherClient, ServerReset, page, TrackInv, Shifted
<1>7. ASSUME HealthAnswers \/ onRuntimeInitialized
      PROVE  TrackInv'
  BY <1>1, <1>7, StartUpTracks
<1>8. ASSUME Reload
      PROVE  TrackInv'
  BY <1>1, <1>8, ReloadTracks
<1>9. ASSUME UNCHANGED cvars
      PROVE  TrackInv'
  BY <1>1, <1>9, SameCalls DEF cvars, page, TrackInv, Shifted
<1> QED
  BY <1>2, <1>3, <1>4, <1>5, <1>6, <1>7, <1>8, <1>9 DEF CNext

LEMMA TrackInit == CInit => TrackInv
<1> SUFFICES ASSUME CInit PROVE TrackInv
  OBVIOUS
<1>1. orders = <<>> /\ saved = <<>> /\ DOMAIN map = {}
  BY DEF CInit, Nothing
<1>2. RowsOK(orders) /\ RowsOK(saved) /\ Leads(map, orders)
  BY <1>1, EmptySeq DEF RowsOK, IsSeq, Leads
<1>3. Shifted
  BY <1>1, EmptySeq DEF CInit, Shifted
<1> QED
  BY <1>2, <1>3 DEF CInit, TrackInv, CallsOK, NoCall, Kinds

\* The map of the page leads to the row of its id, and never to a cancelled one,
\* however calls overlap, fail and fall back, and however often the page starts,
\* restores or is left (script.js:137, :240, :249, :708-716).
THEOREM MapTracksRows == CSpec => []TrackedOK
<1>1. CInit => TrackInv
  BY TrackInit
<1>2. TrackInv /\ [CNext]_cvars => TrackInv'
  BY TrackInductive
<1>3. TrackInv => TrackedOK
  BY DEF TrackInv, Leads, TrackedOK
<1> QED
  BY <1>1, <1>2, <1>3, PTL DEF CSpec

-----------------------------------------------------------------------------
(* What a row of the server claims.  An order has traded at least what its  *)
(* row shows and the answers on their way will add; what rests of it and    *)
(* what traded make up its quantity, so a row that is full rests no more.   *)

Submission == {"limit", "market"}

\* What the answers in flight will add to the order of each id.
Pending ==
    [i \in Nat |-> SumFunctionOnSet([n \in Slots |-> At(calls[n].fills, i)], Slots)]

EngineOK(e) ==
    /\ e = [next_id |-> e.next_id, book |-> e.book, traded |-> e.traded, lost |-> e.lost]
    /\ e.next_id \in Nat /\ e.next_id >= 2
    /\ DOMAIN e.traded = 2..(e.next_id - 1)
    /\ \A i \in DOMAIN e.traded : e.traded[i] \in Nat
    /\ e.lost \subseteq DOMAIN e.traded
    /\ DOMAIN e.book \subseteq 1..(e.next_id - 1)
    /\ \A i \in DOMAIN e.book : e.book[i] \in Nat \ {0}

\* A row, server e, answers p in flight, and ids m of which nothing is said.
Sound(row, e, p, m) ==
    row.home = "native" /\ row.id \notin m \cup {0} =>
        /\ row.id \in DOMAIN e.traded
        /\ row.orig \in Nat /\ row.filled \in Nat
        /\ row.filled + p[row.id] <= e.traded[row.id]
        /\ e.traded[row.id] <= row.orig
        /\ row.id \in DOMAIN e.book => e.book[row.id] + e.traded[row.id] = row.orig
        /\ row.status = "FILLED" => row.filled >= row.orig

AllSound(rows, e, p, m) == \A k \in DOMAIN rows : Sound(rows[k], e, p, m)

\* Only an id of m can be of an order that e does not know.
FillsOK(fills, e, m) ==
    /\ DOMAIN fills \subseteq 1..(e.next_id - 1) \cup m
    /\ \A i \in DOMAIN fills : fills[i] \in Nat \ {0}

\* The row that the answer of a call will make is sound already.
CallSound(c, e, p, m) ==
    /\ FillsOK(c.fills, e, m)
    /\ c.stage # "answered" => c.fills = Nothing /\ c.answer = 0
    /\ c.qty \in Nat
    /\ c.kind \in Submission => Sound(NewRow(c, c, "native"), e, p, m)

EnginesOK ==
    /\ DOMAIN engine = {"native", "wasm"}
    /\ EngineOK(engine["native"]) /\ EngineOK(engine["wasm"])
    /\ DOMAIN engine["native"].traded \cap DOMAIN engine["wasm"].traded \subseteq mixed

FillInv ==
    /\ site \in Deployments
    /\ EnginesOK
    /\ \A n \in Slots : CallSound(calls[n], engine["native"], Pending, mixed)
    /\ AllSound(orders, engine["native"], Pending, mixed)
    /\ AllSound(saved, engine["native"], Pending, mixed)

LEMMA SiteFacts ==
    ASSUME site \in Deployments
    PROVE  /\ site.qty \in Nat \ {0} /\ site.flight \in Nat
           /\ IsFiniteSet(Slots)
           /\ Qtys \subseteq Nat \ {0}
<1>1. site.qty \in Nat \ {0} /\ site.flight \in Nat
  BY ClientAssumption DEF Deployment
<1>2. IsFiniteSet(1..site.flight)
  BY <1>1, FS_Interval
<1> QED
  BY <1>1, <1>2 DEF Slots, Qtys

\* The fills of an answer add up, whichever engine it is of.
LEMMA TotalNat ==
    ASSUME NEW e, EngineOK(e), NEW f, DOMAIN f \subseteq DOMAIN e.book,
           \A i \in DOMAIN f : f[i] \in Nat
    PROVE  Total(f) \in Nat
<1>1. IsFiniteSet(1..(e.next_id - 1))
  BY FS_Interval DEF EngineOK
<1>2. IsFiniteSet(DOMAIN f)
  BY <1>1, FS_Subset DEF EngineOK
<1> QED
  BY <1>2, SumNat DEF Total, SumFunction

\* When one call changes, what is on its way changes by its fills.
LEMMA PendingAfter ==
    ASSUME site \in Deployments, site' = site, NEW n \in Slots,
           \A k \in Slots, i \in Nat : At(calls[k].fills, i) \in Nat,
           \A i \in Nat : At(calls'[n].fills, i) \in Nat,
           \A k \in Slots \ {n} : calls'[k].fills = calls[k].fills
    PROVE  \A i \in Nat :
              /\ Pending[i] \in Nat /\ Pending'[i] \in Nat
              /\ Pending'[i] = (Pending[i] - At(calls[n].fills, i)) + At(calls'[n].fills, i)
<1> TAKE i \in Nat
<1> DEFINE f == [k \in Slots |-> At(calls[k].fills, i)]
           g == [k \in Slots |-> At(calls'[k].fills, i)]
<1>1. Slots' = Slots /\ IsFiniteSet(Slots)
  BY SiteFacts DEF Slots
<1>2. Pending[i] = SumFunctionOnSet(f, Slots) /\ Pending'[i] = SumFunctionOnSet(g, Slots)
  BY <1>1 DEF Pending
<1>3. \A k \in Slots : /\ f[k] \in Nat /\ g[k] \in Nat
                       /\ k # n => f[k] = g[k]
  BY DEF At
<1>4. f[n] = At(calls[n].fills, i) /\ g[n] = At(calls'[n].fills, i)
  OBVIOUS
<1> HIDE DEF f, g
<1>5. SumFunctionOnSet(g, Slots) = (SumFunctionOnSet(f, Slots) - f[n]) + g[n]
  <2>1. \A k \in Slots : f[k] \in Int /\ g[k] \in Int
    BY <1>3
  <2>2. \A k \in Slots \ {n} : f[k] = g[k]
    BY <1>3
  <2>3. n \in Slots /\ IsFiniteSet(Slots)
    BY <1>1
  <2> QED
    BY <2>1, <2>2, <2>3, SumChanged
<1>6. SumFunctionOnSet(f, Slots) \in Nat /\ SumFunctionOnSet(g, Slots) \in Nat
  BY <1>1, <1>3, SumNat
<1> QED
  BY <1>2, <1>4, <1>5, <1>6

LEMMA AtFacts ==
    ASSUME NEW f, NEW e, NEW m, FillsOK(f, e, m)
    PROVE  \A i : At(f, i) \in Nat
BY DEF At, FillsOK

LEMMA PendingNat ==
    ASSUME FillInv
    PROVE  /\ \A k \in Slots, i \in Nat : At(calls[k].fills, i) \in Nat
           /\ \A i \in Nat : Pending[i] \in Nat
<1>1. \A k \in Slots : FillsOK(calls[k].fills, engine["native"], mixed)
  BY DEF FillInv, CallSound
<1>2. \A k \in Slots, i \in Nat : At(calls[k].fills, i) \in Nat
  BY <1>1, AtFacts
<1>3. ASSUME NEW i \in Nat PROVE Pending[i] \in Nat
  <2> DEFINE f == [k \in Slots |-> At(calls[k].fills, i)]
  <2>1. Pending[i] = SumFunctionOnSet(f, Slots)
    BY DEF Pending
  <2>2. \A k \in Slots : f[k] \in Nat
    BY <1>2
  <2>3. IsFiniteSet(Slots)
    BY SiteFacts DEF FillInv
  <2> HIDE DEF f
  <2> QED
    BY <2>1, <2>2, <2>3, SumNat
<1> QED
  BY <1>2, <1>3

\* When the server has handled a call, its fills are on their way.
LEMMA PendingServed ==
    ASSUME FillInv, site' = site, NEW n \in Slots, calls[n].fills = Nothing,
           NEW f, calls'[n].fills = f, \A i : At(f, i) \in Nat,
           \A k \in Slots \ {n} : calls'[k] = calls[k]
    PROVE  \A i \in Nat : /\ Pending[i] \in Nat /\ Pending'[i] \in Nat
                          /\ Pending'[i] = Pending[i] + At(f, i)
<1>1. \A k \in Slots, i \in Nat : At(calls[k].fills, i) \in Nat
  BY PendingNat
<1>2. \A k \in Slots \ {n} : calls'[k].fills = calls[k].fills
  OBVIOUS
<1>3. site \in Deployments
  BY DEF FillInv
<1>4. \A i \in Nat : At(calls'[n].fills, i) \in Nat
  OBVIOUS
<1>5. \A i \in Nat : /\ Pending[i] \in Nat /\ Pending'[i] \in Nat
                     /\ Pending'[i] = (Pending[i] - At(calls[n].fills, i))
                                     + At(calls'[n].fills, i)
  BY <1>1, <1>2, <1>3, <1>4, PendingAfter
<1>6. \A i \in Nat : At(calls[n].fills, i) = 0
  BY DEF At, Nothing
<1> QED
  BY <1>5, <1>6

LEMMA PendingSame ==
    ASSUME FillInv, site' = site, \A n \in Slots : calls'[n].fills = calls[n].fills
    PROVE  \A i \in Nat : Pending'[i] = Pending[i]
<1>1. IsFiniteSet(Slots) /\ Slots' = Slots
  BY SiteFacts DEF FillInv, Slots
<1> SUFFICES ASSUME NEW i \in Nat PROVE Pending'[i] = Pending[i]
  OBVIOUS
<1> DEFINE f == [k \in Slots |-> At(calls[k].fills, i)]
           g == [k \in Slots |-> At(calls'[k].fills, i)]
<1>2. Pending[i] = SumFunctionOnSet(f, Slots) /\ Pending'[i] = SumFunctionOnSet(g, Slots)
  BY <1>1 DEF Pending
<1>3. \A k \in Slots : f[k] = g[k]
  OBVIOUS
<1> HIDE DEF f, g
<1> QED
  BY <1>1, <1>2, <1>3, SumSame

\* What no answer has is not on its way.
LEMMA PendingZero ==
    ASSUME site \in Deployments, NEW i \in Nat, \A k \in Slots : At(calls[k].fills, i) = 0
    PROVE  Pending[i] = 0
<1> DEFINE g == [k \in Slots |-> At(calls[k].fills, i)]
<1>1. Pending[i] = SumFunctionOnSet(g, Slots)
  BY DEF Pending
<1>2. \A k \in Slots : g[k] = 0
  OBVIOUS
<1>3. IsFiniteSet(Slots)
  BY SiteFacts
<1> HIDE DEF g
<1> QED
  BY <1>1, <1>2, <1>3, SumZero

LEMMA PendingZeroNext ==
    ASSUME site \in Deployments, site' = site, NEW i \in Nat,
           \A k \in Slots : At(calls'[k].fills, i) = 0
    PROVE  Pending'[i] = 0
<1> DEFINE g == [k \in Slots |-> At(calls'[k].fills, i)]
<1>1. Slots' = Slots
  BY DEF Slots
<1>2. Pending'[i] = SumFunctionOnSet(g, Slots)
  BY <1>1 DEF Pending
<1>3. \A k \in Slots : g[k] = 0
  OBVIOUS
<1>4. IsFiniteSet(Slots)
  BY SiteFacts
<1> HIDE DEF g
<1> QED
  BY <1>2, <1>3, <1>4, SumZero

-----------------------------------------------------------------------------
(* What an engine answers.                                                  *)

\* Engine x is e after a call that answered the fills f: an order that traded
\* more than those is among the lost of x.
Advanced(e, x, f) ==
    /\ EngineOK(x)
    /\ FillsOK(f, x, {})
    /\ x.next_id >= e.next_id
    /\ e.lost \subseteq x.lost
    /\ \A i \in DOMAIN e.traded :
          /\ i \in DOMAIN x.traded
          /\ e.traded[i] + At(f, i) <= x.traded[i]
          /\ x.traded[i] <= e.traded[i] + At(e.book, i)
          /\ i \notin x.lost => x.traded[i] = e.traded[i] + At(f, i)
          /\ i \in DOMAIN x.book =>
                i \in DOMAIN e.book /\ x.book[i] + x.traded[i] = e.book[i] + e.traded[i]

\* Order i is new in x, and the fills f, all of older orders, are its own.
Created(e, x, f, i, qty) ==
    /\ i \in DOMAIN x.traded /\ i \notin DOMAIN e.traded
    /\ DOMAIN f \subseteq DOMAIN e.book
    /\ Total(f) \in Nat /\ Total(f) <= qty /\ x.traded[i] = Total(f)
    /\ i \in DOMAIN x.book => x.book[i] + Total(f) = qty

LEMMA ExecutedFacts ==
    ASSUME site \in Deployments, NEW e, EngineOK(e), NEW qty \in Nat,
           NEW f \in Fillings(e.book, qty), NEW rests, NEW x, x = Executed(e, qty, f, rests)
    PROVE  Advanced(e, x, f) /\ Created(e, x, f, e.next_id, qty)
<1> DEFINE gone == {i \in DOMAIN f : f[i] = e.book[i]}
           left == [i \in DOMAIN e.book \ gone |-> e.book[i] - At(f, i)]
           trd  == [i \in DOMAIN e.traded |-> e.traded[i] + At(f, i)]
           new  == e.next_id
           stays == rests /\ Total(f) < qty
<1>1. /\ DOMAIN f \subseteq DOMAIN e.book
      /\ \A i \in DOMAIN f : f[i] \in Nat \ {0} /\ f[i] <= e.book[i]
  BY SiteFacts DEF Fillings
<1>2. Total(f) \in Nat /\ Total(f) <= qty
  BY <1>1, TotalNat DEF Fillings
<1>3. /\ x.next_id = new + 1
      /\ x.book = IF stays THEN Put(left, new, qty - Total(f)) ELSE left
      /\ x.traded = Put(trd, new, Total(f))
      /\ x.lost = e.lost
      /\ x = [next_id |-> x.next_id, book |-> x.book, traded |-> x.traded, lost |-> x.lost]
  BY DEF Executed, EngineOK
<1>4. \A i : At(f, i) \in Nat
  BY <1>1 DEF At
<1>5. ASSUME NEW i \in DOMAIN left
      PROVE  i \in DOMAIN e.book /\ left[i] \in Nat \ {0} /\ left[i] = e.book[i] - At(f, i)
  BY <1>1 DEF At, EngineOK
<1>6. /\ DOMAIN x.traded = DOMAIN e.traded \cup {new}
      /\ x.traded[new] = Total(f)
      /\ \A i \in DOMAIN e.traded \ {new} : x.traded[i] = e.traded[i] + At(f, i)
  BY <1>3 DEF Put
<1>7. /\ DOMAIN x.book = DOMAIN left \cup (IF stays THEN {new} ELSE {})
      /\ stays => x.book[new] = qty - Total(f)
      /\ \A i \in DOMAIN left \ {new} : x.book[i] = left[i]
      /\ new \in DOMAIN left => FALSE
  BY <1>3 DEF Put, EngineOK
<1> HIDE DEF left, trd, gone
<1>8. new \in Nat /\ new >= 2 /\ DOMAIN e.traded = 2..(new - 1) /\ DOMAIN e.book \subseteq 1..(new - 1)
  BY DEF EngineOK
<1>9. EngineOK(x)
  <2>1. DOMAIN x.traded = 2..(x.next_id - 1) /\ x.lost \subseteq DOMAIN x.traded
    BY <1>3, <1>6, <1>8 DEF EngineOK
  <2>2. \A i \in DOMAIN x.traded : x.traded[i] \in Nat
    BY <1>2, <1>4, <1>6 DEF EngineOK
  <2>3. DOMAIN x.book \subseteq 1..(x.next_id - 1)
    BY <1>3, <1>5, <1>7, <1>8
  <2>4. \A i \in DOMAIN x.book : x.book[i] \in Nat \ {0}
    BY <1>2, <1>5, <1>7
  <2> QED
    BY <1>3, <1>8, <2>1, <2>2, <2>3, <2>4 DEF EngineOK
<1>10. Advanced(e, x, f)
  <2>1. ASSUME NEW i \in DOMAIN e.traded
        PROVE  /\ i \in DOMAIN x.traded
               /\ x.traded[i] = e.traded[i] + At(f, i)
               /\ x.traded[i] <= e.traded[i] + At(e.book, i)
               /\ i \in DOMAIN x.book =>
                     /\ i \in DOMAIN e.book
                     /\ x.book[i] + x.traded[i] = e.book[i] + e.traded[i]
    <3>1. i # new /\ e.traded[i] \in Nat
      BY <1>8 DEF EngineOK
    <3>2. At(f, i) \in Nat /\ At(e.book, i) \in Nat /\ At(f, i) <= At(e.book, i)
      BY <1>1 DEF At, EngineOK
    <3>3. x.traded[i] = e.traded[i] + At(f, i) /\ i \in DOMAIN x.traded
      BY <1>6, <3>1
    <3>4. ASSUME i \in DOMAIN x.book
          PROVE  /\ i \in DOMAIN e.book
                 /\ x.book[i] + x.traded[i] = e.book[i] + e.traded[i]
      <4>1. i \in DOMAIN left /\ x.book[i] = left[i]
        BY <1>7, <3>1, <3>4
      <4>2. i \in DOMAIN e.book /\ left[i] = e.book[i] - At(f, i) /\ e.book[i] \in Nat
        BY <1>5, <4>1 DEF EngineOK
      <4> QED
        BY <3>1, <3>2, <3>3, <4>1, <4>2
    <3> QED
      BY <3>1, <3>2, <3>3, <3>4
  <2>2. x.next_id >= e.next_id /\ e.lost \subseteq x.lost
    BY <1>3, <1>8
  <2>3. FillsOK(f, x, {})
    BY <1>1, <1>3, <1>8 DEF FillsOK
  <2>4. \A i \in DOMAIN e.traded : x.traded[i] \in Nat
    BY <1>9, <2>1 DEF EngineOK
  <2> QED
    BY <1>9, <2>1, <2>2, <2>3, <2>4 DEF Advanced
<1>11. Created(e, x, f, new, qty)
  BY <1>1, <1>2, <1>6, <1>7, <1>8 DEF Created
<1> QED
  BY <1>10, <1>11

\* An engine of which only resting orders were taken.
LEMMA ShrunkFacts ==
    ASSUME NEW e, EngineOK(e), NEW x,
           x = [next_id |-> e.next_id, book |-> x.book, traded |-> e.traded, lost |-> e.lost],
           DOMAIN x.book \subseteq DOMAIN e.book,
           \A i \in DOMAIN x.book : x.book[i] = e.book[i]
    PROVE  Advanced(e, x, Nothing)
<1>1. DOMAIN Nothing = {} /\ \A i : At(Nothing, i) = 0
  BY DEF At, Nothing
<1>2. x.next_id = e.next_id /\ x.traded = e.traded /\ x.lost = e.lost
  OBVIOUS
<1>3. EngineOK(x)
  BY <1>2 DEF EngineOK
<1>4. FillsOK(Nothing, x, {})
  BY <1>1 DEF FillsOK
<1>5. ASSUME NEW i \in DOMAIN e.traded
      PROVE  /\ e.traded[i] + 0 <= x.traded[i] /\ x.traded[i] = e.traded[i] + 0
             /\ x.traded[i] <= e.traded[i] + At(e.book, i)
             /\ i \in DOMAIN x.book => x.book[i] + x.traded[i] = e.book[i] + e.traded[i]
  <2>1. e.traded[i] \in Nat /\ At(e.book, i) \in Nat
    BY DEF EngineOK, At
  <2>2. i \in DOMAIN x.book => x.book[i] = e.book[i] /\ e.book[i] \in Nat
    BY DEF EngineOK
  <2> QED
    BY <1>2, <2>1, <2>2
<1>6. x.next_id >= e.next_id
  BY <1>2 DEF EngineOK
<1> HIDE DEF EngineOK
<1> QED
  BY <1>1, <1>2, <1>3, <1>4, <1>5, <1>6 DEF Advanced

LEMMA CancelledFacts ==
    ASSUME NEW e, EngineOK(e), NEW id, NEW r, r = Cancelled(e, id)
    PROVE  /\ Advanced(e, r.engine, r.fills)
           /\ r.fills = Nothing /\ id \notin DOMAIN r.engine.book
<1>1. r.fills = Nothing
  BY DEF Cancelled
<1>2. CASE id \in DOMAIN e.book
  <2>1. /\ r.engine.book = Drop(e.book, {id})
        /\ r.engine = [next_id |-> e.next_id, book |-> r.engine.book,
                       traded |-> e.traded, lost |-> e.lost]
    BY <1>2 DEF Cancelled, EngineOK
  <2>2. /\ DOMAIN Drop(e.book, {id}) = DOMAIN e.book \ {id}
        /\ \A i \in DOMAIN e.book \ {id} : Drop(e.book, {id})[i] = e.book[i]
    BY DropFacts
  <2>3. /\ DOMAIN r.engine.book \subseteq DOMAIN e.book
        /\ \A i \in DOMAIN r.engine.book : r.engine.book[i] = e.book[i]
    BY <2>1, <2>2
  <2>4. id \notin DOMAIN r.engine.book
    BY <2>1, <2>2
  <2> QED
    BY <1>1, <2>1, <2>3, <2>4, ShrunkFacts
<1>3. CASE id \notin DOMAIN e.book
  <2>1. r.engine = e
    BY <1>3 DEF Cancelled
  <2>2. e = [next_id |-> e.next_id, book |-> e.book, traded |-> e.traded, lost |-> e.lost]
    BY DEF EngineOK
  <2> QED
    BY <1>1, <1>3, <2>1, <2>2, ShrunkFacts
<1> QED
  BY <1>2, <1>3

\* The answer to a call is that of a simulated operation, of a cancel or of a
\* submission, whose id, if one is answered, is new.
LEMMA SubmittedFacts ==
    ASSUME site \in Deployments, NEW e, EngineOK(e), NEW qty \in Nat, NEW rests, NEW id,
           NEW r \in Submitted(e, qty, rests, id)
    PROVE  /\ Advanced(e, r.engine, r.fills)
           /\ Created(e, r.engine, r.fills, e.next_id, qty)
           /\ r.answer = id
<1>1. PICK f \in Fillings(e.book, qty) :
         r = [engine |-> Executed(e, qty, f, rests), answer |-> id, fills |-> f]
  BY DEF Submitted
<1> QED
  BY <1>1, ExecutedFacts

\* What a liquidity order trades is in no answer.
LEMMA MaintainedFacts ==
    ASSUME site \in Deployments, NEW e, EngineOK(e), NEW x \in Maintained(e)
    PROVE  Advanced(e, x, Nothing)
<1>1. CASE x = e
  <2>1. e = [next_id |-> e.next_id, book |-> e.book, traded |-> e.traded, lost |-> e.lost]
    BY DEF EngineOK
  <2> QED
    BY <1>1, <2>1, ShrunkFacts
<1>2. CASE \E r \in UNION {Submitted(e, q, TRUE, 0) : q \in Qtys} :
              x = [r.engine EXCEPT !.lost = @ \cup Later(r.fills)]
  <2>0. PICK q \in Qtys : \E r \in Submitted(e, q, TRUE, 0) :
                              x = [r.engine EXCEPT !.lost = @ \cup Later(r.fills)]
    BY <1>2
  <2>1. PICK r \in Submitted(e, q, TRUE, 0) :
               x = [r.engine EXCEPT !.lost = @ \cup Later(r.fills)]
    BY <2>0
  <2> DEFINE y == r.engine
             f == r.fills
  <2>2. Advanced(e, y, f)
    BY <2>1, SiteFacts, SubmittedFacts
  <2>3. EngineOK(y) /\ FillsOK(f, y, {})
    BY <2>2 DEF Advanced
  <2>4. x = [y EXCEPT !.lost = @ \cup Later(f)]
    BY <2>1
  <2> HIDE DEF y, f
  <2>5. /\ x.next_id = y.next_id /\ x.book = y.book /\ x.traded = y.traded
        /\ x.lost = y.lost \cup Later(f)
        /\ x = [next_id |-> x.next_id, book |-> x.book, traded |-> x.traded, lost |-> x.lost]
    BY <2>3, <2>4 DEF EngineOK
  <2>6. Later(f) \subseteq DOMAIN y.traded
    BY <2>3 DEF Later, FillsOK, EngineOK
  <2>7. EngineOK(x)
    BY <2>3, <2>5, <2>6 DEF EngineOK
  <2>8. DOMAIN Nothing = {} /\ \A i : At(Nothing, i) = 0
    BY DEF At, Nothing
  <2>9. FillsOK(Nothing, x, {})
    BY <2>8 DEF FillsOK
  <2>10. ASSUME NEW i \in DOMAIN e.traded
         PROVE  /\ i \in DOMAIN x.traded
                /\ e.traded[i] + 0 <= x.traded[i]
                /\ x.traded[i] <= e.traded[i] + At(e.book, i)
                /\ i \notin x.lost => x.traded[i] = e.traded[i] + 0
                /\ i \in DOMAIN x.book =>
                      i \in DOMAIN e.book /\ x.book[i] + x.traded[i] = e.book[i] + e.traded[i]
    <3>1. /\ i \in DOMAIN y.traded
          /\ e.traded[i] + At(f, i) <= y.traded[i]
          /\ y.traded[i] <= e.traded[i] + At(e.book, i)
          /\ i \notin y.lost => y.traded[i] = e.traded[i] + At(f, i)
          /\ i \in DOMAIN y.book =>
                i \in DOMAIN e.book /\ y.book[i] + y.traded[i] = e.book[i] + e.traded[i]
      BY <2>2 DEF Advanced
    <3>2. e.traded[i] \in Nat /\ i # 1 /\ At(f, i) \in Nat /\ y.traded[i] \in Nat
      BY <2>3, <3>1, AtFacts DEF EngineOK
    <3>3. i \notin x.lost => At(f, i) = 0 /\ i \notin y.lost
      BY <2>5, <3>2 DEF Later, At
    <3> QED
      BY <2>5, <3>1, <3>2, <3>3
  <2>11. x.next_id >= e.next_id /\ e.lost \subseteq x.lost
    BY <2>2, <2>5 DEF Advanced
  <2> QED
    BY <2>7, <2>8, <2>9, <2>10, <2>11 DEF Advanced
<1> QED
  BY <1>1, <1>2 DEF Maintained

LEMMA SimulatedFacts ==
    ASSUME site \in Deployments, NEW e, EngineOK(e), NEW r \in Simulated(e)
    PROVE  Advanced(e, r.engine, r.fills)
<1>1. CASE \E q \in Qtys, rests \in BOOLEAN : r \in Submitted(e, q, rests, 0)
  BY <1>1, SiteFacts, SubmittedFacts
<1>2. CASE \E i \in DOMAIN e.book : r = [Cancelled(e, i) EXCEPT !.answer = 0]
  <2>1. PICK i \in DOMAIN e.book : r = [Cancelled(e, i) EXCEPT !.answer = 0]
    BY <1>2
  <2>2. r.engine = Cancelled(e, i).engine /\ r.fills = Cancelled(e, i).fills
    BY <2>1 DEF Cancelled
  <2> QED
    BY <2>2, CancelledFacts
<1>3. CASE r = [engine |-> e, answer |-> 0, fills |-> Nothing]
  <2>1. e = [next_id |-> e.next_id, book |-> e.book, traded |-> e.traded, lost |-> e.lost]
    BY DEF EngineOK
  <2>2. Advanced(e, e, Nothing)
    BY <2>1, ShrunkFacts
  <2> QED
    BY <1>3, <2>2
<1> QED
  BY <1>1, <1>2, <1>3 DEF Simulated

LEMMA AdvancedTwice ==
    ASSUME NEW e, EngineOK(e), NEW y, Advanced(e, y, Nothing),
           NEW x, NEW f, Advanced(y, x, f)
    PROVE  Advanced(e, x, f)
<1>1. \A i : At(Nothing, i) = 0
  BY DEF At, Nothing
<1>2. ASSUME NEW i \in DOMAIN e.traded
      PROVE  /\ i \in DOMAIN x.traded
             /\ e.traded[i] + At(f, i) <= x.traded[i]
             /\ x.traded[i] <= e.traded[i] + At(e.book, i)
             /\ i \notin x.lost => x.traded[i] = e.traded[i] + At(f, i)
             /\ i \in DOMAIN x.book =>
                   i \in DOMAIN e.book /\ x.book[i] + x.traded[i] = e.book[i] + e.traded[i]
  <2>1. /\ i \in DOMAIN y.traded
        /\ e.traded[i] + 0 <= y.traded[i]
        /\ y.traded[i] <= e.traded[i] + At(e.book, i)
        /\ i \notin y.lost => y.traded[i] = e.traded[i] + 0
        /\ i \in DOMAIN y.book =>
              i \in DOMAIN e.book /\ y.book[i] + y.traded[i] = e.book[i] + e.traded[i]
    BY <1>1 DEF Advanced
  <2>2. /\ i \in DOMAIN x.traded
        /\ y.traded[i] + At(f, i) <= x.traded[i]
        /\ x.traded[i] <= y.traded[i] + At(y.book, i)
        /\ i \notin x.lost => i \notin y.lost /\ x.traded[i] = y.traded[i] + At(f, i)
        /\ i \in DOMAIN x.book =>
              i \in DOMAIN y.book /\ x.book[i] + x.traded[i] = y.book[i] + y.traded[i]
    BY <2>1 DEF Advanced
  <2>3. /\ e.traded[i] \in Nat /\ y.traded[i] \in Nat /\ x.traded[i] \in Nat
        /\ At(f, i) \in Nat
        /\ i \in DOMAIN e.book => e.book[i] \in Nat
        /\ i \in DOMAIN y.book => y.book[i] \in Nat
    BY <2>1, <2>2, AtFacts DEF Advanced, EngineOK
  <2>4. x.traded[i] <= e.traded[i] + At(e.book, i)
    <3>1. CASE i \in DOMAIN y.book
      BY <2>1, <2>2, <2>3, <3>1 DEF At
    <3>2. CASE i \notin DOMAIN y.book
      <4>1. At(y.book, i) = 0 /\ At(e.book, i) \in Nat
        BY <2>3, <3>2 DEF At
      <4> QED
        BY <2>1, <2>2, <2>3, <4>1
    <3> QED
      BY <3>1, <3>2
  <2> QED
    BY <2>1, <2>2, <2>3, <2>4
<1>3. x.next_id >= e.next_id /\ e.lost \subseteq x.lost
  BY DEF Advanced, EngineOK
<1> QED
  BY <1>2, <1>3 DEF Advanced

LEMMA TickedFacts ==
    ASSUME site \in Deployments, NEW e, EngineOK(e), NEW r \in Ticked(e)
    PROVE  Advanced(e, r.engine, r.fills)
<1>1. PICK y \in Maintained(e) : r \in Simulated(y)
  BY DEF Ticked
<1>2. Advanced(e, y, Nothing)
  BY MaintainedFacts
<1>3. Advanced(y, r.engine, r.fills)
  BY <1>1, <1>2, SimulatedFacts DEF Advanced
<1> QED
  BY <1>2, <1>3, AdvancedTwice

LEMMA OutcomeFacts ==
    ASSUME site \in Deployments, NEW e, EngineOK(e), NEW c, c.kind \in Kinds,
           c.qty \in Nat, NEW r \in Outcomes(e, c)
    PROVE  /\ Advanced(e, r.engine, r.fills)
           /\ c.kind \in Submission /\ r.answer # 0 =>
                 c.kind = "limit" /\ Created(e, r.engine, r.fills, r.answer, c.qty)
           /\ c.kind = "cancel" => r.fills = Nothing /\ c.id \notin DOMAIN r.engine.book
<1>1. CASE c.kind = "limit"
  <2>1. PICK rests : r \in Submitted(e, c.qty, rests, e.next_id)
    BY <1>1 DEF Outcomes
  <2>2. /\ Advanced(e, r.engine, r.fills)
        /\ Created(e, r.engine, r.fills, e.next_id, c.qty)
        /\ r.answer = e.next_id
    BY <2>1, SubmittedFacts
  <2> QED
    BY <1>1, <2>2
<1>2. CASE c.kind = "market"
  <2>1. PICK rests : r \in Submitted(e, c.qty, rests, 0)
    BY <1>2 DEF Outcomes
  <2>2. Advanced(e, r.engine, r.fills) /\ r.answer = 0
    BY <2>1, SubmittedFacts
  <2> QED
    BY <1>2, <2>2
<1>3. CASE c.kind = "cancel"
  <2>1. r = Cancelled(e, c.id)
    BY <1>3 DEF Outcomes
  <2> QED
    BY <1>3, <2>1, CancelledFacts DEF Submission
<1>4. CASE c.kind = "tick"
  BY <1>4, TickedFacts DEF Outcomes, Submission
<1> QED
  BY <1>1, <1>2, <1>3, <1>4 DEF Kinds

-----------------------------------------------------------------------------
(* What happens to a sound row.                                             *)

\* Of the ids not in m, the fills are no more than what is on its way less by.
Covered(fills, e, p, q, m) ==
    \A i \in DOMAIN e.traded \ m :
       /\ p[i] \in Int /\ q[i] \in Int /\ q[i] <= p[i]
       /\ i \in DOMAIN fills => fills[i] \in Nat /\ q[i] + fills[i] <= p[i]

\* A row stays sound when less is on its way, and when it is cancelled.
LEMMA SoundLess ==
    ASSUME NEW e, EngineOK(e), NEW p, NEW q, NEW m, NEW m2, m \subseteq m2, NEW fills,
           Covered(fills, e, p, q, m2),
           NEW row, Sound(row, e, p, m),
           NEW r, r.home = "native" => row.home = "native",
           r.id = row.id, r.orig = row.orig, r.filled = row.filled,
           r.status \in {row.status, "CANCELED"}
    PROVE  Sound(r, e, q, m2)
<1> SUFFICES ASSUME r.home = "native", r.id \notin m2 \cup {0}
             PROVE  Sound(r, e, q, m2)
  BY DEF Sound
<1> DEFINE i == row.id
<1>1. /\ i \in DOMAIN e.traded /\ i \notin m2
      /\ row.orig \in Nat /\ row.filled \in Nat
      /\ row.filled + p[i] <= e.traded[i] /\ e.traded[i] <= row.orig
      /\ i \in DOMAIN e.book => e.book[i] + e.traded[i] = row.orig
      /\ row.status = "FILLED" => row.filled >= row.orig
  BY DEF Sound
<1>2. p[i] \in Int /\ q[i] \in Int /\ q[i] <= p[i] /\ e.traded[i] \in Nat
  BY <1>1 DEF Covered, EngineOK
<1> HIDE DEF i
<1>3. row.filled + q[i] <= e.traded[i]
  BY ONLY <1>1, <1>2
<1> QED
  BY <1>1, <1>3 DEF Sound, i

LEMMA SoundFilled ==
    ASSUME NEW e, EngineOK(e), NEW p, NEW q, NEW m, NEW m2, m \subseteq m2, NEW fills,
           Covered(fills, e, p, q, m2),
           NEW row, Sound(row, e, p, m), row.id \in DOMAIN fills,
           DOMAIN row = {"id", "orig", "filled", "home", "status"}
    PROVE  Sound(Refilled(row, fills[row.id]), e, q, m2)
<1> DEFINE r == Refilled(row, fills[row.id])
           i == row.id
           sum == row.filled + fills[i]
<1>1. /\ r.home = row.home /\ r.id = i /\ r.orig = row.orig
      /\ r.filled = IF sum > row.orig THEN row.orig ELSE sum
      /\ r.status = IF r.filled >= row.orig THEN "FILLED" ELSE "PARTIAL"
  BY DEF Refilled
<1> HIDE DEF r
<1> SUFFICES ASSUME r.home = "native", r.id \notin m2 \cup {0}
             PROVE  Sound(r, e, q, m2)
  BY DEF Sound, r
<1>2. /\ i \in DOMAIN e.traded /\ i \notin m2
      /\ row.orig \in Nat /\ row.filled \in Nat
      /\ row.filled + p[i] <= e.traded[i] /\ e.traded[i] <= row.orig
      /\ i \in DOMAIN e.book => e.book[i] + e.traded[i] = row.orig
  BY <1>1 DEF Sound
<1>3. /\ p[i] \in Int /\ q[i] \in Int /\ e.traded[i] \in Nat
      /\ fills[i] \in Nat /\ q[i] + fills[i] <= p[i]
  BY <1>2 DEF Covered, EngineOK
<1> HIDE DEF i
<1>4. /\ r.filled \in Nat
      /\ r.filled + q[i] <= e.traded[i]
      /\ r.status = "FILLED" => r.filled >= row.orig
  BY <1>1, <1>2, <1>3
<1> QED
  BY <1>1, <1>2, <1>4 DEF Sound

LEMMA FilledSound ==
    ASSUME RowsOK(orders), Leads(map, orders),
           NEW e, EngineOK(e), NEW p, NEW q, NEW m, NEW m2, m \subseteq m2, NEW fills,
           Covered(fills, e, p, q, m2), AllSound(orders, e, p, m),
           NEW native, NEW rows, rows = RowsFilled(fills, native)
    PROVE  AllSound(rows, e, q, m2)
<1>1. DOMAIN rows = DOMAIN orders
  BY DEF RowsFilled
<1> SUFFICES ASSUME NEW k \in DOMAIN orders PROVE Sound(rows[k], e, q, m2)
  BY <1>1 DEF AllSound
<1> DEFINE hits == {i \in Reached(fills, native) : map[i] = k}
<1>2. rows[k] = IF hits = {} THEN orders[k]
                ELSE Refilled(orders[k], fills[CHOOSE i \in hits : TRUE])
  BY DEF RowsFilled
<1>3. \A i \in hits : i = orders[k].id /\ i \in DOMAIN fills
  BY DEF Leads, Reached
<1>4. Sound(orders[k], e, p, m)
  BY DEF AllSound
<1>5. DOMAIN orders[k] = {"id", "orig", "filled", "home", "status"}
  BY DEF RowsOK
<1> HIDE DEF hits
<1>6. CASE hits = {}
  BY <1>2, <1>4, <1>6, SoundLess
<1>7. CASE hits # {}
  <2>1. (CHOOSE i \in hits : TRUE) \in hits
    BY <1>7
  <2>2. rows[k] = Refilled(orders[k], fills[orders[k].id]) /\ orders[k].id \in DOMAIN fills
    BY <1>2, <1>3, <1>7, <2>1
  <2> QED
    BY <1>4, <1>5, <2>2, SoundFilled
<1> QED
  BY <1>6, <1>7

\* The rest of a call leaves the rows sound, if the row it makes is.
LEMMA ContinueSound ==
    ASSUME RowsOK(orders), Leads(map, orders),
           NEW e, EngineOK(e), NEW p, NEW q, NEW m, NEW m2, m \subseteq m2,
           NEW c, c.kind \in Kinds, NEW r, NEW native, NEW home,
           Continue(c, r, native, home),
           Covered(r.fills, e, p, q, m2), AllSound(orders, e, p, m),
           c.kind \in Submission => Sound(NewRow(c, r, home), e, q, m2)
    PROVE  AllSound(orders', e, q, m2)
<1>1. CASE c.kind \in Submission
  <2> DEFINE rows == RowsFilled(r.fills, native)
             row  == NewRow(c, r, home)
  <2>1. AfterSubmit(c, r, native, home)
    BY <1>1 DEF Continue, Submission
  <2>2. orders' = Append(rows, row)
    BY <2>1 DEF AfterSubmit
  <2>3. AllSound(rows, e, q, m2)
    BY FilledSound
  <2>4. IsSeq(rows)
    BY RowsFilledFacts DEF RowsOK
  <2>5. Sound(row, e, q, m2)
    BY <1>1
  <2> HIDE DEF rows, row
  <2>6. /\ DOMAIN orders' = DOMAIN rows \cup {Len(rows) + 1}
        /\ \A k \in DOMAIN rows : orders'[k] = rows[k]
        /\ orders'[Len(rows) + 1] = row
    BY <2>2, <2>4, AppendFacts
  <2> QED
    BY <2>3, <2>5, <2>6 DEF AllSound
<1>2. CASE c.kind = "cancel"
  <2>1. orders' = IF c.id \in DOMAIN map
                  THEN [orders EXCEPT ![map[c.id]].status = "CANCELED"] ELSE orders
    BY <1>2 DEF Continue, AfterCancel
  <2> SUFFICES ASSUME NEW k \in DOMAIN orders PROVE Sound(orders'[k], e, q, m2)
    BY <2>1 DEF AllSound
  <2>2. DOMAIN orders[k] = {"id", "orig", "filled", "home", "status"}
    BY DEF RowsOK
  <2>3. /\ orders'[k].home = orders[k].home /\ orders'[k].id = orders[k].id
        /\ orders'[k].orig = orders[k].orig /\ orders'[k].filled = orders[k].filled
        /\ orders'[k].status \in {orders[k].status, "CANCELED"}
    BY <2>1, <2>2
  <2>4. Sound(orders[k], e, p, m)
    BY DEF AllSound
  <2> QED
    BY <2>3, <2>4, SoundLess
<1>3. CASE c.kind = "tick"
  <2>1. orders' = RowsFilled(r.fills, native)
    BY <1>3 DEF Continue, AfterTick
  <2> QED
    BY <2>1, FilledSound
<1> QED
  BY <1>1, <1>2, <1>3 DEF Kinds, Submission

\* A row stays sound when the engine goes on: what traded is on its way, or more.
LEMMA SoundAdvanced ==
    ASSUME NEW e, EngineOK(e), NEW x, NEW f, Advanced(e, x, f),
           NEW p, NEW q, NEW m, NEW m2, m \subseteq m2,
           \A i \in Nat : /\ p[i] \in Int /\ q[i] \in Int
                          /\ q[i] <= p[i] + At(f, i),
           NEW row, Sound(row, e, p, m)
    PROVE  Sound(row, x, q, m2)
<1> SUFFICES ASSUME row.home = "native", row.id \notin m2 \cup {0}
             PROVE  Sound(row, x, q, m2)
  BY DEF Sound
<1> DEFINE i == row.id
<1>1. /\ i \in DOMAIN e.traded
      /\ row.orig \in Nat /\ row.filled \in Nat
      /\ row.filled + p[i] <= e.traded[i] /\ e.traded[i] <= row.orig
      /\ i \in DOMAIN e.book => e.book[i] + e.traded[i] = row.orig
      /\ row.status = "FILLED" => row.filled >= row.orig
  BY DEF Sound
<1>2. /\ i \in DOMAIN x.traded
      /\ e.traded[i] + At(f, i) <= x.traded[i]
      /\ x.traded[i] <= e.traded[i] + At(e.book, i)
      /\ i \in DOMAIN x.book =>
            i \in DOMAIN e.book /\ x.book[i] + x.traded[i] = e.book[i] + e.traded[i]
  BY <1>1 DEF Advanced
<1>3. /\ e.traded[i] \in Nat /\ x.traded[i] \in Nat /\ At(f, i) \in Nat
      /\ i \in DOMAIN e.book => e.book[i] \in Nat
      /\ i \in Nat
      /\ At(e.book, i) = IF i \in DOMAIN e.book THEN e.book[i] ELSE 0
  BY <1>1, <1>2, AtFacts DEF EngineOK, Advanced, At
<1>4. p[i] \in Int /\ q[i] \in Int /\ q[i] <= p[i] + At(f, i)
  BY <1>3
<1> HIDE DEF i
<1>5. row.filled + q[i] <= x.traded[i]
  BY <1>1, <1>2, <1>3, <1>4
<1>6. /\ i \in DOMAIN x.book => x.book[i] + x.traded[i] = row.orig
      /\ x.traded[i] <= row.orig
  BY <1>1, <1>2, <1>3
<1> QED
  BY <1>1, <1>2, <1>5, <1>6 DEF Sound, i

\* The row of an answer that has just been given.
LEMMA SoundCreated ==
    ASSUME NEW e, EngineOK(e), NEW x, NEW c, NEW r,
           r.answer # 0 => Created(e, x, r.fills, r.answer, c.qty),
           c.qty \in Nat, NEW q, NEW m, r.answer \notin m \cup {0} => q[r.answer] = 0
    PROVE  Sound(NewRow(c, r, "native"), x, q, m)
<1> DEFINE row == NewRow(c, r, "native")
<1>1. /\ row.id = r.answer /\ row.orig = c.qty /\ row.filled = Total(r.fills)
      /\ row.status = "FILLED" => Total(r.fills) >= c.qty
  BY DEF NewRow
<1> HIDE DEF row
<1>2. CASE r.answer \in m \cup {0}
  BY <1>1, <1>2 DEF Sound, row
<1>3. CASE r.answer \notin m \cup {0}
  <2>1. Created(e, x, r.fills, r.answer, c.qty) /\ q[r.answer] = 0
    BY <1>3
  <2>2. Sound(row, x, q, m)
    BY <1>1, <2>1 DEF Sound, Created
  <2> QED
    BY <2>2 DEF row
<1> QED
  BY <1>2, <1>3

-----------------------------------------------------------------------------
(* Steps.                                                                   *)

MixedNext == mixed' = mixed \cup (DOMAIN engine'["native"].traded \cap
                                  DOMAIN engine'["wasm"].traded)
                           \cup (DOMAIN engine["native"].traded \
                                  DOMAIN engine'["native"].traded)

LEMMA AllSoundLess ==
    ASSUME NEW e, EngineOK(e), NEW p, NEW q, NEW m, NEW m2, m \subseteq m2,
           \A i \in Nat : p[i] \in Int /\ q[i] \in Int /\ q[i] <= p[i],
           NEW rows, AllSound(rows, e, p, m)
    PROVE  AllSound(rows, e, q, m2)
<1>1. Covered(Nothing, e, p, q, m2)
  BY DEF Covered, EngineOK, Nothing
<1> SUFFICES ASSUME NEW k \in DOMAIN rows PROVE Sound(rows[k], e, q, m2)
  BY DEF AllSound
<1>2. Sound(rows[k], e, p, m)
  BY DEF AllSound
<1> QED
  BY <1>1, <1>2, SoundLess

LEMMA CallSoundLess ==
    ASSUME NEW e, EngineOK(e), NEW p, NEW q, NEW m, NEW m2, m \subseteq m2,
           \A i \in Nat : p[i] \in Int /\ q[i] \in Int /\ q[i] <= p[i],
           NEW c, CallSound(c, e, p, m)
    PROVE  CallSound(c, e, q, m2)
<1>1. Covered(Nothing, e, p, q, m2)
  BY DEF Covered, EngineOK, Nothing
<1>2. c.kind \in Submission => Sound(NewRow(c, c, "native"), e, q, m2)
  BY <1>1, SoundLess DEF CallSound
<1> QED
  BY <1>2 DEF CallSound, FillsOK

\* A call that no answer is in yet says nothing.
LEMMA CallSoundEmpty ==
    ASSUME NEW e, NEW p, NEW m, NEW c, c.fills = Nothing, c.answer = 0, c.qty \in Nat
    PROVE  CallSound(c, e, p, m)
<1>1. NewRow(c, c, "native").id = 0
  BY DEF NewRow
<1>2. Sound(NewRow(c, c, "native"), e, p, m)
  BY <1>1 DEF Sound
<1>3. FillsOK(c.fills, e, m)
  BY DEF FillsOK, Nothing
<1> QED
  BY <1>2, <1>3 DEF CallSound

\* A call that is over.
LEMMA CallOver ==
    ASSUME FillInv, CallsOK, site' = site, mixed \subseteq mixed', NEW n \in Slots,
           calls' = [calls EXCEPT ![n] = NoCall]
    PROVE  /\ \A i \in Nat : /\ Pending[i] \in Nat /\ Pending'[i] \in Nat
                             /\ Pending'[i] = Pending[i] - At(calls[n].fills, i)
                             /\ At(calls[n].fills, i) \in Nat
           /\ \A k \in Slots : CallSound(calls'[k], engine["native"], Pending', mixed')
<1>1. /\ calls'[n] = NoCall
      /\ \A k \in Slots \ {n} : calls'[k] = calls[k]
  BY DEF CallsOK
<1>2. /\ \A k \in Slots, i \in Nat : At(calls[k].fills, i) \in Nat
      /\ \A i \in Nat : At(calls'[n].fills, i) = 0
  BY <1>1, PendingNat DEF At, NoCall, Nothing
<1>3. \A i \in Nat : /\ Pending[i] \in Nat /\ Pending'[i] \in Nat
                     /\ Pending'[i] = (Pending[i] - At(calls[n].fills, i)) + 0
  BY <1>1, <1>2, PendingAfter DEF FillInv
<1>4. \A i \in Nat : /\ Pending[i] \in Nat /\ Pending'[i] \in Nat
                     /\ Pending'[i] = Pending[i] - At(calls[n].fills, i)
                     /\ At(calls[n].fills, i) \in Nat
  BY <1>2, <1>3
<1>5. ASSUME NEW k \in Slots PROVE CallSound(calls'[k], engine["native"], Pending', mixed')
  <2>1. CASE k = n
    BY <1>1, <2>1, CallSoundEmpty DEF NoCall
  <2>2. CASE k # n
    <3>1. CallSound(calls[k], engine["native"], Pending, mixed)
      BY DEF FillInv
    <3>2. \A i \in Nat : /\ Pending[i] \in Int /\ Pending'[i] \in Int
                         /\ Pending'[i] <= Pending[i]
      BY <1>4
    <3>3. CallSound(calls[k], engine["native"], Pending', mixed')
      BY <3>1, <3>2, CallSoundLess DEF FillInv, EnginesOK
    <3> QED
      BY <1>1, <2>2, <3>3
  <2> QED
    BY <2>1, <2>2
<1> QED
  BY <1>4, <1>5

\* A call within the page fills no row of the server, but those of mixed ids.
LEMMA LocalCallSound ==
    ASSUME TrackInv, FillInv, MixedNext,
           NEW c, c.kind \in Kinds, c.qty \in Nat, WasmCall(c) \/ NoEngine(c),
           NEW q, \A i \in Nat : q[i] \in Int /\ q[i] <= Pending[i]
    PROVE  /\ AllSound(orders', engine["native"], q, mixed')
           /\ engine'["native"] = engine["native"]
           /\ DOMAIN engine' = {"native", "wasm"} /\ EngineOK(engine'["wasm"])
<1> DEFINE e == engine["native"]
           w == engine["wasm"]
<1>1. /\ RowsOK(orders) /\ Leads(map, orders)
      /\ EngineOK(e) /\ EngineOK(w) /\ AllSound(orders, e, Pending, mixed)
      /\ DOMAIN engine = {"native", "wasm"}
      /\ DOMAIN e.traded \cap DOMAIN w.traded \subseteq mixed
  BY DEF TrackInv, FillInv, EnginesOK
<1>2. /\ \A i \in Nat : Pending[i] \in Int /\ q[i] \in Int /\ q[i] <= Pending[i]
      /\ mixed \subseteq mixed'
  BY PendingNat DEF MixedNext
<1>3. DOMAIN e.traded \subseteq Nat
  BY <1>1 DEF EngineOK
<1>4. CASE WasmCall(c)
  <2>1. PICK r \in Outcomes(w, c) : /\ engine' = [engine EXCEPT !["wasm"] = r.engine]
                                    /\ Continue(c, r, FALSE, "wasm")
    BY <1>4 DEF WasmCall
  <2>2. Advanced(w, r.engine, r.fills)
    BY <1>1, OutcomeFacts DEF FillInv
  <2>3. \A i \in DOMAIN e.traded \ mixed' : i \notin DOMAIN r.fills
    <3>1. DOMAIN r.fills \subseteq 1..(r.engine.next_id - 1)
      BY <2>2 DEF Advanced, FillsOK
    <3>2. \A i \in DOMAIN e.traded : i \in Nat /\ i >= 2
      BY <1>1 DEF EngineOK
    <3>3. DOMAIN r.engine.traded = 2..(r.engine.next_id - 1) /\ r.engine.next_id \in Nat
      BY <2>2 DEF Advanced, EngineOK
    <3>4. DOMAIN e.traded \cap DOMAIN r.engine.traded \subseteq mixed'
      BY <1>1, <2>1 DEF MixedNext
    <3> QED
      BY <3>1, <3>2, <3>3, <3>4
  <2>4. Covered(r.fills, e, Pending, q, mixed')
    BY <1>2, <1>3, <2>3 DEF Covered
  <2>5. Sound(NewRow(c, r, "wasm"), e, q, mixed')
    BY DEF Sound, NewRow
  <2> HIDE DEF e
  <2>6. AllSound(orders', e, q, mixed')
    BY <1>1, <1>2, <2>1, <2>4, <2>5, ContinueSound
  <2>7. /\ engine'["native"] = e /\ engine'["wasm"] = r.engine
        /\ DOMAIN engine' = {"native", "wasm"}
    BY <1>1, <2>1 DEF e
  <2> QED
    BY <2>2, <2>6, <2>7 DEF e, Advanced
<1>5. CASE NoEngine(c)
  <2>1. engine' = engine
    BY <1>5 DEF NoEngine
  <2>2. CASE c.kind = "cancel"
    <3> DEFINE r == [fills |-> Nothing]
    <3>1. Continue(c, r, FALSE, "wasm")
      BY <1>5, <2>2 DEF NoEngine, Continue
    <3>2. Covered(r.fills, e, Pending, q, mixed')
      BY <1>2, <1>3 DEF Covered, Nothing
    <3>3. c.kind \notin Submission
      BY <2>2 DEF Submission
    <3> HIDE DEF e, r
    <3>4. AllSound(orders', e, q, mixed')
      BY <1>1, <1>2, <3>1, <3>2, <3>3, ContinueSound
    <3> QED
      BY <1>1, <2>1, <3>4 DEF e
  <2>3. CASE c.kind # "cancel"
    <3>1. orders' = orders
      BY <1>5, <2>3 DEF NoEngine, page
    <3>2. AllSound(orders, e, q, mixed')
      BY <1>1, <1>2, AllSoundLess
    <3> QED
      BY <1>1, <2>1, <3>1, <3>2
  <2> QED
    BY <2>2, <2>3
<1> QED
  BY <1>4, <1>5

\* Engines after a step that keeps each of them right.
LEMMA EnginesAfter ==
    ASSUME MixedNext, DOMAIN engine' = {"native", "wasm"},
           EngineOK(engine'["native"]), EngineOK(engine'["wasm"])
    PROVE  EnginesOK' /\ mixed \subseteq mixed'
BY DEF EnginesOK, MixedNext

\* Calls that stay as they are, or end, in a step that the server has no part in.
LEMMA QuietStep ==
    ASSUME FillInv, site' = site, MixedNext, EnginesOK',
           engine'["native"] = engine["native"], saved' = saved,
           \A i \in Nat : /\ Pending[i] \in Nat /\ Pending'[i] \in Nat
                          /\ Pending'[i] <= Pending[i],
           \A n \in Slots : CallSound(calls'[n], engine["native"], Pending', mixed'),
           AllSound(orders', engine["native"], Pending', mixed')
    PROVE  FillInv'
<1>1. mixed \subseteq mixed'
  BY DEF MixedNext
<1>2. AllSound(saved, engine["native"], Pending', mixed')
  BY <1>1, AllSoundLess DEF FillInv, EnginesOK
<1>3. Slots' = Slots
  BY DEF Slots
<1> QED
  BY <1>2, <1>3 DEF FillInv

LEMMA StartSound ==
    ASSUME TrackInv, FillInv, site' = site, MixedNext,
           NEW kind \in Kinds, NEW id, NEW qty \in Nat, Start(kind, id, qty)
    PROVE  FillInv'
<1> DEFINE c == Request(kind, id, qty)
<1>1. /\ c.kind = kind /\ c.qty = qty /\ c.fills = Nothing /\ c.answer = 0
      /\ DOMAIN c = DOMAIN NoCall
  BY DEF Request, NoCall
<1>2. saved' = saved /\ mixed \subseteq mixed'
  BY DEF Start, MixedNext
<1>3. \A n \in Slots : CallSound(calls[n], engine["native"], Pending, mixed)
  BY DEF FillInv
<1> HIDE DEF c
<1>4. CASE useNative
  <2>1. Send(c) /\ UNCHANGED <<engine, page>>
    BY <1>4 DEF Start, c
  <2>2. PICK n \in Slots : /\ calls[n] = NoCall
                           /\ calls' = [calls EXCEPT ![n] = [c EXCEPT !.stage = "sent"]]
    BY <2>1 DEF Send, FirstFree
  <2>3. /\ \A k \in Slots \ {n} : calls'[k] = calls[k]
        /\ calls'[n].fills = Nothing /\ calls'[n].answer = 0 /\ calls'[n].qty \in Nat
        /\ calls[n].fills = Nothing
    BY <1>1, <2>2 DEF TrackInv, CallsOK, NoCall
  <2>4. \A i \in Nat : Pending'[i] = Pending[i]
    BY <2>3, PendingSame
  <2>5. \A i \in Nat : /\ Pending[i] \in Nat /\ Pending'[i] \in Nat
                       /\ Pending'[i] <= Pending[i]
    BY <2>4, PendingNat
  <2>6. EngineOK(engine["native"])
    BY DEF FillInv, EnginesOK
  <2>7. ASSUME NEW k \in Slots PROVE CallSound(calls'[k], engine["native"], Pending', mixed')
    <3>1. CASE k = n
      BY <2>3, <3>1, CallSoundEmpty
    <3>2. CASE k # n
      BY <1>2, <1>3, <2>3, <2>5, <2>6, <3>2, CallSoundLess
    <3> QED
      BY <3>1, <3>2
  <2>8. AllSound(orders', engine["native"], Pending', mixed')
    BY <1>2, <2>1, <2>5, <2>6, AllSoundLess DEF FillInv, page
  <2>9. EnginesOK'
    BY <2>1, EnginesAfter DEF FillInv, EnginesOK
  <2> QED
    BY <1>2, <2>1, <2>5, <2>7, <2>8, <2>9, QuietStep
<1>5. CASE ~useNative
  <2>1. (WasmCall(c) \/ NoEngine(c)) /\ calls' = calls
    BY <1>5 DEF Start, c
  <2>2. \A i \in Nat : Pending'[i] = Pending[i]
    BY <2>1, PendingSame
  <2>3. \A i \in Nat : /\ Pending[i] \in Nat /\ Pending'[i] \in Nat
                       /\ Pending'[i] <= Pending[i]
    BY <2>2, PendingNat
  <2>4. /\ AllSound(orders', engine["native"], Pending', mixed')
        /\ engine'["native"] = engine["native"]
        /\ DOMAIN engine' = {"native", "wasm"} /\ EngineOK(engine'["wasm"])
    BY <1>1, <1>2, <2>1, <2>3, LocalCallSound
  <2>5. EngineOK(engine["native"])
    BY DEF FillInv, EnginesOK
  <2>6. \A n \in Slots : CallSound(calls'[n], engine["native"], Pending', mixed')
    BY <1>2, <1>3, <2>1, <2>3, <2>5, CallSoundLess
  <2>7. EnginesOK'
    BY <2>4, <2>5, EnginesAfter
  <2> QED
    BY <1>2, <2>3, <2>4, <2>6, <2>7, QuietStep
<1> QED
  BY <1>4, <1>5

LEMMA FetchFailsSound ==
    ASSUME TrackInv, FillInv, site' = site, MixedNext, NEW n \in Slots, FetchFails(n)
    PROVE  FillInv'
<1> DEFINE c == calls[n]
<1>1. c.kind \in Kinds /\ c.qty \in Nat /\ CallsOK
  BY DEF TrackInv, CallsOK, FillInv, CallSound
<1>2. /\ WasmCall(c) \/ NoEngine(c)
      /\ calls' = [calls EXCEPT ![n] = NoCall]
      /\ saved' = saved /\ mixed \subseteq mixed'
  BY DEF FetchFails, MixedNext
<1>3. /\ \A i \in Nat : /\ Pending[i] \in Nat /\ Pending'[i] \in Nat
                        /\ Pending'[i] = Pending[i] - At(c.fills, i)
                        /\ At(c.fills, i) \in Nat
      /\ \A k \in Slots : CallSound(calls'[k], engine["native"], Pending', mixed')
  BY <1>1, <1>2, CallOver
<1>4. \A i \in Nat : /\ Pending[i] \in Nat /\ Pending'[i] \in Nat
                     /\ Pending'[i] <= Pending[i]
  BY <1>3
<1> HIDE DEF c
<1>5. /\ AllSound(orders', engine["native"], Pending', mixed')
      /\ engine'["native"] = engine["native"]
      /\ DOMAIN engine' = {"native", "wasm"} /\ EngineOK(engine'["wasm"])
  BY <1>1, <1>2, <1>4, LocalCallSound
<1>6. EnginesOK'
  BY <1>5, EnginesAfter DEF FillInv, EnginesOK
<1> QED
  BY <1>2, <1>3, <1>4, <1>5, <1>6, QuietStep

\* What arrives was on its way, and is no longer.
LEMMA ReceiveSound ==
    ASSUME TrackInv, FillInv, site' = site, MixedNext, NEW n \in Slots, Receive(n)
    PROVE  FillInv'
<1> DEFINE c == calls[n]
           e == engine["native"]
<1>1. /\ c.kind \in Kinds /\ CallsOK /\ CallSound(c, e, Pending, mixed) /\ EngineOK(e)
      /\ RowsOK(orders) /\ Leads(map, orders) /\ AllSound(orders, e, Pending, mixed)
  BY DEF TrackInv, CallsOK, FillInv, EnginesOK
<1>2. /\ Continue(c, c, useNative, "native")
      /\ calls' = [calls EXCEPT ![n] = NoCall]
      /\ engine' = engine /\ saved' = saved /\ mixed \subseteq mixed'
  BY DEF Receive, MixedNext
<1>3. /\ \A i \in Nat : /\ Pending[i] \in Nat /\ Pending'[i] \in Nat
                        /\ Pending'[i] = Pending[i] - At(c.fills, i)
                        /\ At(c.fills, i) \in Nat
      /\ \A k \in Slots : CallSound(calls'[k], e, Pending', mixed')
  BY <1>1, <1>2, CallOver
<1>4. \A i \in Nat : /\ Pending[i] \in Nat /\ Pending'[i] \in Nat
                     /\ Pending'[i] <= Pending[i]
  BY <1>3
<1> HIDE DEF c, e
<1>5. Covered(c.fills, e, Pending, Pending', mixed')
  <2> SUFFICES ASSUME NEW i \in DOMAIN e.traded
               PROVE  /\ Pending[i] \in Int /\ Pending'[i] \in Int
                      /\ Pending'[i] <= Pending[i]
                      /\ i \in DOMAIN c.fills => /\ c.fills[i] \in Nat
                                                 /\ Pending'[i] + c.fills[i] <= Pending[i]
    BY DEF Covered
  <2>1. i \in Nat
    BY <1>1 DEF EngineOK
  <2>2. i \in DOMAIN c.fills => c.fills[i] = At(c.fills, i)
    BY DEF At
  <2> QED
    BY <1>3, <1>4, <2>1, <2>2
<1>6. c.kind \in Submission => Sound(NewRow(c, c, "native"), e, Pending', mixed')
  <2>1. Covered(Nothing, e, Pending, Pending', mixed')
    BY <1>1, <1>4 DEF Covered, EngineOK, Nothing
  <2> QED
    BY <1>1, <1>2, <2>1, SoundLess DEF CallSound
<1>7. AllSound(orders', e, Pending', mixed')
  BY <1>1, <1>2, <1>5, <1>6, ContinueSound
<1>8. EnginesOK'
  BY <1>2, EnginesAfter DEF FillInv, EnginesOK
<1> QED
  BY <1>2, <1>3, <1>4, <1>7, <1>8, QuietStep DEF e

\* A server that goes on, its fills on their way or in no answer to this page.
LEMMA ServerStep ==
    ASSUME FillInv, site' = site, MixedNext, NEW f,
           Advanced(engine["native"], engine'["native"], f),
           engine' = [engine EXCEPT !["native"] = engine'["native"]],
           \A i \in Nat : /\ Pending[i] \in Nat /\ Pending'[i] \in Nat
                          /\ Pending'[i] <= Pending[i] + At(f, i),
           UNCHANGED <<orders, saved>>,
           \A n \in Slots : CallSound(calls'[n], engine'["native"], Pending', mixed')
    PROVE  FillInv'
<1>1. EngineOK(engine["native"]) /\ EngineOK(engine'["native"]) /\ mixed \subseteq mixed'
  BY DEF FillInv, EnginesOK, Advanced, MixedNext
<1>2. EnginesOK'
  BY <1>1, EnginesAfter DEF FillInv, EnginesOK
<1>3. \A i \in Nat : /\ Pending[i] \in Int /\ Pending'[i] \in Int
                     /\ Pending'[i] <= Pending[i] + At(f, i)
  OBVIOUS
<1>4. ASSUME NEW rows, AllSound(rows, engine["native"], Pending, mixed)
      PROVE  AllSound(rows, engine'["native"], Pending', mixed')
  BY <1>1, <1>3, <1>4, SoundAdvanced DEF AllSound
<1>5. /\ AllSound(orders', engine'["native"], Pending', mixed')
      /\ AllSound(saved', engine'["native"], Pending', mixed')
  BY <1>4 DEF FillInv
<1>6. Slots' = Slots
  BY DEF Slots
<1> QED
  BY <1>2, <1>5, <1>6 DEF FillInv

LEMMA CallSoundAdvanced ==
    ASSUME NEW e, EngineOK(e), NEW x, NEW f, Advanced(e, x, f), NEW p, NEW q,
           \A i \in Nat : /\ p[i] \in Int /\ q[i] \in Int
                          /\ q[i] <= p[i] + At(f, i),
           NEW m, NEW m2, m \subseteq m2, NEW c, CallSound(c, e, p, m)
    PROVE  CallSound(c, x, q, m2)
<1>1. c.kind \in Submission => Sound(NewRow(c, c, "native"), x, q, m2)
  BY SoundAdvanced DEF CallSound
<1>2. FillsOK(c.fills, x, m2)
  BY DEF CallSound, FillsOK, Advanced, EngineOK
<1> QED
  BY <1>1, <1>2 DEF CallSound

LEMMA OtherClientSound ==
    ASSUME TrackInv, FillInv, site' = site, MixedNext, OtherClient
    PROVE  FillInv'
<1>1. PICK r \in Ticked(engine["native"]) : engine' = [engine EXCEPT !["native"] = r.engine]
  BY DEF OtherClient
<1>2. EngineOK(engine["native"]) /\ DOMAIN engine = {"native", "wasm"}
  BY DEF FillInv, EnginesOK
<1>3. Advanced(engine["native"], r.engine, r.fills)
  BY <1>2, TickedFacts DEF FillInv
<1>4. engine'["native"] = r.engine
  BY <1>1, <1>2
<1>5. calls' = calls /\ UNCHANGED <<orders, saved>>
  BY DEF OtherClient, page
<1>6. \A i \in Nat : Pending'[i] = Pending[i]
  BY <1>5, PendingSame
<1>7. \A i \in Nat : /\ Pending[i] \in Nat /\ Pending'[i] \in Nat
                     /\ Pending'[i] <= Pending[i] + At(r.fills, i)
  <2>1. \A i : At(r.fills, i) \in Nat
    BY <1>3, AtFacts DEF Advanced
  <2> QED
    BY <1>6, <2>1, PendingNat
<1>8. ASSUME NEW n \in Slots PROVE CallSound(calls'[n], engine'["native"], Pending', mixed')
  <2>1. CallSound(calls[n], engine["native"], Pending, mixed)
    BY DEF FillInv
  <2>2. \A i \in Nat : /\ Pending[i] \in Int /\ Pending'[i] \in Int
                       /\ Pending'[i] <= Pending[i] + At(r.fills, i)
    BY <1>7
  <2>3. CallSound(calls[n], r.engine, Pending', mixed')
    BY <1>2, <1>3, <2>1, <2>2, CallSoundAdvanced DEF MixedNext
  <2> QED
    BY <1>4, <1>5, <2>3
<1> QED
  BY <1>1, <1>3, <1>4, <1>5, <1>7, <1>8, ServerStep

\* The server handles a call: its fills are on their way, and so is its row.
LEMMA ServeSound ==
    ASSUME TrackInv, FillInv, site' = site, MixedNext, NEW n \in Slots, Serve(n)
    PROVE  FillInv'
<1> DEFINE c == calls[n]
           e == engine["native"]
<1>1. /\ c.kind \in Kinds /\ DOMAIN c = DOMAIN NoCall /\ DOMAIN calls = Slots
      /\ CallSound(c, e, Pending, mixed) /\ EngineOK(e)
      /\ DOMAIN engine = {"native", "wasm"}
      /\ c.stage = "sent"
  BY DEF TrackInv, CallsOK, FillInv, EnginesOK, Serve
<1>2. c.fills = Nothing /\ c.qty \in Nat
  BY <1>1 DEF CallSound
<1>3. PICK r \in Outcomes(e, c) :
         /\ engine' = [engine EXCEPT !["native"] = r.engine]
         /\ calls' = [calls EXCEPT ![n].stage = "answered", ![n].answer = r.answer,
                                   ![n].fills = r.fills]
  BY DEF Serve
<1>4. /\ Advanced(e, r.engine, r.fills)
      /\ c.kind \in Submission /\ r.answer # 0 =>
            Created(e, r.engine, r.fills, r.answer, c.qty)
  BY <1>1, <1>2, OutcomeFacts DEF FillInv
<1>5. /\ engine'["native"] = r.engine
      /\ calls'[n].fills = r.fills /\ calls'[n].answer = r.answer
      /\ calls'[n].stage = "answered"
      /\ calls'[n].kind = c.kind /\ calls'[n].qty = c.qty
      /\ \A k \in Slots \ {n} : calls'[k] = calls[k]
      /\ UNCHANGED <<orders, saved>>
  BY <1>1, <1>3 DEF NoCall, Serve, page
<1>6. \A i : At(r.fills, i) \in Nat
  BY <1>4, AtFacts DEF Advanced
<1>7. \A i \in Nat : /\ Pending[i] \in Nat /\ Pending'[i] \in Nat
                     /\ Pending'[i] = Pending[i] + At(r.fills, i)
  BY <1>2, <1>5, <1>6, PendingServed
<1>8. \A i \in Nat : /\ Pending[i] \in Int /\ Pending'[i] \in Int
                     /\ Pending'[i] <= Pending[i] + At(r.fills, i)
  BY <1>6, <1>7
<1>9. /\ \A k \in Slots : FillsOK(calls[k].fills, e, mixed)
      /\ mixed \subseteq mixed'
  BY DEF FillInv, CallSound, MixedNext
<1> HIDE DEF c, e
\* No fill on its way is of an order that is new.
<1>10. ASSUME c.kind \in Submission, r.answer \notin mixed' \cup {0}
       PROVE  Pending'[r.answer] = 0
  <2>1. r.answer \in Nat /\ r.answer >= e.next_id
    BY <1>1, <1>4, <1>10 DEF Created, Advanced, EngineOK
  <2>2. \A k \in Slots : At(calls'[k].fills, r.answer) = 0
    <3>1. e.next_id \in Nat
      BY <1>1 DEF EngineOK
    <3>2. DOMAIN r.fills \subseteq 1..(e.next_id - 1)
      BY <1>1, <1>4, <1>10 DEF Created, EngineOK
    <3>3. \A k \in Slots : DOMAIN calls'[k].fills \subseteq 1..(e.next_id - 1) \cup mixed'
      BY <1>5, <1>9, <3>2 DEF FillsOK
    <3>4. r.answer \notin 1..(e.next_id - 1)
      BY <2>1, <3>1
    <3> QED
      BY <1>10, <3>3, <3>4 DEF At
  <2> QED
    BY <2>1, <2>2, PendingZeroNext DEF FillInv
<1>11. ASSUME NEW k \in Slots PROVE CallSound(calls'[k], r.engine, Pending', mixed')
  <2>1. CASE k = n
    <3> DEFINE d == calls'[n]
    <3>1. FillsOK(d.fills, r.engine, mixed')
      BY <1>4, <1>5 DEF FillsOK, Advanced
    <3> HIDE DEF d
    <3>2. /\ d.qty \in Nat /\ d.kind = c.kind /\ d.answer = r.answer
          /\ d.fills = r.fills /\ d.qty = c.qty /\ d.stage = "answered"
      BY <1>2, <1>5 DEF d
    <3>3. ASSUME d.kind \in Submission
          PROVE  Sound(NewRow(d, d, "native"), r.engine, Pending', mixed')
      <4>1. d.answer # 0 => Created(e, r.engine, d.fills, d.answer, d.qty)
        BY <1>4, <3>2, <3>3
      <4>2. d.answer \notin mixed' \cup {0} => Pending'[d.answer] = 0
        BY <1>10, <3>2, <3>3
      <4> QED
        BY <1>1, <3>2, <4>1, <4>2, SoundCreated
    <3>4. CallSound(d, r.engine, Pending', mixed')
      BY <3>1, <3>2, <3>3 DEF CallSound
    <3> QED
      BY <2>1, <3>4 DEF d
  <2>2. CASE k # n
    <3>1. CallSound(calls[k], e, Pending, mixed)
      BY DEF FillInv, e
    <3>2. CallSound(calls[k], r.engine, Pending', mixed')
      BY <1>1, <1>4, <1>8, <1>9, <3>1, CallSoundAdvanced
    <3> QED
      BY <1>5, <2>2, <3>2
  <2> QED
    BY <2>1, <2>2
<1>12. \A i \in Nat : /\ Pending[i] \in Nat /\ Pending'[i] \in Nat
                      /\ Pending'[i] <= Pending[i] + At(r.fills, i)
  BY <1>7, <1>8
<1>13. engine' = [engine EXCEPT !["native"] = engine'["native"]]
  BY <1>3, <1>5
<1> QED
  BY <1>4, <1>5, <1>11, <1>12, <1>13, ServerStep DEF e

LEMMA NewEngineOK ==
    ASSUME site \in Deployments
    PROVE  EngineOK(NewEngine) /\ DOMAIN NewEngine.traded = {}
BY SiteFacts DEF EngineOK, NewEngine, Nothing

\* After a reset all that the server knew is of mixed ids.
LEMMA ServerResetSound ==
    ASSUME TrackInv, FillInv, site' = site, MixedNext, ServerReset
    PROVE  FillInv'
<1> DEFINE e == engine["native"]
<1>1. /\ engine' = [engine EXCEPT !["native"] = NewEngine]
      /\ UNCHANGED <<calls, orders, saved>>
  BY DEF ServerReset, page
<1>2. /\ DOMAIN engine = {"native", "wasm"} /\ EngineOK(e) /\ EngineOK(engine["wasm"])
      /\ EngineOK(NewEngine) /\ DOMAIN NewEngine.traded = {} /\ NewEngine.next_id = 2
  BY NewEngineOK DEF FillInv, EnginesOK, NewEngine
<1>3. /\ engine'["native"] = NewEngine /\ engine'["wasm"] = engine["wasm"]
      /\ DOMAIN engine' = {"native", "wasm"}
  BY <1>1, <1>2
<1>4. DOMAIN e.traded \subseteq mixed' /\ mixed \subseteq mixed'
  BY <1>2, <1>3 DEF MixedNext
<1>5. EnginesOK'
  BY <1>2, <1>3, EnginesAfter
<1> HIDE DEF e
<1>6. ASSUME NEW row, Sound(row, e, Pending, mixed)
      PROVE  Sound(row, NewEngine, Pending', mixed')
  BY <1>4, <1>6 DEF Sound
<1>7. ASSUME NEW n \in Slots
      PROVE  CallSound(calls[n], NewEngine, Pending', mixed')
  <2>1. CallSound(calls[n], e, Pending, mixed)
    BY DEF FillInv, e
  <2>2. FillsOK(calls[n].fills, NewEngine, mixed')
    <3>1. /\ DOMAIN calls[n].fills \subseteq 1..(e.next_id - 1) \cup mixed
          /\ \A i \in DOMAIN calls[n].fills : calls[n].fills[i] \in Nat \ {0}
      BY <2>1 DEF CallSound, FillsOK
    <3>2. 1..(e.next_id - 1) \subseteq {1} \cup DOMAIN e.traded
      BY <1>2 DEF EngineOK
    <3>3. DOMAIN calls[n].fills \subseteq 1..1 \cup mixed'
      BY <1>4, <3>1, <3>2
    <3> QED
      BY <1>2, <3>1, <3>3 DEF FillsOK
  <2> QED
    BY <1>6, <2>1, <2>2 DEF CallSound
<1>8. /\ AllSound(orders, NewEngine, Pending', mixed')
      /\ AllSound(saved, NewEngine, Pending', mixed')
  BY <1>6 DEF FillInv, AllSound, e
<1>9. Slots' = Slots
  BY DEF Slots
<1> QED
  BY <1>1, <1>3, <1>5, <1>7, <1>8, <1>9 DEF FillInv

LEMMA StartUpSound ==
    ASSUME TrackInv, FillInv, site' = site, MixedNext,
           HealthAnswers \/ onRuntimeInitialized
    PROVE  FillInv'
<1>1. calls' = calls /\ saved' = saved /\ mixed \subseteq mixed'
  BY DEF HealthAnswers, onRuntimeInitialized, MixedNext
<1>2. \/ engine' = engine
      \/ engine' = [engine EXCEPT !["wasm"] = NewEngine]
  BY DEF HealthAnswers, onRuntimeInitialized, startEngineInit
<1>3. /\ DOMAIN engine = {"native", "wasm"}
      /\ EngineOK(engine["native"]) /\ EngineOK(engine["wasm"])
  BY DEF FillInv, EnginesOK
<1>4. /\ engine'["native"] = engine["native"]
      /\ DOMAIN engine' = {"native", "wasm"}
      /\ EngineOK(engine'["wasm"])
  BY <1>2, <1>3, NewEngineOK DEF FillInv
<1>5. EnginesOK'
  BY <1>3, <1>4, EnginesAfter
<1>6. \A i \in Nat : Pending'[i] = Pending[i]
  BY <1>1, PendingSame
<1>7. \A i \in Nat : /\ Pending[i] \in Nat /\ Pending'[i] \in Nat
                     /\ Pending'[i] <= Pending[i]
  BY <1>6, PendingNat
<1>8. \A n \in Slots : CallSound(calls'[n], engine["native"], Pending', mixed')
  BY <1>1, <1>3, <1>7, CallSoundLess DEF FillInv
<1>9. /\ AllSound(orders, engine["native"], Pending', mixed')
      /\ AllSound(saved, engine["native"], Pending', mixed')
  BY <1>1, <1>3, <1>7, AllSoundLess DEF FillInv
<1>10. orders' = orders \/ orders' = orders \o saved
  BY DEF HealthAnswers, onRuntimeInitialized, startEngineInit, tryRestoreState, page
<1>11. AllSound(orders', engine["native"], Pending', mixed')
  <2>1. CASE orders' = orders
    BY <1>9, <2>1
  <2>2. CASE orders' = orders \o saved
    <3>1. IsSeq(orders) /\ IsSeq(saved)
      BY DEF TrackInv, RowsOK
    <3>2. ASSUME NEW t, t = orders \o saved, NEW k \in DOMAIN t
          PROVE  \/ k \in DOMAIN orders /\ t[k] = orders[k]
                 \/ \E j \in DOMAIN saved : t[k] = saved[j]
      <4>1. CASE k \in DOMAIN orders
        BY <3>1, <3>2, <4>1, ConcatFacts
      <4>2. CASE k \notin DOMAIN orders
        <5>1. k - Len(orders) \in DOMAIN saved /\ t[k] = saved[k - Len(orders)]
          BY <3>1, <3>2, <4>2, ConcatFacts
        <5> QED
          BY <5>1
      <4> QED
        BY <4>1, <4>2
    <3>3. \A k \in DOMAIN orders' : \/ k \in DOMAIN orders /\ orders'[k] = orders[k]
                                   \/ \E j \in DOMAIN saved : orders'[k] = saved[j]
      BY <2>2, <3>2
    <3> QED
      BY <1>9, <3>3 DEF AllSound
  <2> QED
    BY <1>10, <2>1, <2>2
<1> QED
  BY <1>1, <1>4, <1>5, <1>7, <1>8, <1>11, QuietStep

LEMMA ReloadSound ==
    ASSUME TrackInv, FillInv, site' = site, MixedNext, Reload
    PROVE  FillInv'
<1>1. /\ engine' = [engine EXCEPT !["wasm"] = NewEngine]
      /\ orders' = <<>> /\ calls' = [n \in Slots |-> NoCall]
      /\ mixed \subseteq mixed'
  BY DEF Reload, MixedNext
<1>2. /\ DOMAIN engine = {"native", "wasm"}
      /\ EngineOK(engine["native"])
  BY DEF FillInv, EnginesOK
<1>3. /\ engine'["native"] = engine["native"] /\ engine'["wasm"] = NewEngine
      /\ DOMAIN engine' = {"native", "wasm"}
  BY <1>1, <1>2
<1>4. EnginesOK'
  BY <1>2, <1>3, EnginesAfter, NewEngineOK DEF FillInv
<1>5. \A n \in Slots : calls'[n] = NoCall
  BY <1>1
<1>6. Slots' = Slots /\ IsFiniteSet(Slots)
  BY SiteFacts DEF FillInv, Slots
<1>7. ASSUME NEW i \in Nat PROVE Pending'[i] = 0
  <2>1. \A k \in Slots : At(calls'[k].fills, i) = 0
    BY <1>5 DEF At, NoCall, Nothing
  <2> QED
    BY <2>1, PendingZeroNext DEF FillInv
<1>8. \A i \in Nat : /\ Pending[i] \in Int /\ Pending'[i] \in Int
                     /\ Pending'[i] <= Pending[i]
  BY <1>7, PendingNat
<1>9. \A n \in Slots : CallSound(calls'[n], engine["native"], Pending', mixed')
  BY <1>5, CallSoundEmpty DEF NoCall
<1>10. AllSound(saved', engine["native"], Pending', mixed')
  <2> DEFINE kept == Len(orders) - dropped
  <2>1. Covered(Nothing, engine["native"], Pending, Pending', mixed')
    BY <1>2, <1>8 DEF Covered, EngineOK, Nothing
  <2>2. /\ saved' = [k \in 1..kept |-> Kept(orders[dropped + k])]
        /\ \A k \in 1..kept : dropped + k \in DOMAIN orders
    BY SeqFacts DEF Reload, TrackInv, RowsOK, Shifted
  <2> HIDE DEF kept
  <2>3. ASSUME NEW k \in 1..kept
        PROVE  Sound(saved'[k], engine["native"], Pending', mixed')
    <3> DEFINE row == orders[dropped + k]
    <3>1. /\ DOMAIN row = {"id", "orig", "filled", "home", "status"}
          /\ Sound(row, engine["native"], Pending, mixed)
      BY <2>2 DEF TrackInv, RowsOK, FillInv, AllSound
    <3>2. saved'[k] = Kept(row)
      BY <2>2
    <3> HIDE DEF row
    <3>3. /\ saved'[k].home = "native" => row.home = "native"
          /\ saved'[k].id = row.id /\ saved'[k].orig = row.orig
          /\ saved'[k].filled = row.filled /\ saved'[k].status = row.status
      BY <3>1, <3>2 DEF Kept
    <3> QED
      BY <1>1, <1>2, <2>1, <3>1, <3>3, SoundLess
  <2> QED
    BY <2>2, <2>3 DEF AllSound
<1>11. AllSound(orders', engine["native"], Pending', mixed')
  BY <1>1 DEF AllSound
<1> QED
  BY <1>3, <1>4, <1>6, <1>9, <1>10, <1>11 DEF FillInv

LEMMA FillInductive == TrackInv /\ FillInv /\ [CNext]_cvars => FillInv'
<1> SUFFICES ASSUME TrackInv, FillInv, [CNext]_cvars PROVE FillInv'
  OBVIOUS
<1>1. CASE CNext
  <2>1. site' = site /\ MixedNext
    BY <1>1 DEF CNext, MixedNext
  <2>2. ASSUME NEW kind \in {"limit", "market"}, NEW qty \in Qtys, Submit(kind, qty)
        PROVE  FillInv'
    <3>1. qty \in Nat
      BY SiteFacts DEF FillInv
    <3> QED
      BY <2>1, <2>2, <3>1, StartSound DEF Submit, Kinds
  <2>3. ASSUME NEW k, cancelOrder(k)
        PROVE  FillInv'
    BY <2>1, <2>3, StartSound DEF cancelOrder, Kinds
  <2>4. ASSUME generateBatch
        PROVE  FillInv'
    BY <2>1, <2>4, StartSound DEF generateBatch, Kinds
  <2>5. ASSUME NEW n \in Slots, Serve(n) \/ Receive(n) \/ FetchFails(n)
        PROVE  FillInv'
    BY <2>1, <2>5, ServeSound, ReceiveSound, FetchFailsSound
  <2>6. ASSUME OtherClient \/ ServerReset
        PROVE  FillInv'
    BY <2>1, <2>6, OtherClientSound, ServerResetSound
  <2>7. ASSUME HealthAnswers \/ onRuntimeInitialized
        PROVE  FillInv'
    BY <2>1, <2>7, StartUpSound
  <2>8. ASSUME Reload
        PROVE  FillInv'
    BY <2>1, <2>8, ReloadSound
  <2> QED
    BY <1>1, <2>2, <2>3, <2>4, <2>5, <2>6, <2>7, <2>8 DEF CNext
<1>2. CASE UNCHANGED cvars
  <2>1. /\ site' = site /\ engine' = engine /\ calls' = calls /\ orders' = orders
        /\ saved' = saved /\ mixed' = mixed
    BY <1>2 DEF cvars, page
  <2> QED
    BY <2>1 DEF FillInv, EnginesOK, Pending, Slots
<1> QED
  BY <1>1, <1>2

LEMMA FillInit == CInit => FillInv
<1> SUFFICES ASSUME CInit PROVE FillInv
  OBVIOUS
<1>1. /\ site \in Deployments /\ mixed = {} /\ orders = <<>> /\ saved = <<>>
      /\ engine = [m \in {"native", "wasm"} |-> NewEngine]
      /\ calls = [n \in Slots |-> NoCall]
  BY DEF CInit
<1>2. EnginesOK
  BY <1>1, NewEngineOK DEF EnginesOK
<1>3. \A n \in Slots : CallSound(calls[n], engine["native"], Pending, mixed)
  BY <1>1, CallSoundEmpty DEF NoCall
<1> QED
  BY <1>1, <1>2, <1>3 DEF FillInv, AllSound

LEMMA FillInvSound == TrackInv /\ FillInv => FillsSound
<1> SUFFICES ASSUME FillInv, NEW k \in DOMAIN orders, orders[k].home = "native",
                    orders[k].id \notin mixed \cup {0}
             PROVE  /\ orders[k].filled <= engine["native"].traded[orders[k].id]
                    /\ orders[k].status = "FILLED" =>
                          orders[k].id \notin DOMAIN engine["native"].book
  BY DEF FillsSound
<1> DEFINE row == orders[k]
           e   == engine["native"]
           i   == row.id
<1>1. Sound(row, e, Pending, mixed) /\ EngineOK(e)
  BY DEF FillInv, AllSound, EnginesOK
<1>2. /\ i \in DOMAIN e.traded
      /\ row.orig \in Nat /\ row.filled \in Nat
      /\ row.filled + Pending[i] <= e.traded[i]
      /\ i \in DOMAIN e.book => e.book[i] + e.traded[i] = row.orig
      /\ row.status = "FILLED" => row.filled >= row.orig
  BY <1>1 DEF Sound
<1>3. /\ e.traded[i] \in Nat /\ i \in Nat
      /\ i \in DOMAIN e.book => e.book[i] \in Nat \ {0}
  BY <1>1, <1>2 DEF EngineOK
<1>4. Pending[i] \in Nat
  BY <1>3, PendingNat
<1> HIDE DEF row, e, i
<1>5. /\ row.filled <= e.traded[i]
      /\ row.status = "FILLED" => i \notin DOMAIN e.book
  BY <1>2, <1>3, <1>4
<1> QED
  BY <1>5 DEF row, e, i

\* A row of the server never claims more than the server traded, and is full only
\* when nothing of it rests, whatever answers overtake each other, whichever
\* fetches fail, and however often the page is left, as long as the other engine
\* has not given out its id, nor a reset of the server gives it out again
\* (script.js:134-144, server.cpp:401-406).
THEOREM RowsNeverOverstate == CSpec => []FillsSound
<1>1. CInit => TrackInv /\ FillInv
  BY TrackInit, FillInit
<1>2. TrackInv /\ FillInv /\ [CNext]_cvars => (TrackInv /\ FillInv)'
  BY TrackInductive, FillInductive
<1>3. TrackInv /\ FillInv => FillsSound
  BY FillInvSound
<1> QED
  BY <1>1, <1>2, <1>3, PTL DEF CSpec

-----------------------------------------------------------------------------
(* What a row of the session shows.  A row of the page's own WASM engine is *)
(* tracked as long as it is open, and every fill of its order that is in an *)
(* answer is applied in the step that makes it.                             *)

\* Row k, the WASM engine w, the map, the session, and ids mx of which nothing is
\* said.  A row that is short has lost a fill to a liquidity order; only a cancel
\* that went to the server leaves the order at work.
ExactRow(row, k, w, mp, ses, mx) ==
    row.home = "wasm" /\ row.id \notin mx \cup {0} =>
       /\ row.id \in DOMAIN w.traded
       /\ row.orig \in Nat /\ row.filled \in Nat
       /\ row.status \in {"OPEN", "PARTIAL", "FILLED", "CANCELED"}
       /\ Open(row) =>
             /\ row.id \in DOMAIN mp /\ mp[row.id] = k /\ row.id \in ses
             /\ row.id \notin w.lost => row.filled = w.traded[row.id]
             /\ row.id \in DOMAIN w.book => w.book[row.id] + w.traded[row.id] = row.orig
       /\ row.filled <= w.traded[row.id]
       /\ row.status = "FILLED" =>
             row.filled = w.traded[row.id] /\ row.id \notin DOMAIN w.book
       /\ row.status = "CANCELED" =>
             \/ /\ row.id \notin w.lost => row.filled = w.traded[row.id]
                /\ row.id \notin DOMAIN w.book
             \/ site.server

AllExact(rows, w, mp, ses, mx) ==
    \A k \in DOMAIN rows : ExactRow(rows[k], k, w, mp, ses, mx)

ExactInv ==
    /\ useNative => site.server
    /\ \A n \in Slots : calls[n].stage # "free" => site.server
    /\ \A k \in DOMAIN orders : orders[k].home = "wasm" => engineReady
    /\ \A k \in DOMAIN saved : saved[k].home # "wasm"
    /\ AllExact(orders, engine["wasm"], map, session, mixed)

\* Engine w, as far as its ids are not in mx, becomes x by the fills and by those
\* of the orders that x has lost.
Shows(fills, w, x, mx) ==
    \A i \in DOMAIN w.traded \ mx :
       /\ i \in DOMAIN x.traded
       /\ w.traded[i] + At(fills, i) <= x.traded[i]
       /\ x.traded[i] <= w.traded[i] + At(w.book, i)
       /\ i \notin x.lost => i \notin w.lost /\ x.traded[i] = w.traded[i] + At(fills, i)
       /\ i \in DOMAIN x.book =>
             i \in DOMAIN w.book /\ x.book[i] + x.traded[i] = w.book[i] + w.traded[i]
       /\ i \in DOMAIN fills => i \in DOMAIN w.book /\ fills[i] \in Nat

\* A row that the fills do not reach.
LEMMA ExactSame ==
    ASSUME NEW w, EngineOK(w), NEW x, EngineOK(x), NEW fills, NEW mx, NEW mx2, mx \subseteq mx2,
           Shows(fills, w, x, mx), NEW k, NEW mp, NEW ses, NEW mp2, NEW ses2,
           NEW row, ExactRow(row, k, w, mp, ses, mx),
           row.id \in DOMAIN fills => row.status = "CANCELED",
           row.home = "wasm" /\ row.id \notin mx2 \cup {0} /\ Open(row) =>
              row.id \in DOMAIN mp2 /\ mp2[row.id] = k /\ row.id \in ses2
    PROVE  ExactRow(row, k, x, mp2, ses2, mx2)
<1> SUFFICES ASSUME row.home = "wasm", row.id \notin mx2 \cup {0}
             PROVE  ExactRow(row, k, x, mp2, ses2, mx2)
  BY DEF ExactRow
<1> DEFINE i == row.id
<1>1. /\ i \in DOMAIN w.traded /\ i \notin mx
      /\ row.orig \in Nat /\ row.filled \in Nat
      /\ row.status \in {"OPEN", "PARTIAL", "FILLED", "CANCELED"}
      /\ Open(row) =>
            /\ i \notin w.lost => row.filled = w.traded[i]
            /\ i \in DOMAIN w.book => w.book[i] + w.traded[i] = row.orig
      /\ row.filled <= w.traded[i]
      /\ row.status = "FILLED" => row.filled = w.traded[i] /\ i \notin DOMAIN w.book
      /\ row.status = "CANCELED" =>
            \/ /\ i \notin w.lost => row.filled = w.traded[i]
               /\ i \notin DOMAIN w.book
            \/ site.server
  BY DEF ExactRow
<1>2. /\ i \in DOMAIN x.traded
      /\ w.traded[i] + At(fills, i) <= x.traded[i]
      /\ x.traded[i] <= w.traded[i] + At(w.book, i)
      /\ i \notin x.lost => i \notin w.lost /\ x.traded[i] = w.traded[i] + At(fills, i)
      /\ i \in DOMAIN x.book =>
            i \in DOMAIN w.book /\ x.book[i] + x.traded[i] = w.book[i] + w.traded[i]
      /\ i \in DOMAIN fills => i \in DOMAIN w.book /\ fills[i] \in Nat
  BY <1>1 DEF Shows
<1>3. /\ w.traded[i] \in Nat /\ x.traded[i] \in Nat
      /\ i \in DOMAIN w.book => w.book[i] \in Nat
      /\ i \notin DOMAIN w.book => At(w.book, i) = 0
  BY <1>1, <1>2 DEF EngineOK, At
<1>4. At(fills, i) \in Nat /\ (i \notin DOMAIN fills => At(fills, i) = 0)
  BY <1>2 DEF At
<1>5. Open(row) => row.status # "CANCELED"
  BY DEF Open
<1>6. Open(row) => i \in DOMAIN mp2 /\ mp2[i] = k /\ i \in ses2
  OBVIOUS
<1>7. row.id \in DOMAIN fills => row.status = "CANCELED"
  OBVIOUS
<1>8. Open(row) => /\ i \notin x.lost => row.filled = x.traded[i]
                   /\ i \in DOMAIN x.book => x.book[i] + x.traded[i] = row.orig
  BY <1>1, <1>2, <1>3, <1>4, <1>5
<1>9. i \notin DOMAIN w.book => x.traded[i] = w.traded[i] /\ i \notin DOMAIN x.book
  BY <1>2, <1>3, <1>4
<1>10. row.filled <= x.traded[i]
  BY <1>1, <1>2, <1>3, <1>4
<1>11. row.status = "FILLED" => row.filled = x.traded[i] /\ i \notin DOMAIN x.book
  BY <1>1, <1>9
<1>12. row.status = "CANCELED" =>
          \/ /\ i \notin x.lost => row.filled = x.traded[i]
             /\ i \notin DOMAIN x.book
          \/ site.server
  BY <1>1, <1>2, <1>9
<1> QED
  BY <1>1, <1>2, <1>6, <1>8, <1>10, <1>11, <1>12 DEF ExactRow

\* A row that they reach.
LEMMA ExactFilled ==
    ASSUME NEW w, EngineOK(w), NEW x, EngineOK(x), NEW fills, NEW mx, NEW mx2, mx \subseteq mx2,
           Shows(fills, w, x, mx), NEW k, NEW mp, NEW ses, NEW mp2, NEW ses2,
           NEW row, ExactRow(row, k, w, mp, ses, mx),
           DOMAIN row = {"id", "orig", "filled", "home", "status"},
           row.id \in DOMAIN fills, row.status # "CANCELED",
           NEW r, r = Refilled(row, fills[row.id]),
           row.home = "wasm" /\ row.id \notin mx2 \cup {0} /\ r.status = "PARTIAL" =>
              row.id \in DOMAIN mp2 /\ mp2[row.id] = k /\ row.id \in ses2
    PROVE  ExactRow(r, k, x, mp2, ses2, mx2)
<1> DEFINE i == row.id
           sum == row.filled + fills[i]
<1>1. /\ r.home = row.home /\ r.id = i /\ r.orig = row.orig
      /\ r.filled = IF sum > row.orig THEN row.orig ELSE sum
      /\ r.status = IF r.filled >= row.orig THEN "FILLED" ELSE "PARTIAL"
  BY DEF Refilled
<1> SUFFICES ASSUME r.home = "wasm", i \notin mx2 \cup {0}
             PROVE  ExactRow(r, k, x, mp2, ses2, mx2)
  BY <1>1 DEF ExactRow
<1>2. /\ i \in DOMAIN w.traded /\ i \notin mx
      /\ row.orig \in Nat /\ row.filled \in Nat
      /\ row.status \in {"OPEN", "PARTIAL", "FILLED", "CANCELED"}
      /\ Open(row) =>
            /\ i \notin w.lost => row.filled = w.traded[i]
            /\ i \in DOMAIN w.book => w.book[i] + w.traded[i] = row.orig
      /\ row.filled <= w.traded[i]
      /\ row.status = "FILLED" => i \notin DOMAIN w.book
  BY <1>1 DEF ExactRow
<1>3. /\ i \in DOMAIN x.traded
      /\ w.traded[i] + fills[i] <= x.traded[i]
      /\ x.traded[i] <= w.traded[i] + w.book[i]
      /\ i \notin x.lost => i \notin w.lost /\ x.traded[i] = w.traded[i] + fills[i]
      /\ i \in DOMAIN x.book => x.book[i] + x.traded[i] = w.book[i] + w.traded[i]
      /\ i \in DOMAIN w.book /\ fills[i] \in Nat
  BY <1>2 DEF Shows, At
<1>4. w.traded[i] \in Nat /\ w.book[i] \in Nat /\ x.traded[i] \in Nat
  BY <1>2, <1>3 DEF EngineOK
<1>5. i \in DOMAIN x.book => x.book[i] \in Nat \ {0}
  BY DEF EngineOK
<1>6. Open(row)
  BY <1>2, <1>3 DEF Open
<1>7. r.status = "PARTIAL" => i \in DOMAIN mp2 /\ mp2[i] = k /\ i \in ses2
  BY <1>1
<1> HIDE DEF i
<1>8. /\ r.filled \in Nat /\ r.filled = sum /\ r.filled <= x.traded[i]
      /\ x.traded[i] <= row.orig
      /\ i \notin x.lost => r.filled = x.traded[i]
      /\ i \in DOMAIN x.book => x.book[i] + x.traded[i] = row.orig
  BY <1>1, <1>2, <1>3, <1>4, <1>6
<1>9. r.status = "FILLED" => r.filled = x.traded[i] /\ i \notin DOMAIN x.book
  BY <1>1, <1>2, <1>4, <1>5, <1>8
<1>10. r.status \in {"FILLED", "PARTIAL"}
  BY <1>1
<1> QED
  BY <1>1, <1>2, <1>3, <1>7, <1>8, <1>9, <1>10 DEF ExactRow, Open

\* The fills of an answer, in either mode: a row of the session that is open is
\* reached, and tracked until it is full.
LEMMA FilledExact ==
    ASSUME RowsOK(orders), Leads(map, orders),
           NEW w, EngineOK(w), NEW x, EngineOK(x), NEW fills, NEW mx, NEW mx2, mx \subseteq mx2,
           Shows(fills, w, x, mx), AllExact(orders, w, map, session, mx),
           NEW native, NEW rows, rows = RowsFilled(fills, native),
           NEW mp, mp = MapFilled(fills, native)
    PROVE  AllExact(rows, x, mp, session, mx2)
<1>1. DOMAIN rows = DOMAIN orders
  BY DEF RowsFilled
<1> SUFFICES ASSUME NEW k \in DOMAIN orders
             PROVE  ExactRow(rows[k], k, x, mp, session, mx2)
  BY <1>1 DEF AllExact
<1> DEFINE hits == {i \in Reached(fills, native) : map[i] = k}
           row  == orders[k]
<1>2. rows[k] = IF hits = {} THEN row
                ELSE Refilled(row, fills[CHOOSE i \in hits : TRUE])
  BY DEF RowsFilled
<1>3. \A i \in hits : i = row.id /\ i \in DOMAIN fills /\ row.status # "CANCELED"
  BY DEF Leads, Reached
<1>4. ExactRow(row, k, w, map, session, mx)
  BY DEF AllExact
<1>5. DOMAIN row = {"id", "orig", "filled", "home", "status"}
  BY DEF RowsOK
<1>6. /\ DOMAIN mp = DOMAIN map \ {i \in Reached(fills, native) :
                                      rows[map[i]].status = "FILLED"}
      /\ \A i \in DOMAIN mp : mp[i] = map[i]
  <2>1. PICK S : /\ mp = Drop(map, S)
                 /\ S = {i \in Reached(fills, native) : rows[map[i]].status = "FILLED"}
    BY DEF MapFilled
  <2>2. mp = Drop(map, S)
    BY <2>1
  <2>3. DOMAIN mp = DOMAIN map \ S /\ \A i \in DOMAIN map \ S : mp[i] = map[i]
    BY ONLY <2>2, DropFacts
  <2> QED
    BY <2>1, <2>3
<1>7. row.home = "wasm" /\ row.id \notin mx2 \cup {0} /\ Open(row) =>
         row.id \in DOMAIN map /\ map[row.id] = k /\ row.id \in session
  BY <1>4 DEF ExactRow
<1>8. row.home = "wasm" /\ row.id \notin mx2 \cup {0} /\ rows[k].status # "FILLED"
         /\ Open(row) =>
            row.id \in DOMAIN mp /\ mp[row.id] = k /\ row.id \in session
  BY <1>6, <1>7
<1>9. ASSUME row.home = "wasm", row.id \notin mx2 \cup {0}, row.id \in DOMAIN fills
      PROVE  row.status = "CANCELED" \/ (Open(row) /\ row.id \in hits)
  <2>1. row.id \in DOMAIN w.book
    BY <1>4, <1>9 DEF ExactRow, Shows
  <2>2. row.status = "CANCELED" \/ Open(row)
    BY <1>4, <1>9, <2>1 DEF ExactRow, Open
  <2>3. ASSUME Open(row) PROVE row.id \in hits
    BY <1>7, <1>9, <2>3 DEF Reached, Open
  <2> QED
    BY <2>2, <2>3
<1> SUFFICES ASSUME row.home = "wasm", row.id \notin mx2 \cup {0}
             PROVE  ExactRow(rows[k], k, x, mp, session, mx2)
  <2>1. rows[k].home = row.home /\ rows[k].id = row.id
    <3>1. \A q : Refilled(row, q).home = row.home /\ Refilled(row, q).id = row.id
      BY <1>5 DEF Refilled
    <3> HIDE DEF hits
    <3> QED
      BY <1>2, <3>1
  <2> QED
    BY <2>1 DEF ExactRow
<1> HIDE DEF hits
<1>10. CASE hits = {}
  <2>1. rows[k] = row /\ (row.id \in DOMAIN fills => row.status = "CANCELED")
    BY <1>2, <1>9, <1>10
  <2>2. Open(row) => row.status # "FILLED"
    BY DEF Open
  <2>3. Open(row) => row.id \in DOMAIN mp /\ mp[row.id] = k /\ row.id \in session
    BY <1>8, <2>1, <2>2
  <2>4. ExactRow(row, k, x, mp, session, mx2)
    BY <1>4, <2>1, <2>3, ExactSame
  <2> QED
    BY <2>1, <2>4
<1>11. CASE hits # {}
  <2>1. (CHOOSE i \in hits : TRUE) \in hits
    BY <1>11
  <2>2. /\ rows[k] = Refilled(row, fills[row.id])
        /\ row.id \in DOMAIN fills /\ row.status # "CANCELED"
    BY <1>2, <1>3, <1>11, <2>1
  <2>3. Open(row)
    BY <1>9, <2>2
  <2>4. rows[k].status = "PARTIAL" =>
           row.id \in DOMAIN mp /\ mp[row.id] = k /\ row.id \in session
    BY <1>8, <2>3
  <2>5. PICK r : r = Refilled(row, fills[row.id])
    OBVIOUS
  <2>6. r = rows[k] /\ row.id \in DOMAIN fills /\ row.status # "CANCELED"
    BY <2>2, <2>5
  <2>7. row.home = "wasm" /\ row.id \notin mx2 \cup {0} /\ r.status = "PARTIAL" =>
           row.id \in DOMAIN mp /\ mp[row.id] = k /\ row.id \in session
    BY <2>4, <2>6
  <2>8. /\ EngineOK(w) /\ EngineOK(x) /\ mx \subseteq mx2
        /\ Shows(fills, w, x, mx)
    OBVIOUS
  <2> HIDE DEF row
  <2>9. ExactRow(r, k, x, mp, session, mx2)
    BY ONLY <1>4, <1>5, <2>5, <2>6, <2>7, <2>8, ExactFilled
  <2> QED
    BY <2>6, <2>9
<1> QED
  BY <1>10, <1>11

\* The rest of a call: the fills, the new row, or the row that was cancelled.
LEMMA ContinueExact ==
    ASSUME RowsOK(orders), Leads(map, orders),
           NEW w, EngineOK(w), NEW x, EngineOK(x), NEW mx, NEW mx2, mx \subseteq mx2,
           AllExact(orders, w, map, session, mx),
           NEW c, c.kind \in Kinds, c.qty \in Nat, NEW r, NEW native, NEW home,
           Continue(c, r, native, home),
           Shows(r.fills, w, x, mx),
           c.kind \in Submission => r.answer \notin DOMAIN w.traded \ mx2,
           c.kind \in Submission /\ home = "wasm" /\ r.answer # 0 =>
              /\ ~native /\ c.kind = "limit"
              /\ Created(w, x, r.fills, r.answer, c.qty),
           c.kind = "cancel" => r.fills = Nothing /\ (site.server \/ c.id \notin DOMAIN x.book)
    PROVE  AllExact(orders', x, map', session', mx2)
<1>1. CASE c.kind \in Submission
  <2> DEFINE rows == RowsFilled(r.fills, native)
             open == MapFilled(r.fills, native)
             row  == NewRow(c, r, home)
             last == Len(rows) + 1
  <2>1. AfterSubmit(c, r, native, home)
    BY <1>1 DEF Continue, Submission
  <2>2. /\ orders' = Append(rows, row)
        /\ map' = IF r.answer > 0 THEN Put(open, r.answer, last) ELSE open
        /\ session' = IF r.answer > 0 /\ ~native THEN session \cup {r.answer} ELSE session
    BY <2>1 DEF AfterSubmit
  <2>3. AllExact(rows, x, open, session, mx2)
    BY FilledExact
  <2>4. RowsOK(rows)
    BY RowsFilledFacts
  <2>5. DOMAIN rows = DOMAIN orders /\ \A k \in DOMAIN orders : rows[k].id = orders[k].id
    BY RowsFilledFacts
  <2>6. \A k \in DOMAIN orders : rows[k].home = orders[k].home
    <3>1. ASSUME NEW k \in DOMAIN orders PROVE rows[k].home = orders[k].home
      <4>1. rows[k] = orders[k] \/ \E q : rows[k] = Refilled(orders[k], q)
        BY DEF RowsFilled
      <4>2. \A q : Refilled(orders[k], q).home = orders[k].home
        BY DEF Refilled, RowsOK
      <4> QED
        BY <4>1, <4>2
    <3> QED
      BY <3>1
  <2>7. /\ row.id = r.answer /\ row.home = home /\ row.orig = c.qty
        /\ row.filled = Total(r.fills)
        /\ row.status = IF Total(r.fills) >= c.qty THEN "FILLED"
                        ELSE IF Total(r.fills) > 0 THEN "PARTIAL"
                        ELSE IF c.kind = "market" THEN "REJECTED" ELSE "OPEN"
    BY DEF NewRow
  <2> HIDE DEF rows, row, open
  <2>8. /\ DOMAIN orders' = DOMAIN rows \cup {last}
        /\ \A k \in DOMAIN rows : orders'[k] = rows[k]
        /\ orders'[last] = row
    BY <2>2, <2>4, AppendFacts DEF RowsOK
  <2>9. /\ r.answer > 0 => /\ DOMAIN map' = DOMAIN open \cup {r.answer}
                           /\ map'[r.answer] = last
                           /\ \A i \in DOMAIN open \ {r.answer} : map'[i] = open[i]
        /\ ~(r.answer > 0) => map' = open
        /\ session \subseteq session'
    BY <2>2 DEF Put
  <2>10. ASSUME NEW k \in DOMAIN rows
         PROVE  ExactRow(orders'[k], k, x, map', session', mx2)
    <3>1. ExactRow(rows[k], k, x, open, session, mx2)
      BY <2>3 DEF AllExact
    <3>2. ASSUME rows[k].home = "wasm", rows[k].id \notin mx2 \cup {0}
          PROVE  rows[k].id # r.answer
      <4>1. rows[k].id \in DOMAIN w.traded
        BY <2>5, <2>6, <3>2 DEF AllExact, ExactRow
      <4> QED
        BY <1>1, <3>2, <4>1
    <3>3. ExactRow(rows[k], k, x, map', session', mx2)
      BY <2>9, <3>1, <3>2 DEF ExactRow
    <3> QED
      BY <2>8, <3>3
  <2>11. ExactRow(row, last, x, map', session', mx2)
    <3> SUFFICES ASSUME home = "wasm", r.answer \notin mx2 \cup {0}
                 PROVE  ExactRow(row, last, x, map', session', mx2)
      BY <2>7 DEF ExactRow
    <3>1. ~native /\ c.kind = "limit" /\ Created(w, x, r.fills, r.answer, c.qty)
      BY <1>1
    <3>2. r.answer \in Nat \ {0}
      BY <3>1 DEF Created, EngineOK
    <3>3. r.answer \in DOMAIN map' /\ map'[r.answer] = last /\ r.answer \in session'
      BY <2>2, <2>9, <3>1, <3>2
    <3>4. row.status = "FILLED" => r.answer \notin DOMAIN x.book
      <4>1. r.answer \in DOMAIN x.book => x.book[r.answer] \in Nat \ {0}
        BY DEF EngineOK
      <4>2. row.status = "FILLED" => Total(r.fills) >= c.qty
        BY <2>7
      <4>3. /\ Total(r.fills) \in Nat
            /\ r.answer \in DOMAIN x.book => x.book[r.answer] + Total(r.fills) = c.qty
        BY <3>1 DEF Created
      <4>4. ASSUME row.status = "FILLED", r.answer \in DOMAIN x.book PROVE FALSE
        <5> DEFINE b == x.book[r.answer]
                   t == Total(r.fills)
        <5>1. b \in Nat \ {0} /\ t \in Nat /\ t >= c.qty /\ b + t = c.qty /\ c.qty \in Nat
          BY <4>1, <4>2, <4>3, <4>4
        <5> HIDE DEF b, t
        <5> QED
          BY <5>1
      <4> QED
        BY <4>4
    <3>5. row.status \in {"FILLED", "PARTIAL", "OPEN"}
      BY <2>7, <3>1
    <3> QED
      BY <2>7, <3>1, <3>3, <3>4, <3>5 DEF ExactRow, Created, Open
  <2> QED
    BY <2>8, <2>10, <2>11 DEF AllExact
<1>2. CASE c.kind = "tick"
  <2>1. /\ orders' = RowsFilled(r.fills, native) /\ map' = MapFilled(r.fills, native)
        /\ session' = session
    BY <1>2 DEF Continue, AfterTick
  <2> QED
    BY <2>1, FilledExact
<1>3. CASE c.kind = "cancel"
  <2> DEFINE id == c.id
  <2>1. /\ orders' = IF id \in DOMAIN map
                     THEN [orders EXCEPT ![map[id]].status = "CANCELED"] ELSE orders
        /\ DOMAIN map' = DOMAIN map \ {id}
        /\ \A i \in DOMAIN map \ {id} : map'[i] = map[i]
        /\ session \ {id} \subseteq session'
    <3>1. PICK wasm : AfterCancel(id, wasm)
      BY <1>3 DEF Continue
    <3>2. map' = Drop(map, {id})
      BY <3>1 DEF AfterCancel
    <3> HIDE DEF id
    <3>3. DOMAIN map' = DOMAIN map \ {id} /\ \A i \in DOMAIN map \ {id} : map'[i] = map[i]
      BY <3>2, DropFacts
    <3> QED
      BY <3>1, <3>3 DEF AfterCancel
  <2>2. r.fills = Nothing /\ (site.server \/ id \notin DOMAIN x.book)
    BY <1>3
  <2> HIDE DEF id
  <2> SUFFICES ASSUME NEW k \in DOMAIN orders
               PROVE  ExactRow(orders'[k], k, x, map', session', mx2)
    BY <2>1 DEF AllExact
  <2> DEFINE row == orders[k]
  <2>3. DOMAIN row = {"id", "orig", "filled", "home", "status"}
    BY DEF RowsOK
  <2>4. ExactRow(row, k, w, map, session, mx)
    BY DEF AllExact
  <2>5. row.id \notin DOMAIN r.fills
    BY <2>2 DEF Nothing
  <2>6. CASE id \in DOMAIN map /\ map[id] = k
    <3>1. /\ orders'[k].home = row.home /\ orders'[k].id = row.id
          /\ orders'[k].orig = row.orig /\ orders'[k].filled = row.filled
          /\ orders'[k].status = "CANCELED"
      BY <2>1, <2>3, <2>6
    <3>2. row.id = id
      BY <2>6 DEF Leads
    <3>3. ExactRow(row, k, x, [i \in {row.id} |-> k], {row.id}, mx2)
      BY <2>4, <2>5, ExactSame
    <3>4. /\ row.home = "wasm" /\ row.id \notin mx2 \cup {0} =>
                /\ row.id \in DOMAIN x.traded
                /\ row.orig \in Nat /\ row.filled \in Nat
                /\ row.filled <= x.traded[row.id]
                /\ (row.id \notin x.lost => row.filled = x.traded[row.id]) \/ site.server
      BY <3>3 DEF ExactRow, Open
    <3>5. \A i \in DOMAIN x.traded : x.traded[i] \in Nat
      BY DEF EngineOK
    <3> HIDE DEF row
    <3> QED
      BY <2>2, <3>1, <3>2, <3>4, <3>5 DEF ExactRow, Open
  <2>7. CASE ~(id \in DOMAIN map /\ map[id] = k)
    <3>1. orders'[k] = row
      BY <2>1, <2>7
    <3>2. row.home = "wasm" /\ row.id \notin mx2 \cup {0} /\ Open(row) =>
             row.id \in DOMAIN map /\ map[row.id] = k /\ row.id \in session
      BY <2>4 DEF ExactRow
    <3>3. row.home = "wasm" /\ row.id \notin mx2 \cup {0} /\ Open(row) =>
             row.id \in DOMAIN map' /\ map'[row.id] = k /\ row.id \in session'
      BY <2>1, <2>7, <3>2
    <3>4. ExactRow(row, k, x, map', session', mx2)
      BY <2>4, <2>5, <3>3, ExactSame
    <3> QED
      BY <3>1, <3>4
  <2> QED
    BY <2>6, <2>7
<1> QED
  BY <1>1, <1>2, <1>3 DEF Kinds, Submission

\* Engine and fills as an outcome has them.
LEMMA AdvancedShows ==
    ASSUME NEW w, EngineOK(w), NEW x, NEW fills, Advanced(w, x, fills), NEW mx
    PROVE  Shows(fills, w, x, mx)
<1> SUFFICES ASSUME NEW i \in DOMAIN w.traded
             PROVE  /\ i \notin x.lost => i \notin w.lost
                    /\ i \in DOMAIN fills => i \in DOMAIN w.book /\ fills[i] \in Nat
  BY DEF Shows, Advanced
<1>1. i \notin x.lost => i \notin w.lost
  BY DEF Advanced
<1>2. ASSUME i \in DOMAIN fills
      PROVE  i \in DOMAIN w.book /\ fills[i] \in Nat
  <2>1. /\ w.traded[i] + fills[i] <= x.traded[i]
        /\ x.traded[i] <= w.traded[i] + At(w.book, i)
        /\ w.traded[i] \in Nat /\ x.traded[i] \in Nat /\ fills[i] \in Nat \ {0}
    BY <1>2 DEF Advanced, EngineOK, FillsOK, At
  <2>2. At(w.book, i) # 0
    BY <2>1
  <2> QED
    BY <2>1, <2>2 DEF At
<1> QED
  BY <1>1, <1>2

\* An engine that nothing happens to.
LEMMA QuietShows ==
    ASSUME NEW w, EngineOK(w), NEW fills, NEW mx,
           \A i \in DOMAIN w.traded \ mx : i \notin DOMAIN fills
    PROVE  Shows(fills, w, w, mx)
<1> SUFFICES ASSUME NEW i \in DOMAIN w.traded \ mx
             PROVE  /\ w.traded[i] + At(fills, i) <= w.traded[i]
                    /\ w.traded[i] <= w.traded[i] + At(w.book, i)
                    /\ w.traded[i] = w.traded[i] + At(fills, i)
                    /\ i \notin DOMAIN fills
  BY DEF Shows
<1>1. At(fills, i) = 0 /\ i \notin DOMAIN fills
  BY DEF At
<1>2. w.traded[i] \in Nat /\ At(w.book, i) \in Nat
  BY DEF EngineOK, At
<1> QED
  BY <1>1, <1>2

\* No row of the page is of its WASM engine, before and after.
NoWasmRows(rows) == \A k \in DOMAIN rows : rows[k].home # "wasm"

LEMMA NoWasmExact ==
    ASSUME NEW rows, NoWasmRows(rows), NEW w, NEW mp, NEW ses, NEW mx
    PROVE  AllExact(rows, w, mp, ses, mx)
BY DEF NoWasmRows, AllExact, ExactRow

\* Cancelling gives no row another engine.
LEMMA CancelHomes ==
    ASSUME RowsOK(orders), NEW id, NEW wasm, AfterCancel(id, wasm), NoWasmRows(orders)
    PROVE  NoWasmRows(orders')
<1>1. orders' = IF id \in DOMAIN map
                THEN [orders EXCEPT ![map[id]].status = "CANCELED"] ELSE orders
  BY DEF AfterCancel
<1>2. \A k \in DOMAIN orders : DOMAIN orders[k] = {"id", "orig", "filled", "home", "status"}
  BY DEF RowsOK
<1>3. DOMAIN orders' = DOMAIN orders
      /\ \A k \in DOMAIN orders : orders'[k].home = orders[k].home
  BY <1>1, <1>2
<1> QED
  BY <1>3 DEF NoWasmRows

\* Rows of the WASM engine are only in a page that has one.
LEMMA HomesAfter ==
    ASSUME RowsOK(orders), NEW c, c.kind \in Kinds, NEW r, NEW native, NEW home,
           Continue(c, r, native, home), home # "wasm", NoWasmRows(orders)
    PROVE  NoWasmRows(orders')
<1>1. NoWasmRows(RowsFilled(r.fills, native)) /\ IsSeq(RowsFilled(r.fills, native))
  <2>1. ASSUME NEW k \in DOMAIN orders
        PROVE  RowsFilled(r.fills, native)[k].home = orders[k].home
    <3>1. \/ RowsFilled(r.fills, native)[k] = orders[k]
          \/ \E q : RowsFilled(r.fills, native)[k] = Refilled(orders[k], q)
      BY DEF RowsFilled
    <3>2. \A q : Refilled(orders[k], q).home = orders[k].home
      BY DEF Refilled, RowsOK
    <3> QED
      BY <3>1, <3>2
  <2>2. DOMAIN RowsFilled(r.fills, native) = DOMAIN orders
    BY DEF RowsFilled
  <2>3. IsSeq(RowsFilled(r.fills, native))
    BY RowsFilledFacts DEF RowsOK
  <2> QED
    BY <2>1, <2>2, <2>3 DEF NoWasmRows
<1>2. CASE c.kind \in Submission
  <2>1. orders' = Append(RowsFilled(r.fills, native), NewRow(c, r, home))
    BY <1>2 DEF Continue, Submission, AfterSubmit
  <2>2. NewRow(c, r, home).home # "wasm"
    BY DEF NewRow
  <2> DEFINE rows == RowsFilled(r.fills, native)
             row  == NewRow(c, r, home)
  <2> HIDE DEF rows, row
  <2>3. orders' = Append(rows, row) /\ NoWasmRows(rows) /\ IsSeq(rows) /\ row.home # "wasm"
    BY <1>1, <2>1, <2>2 DEF rows, row
  <2>4. /\ DOMAIN orders' = DOMAIN rows \cup {Len(rows) + 1}
        /\ \A k \in DOMAIN rows : orders'[k] = rows[k]
        /\ orders'[Len(rows) + 1] = row
    BY <2>3, AppendFacts
  <2> QED
    BY <2>3, <2>4 DEF NoWasmRows
<1>3. CASE c.kind = "cancel"
  <2>1. PICK wasm : AfterCancel(c.id, wasm)
    BY <1>3 DEF Continue
  <2> QED
    BY <2>1, CancelHomes
<1>4. CASE c.kind = "tick"
  BY <1>1, <1>4 DEF Continue, AfterTick
<1> QED
  BY <1>2, <1>3, <1>4 DEF Kinds, Submission

-----------------------------------------------------------------------------
(* Steps, once more.                                                        *)

\* A call within the page: the engine and the rows change in the same step.
LEMMA LocalCallExact ==
    ASSUME TrackInv, FillInv, ExactInv, mixed \subseteq mixed',
           NEW c, c.kind \in Kinds, c.qty \in Nat, WasmCall(c) \/ NoEngine(c),
           engineReady' = engineReady
    PROVE  /\ AllExact(orders', engine'["wasm"], map', session', mixed')
           /\ \A k \in DOMAIN orders' : orders'[k].home = "wasm" => engineReady'
<1> DEFINE w == engine["wasm"]
<1>1. /\ RowsOK(orders) /\ Leads(map, orders) /\ EngineOK(w)
      /\ AllExact(orders, w, map, session, mixed)
      /\ DOMAIN engine = {"native", "wasm"}
  BY DEF TrackInv, FillInv, EnginesOK, ExactInv
<1>2. CASE WasmCall(c)
  <2>1. PICK r \in Outcomes(w, c) : /\ engine' = [engine EXCEPT !["wasm"] = r.engine]
                                    /\ Continue(c, r, FALSE, "wasm")
    BY <1>2 DEF WasmCall
  <2>2. PICK native : /\ Continue(c, r, native, "wasm") /\ ~native
    BY <2>1
  <2>3. /\ Advanced(w, r.engine, r.fills)
        /\ c.kind \in Submission /\ r.answer # 0 =>
              c.kind = "limit" /\ Created(w, r.engine, r.fills, r.answer, c.qty)
        /\ c.kind = "cancel" => r.fills = Nothing /\ c.id \notin DOMAIN r.engine.book
    BY <1>1, OutcomeFacts DEF FillInv
  <2>4. engine'["wasm"] = r.engine /\ EngineOK(r.engine)
    BY <1>1, <2>1, <2>3 DEF Advanced
  <2>5. c.kind \in Submission => r.answer \notin DOMAIN w.traded \ mixed'
    <3>1. 0 \notin DOMAIN w.traded
      BY <1>1 DEF EngineOK
    <3> QED
      BY <2>3, <3>1 DEF Created
  <2>6. Shows(r.fills, w, r.engine, mixed)
    BY <1>1, <2>3, AdvancedShows
  <2> HIDE DEF w
  <2>7. AllExact(orders', r.engine, map', session', mixed')
    BY <1>1, <2>2, <2>3, <2>4, <2>5, <2>6, ContinueExact
  <2>8. engineReady'
    BY <1>2 DEF WasmCall
  <2> QED
    BY <2>4, <2>7, <2>8
<1>3. CASE NoEngine(c)
  <2>1. NoWasmRows(orders)
    BY <1>3 DEF NoEngine, ExactInv, NoWasmRows
  <2>2. NoWasmRows(orders')
    <3>1. CASE c.kind = "cancel"
      <4>1. PICK wasm : AfterCancel(c.id, wasm)
        BY <1>3, <3>1 DEF NoEngine
      <4> QED
        BY <1>1, <2>1, <4>1, CancelHomes
    <3>2. CASE c.kind # "cancel"
      BY <1>3, <2>1, <3>2 DEF NoEngine, page
    <3> QED
      BY <3>1, <3>2
  <2> QED
    BY <2>2, NoWasmExact DEF NoWasmRows
<1> QED
  BY <1>2, <1>3

\* Steps that leave the site, and calls that are still made to a server.
LEMMA ExactAfter ==
    ASSUME ExactInv, site' = site, useNative' => useNative \/ site.server,
           \A n \in Slots : calls'[n].stage # "free" => calls[n].stage # "free" \/ site.server,
           \A k \in DOMAIN orders' : orders'[k].home = "wasm" => engineReady',
           \A k \in DOMAIN saved' : saved'[k].home # "wasm",
           AllExact(orders', engine'["wasm"], map', session', mixed')
    PROVE  ExactInv'
<1>1. Slots' = Slots
  BY DEF Slots
<1>2. AllExact(orders, engine["wasm"], map, session, mixed)'
  BY DEF AllExact, ExactRow
<1> QED
  BY <1>1, <1>2 DEF ExactInv

LEMMA StartExact ==
    ASSUME TrackInv, FillInv, ExactInv, site' = site, mixed \subseteq mixed',
           NEW kind \in Kinds, NEW id, NEW qty \in Nat, Start(kind, id, qty)
    PROVE  ExactInv'
<1> DEFINE c == Request(kind, id, qty)
<1>1. c.kind = kind /\ c.qty = qty
  BY DEF Request, NoCall
<1>2. UNCHANGED <<useNative, engineReady, saved>>
  BY DEF Start
<1> HIDE DEF c
<1>3. CASE useNative
  <2>1. Send(c) /\ UNCHANGED <<engine, page>>
    BY <1>3 DEF Start, c
  <2>2. site.server
    BY <1>3 DEF ExactInv
  <2>3. AllExact(orders', engine'["wasm"], map', session', mixed')
    BY <2>1 DEF ExactInv, page, AllExact, ExactRow
  <2> QED
    BY <1>2, <2>1, <2>2, <2>3, ExactAfter DEF ExactInv, page
<1>4. CASE ~useNative
  <2>1. (WasmCall(c) \/ NoEngine(c)) /\ calls' = calls
    BY <1>4 DEF Start, c
  <2>2. /\ AllExact(orders', engine'["wasm"], map', session', mixed')
        /\ \A k \in DOMAIN orders' : orders'[k].home = "wasm" => engineReady'
    BY <1>1, <1>2, <2>1, LocalCallExact
  <2> QED
    BY <1>2, <2>1, <2>2, ExactAfter DEF ExactInv
<1> QED
  BY <1>3, <1>4

LEMMA FetchFailsExact ==
    ASSUME TrackInv, FillInv, ExactInv, site' = site, mixed \subseteq mixed',
           NEW n \in Slots, FetchFails(n)
    PROVE  ExactInv'
<1> DEFINE c == calls[n]
<1>1. c.kind \in Kinds /\ c.qty \in Nat
  BY DEF TrackInv, CallsOK, FillInv, CallSound
<1>2. /\ WasmCall(c) \/ NoEngine(c)
      /\ calls' = [calls EXCEPT ![n] = NoCall] /\ useNative' = FALSE
      /\ UNCHANGED <<engineReady, saved>>
  BY DEF FetchFails
<1> HIDE DEF c
<1>3. /\ AllExact(orders', engine'["wasm"], map', session', mixed')
      /\ \A k \in DOMAIN orders' : orders'[k].home = "wasm" => engineReady'
  BY <1>1, <1>2, LocalCallExact
<1>4. \A k \in Slots : calls'[k].stage # "free" => calls[k].stage # "free"
  BY <1>2 DEF TrackInv, CallsOK, NoCall
<1> QED
  BY <1>2, <1>3, <1>4, ExactAfter DEF ExactInv

\* The fills of the server are of ids that the WASM engine has not given out, or
\* mixed ones; and so is the id of its answer.
LEMMA ReceiveExact ==
    ASSUME TrackInv, FillInv, ExactInv, site' = site, mixed \subseteq mixed',
           NEW n \in Slots, Receive(n)
    PROVE  ExactInv'
<1> DEFINE c == calls[n]
           e == engine["native"]
           w == engine["wasm"]
<1>1. /\ RowsOK(orders) /\ Leads(map, orders) /\ EngineOK(w) /\ EngineOK(e)
      /\ AllExact(orders, w, map, session, mixed)
      /\ DOMAIN e.traded \cap DOMAIN w.traded \subseteq mixed
      /\ c.kind \in Kinds /\ CallSound(c, e, Pending, mixed)
      /\ DOMAIN calls = Slots
  BY DEF TrackInv, CallsOK, FillInv, EnginesOK, ExactInv
<1>2. /\ Continue(c, c, useNative, "native") /\ c.stage = "answered"
      /\ calls' = [calls EXCEPT ![n] = NoCall]
      /\ UNCHANGED <<engine, useNative, engineReady, saved>>
  BY DEF Receive
<1>3. PICK native : Continue(c, c, native, "native")
  BY <1>2
<1>4. site.server
  BY <1>2 DEF ExactInv
<1>5. \A i \in DOMAIN w.traded \ mixed : i \notin DOMAIN c.fills
  <2>1. DOMAIN c.fills \subseteq 1..(e.next_id - 1) \cup mixed
    BY <1>1 DEF CallSound, FillsOK
  <2>2. DOMAIN e.traded = 2..(e.next_id - 1) /\ e.next_id \in Nat
    BY <1>1 DEF EngineOK
  <2>3. \A i \in DOMAIN w.traded : i \in Nat /\ i >= 2
    BY <1>1 DEF EngineOK
  <2> QED
    BY <1>1, <2>1, <2>2, <2>3
<1>6. Shows(c.fills, w, w, mixed)
  BY <1>1, <1>5, QuietShows
<1>7. c.kind \in Submission => c.answer \notin DOMAIN w.traded \ mixed'
  <2>1. c.kind \in Submission => c.answer \in mixed \cup {0} \cup DOMAIN e.traded
    BY <1>1 DEF CallSound, Sound, NewRow
  <2>2. 0 \notin DOMAIN w.traded
    BY <1>1 DEF EngineOK
  <2> QED
    BY <1>1, <2>1, <2>2
<1>8. c.qty \in Nat
  BY <1>1 DEF CallSound
<1>9. AllExact(orders', w, map', session', mixed')
  <2>1. CASE c.kind = "cancel"
    <3> DEFINE r == [fills |-> Nothing]
    <3>1. Continue(c, r, native, "native")
      BY <1>3, <2>1 DEF Continue
    <3>2. Shows(r.fills, w, w, mixed)
      BY <1>1, QuietShows DEF Nothing
    <3>3. r.fills = Nothing /\ c.kind \notin Submission
      BY <2>1 DEF Submission
    <3> HIDE DEF c, e, w, r
    <3> QED
      BY <1>1, <1>4, <1>8, <2>1, <3>1, <3>2, <3>3, ContinueExact
  <2>2. CASE c.kind # "cancel"
    <3> HIDE DEF c, e, w
    <3> QED
      BY <1>1, <1>3, <1>6, <1>7, <1>8, <2>2, ContinueExact
  <2> QED
    BY <2>1, <2>2
<1>10. \A k \in DOMAIN orders' : orders'[k].home = "wasm" => engineReady'
  <2>1. CASE engineReady
    BY <1>2, <2>1
  <2>2. CASE ~engineReady
    <3>1. NoWasmRows(orders)
      BY <2>2 DEF ExactInv, NoWasmRows
    <3> HIDE DEF c
    <3>2. NoWasmRows(orders')
      BY <1>1, <1>3, <3>1, HomesAfter
    <3> QED
      BY <3>2 DEF NoWasmRows
  <2> QED
    BY <2>1, <2>2
<1>11. \A k \in Slots : calls'[k].stage # "free" => calls[k].stage # "free"
  BY <1>1, <1>2 DEF NoCall
<1> QED
  BY <1>2, <1>9, <1>10, <1>11, ExactAfter DEF ExactInv

\* The server and its other clients change nothing of the page.
LEMMA ServerExact ==
    ASSUME TrackInv, FillInv, ExactInv, site' = site, mixed \subseteq mixed',
           (\E n \in Slots : Serve(n)) \/ OtherClient \/ ServerReset
    PROVE  ExactInv'
<1>1. /\ UNCHANGED <<useNative, engineReady, page, saved>>
      /\ engine'["wasm"] = engine["wasm"]
  <2>1. DOMAIN engine = {"native", "wasm"}
    BY DEF FillInv, EnginesOK
  <2>2. \E x : engine' = [engine EXCEPT !["native"] = x]
    BY DEF Serve, OtherClient, ServerReset
  <2> QED
    BY <2>1, <2>2 DEF Serve, OtherClient, ServerReset
<1>2. \A n \in Slots : calls'[n].stage # "free" => calls[n].stage # "free"
  <2>1. CASE OtherClient \/ ServerReset
    BY <2>1 DEF OtherClient, ServerReset
  <2>2. ASSUME NEW n \in Slots, Serve(n)
        PROVE  \A k \in Slots : calls'[k].stage # "free" => calls[k].stage # "free"
    <3>1. PICK answer, fills :
             calls' = [calls EXCEPT ![n].stage = "answered", ![n].answer = answer,
                                    ![n].fills = fills]
      BY <2>2 DEF Serve
    <3>2. calls[n].stage = "sent" /\ \A k \in Slots \ {n} : calls'[k] = calls[k]
      BY <2>2, <3>1 DEF Serve, TrackInv, CallsOK
    <3> QED
      BY <3>2
  <2> QED
    BY <2>1, <2>2
<1>3. AllExact(orders', engine'["wasm"], map', session', mixed')
  BY <1>1 DEF ExactInv, page, AllExact, ExactRow
<1> QED
  BY <1>1, <1>2, <1>3, ExactAfter DEF ExactInv, page

\* A page that starts up has no row of its WASM engine yet.
LEMMA StartUpExact ==
    ASSUME TrackInv, FillInv, ExactInv, site' = site, mixed \subseteq mixed',
           HealthAnswers \/ onRuntimeInitialized
    PROVE  ExactInv'
<1>1. /\ calls' = calls /\ saved' = saved
      /\ useNative' => useNative \/ site.server
      /\ engineReady => engineReady'
  <2>1. CASE HealthAnswers
    <3>1. site.server \/ useNative' = useNative
      BY <2>1 DEF HealthAnswers
    <3>2. engineReady' = engineReady /\ calls' = calls /\ saved' = saved
      BY <2>1 DEF HealthAnswers
    <3> QED
      BY <3>1, <3>2
  <2>2. CASE onRuntimeInitialized
    <3>1. /\ engineReady' = TRUE /\ useNative' = useNative
          /\ calls' = calls /\ saved' = saved
      BY <2>2 DEF onRuntimeInitialized
    <3> QED
      BY <3>1
  <2> QED
    BY <2>1, <2>2
<1>2. \/ UNCHANGED <<engine, page>>
      \/ ~engineReady /\ tryRestoreState
  BY DEF HealthAnswers, onRuntimeInitialized, startEngineInit
<1>3. CASE UNCHANGED <<engine, page>>
  <2>1. AllExact(orders', engine'["wasm"], map', session', mixed')
    BY <1>3 DEF ExactInv, page, AllExact, ExactRow
  <2> QED
    BY <1>1, <1>3, <2>1, ExactAfter DEF ExactInv, page
<1>4. CASE ~engineReady /\ tryRestoreState
  <2>1. NoWasmRows(orders) /\ NoWasmRows(saved)
    BY <1>4 DEF ExactInv, NoWasmRows
  <2>2. orders' = orders \o saved
    BY <1>4 DEF tryRestoreState
  <2>3. IsSeq(orders) /\ IsSeq(saved)
    BY DEF TrackInv, RowsOK
  <2>4. ASSUME NEW t, t = orders \o saved PROVE NoWasmRows(t)
    <3>1. \A k \in DOMAIN t \ DOMAIN orders :
             k - Len(orders) \in DOMAIN saved /\ t[k] = saved[k - Len(orders)]
      BY <2>3, <2>4, ConcatFacts
    <3>2. \A k \in DOMAIN orders : t[k] = orders[k]
      BY <2>3, <2>4, ConcatFacts
    <3> QED
      BY <2>1, <3>1, <3>2 DEF NoWasmRows
  <2>5. NoWasmRows(orders')
    BY <2>2, <2>4
  <2>6. AllExact(orders', engine'["wasm"], map', session', mixed')
    BY <2>5, NoWasmExact
  <2> QED
    BY <1>1, <2>5, <2>6, ExactAfter DEF ExactInv, NoWasmRows
<1> QED
  BY <1>2, <1>3, <1>4

LEMMA ReloadExact ==
    ASSUME TrackInv, FillInv, ExactInv, site' = site, mixed \subseteq mixed', Reload
    PROVE  ExactInv'
<1> DEFINE kept == Len(orders) - dropped
<1>1. /\ orders' = <<>> /\ useNative' = FALSE
      /\ \A n \in Slots : calls'[n] = NoCall
      /\ saved' = [k \in 1..kept |-> Kept(orders[dropped + k])]
  BY DEF Reload
<1>2. NoWasmRows(orders')
  BY <1>1 DEF NoWasmRows
<1>3. \A k \in 1..kept : /\ dropped + k \in DOMAIN orders
                         /\ DOMAIN orders[dropped + k]
                              = {"id", "orig", "filled", "home", "status"}
  BY SeqFacts DEF TrackInv, RowsOK, Shifted
<1> HIDE DEF kept
<1>4. \A k \in DOMAIN saved' : saved'[k].home # "wasm"
  BY <1>1, <1>3 DEF Kept
<1>5. \A n \in Slots : calls'[n].stage = "free"
  BY <1>1 DEF NoCall
<1>6. AllExact(orders', engine'["wasm"], map', session', mixed')
  BY <1>2, NoWasmExact
<1> QED
  BY <1>1, <1>2, <1>4, <1>5, <1>6, ExactAfter DEF NoWasmRows

LEMMA ExactInductive == TrackInv /\ FillInv /\ ExactInv /\ [CNext]_cvars => ExactInv'
<1> SUFFICES ASSUME TrackInv, FillInv, ExactInv, [CNext]_cvars PROVE ExactInv'
  OBVIOUS
<1>1. CASE CNext
  <2>1. site' = site /\ mixed \subseteq mixed'
    BY <1>1 DEF CNext
  <2>2. ASSUME NEW kind \in {"limit", "market"}, NEW qty \in Qtys, Submit(kind, qty)
        PROVE  ExactInv'
    <3>1. qty \in Nat
      BY SiteFacts DEF FillInv
    <3> QED
      BY <2>1, <2>2, <3>1, StartExact DEF Submit, Kinds
  <2>3. ASSUME NEW k, cancelOrder(k)
        PROVE  ExactInv'
    BY <2>1, <2>3, StartExact DEF cancelOrder, Kinds
  <2>4. ASSUME generateBatch
        PROVE  ExactInv'
    BY <2>1, <2>4, StartExact DEF generateBatch, Kinds
  <2>5. ASSUME NEW n \in Slots, Receive(n) \/ FetchFails(n)
        PROVE  ExactInv'
    BY <2>1, <2>5, ReceiveExact, FetchFailsExact
  <2>6. ASSUME (\E n \in Slots : Serve(n)) \/ OtherClient \/ ServerReset
        PROVE  ExactInv'
    BY <2>1, <2>6, ServerExact
  <2>7. ASSUME HealthAnswers \/ onRuntimeInitialized
        PROVE  ExactInv'
    BY <2>1, <2>7, StartUpExact
  <2>8. ASSUME Reload
        PROVE  ExactInv'
    BY <2>1, <2>8, ReloadExact
  <2> QED
    BY <1>1, <2>2, <2>3, <2>4, <2>5, <2>6, <2>7, <2>8 DEF CNext
<1>2. CASE UNCHANGED cvars
  <2>1. /\ site' = site
        /\ UNCHANGED <<engine, useNative, engineReady, calls, orders, map, session, saved,
                       mixed>>
    BY <1>2 DEF cvars, page
  <2>2. AllExact(orders', engine'["wasm"], map', session', mixed')
    BY <2>1 DEF ExactInv, AllExact, ExactRow
  <2> QED
    BY <2>1, <2>2, ExactAfter DEF ExactInv
<1> QED
  BY <1>1, <1>2

\* A row of the page's own WASM engine shows exactly what its order traded, in
\* every state: after fetches that fail and calls that overlap, next to restored
\* rows with its id, and whatever the server answers, as long as the server has
\* not given out its id.  Only a row whose order a liquidity order filled, or whose
\* cancel went to the server, which leaves the order at work, may show less, and
\* no row shows more (script.js:134, :204, :236, :248; wasm_bridge.cpp:104-120).
THEOREM SessionRowsExact == CSpec => []SessionExact
<1>1. CInit => TrackInv /\ FillInv /\ ExactInv
  <2>1. CInit => ExactInv
    BY DEF CInit, ExactInv, AllExact, NoCall
  <2> QED
    BY <2>1, TrackInit, FillInit
<1>2. TrackInv /\ FillInv /\ ExactInv /\ [CNext]_cvars => (TrackInv /\ FillInv /\ ExactInv)'
  BY TrackInductive, FillInductive, ExactInductive
<1>3. TrackInv /\ FillInv /\ ExactInv => SessionExact
  <2> SUFFICES ASSUME FillInv, ExactInv, NEW k \in DOMAIN orders,
                      orders[k].home = "wasm", orders[k].id \notin mixed \cup {0}
               PROVE  LET traded == engine["wasm"].traded[orders[k].id]
                      IN  \/ orders[k].filled = traded
                          \/ /\ orders[k].filled < traded
                             /\ \/ orders[k].id \in engine["wasm"].lost
                                \/ orders[k].status = "CANCELED" /\ site.server
    BY DEF SessionExact
  <2>1. ExactRow(orders[k], k, engine["wasm"], map, session, mixed)
    BY DEF ExactInv, AllExact
  <2>2. engine["wasm"].traded[orders[k].id] \in Nat
    BY <2>1 DEF ExactRow, FillInv, EnginesOK, EngineOK
  <2> QED
    BY <2>1, <2>2 DEF ExactRow, Open
<1> QED
  BY <1>1, <1>2, <1>3, PTL DEF CSpec

-----------------------------------------------------------------------------
(* What the rest of a call, and a restore, leave of each row.               *)

\* The fills reach row k.
Hits(fills, native, k) ==
    LET i == orders[k].id
    IN  /\ i \in DOMAIN fills /\ i \in DOMAIN map /\ map[i] = k
        /\ native \/ i \in session

\* What a fill leaves of a row.
RefilledBy(row, r, qty) ==
    /\ r.id = row.id /\ r.home = row.home /\ r.orig = row.orig
    /\ r.filled = IF row.filled + qty > row.orig THEN row.orig ELSE row.filled + qty
    /\ r.status = IF r.filled >= row.orig THEN "FILLED" ELSE "PARTIAL"

LEMMA RowFill ==
    ASSUME RowsOK(orders), Leads(map, orders), NEW fills, NEW native,
           NEW rows, rows = RowsFilled(fills, native), NEW k \in DOMAIN orders
    PROVE  /\ Hits(fills, native, k) => /\ orders[k].status # "CANCELED"
                                        /\ RefilledBy(orders[k], rows[k], fills[orders[k].id])
           /\ ~Hits(fills, native, k) => rows[k] = orders[k]
<1> DEFINE hits == {i \in Reached(fills, native) : map[i] = k}
           i    == orders[k].id
<1>1. rows[k] = IF hits = {} THEN orders[k]
                ELSE Refilled(orders[k], fills[CHOOSE j \in hits : TRUE])
  BY DEF RowsFilled
<1>2. \A j \in hits : j = i /\ Hits(fills, native, k)
  BY DEF Leads, Reached, Hits
<1>3. Hits(fills, native, k) => i \in hits /\ orders[k].status # "CANCELED"
  BY DEF Leads, Reached, Hits
<1> HIDE DEF hits
<1>4. CASE Hits(fills, native, k)
  <2>1. (CHOOSE j \in hits : TRUE) = i
    BY <1>2, <1>3, <1>4
  <2>2. rows[k] = Refilled(orders[k], fills[i])
    BY <1>1, <1>3, <1>4, <2>1
  <2>3. DOMAIN orders[k] = {"id", "orig", "filled", "home", "status"}
    BY DEF RowsOK
  <2>4. RefilledBy(orders[k], rows[k], fills[i])
    BY <2>2, <2>3 DEF Refilled, RefilledBy
  <2> QED
    BY <1>3, <1>4, <2>4
<1>5. CASE ~Hits(fills, native, k)
  BY <1>1, <1>2, <1>5
<1> QED
  BY <1>4, <1>5

\* A row that is full is not tracked any more, if it was reached.
LEMMA MapFill ==
    ASSUME RowsOK(orders), Leads(map, orders), NEW fills, NEW native,
           NEW rows, rows = RowsFilled(fills, native),
           NEW mp, mp = MapFilled(fills, native)
    PROVE  /\ DOMAIN mp \subseteq DOMAIN map
           /\ \A i \in DOMAIN mp : mp[i] = map[i]
           /\ \A i \in DOMAIN map :
                 i \in DOMAIN mp <=>
                    ~(Hits(fills, native, map[i]) /\ rows[map[i]].status = "FILLED")
<1>1. PICK S : /\ mp = Drop(map, S)
               /\ S = {i \in Reached(fills, native) : rows[map[i]].status = "FILLED"}
  BY DEF MapFilled
<1>2. mp = Drop(map, S)
  BY <1>1
<1>3. DOMAIN mp = DOMAIN map \ S /\ \A i \in DOMAIN map \ S : mp[i] = map[i]
  BY ONLY <1>2, DropFacts
<1>4. ASSUME NEW i \in DOMAIN map
      PROVE  i \in S <=> Hits(fills, native, map[i]) /\ rows[map[i]].status = "FILLED"
  <2>1. orders[map[i]].id = i /\ orders[map[i]].status # "CANCELED"
    BY DEF Leads
  <2> QED
    BY <1>1, <2>1 DEF Reached, Hits
<1> QED
  BY <1>3, <1>4

\* The page after a submission: rows and open after its fills, and the new row.
SubmitLeaves(c, r, native, home, rows, open, last) ==
    /\ DOMAIN orders' = DOMAIN orders \cup {last} /\ last \notin DOMAIN orders
    /\ \A k \in DOMAIN orders : orders'[k] = rows[k]
    /\ orders'[last] = NewRow(c, r, home)
    /\ r.answer > 0 => /\ DOMAIN map' = DOMAIN open \cup {r.answer}
                       /\ map'[r.answer] = last
                       /\ \A i \in DOMAIN open \ {r.answer} : map'[i] = open[i]
    /\ ~(r.answer > 0) => map' = open
    /\ session' = IF r.answer > 0 /\ ~native THEN session \cup {r.answer} ELSE session

LEMMA SubmitRows ==
    ASSUME RowsOK(orders), Leads(map, orders), NEW c, NEW r, NEW native, NEW home,
           AfterSubmit(c, r, native, home),
           NEW rows, rows = RowsFilled(r.fills, native),
           NEW open, open = MapFilled(r.fills, native),
           NEW last, last = Len(orders) + 1
    PROVE  SubmitLeaves(c, r, native, home, rows, open, last)
<1>1. /\ orders' = Append(rows, NewRow(c, r, home))
      /\ map' = IF r.answer > 0 THEN Put(open, r.answer, Len(rows) + 1) ELSE open
      /\ session' = IF r.answer > 0 /\ ~native THEN session \cup {r.answer} ELSE session
  BY DEF AfterSubmit
<1>2. RowsOK(rows) /\ DOMAIN rows = DOMAIN orders
  BY RowsFilledFacts
<1>3. Len(rows) = Len(orders) /\ Len(orders) \in Nat /\ DOMAIN orders = 1..Len(orders)
  <2>1. /\ Len(rows) \in Nat /\ DOMAIN rows = 1..Len(rows)
        /\ Len(orders) \in Nat /\ DOMAIN orders = 1..Len(orders)
    BY <1>2, SeqFacts DEF RowsOK
  <2>2. \A a, b \in Nat : a < b => b \in 1..b /\ b \notin 1..a
    OBVIOUS
  <2>3. ~(Len(rows) < Len(orders)) /\ ~(Len(orders) < Len(rows))
    BY <1>2, <2>1, <2>2
  <2>4. Len(rows) = Len(orders)
    BY <2>1, <2>3
  <2> QED
    BY <2>1, <2>4
<1> DEFINE row == NewRow(c, r, home)
<1> HIDE DEF row
<1>4. /\ DOMAIN orders' = DOMAIN rows \cup {last}
      /\ \A k \in DOMAIN rows : orders'[k] = rows[k]
      /\ orders'[last] = row
  BY <1>1, <1>2, <1>3, AppendFacts DEF RowsOK, row
<1>5. r.answer > 0 => /\ DOMAIN map' = DOMAIN open \cup {r.answer}
                      /\ map'[r.answer] = last
                      /\ \A i \in DOMAIN open \ {r.answer} : map'[i] = open[i]
  BY <1>1, <1>3 DEF Put
<1>6. last \notin DOMAIN orders
  BY <1>3
<1> QED
  BY <1>1, <1>2, <1>4, <1>5, <1>6 DEF row, SubmitLeaves

\* The page after a cancel of id.
CancelLeaves(id) ==
    /\ DOMAIN orders' = DOMAIN orders
    /\ \A k \in DOMAIN orders :
          /\ orders'[k].id = orders[k].id /\ orders'[k].home = orders[k].home
          /\ orders'[k].orig = orders[k].orig /\ orders'[k].filled = orders[k].filled
          /\ \/ orders'[k] = orders[k] /\ ~(id \in DOMAIN map /\ map[id] = k)
             \/ /\ orders'[k].status = "CANCELED"
                /\ id \in DOMAIN map /\ map[id] = k /\ orders[k].id = id
    /\ DOMAIN map' = DOMAIN map \ {id}
    /\ \A i \in DOMAIN map' : map'[i] = map[i]
    /\ session' \subseteq session

LEMMA CancelRows ==
    ASSUME RowsOK(orders), Leads(map, orders), NEW id, NEW wasm, AfterCancel(id, wasm)
    PROVE  CancelLeaves(id)
<1>1. /\ orders' = IF id \in DOMAIN map
                   THEN [orders EXCEPT ![map[id]].status = "CANCELED"] ELSE orders
      /\ DOMAIN map' = DOMAIN map \ {id}
      /\ \A i \in DOMAIN map \ {id} : map'[i] = map[i]
      /\ session' \subseteq session
  BY DropFacts DEF AfterCancel
<1>2. ASSUME NEW k \in DOMAIN orders
      PROVE  /\ orders'[k].id = orders[k].id /\ orders'[k].home = orders[k].home
             /\ orders'[k].orig = orders[k].orig
             /\ orders'[k].filled = orders[k].filled
             /\ \/ orders'[k] = orders[k] /\ ~(id \in DOMAIN map /\ map[id] = k)
                \/ /\ orders'[k].status = "CANCELED"
                   /\ id \in DOMAIN map /\ map[id] = k /\ orders[k].id = id
  <2>1. DOMAIN orders[k] = {"id", "orig", "filled", "home", "status"}
    BY DEF RowsOK
  <2>2. id \in DOMAIN map => orders[map[id]].id = id
    BY DEF Leads
  <2> QED
    BY <1>1, <2>1, <2>2
<1> QED
  BY <1>1, <1>2 DEF CancelLeaves

LEMMA RestoreOK ==
    ASSUME RowsOK(orders), RowsOK(saved), tryRestoreState
    PROVE  RowsOK(orders')
<1>1. PICK rows : rows = orders \o saved
  OBVIOUS
<1>2. IsSeq(orders) /\ IsSeq(saved)
  BY DEF RowsOK
<1>3. \A k \in DOMAIN rows \ DOMAIN orders :
         k - Len(orders) \in DOMAIN saved /\ rows[k] = saved[k - Len(orders)]
  BY <1>1, <1>2, ConcatFacts
<1>4. IsSeq(rows) /\ \A k \in DOMAIN orders : rows[k] = orders[k]
  BY <1>1, <1>2, ConcatFacts
<1>5. ASSUME NEW k \in DOMAIN rows
      PROVE  DOMAIN rows[k] = {"id", "orig", "filled", "home", "status"}
  BY <1>3, <1>4 DEF RowsOK
<1> QED
  BY <1>1, <1>4, <1>5 DEF tryRestoreState, RowsOK

LEMMA RestoreRows ==
    ASSUME RowsOK(orders), RowsOK(saved), tryRestoreState
    PROVE  /\ \A k \in DOMAIN orders : k \in DOMAIN orders' /\ orders'[k] = orders[k]
           /\ \A k \in DOMAIN orders' \ DOMAIN orders :
                 \E j \in DOMAIN saved : orders'[k] = saved[j]
           /\ \A j \in DOMAIN saved :
                 \E k \in DOMAIN orders' \ DOMAIN orders : orders'[k] = saved[j]
           /\ DOMAIN map \subseteq DOMAIN map'
           /\ \A k \in DOMAIN orders' :
                 k > dropped => (orders'[k].id # 0 /\ Open(orders'[k])
                                 => orders'[k].id \in DOMAIN map')
           /\ \A i \in DOMAIN map' :
                 \/ i \in DOMAIN map /\ map'[i] = map[i]
                 \/ Open(orders'[map'[i]]) /\ i # 0
<1>1. PICK rows : rows = orders \o saved
  OBVIOUS
<1> DEFINE back == {k \in DOMAIN rows : k > dropped /\ rows[k].id # 0 /\ Open(rows[k])}
           last(i) == CHOOSE k \in back : /\ rows[k].id = i
                                          /\ \A j \in back : rows[j].id = i => j <= k
<1>2. orders' = rows /\ DOMAIN map' = DOMAIN map \cup {rows[k].id : k \in back}
  BY <1>1 DEF tryRestoreState
<1>3. IsSeq(orders) /\ IsSeq(saved)
  BY DEF RowsOK
<1>4. \A k \in DOMAIN orders : k \in DOMAIN rows /\ rows[k] = orders[k]
  BY ONLY <1>1, <1>3, ConcatFacts
<1>5. \A k \in DOMAIN rows \ DOMAIN orders : \E j \in DOMAIN saved : rows[k] = saved[j]
  <2>1. \A k \in DOMAIN rows \ DOMAIN orders :
           k - Len(orders) \in DOMAIN saved /\ rows[k] = saved[k - Len(orders)]
    BY <1>1, <1>3, ConcatFacts
  <2> QED
    BY <2>1
<1>6. \A j \in DOMAIN saved : \E k \in DOMAIN rows \ DOMAIN orders : rows[k] = saved[j]
  <2>1. \A j \in DOMAIN saved : /\ Len(orders) + j \in DOMAIN rows \ DOMAIN orders
                               /\ rows[Len(orders) + j] = saved[j]
    BY <1>1, <1>3, ConcatTail
  <2> QED
    BY <2>1
<1>7. ASSUME NEW i \in DOMAIN map'
      PROVE  \/ i \in DOMAIN map /\ map'[i] = map[i]
             \/ Open(rows[map'[i]]) /\ i # 0
  <2>1. map' = [n \in DOMAIN map \cup {rows[k].id : k \in back} |->
                  IF \E k \in back : rows[k].id = n THEN last(n) ELSE map[n]]
    BY <1>1 DEF tryRestoreState
  <2>2. CASE ~ \E k \in back : rows[k].id = i
    BY <2>1, <2>2
  <2>3. CASE \E k \in back : rows[k].id = i
    <3>1. rows = orders' /\ RowsOK(rows)
      BY <1>2, RestoreOK
    <3>2. back \subseteq 1..Len(rows) /\ Len(rows) \in Nat
      BY <3>1, SeqFacts DEF RowsOK
    <3>3. \E k \in {j \in back : rows[j].id = i} :
             \A j \in {n \in back : rows[n].id = i} : j <= k
      BY <2>3, <3>2, GreatestPosition
    <3>4. \E k \in back : rows[k].id = i /\ \A j \in back : rows[j].id = i => j <= k
      BY <3>3
    <3>5. last(i) \in back /\ rows[last(i)].id = i
      BY <3>4
    <3>6. map'[i] = last(i)
      BY <2>1, <2>3
    <3> HIDE DEF last
    <3> QED
      BY <3>5, <3>6
  <2> QED
    BY <2>2, <2>3
<1>8. /\ DOMAIN map \subseteq DOMAIN map'
      /\ \A k \in back : rows[k].id \in DOMAIN map'
  BY <1>2
<1>9. \A k \in DOMAIN rows : k > dropped /\ rows[k].id # 0 /\ Open(rows[k]) => k \in back
  OBVIOUS
<1>10. orders' = rows
  BY <1>2
<1> HIDE DEF back, last
<1>11. \A k \in DOMAIN orders' :
          k > dropped => (orders'[k].id # 0 /\ Open(orders'[k])
                          => orders'[k].id \in DOMAIN map')
  BY <1>8, <1>9, <1>10
<1>12. \A i \in DOMAIN map' : \/ i \in DOMAIN map /\ map'[i] = map[i]
                              \/ Open(orders'[map'[i]]) /\ i # 0
  BY <1>7, <1>10
<1> QED
  BY <1>4, <1>5, <1>6, <1>8, <1>10, <1>11, <1>12

-----------------------------------------------------------------------------
(* What rows of an earlier WASM session gain.  Nothing that the session     *)
(* has given out leads to one of them.                                      *)

NotOld(mp, ses, rows) == \A i \in DOMAIN mp \cap ses : rows[mp[i]].home # "old"

NoCalls == \A n \in Slots : calls[n] = NoCall

SessInv ==
    /\ reloads \in Nat
    /\ health = "pending" => ~useNative /\ NoCalls
    /\ ~engineReady /\ (useNative \/ health = "pending") => session = {}
    /\ NotOld(map, session, orders)

\* A row of an earlier session keeps what it shows.
OldRowsKept == \A k \in DOMAIN orders :
                  orders[k].home = "old" => orders'[k].filled = orders[k].filled

LEMMA FilledOld ==
    ASSUME RowsOK(orders), Leads(map, orders), NotOld(map, session, orders),
           NEW fills, NEW native, NEW rows, rows = RowsFilled(fills, native),
           NEW mp, mp = MapFilled(fills, native)
    PROVE  /\ NotOld(mp, session, rows)
           /\ ~native => \A k \in DOMAIN orders :
                            orders[k].home = "old" => rows[k] = orders[k]
<1>1. /\ DOMAIN mp \subseteq DOMAIN map
      /\ \A i \in DOMAIN mp : mp[i] = map[i]
  BY MapFill
<1>2. \A k \in DOMAIN orders : rows[k].home = orders[k].home
  BY RowsFilledFacts
<1>3. NotOld(mp, session, rows)
  BY <1>1, <1>2 DEF NotOld, Leads
<1>4. ASSUME ~native, NEW k \in DOMAIN orders, orders[k].home = "old"
      PROVE  rows[k] = orders[k]
  <2>1. ~Hits(fills, native, k)
    BY <1>4 DEF Hits, NotOld
  <2> QED
    BY <2>1, RowFill
<1> QED
  BY <1>3, <1>4

LEMMA ContinueOld ==
    ASSUME RowsOK(orders), Leads(map, orders), NotOld(map, session, orders),
           NEW c, c.kind \in Kinds, NEW r, NEW native, NEW home, home # "old",
           Continue(c, r, native, home)
    PROVE  /\ NotOld(map', session', orders')
           /\ native => session' \subseteq session
           /\ ~native => OldRowsKept
<1>0. PICK rows, open, last : /\ rows = RowsFilled(r.fills, native)
                              /\ open = MapFilled(r.fills, native)
                              /\ last = Len(orders) + 1
  OBVIOUS
<1>1. /\ NotOld(open, session, rows)
      /\ ~native => \A k \in DOMAIN orders : orders[k].home = "old" => rows[k] = orders[k]
  BY <1>0, FilledOld
<1>2. CASE c.kind \in Submission
  <2>1. AfterSubmit(c, r, native, home)
    BY <1>2 DEF Continue, Submission
  <2>2. SubmitLeaves(c, r, native, home, rows, open, last)
    BY <1>0, <2>1, SubmitRows
  <2>3. NewRow(c, r, home).home = home
    BY DEF NewRow
  <2>4. \A i \in DOMAIN open : open[i] \in DOMAIN orders
    BY <1>0, MapFill DEF Leads
  <2>5. NotOld(map', session', orders')
    BY <1>1, <2>2, <2>3, <2>4 DEF NotOld, SubmitLeaves
  <2>6. ~native => OldRowsKept
    BY <1>1, <2>2 DEF OldRowsKept, SubmitLeaves
  <2> QED
    BY <2>2, <2>5, <2>6 DEF SubmitLeaves
<1>3. CASE c.kind = "cancel"
  <2>1. PICK wasm : AfterCancel(c.id, wasm)
    BY <1>3 DEF Continue
  <2>2. /\ DOMAIN orders' = DOMAIN orders
        /\ \A k \in DOMAIN orders : /\ orders'[k].home = orders[k].home
                                    /\ orders'[k].filled = orders[k].filled
        /\ DOMAIN map' \subseteq DOMAIN map
        /\ \A i \in DOMAIN map' : map'[i] = map[i]
        /\ session' \subseteq session
    BY <2>1, CancelRows DEF CancelLeaves
  <2>3. NotOld(map', session', orders')
    BY <2>2 DEF NotOld, Leads
  <2> QED
    BY <2>2, <2>3 DEF OldRowsKept
<1>4. CASE c.kind = "tick"
  <2>1. orders' = rows /\ map' = open /\ session' = session
    BY <1>0, <1>4 DEF Continue, AfterTick
  <2> QED
    BY <1>1, <2>1 DEF OldRowsKept
<1> QED
  BY <1>2, <1>3, <1>4 DEF Kinds, Submission

\* A call within the page.
LEMMA LocalCallOld ==
    ASSUME RowsOK(orders), Leads(map, orders), NotOld(map, session, orders),
           NEW c, c.kind \in Kinds, WasmCall(c) \/ NoEngine(c)
    PROVE  /\ NotOld(map', session', orders') /\ OldRowsKept
           /\ engineReady \/ session' \subseteq session
<1>1. CASE WasmCall(c)
  <2>1. PICK r : Continue(c, r, FALSE, "wasm")
    BY <1>1 DEF WasmCall
  <2>2. PICK native : Continue(c, r, native, "wasm") /\ ~native
    BY <2>1
  <2> QED
    BY <1>1, <2>2, ContinueOld DEF WasmCall
<1>2. CASE NoEngine(c)
  <2>1. CASE c.kind = "cancel"
    <3> DEFINE r == [fills |-> Nothing]
    <3>1. Continue(c, r, FALSE, "wasm")
      BY <1>2, <2>1 DEF NoEngine, Continue
    <3>2. PICK native : Continue(c, r, native, "wasm") /\ ~native
      BY <3>1
    <3>3. NotOld(map', session', orders') /\ OldRowsKept
      BY <3>2, ContinueOld
    <3>4. session' \subseteq session
      BY <1>2, <2>1, CancelRows DEF NoEngine, CancelLeaves
    <3> QED
      BY <3>3, <3>4
  <2>2. CASE c.kind # "cancel"
    BY <1>2, <2>2 DEF NoEngine, page, OldRowsKept
  <2> QED
    BY <2>1, <2>2
<1> QED
  BY <1>1, <1>2

\* A restore meets an empty session, or starts one.
LEMMA RestoreOld ==
    ASSUME TrackInv, SessInv, tryRestoreState, session' = {}
    PROVE  NotOld(map', session', orders') /\ OldRowsKept
<1>1. \A k \in DOMAIN orders : orders'[k] = orders[k]
  BY RestoreRows DEF TrackInv
<1> QED
  BY <1>1 DEF NotOld, OldRowsKept

\* What the property asks of a step.
SessStep == reloads' = reloads /\ ~useNative /\ ~useNative' => OldRowsKept

LEMMA StartOld ==
    ASSUME TrackInv, SessInv, site' = site, NEW kind \in Kinds, NEW id, NEW qty,
           Start(kind, id, qty)
    PROVE  SessInv' /\ SessStep
<1> DEFINE c == Request(kind, id, qty)
<1>1. c.kind = kind
  BY DEF Request, NoCall
<1>2. UNCHANGED <<useNative, engineReady, health>> /\ Slots' = Slots
  BY DEF Start, Slots
<1>6. reloads' = reloads
  BY DEF Start
<1>3. RowsOK(orders) /\ Leads(map, orders) /\ NotOld(map, session, orders)
  BY DEF TrackInv, SessInv
<1> HIDE DEF c
<1>4. CASE useNative
  <2>1. UNCHANGED page /\ health # "pending"
    BY <1>4 DEF Start, SessInv
  <2> QED
    BY <1>2, <1>4, <1>6, <2>1 DEF SessInv, SessStep, page, NotOld
<1>5. CASE ~useNative
  <2>1. (WasmCall(c) \/ NoEngine(c)) /\ calls' = calls
    BY <1>5 DEF Start, c
  <2>2. /\ NotOld(map', session', orders') /\ OldRowsKept
        /\ engineReady \/ session' \subseteq session
    BY <1>1, <1>3, <2>1, LocalCallOld
  <2>3. NoCalls => NoCalls'
    BY <1>2, <2>1 DEF NoCalls
  <2> QED
    BY <1>2, <1>6, <2>2, <2>3 DEF SessInv, SessStep, NotOld
<1> QED
  BY <1>4, <1>5

\* An answer comes back, or the fetch fails: the page has looked for its server.
LEMMA CallEndsOld ==
    ASSUME TrackInv, SessInv, site' = site, NEW n \in Slots, Receive(n) \/ FetchFails(n)
    PROVE  SessInv' /\ SessStep
<1> DEFINE c == calls[n]
<1>1. RowsOK(orders) /\ Leads(map, orders) /\ NotOld(map, session, orders) /\ c.kind \in Kinds
  BY DEF TrackInv, SessInv, CallsOK
<1>2. health # "pending" /\ UNCHANGED <<health, engineReady, reloads>>
  BY DEF Receive, FetchFails, SessInv, NoCalls, NoCall
<1>3. CASE Receive(n)
  <2>1. Continue(c, c, useNative, "native") /\ useNative' = useNative
    BY <1>3 DEF Receive
  <2>2. PICK native : Continue(c, c, native, "native") /\ native = useNative
    BY <2>1
  <2> HIDE DEF c
  <2>3. /\ NotOld(map', session', orders')
        /\ native => session' \subseteq session
        /\ ~native => OldRowsKept
    BY <1>1, <2>2, ContinueOld
  <2> QED
    BY <1>2, <2>1, <2>2, <2>3 DEF SessInv, SessStep, NotOld
<1>4. CASE FetchFails(n)
  <2>1. WasmCall(c) \/ NoEngine(c)
    BY <1>4 DEF FetchFails
  <2> HIDE DEF c
  <2>2. NotOld(map', session', orders') /\ OldRowsKept
    BY <1>1, <2>1, LocalCallOld
  <2>3. useNative' = FALSE
    BY <1>4 DEF FetchFails
  <2> QED
    BY <1>2, <2>2, <2>3 DEF SessInv, SessStep, NotOld
<1> QED
  BY <1>3, <1>4

LEMMA StartUpOld ==
    ASSUME TrackInv, SessInv, site' = site, HealthAnswers \/ onRuntimeInitialized
    PROVE  SessInv' /\ SessStep
<1>1. calls' = calls /\ Slots' = Slots /\ reloads' = reloads
  BY DEF HealthAnswers, onRuntimeInitialized, Slots
<1>2. CASE HealthAnswers
  <2>1. health = "pending" /\ health' = "done" /\ engineReady' = engineReady
    BY <1>2 DEF HealthAnswers
  <2>2. CASE UNCHANGED page
    <3>1. ~engineReady => session' = {}
      BY <2>1, <2>2 DEF SessInv, page
    <3> QED
      BY <1>1, <2>1, <2>2, <3>1 DEF SessInv, SessStep, page, NotOld, OldRowsKept
  <2>3. CASE tryRestoreState /\ ~engineReady /\ session' = session
    <3>1. session' = {}
      BY <2>1, <2>3 DEF SessInv
    <3>2. NotOld(map', session', orders') /\ OldRowsKept
      BY <2>3, <3>1, RestoreOld
    <3> QED
      BY <1>1, <2>1, <3>1, <3>2 DEF SessInv, SessStep, NotOld
  <2> QED
    BY <1>2, <2>2, <2>3 DEF HealthAnswers, startEngineInit
<1>3. CASE onRuntimeInitialized
  <2>1. ~engineReady /\ engineReady' = TRUE /\ useNative' = useNative /\ health' = health
    BY <1>3 DEF onRuntimeInitialized
  <2>2. tryRestoreState /\ session' = {}
    BY <1>3 DEF onRuntimeInitialized, startEngineInit, SessInv
  <2>3. NotOld(map', session', orders') /\ OldRowsKept
    BY <2>2, RestoreOld
  <2>4. NoCalls => NoCalls'
    BY <1>1 DEF NoCalls
  <2> QED
    BY <1>1, <2>1, <2>2, <2>3, <2>4 DEF SessInv, SessStep, NotOld
<1> QED
  BY <1>2, <1>3

LEMMA OldInductive == TrackInv /\ SessInv /\ [CNext]_cvars => SessInv' /\ SessStep
<1> SUFFICES ASSUME TrackInv, SessInv, [CNext]_cvars PROVE SessInv' /\ SessStep
  OBVIOUS
<1>1. site' = site
  BY DEF CNext, cvars
<1>2. ASSUME NEW kind \in {"limit", "market"}, NEW qty, Submit(kind, qty)
      PROVE  SessInv' /\ SessStep
  BY <1>1, <1>2, StartOld DEF Submit, Kinds
<1>3. ASSUME NEW k, cancelOrder(k)
      PROVE  SessInv' /\ SessStep
  BY <1>1, <1>3, StartOld DEF cancelOrder, Kinds
<1>4. ASSUME generateBatch
      PROVE  SessInv' /\ SessStep
  BY <1>1, <1>4, StartOld DEF generateBatch, Kinds
<1>5. ASSUME NEW n \in Slots, Serve(n)
      PROVE  SessInv' /\ SessStep
  <2>1. calls[n].stage = "sent" /\ UNCHANGED <<useNative, engineReady, health, page, reloads>>
    BY <1>5 DEF Serve
  <2>2. health # "pending"
    BY <2>1 DEF SessInv, NoCalls, NoCall
  <2> QED
    BY <2>1, <2>2 DEF SessInv, SessStep, page, NotOld, OldRowsKept
<1>6. ASSUME NEW n \in Slots, Receive(n) \/ FetchFails(n)
      PROVE  SessInv' /\ SessStep
  BY <1>1, <1>6, CallEndsOld
<1>7. ASSUME OtherClient \/ ServerReset \/ UNCHANGED cvars
      PROVE  SessInv' /\ SessStep
  <2>1. UNCHANGED <<useNative, engineReady, health, calls, page, reloads>> /\ Slots' = Slots
    BY <1>1, <1>7 DEF OtherClient, ServerReset, cvars, Slots
  <2>2. NoCalls => NoCalls'
    BY <2>1 DEF NoCalls
  <2> QED
    BY <2>1, <2>2 DEF SessInv, SessStep, page, NotOld, OldRowsKept
<1>8. ASSUME HealthAnswers \/ onRuntimeInitialized
      PROVE  SessInv' /\ SessStep
  BY <1>1, <1>8, StartUpOld
<1>9. ASSUME Reload
      PROVE  SessInv' /\ SessStep
  <2>1. /\ useNative' = FALSE /\ session' = {}
        /\ calls' = [n \in Slots |-> NoCall] /\ Slots' = Slots
    BY <1>1, <1>9 DEF Reload, Slots
  <2>2. NoCalls'
    BY <2>1 DEF NoCalls
  <2>3. reloads' # reloads /\ reloads' \in Nat
    BY <1>9 DEF Reload, SessInv
  <2> QED
    BY <2>1, <2>2, <2>3 DEF SessInv, SessStep, NotOld
<1> QED
  BY <1>2, <1>3, <1>4, <1>5, <1>6, <1>7, <1>8, <1>9 DEF CNext

\* While the page is in WASM mode, no row of an earlier WASM session gains from the
\* orders of this one, though the module has given out the same ids again, and
\* though the row is tracked (script.js:131, :137, :240).
THEOREM OldRowsGainNothing == CSpec => SessionFillsOnly
<1>1. CInit => TrackInv /\ SessInv
  <2>1. CInit => SessInv
    BY DEF CInit, SessInv, NoCalls, NotOld
  <2> QED
    BY <2>1, TrackInit
<1>2. TrackInv /\ SessInv /\ [CNext]_cvars => (TrackInv /\ SessInv)'
  BY TrackInductive, OldInductive
<1> DEFINE A == \A k \in DOMAIN orders :
                   /\ reloads' = reloads
                   /\ ~useNative /\ ~useNative'
                   /\ orders[k].home = "old"
                   => orders'[k].filled = orders[k].filled
<1>3. TrackInv /\ SessInv /\ [CNext]_cvars => [A]_cvars
  BY OldInductive DEF SessStep, OldRowsKept
<1> QED
  BY <1>1, <1>2, <1>3, PTL DEF CSpec, SessionFillsOnly

-----------------------------------------------------------------------------
(* Rows that are done.  A fill leaves a full row as it is, a cancel has an   *)
(* open row of its id or one that no map entry leads to, and what has no id  *)
(* is not reached.                                                           *)

Done(row) == row.status \in {"FILLED", "CANCELED", "REJECTED"}

Single(k) == orders[k].id = 0 \/ \A j \in DOMAIN orders :
                                   orders[j].id = orders[k].id => j = k

DoneKept == \A k \in DOMAIN orders :
               Done(orders[k]) /\ Single(k) => orders'[k] = orders[k]

IsRecord(row) == row = [field \in DOMAIN row |-> row[field]]

\* Without an id a row may be anything; with one it is full when it says so.
DoneRows(rows) ==
    \A k \in DOMAIN rows :
       /\ IsRecord(rows[k])
       /\ rows[k].status = "REJECTED" => rows[k].id = 0
       /\ rows[k].id # 0 => /\ rows[k].orig \in Nat /\ rows[k].filled \in Nat
                            /\ rows[k].status = "FILLED" => rows[k].filled = rows[k].orig

\* The row that the answer r to c will make is such a row.
AnswerDone(c, r) ==
    c.kind \in Submission =>
       /\ c.qty \in Nat
       /\ c.kind = "market" => r.answer = 0
       /\ r.answer # 0 => Total(r.fills) \in Nat /\ Total(r.fills) <= c.qty

\* The cancel of id has a row that it will not mark though it is full.
CancelMeets(id) ==
    /\ id # 0
    /\ \E k \in DOMAIN orders :
          /\ orders[k].id = id
          /\ ~(id \in DOMAIN map /\ map[id] = k /\ orders[k].status = "FILLED")

CallDone(n) ==
    /\ AnswerDone(calls[n], calls[n])
    /\ calls[n].kind = "cancel" => CancelMeets(calls[n].id)

DoneInv ==
    /\ 0 \notin DOMAIN map
    /\ DoneRows(orders) /\ DoneRows(saved)
    /\ \A n \in Slots : CallDone(n)

\* What the property asks of a step.
DoneStep == reloads' = reloads => DoneKept

\* The page after a step: the rows that are done, and the cancels on their way.
PageDone ==
    /\ DoneRows(orders') /\ 0 \notin DOMAIN map'
    /\ DoneKept
    /\ \A id : CancelMeets(id) => CancelMeets(id)'

\* The rows after the fills of an answer.
LEMMA FilledDone ==
    ASSUME RowsOK(orders), Leads(map, orders), DoneRows(orders), 0 \notin DOMAIN map,
           NEW fills, \A i \in DOMAIN fills : fills[i] \in Nat, NEW native,
           NEW rows, rows = RowsFilled(fills, native),
           NEW mp, mp = MapFilled(fills, native)
    PROVE  /\ DOMAIN rows = DOMAIN orders /\ DoneRows(rows)
           /\ \A k \in DOMAIN orders : /\ Done(orders[k]) => rows[k] = orders[k]
                                       /\ rows[k].id = orders[k].id
           /\ DOMAIN mp \subseteq DOMAIN map /\ \A i \in DOMAIN mp : mp[i] = map[i]
           /\ \A i \in DOMAIN mp :
                 rows[mp[i]].status = "FILLED" => orders[mp[i]].status = "FILLED"
<1>1. DOMAIN rows = DOMAIN orders /\ RowsOK(rows)
  BY RowsFilledFacts
<1>2. ASSUME NEW k \in DOMAIN orders
      PROVE  /\ Done(orders[k]) => rows[k] = orders[k]
             /\ rows[k].id = orders[k].id
             /\ \/ rows[k] = orders[k] /\ ~Hits(fills, native, k)
                \/ /\ Hits(fills, native, k) /\ rows[k].status \in {"FILLED", "PARTIAL"}
                   /\ rows[k].orig \in Nat /\ rows[k].filled \in Nat
                   /\ rows[k].status = "FILLED" => rows[k].filled = rows[k].orig
                   /\ IsRecord(rows[k])
  <2>1. CASE Hits(fills, native, k)
    <3> DEFINE row == orders[k]
               qty == fills[row.id]
    <3>1. row.status # "CANCELED" /\ RefilledBy(row, rows[k], qty)
      BY <2>1, RowFill
    <3>2. row.id # 0 /\ qty \in Nat
      BY <2>1 DEF Hits
    <3>3. /\ row.status # "REJECTED" /\ row.orig \in Nat /\ row.filled \in Nat
          /\ row.status = "FILLED" => row.filled = row.orig
          /\ IsRecord(row)
      BY <3>2 DEF DoneRows
    <3>4. DOMAIN row = {"id", "orig", "filled", "home", "status"}
      BY DEF RowsOK
    <3>5. rows[k] = Refilled(row, qty)
      <4> DEFINE hits == {i \in Reached(fills, native) : map[i] = k}
      <4>1. rows[k] = IF hits = {} THEN orders[k]
                      ELSE Refilled(orders[k], fills[CHOOSE j \in hits : TRUE])
        BY DEF RowsFilled
      <4>2. row.id \in hits /\ \A j \in hits : j = row.id
        BY <2>1, <3>1 DEF Leads, Reached, Hits
      <4> HIDE DEF hits
      <4>3. (CHOOSE j \in hits : TRUE) = row.id
        BY <4>2
      <4> QED
        BY <4>1, <4>2, <4>3
    <3>6. row.status = "FILLED" => rows[k] = row
      <4>1. ASSUME row.status = "FILLED" PROVE rows[k] = row
        <5>1. PICK filled :
                 filled = IF row.filled + qty > row.orig THEN row.orig ELSE row.filled + qty
          OBVIOUS
        <5>2. filled = row.filled /\ filled >= row.orig
          BY <3>2, <3>3, <4>1, <5>1
        <5>3. rows[k] = [row EXCEPT !.filled = row.filled, !.status = row.status]
          BY <3>5, <4>1, <5>1, <5>2 DEF Refilled
        <5> HIDE DEF row
        <5>4. row = [field \in {"id", "orig", "filled", "home", "status"} |-> row[field]]
          BY <3>3, <3>4 DEF IsRecord
        <5> QED
          BY <5>3, <5>4
      <4> QED
        BY <4>1
    <3>7. IsRecord(rows[k])
      BY <3>5 DEF Refilled, IsRecord
    <3> HIDE DEF row, qty
    <3>8. /\ rows[k].orig = row.orig /\ rows[k].id = row.id
          /\ rows[k].filled \in Nat /\ rows[k].status \in {"FILLED", "PARTIAL"}
          /\ rows[k].status = "FILLED" => rows[k].filled = rows[k].orig
      BY <3>1, <3>2, <3>3 DEF RefilledBy
    <3> QED
      BY <2>1, <3>1, <3>3, <3>6, <3>7, <3>8 DEF Done, row
  <2>2. CASE ~Hits(fills, native, k)
    BY <2>2, RowFill
  <2> QED
    BY <2>1, <2>2
<1>3. DoneRows(rows)
  BY <1>1, <1>2 DEF DoneRows
<1>4. /\ DOMAIN mp \subseteq DOMAIN map
      /\ \A i \in DOMAIN mp : mp[i] = map[i]
      /\ \A i \in DOMAIN map :
            i \in DOMAIN mp <=> ~(Hits(fills, native, map[i]) /\ rows[map[i]].status = "FILLED")
  BY MapFill
<1>5. ASSUME NEW i \in DOMAIN mp, rows[mp[i]].status = "FILLED"
      PROVE  orders[mp[i]].status = "FILLED"
  BY <1>2, <1>4, <1>5 DEF Leads
<1> QED
  BY <1>1, <1>2, <1>3, <1>4, <1>5

\* A cancel marks a row that is open, or one of several with its id.
LEMMA CancelDone ==
    ASSUME RowsOK(orders), Leads(map, orders), DoneRows(orders), 0 \notin DOMAIN map,
           NEW id, NEW wasm, AfterCancel(id, wasm), CancelMeets(id)
    PROVE  PageDone
<1>1. CancelLeaves(id)
  BY CancelRows
<1>2. DoneRows(orders') /\ 0 \notin DOMAIN map'
  <2>1. ASSUME NEW k \in DOMAIN orders PROVE IsRecord(orders'[k])
    <3>1. orders' = orders \/ orders' = [orders EXCEPT ![map[id]].status = "CANCELED"]
      BY DEF AfterCancel
    <3>2. orders'[k] = orders[k] \/ orders'[k] = [orders[k] EXCEPT !.status = "CANCELED"]
      BY <3>1
    <3> QED
      BY <3>2 DEF DoneRows, IsRecord
  <2> QED
    BY <1>1, <2>1 DEF DoneRows, CancelLeaves
<1>3. ASSUME NEW k \in DOMAIN orders, Done(orders[k]), Single(k)
      PROVE  orders'[k] = orders[k]
  <2> SUFFICES ASSUME orders'[k] # orders[k] PROVE FALSE
    OBVIOUS
  <2>1. id \in DOMAIN map /\ map[id] = k /\ orders[k].id = id
    BY <1>1 DEF CancelLeaves
  <2>2. orders[k].status \notin {"CANCELED", "REJECTED"}
    BY <2>1 DEF Leads, DoneRows, CancelMeets
  <2>3. orders[k].status # "FILLED"
    BY <1>3, <2>1 DEF CancelMeets, Single
  <2> QED
    BY <1>3, <2>2, <2>3 DEF Done
<1>4. ASSUME NEW i, CancelMeets(i) PROVE CancelMeets(i)'
  <2>1. PICK k \in DOMAIN orders :
           /\ orders[k].id = i
           /\ ~(i \in DOMAIN map /\ map[i] = k /\ orders[k].status = "FILLED")
    BY <1>4 DEF CancelMeets
  <2>2. k \in DOMAIN orders' /\ orders'[k].id = i
    BY <1>1, <2>1 DEF CancelLeaves
  <2>3. ~(i \in DOMAIN map' /\ map'[i] = k /\ orders'[k].status = "FILLED")
    BY <1>1, <2>1 DEF CancelLeaves
  <2> QED
    BY <1>4, <2>2, <2>3 DEF CancelMeets
<1> QED
  BY <1>2, <1>3, <1>4 DEF PageDone, DoneKept

\* The row of an answer.
LEMMA NewRowDone ==
    ASSUME NEW c, c.kind \in Submission, NEW r, AnswerDone(c, r), NEW home,
           NEW row, row = NewRow(c, r, home)
    PROVE  /\ IsRecord(row)
           /\ row.status = "REJECTED" => row.id = 0
           /\ row.id # 0 => /\ row.orig \in Nat /\ row.filled \in Nat
                            /\ row.status = "FILLED" => row.filled = row.orig
<1>1. PICK filled : filled = Total(r.fills)
  OBVIOUS
<1>2. /\ row.id = r.answer /\ row.orig = c.qty /\ row.filled = filled
      /\ row.status = IF filled >= c.qty THEN "FILLED"
                      ELSE IF filled > 0 THEN "PARTIAL"
                      ELSE IF c.kind = "market" THEN "REJECTED" ELSE "OPEN"
  BY <1>1 DEF NewRow
<1>3. IsRecord(row)
  BY DEF NewRow, IsRecord
<1> QED
  BY <1>1, <1>2, <1>3 DEF AnswerDone

\* The rest of a call.
LEMMA ContinueDone ==
    ASSUME RowsOK(orders), Leads(map, orders), DoneRows(orders), 0 \notin DOMAIN map,
           NEW c, c.kind \in Kinds, NEW r, AnswerDone(c, r),
           \A i \in DOMAIN r.fills : r.fills[i] \in Nat,
           c.kind = "cancel" => CancelMeets(c.id),
           NEW native, NEW home, Continue(c, r, native, home)
    PROVE  PageDone
<1>1. PICK rows, open, last : /\ rows = RowsFilled(r.fills, native)
                              /\ open = MapFilled(r.fills, native)
                              /\ last = Len(orders) + 1
  OBVIOUS
<1>2. /\ DOMAIN rows = DOMAIN orders /\ DoneRows(rows)
      /\ \A k \in DOMAIN orders : /\ Done(orders[k]) => rows[k] = orders[k]
                                  /\ rows[k].id = orders[k].id
      /\ DOMAIN open \subseteq DOMAIN map /\ \A i \in DOMAIN open : open[i] = map[i]
      /\ \A i \in DOMAIN open :
            rows[open[i]].status = "FILLED" => orders[open[i]].status = "FILLED"
  BY <1>1, FilledDone
<1>3. CASE c.kind \in Submission
  <2>1. SubmitLeaves(c, r, native, home, rows, open, last)
    BY <1>1, <1>3, SubmitRows DEF Continue, Submission
  <2>2. PICK row : row = NewRow(c, r, home)
    OBVIOUS
  <2>3. /\ DOMAIN orders' = DOMAIN orders \cup {last} /\ last \notin DOMAIN orders
        /\ \A k \in DOMAIN orders : orders'[k] = rows[k]
        /\ orders'[last] = row
        /\ \A i \in DOMAIN map' : \/ i # 0 /\ map'[i] = last
                                  \/ i \in DOMAIN open /\ map'[i] = open[i]
    BY <2>1, <2>2 DEF SubmitLeaves
  <2>4. DoneRows(orders')
    BY <1>2, <1>3, <2>2, <2>3, NewRowDone DEF DoneRows
  <2>5. 0 \notin DOMAIN map'
    BY <1>2, <2>3
  <2>6. DoneKept
    BY <1>2, <2>3 DEF DoneKept
  <2>7. ASSUME NEW i, CancelMeets(i) PROVE CancelMeets(i)'
    <3>1. PICK k \in DOMAIN orders :
             /\ orders[k].id = i
             /\ ~(i \in DOMAIN map /\ map[i] = k /\ orders[k].status = "FILLED")
      BY <2>7 DEF CancelMeets
    <3>2. k \in DOMAIN orders' /\ orders'[k].id = i /\ k # last
      BY <1>2, <2>3, <3>1
    <3>3. ~(i \in DOMAIN map' /\ map'[i] = k /\ orders'[k].status = "FILLED")
      BY <1>2, <2>3, <3>1, <3>2
    <3> QED
      BY <2>7, <3>2, <3>3 DEF CancelMeets
  <2> QED
    BY <2>4, <2>5, <2>6, <2>7 DEF PageDone
<1>4. CASE c.kind = "cancel"
  <2>1. PICK wasm : AfterCancel(c.id, wasm)
    BY <1>4 DEF Continue
  <2> QED
    BY <1>4, <2>1, CancelDone
<1>5. CASE c.kind = "tick"
  <2>1. orders' = rows /\ map' = open
    BY <1>1, <1>5 DEF Continue, AfterTick
  <2>2. DoneRows(orders') /\ 0 \notin DOMAIN map' /\ DoneKept
    BY <1>2, <2>1 DEF DoneKept
  <2>3. ASSUME NEW i, CancelMeets(i) PROVE CancelMeets(i)'
    <3>1. PICK k \in DOMAIN orders :
             /\ orders[k].id = i
             /\ ~(i \in DOMAIN map /\ map[i] = k /\ orders[k].status = "FILLED")
      BY <2>3 DEF CancelMeets
    <3>2. k \in DOMAIN orders' /\ orders'[k].id = i
      BY <1>2, <2>1, <3>1
    <3>3. ~(i \in DOMAIN map' /\ map'[i] = k /\ orders'[k].status = "FILLED")
      BY <1>2, <2>1, <3>1
    <3> QED
      BY <2>3, <3>2, <3>3 DEF CancelMeets
  <2> QED
    BY <2>2, <2>3 DEF PageDone
<1> QED
  BY <1>3, <1>4, <1>5 DEF Kinds, Submission

LEMMA SamePageDone ==
    ASSUME DoneInv, UNCHANGED page
    PROVE  PageDone
<1>1. orders' = orders /\ map' = map
  BY DEF page
<1>2. \A i : CancelMeets(i) => CancelMeets(i)'
  BY <1>1 DEF CancelMeets
<1> QED
  BY <1>1, <1>2 DEF DoneInv, PageDone, DoneKept

\* What an engine answers.
LEMMA OutcomeDone ==
    ASSUME site \in Deployments, NEW e, EngineOK(e), NEW c, c.kind \in Kinds,
           c.qty \in Nat, NEW r \in Outcomes(e, c)
    PROVE  AnswerDone(c, r) /\ \A i \in DOMAIN r.fills : r.fills[i] \in Nat
<1>1. /\ Advanced(e, r.engine, r.fills)
      /\ c.kind \in Submission /\ r.answer # 0 =>
            c.kind = "limit" /\ Created(e, r.engine, r.fills, r.answer, c.qty)
  BY OutcomeFacts
<1>2. \A i \in DOMAIN r.fills : r.fills[i] \in Nat
  BY <1>1 DEF Advanced, FillsOK
<1> QED
  BY <1>1, <1>2 DEF AnswerDone, Created

\* A call within the page.
LEMMA LocalCallDone ==
    ASSUME TrackInv, FillInv, DoneInv, NEW c, c.kind \in Kinds, c.qty \in Nat,
           WasmCall(c) \/ NoEngine(c), c.kind = "cancel" => CancelMeets(c.id)
    PROVE  PageDone
<1>1. /\ RowsOK(orders) /\ Leads(map, orders)
      /\ DoneRows(orders) /\ 0 \notin DOMAIN map
  BY DEF TrackInv, DoneInv
<1>2. CASE WasmCall(c)
  <2>1. PICK r \in Outcomes(engine["wasm"], c) : Continue(c, r, FALSE, "wasm")
    BY <1>2 DEF WasmCall
  <2>2. AnswerDone(c, r) /\ \A i \in DOMAIN r.fills : r.fills[i] \in Nat
    BY OutcomeDone DEF FillInv, EnginesOK
  <2> QED
    BY <1>1, <2>1, <2>2, ContinueDone
<1>3. CASE NoEngine(c)
  <2>1. CASE c.kind = "cancel"
    <3>1. PICK wasm : AfterCancel(c.id, wasm)
      BY <1>3, <2>1 DEF NoEngine
    <3> QED
      BY <1>1, <2>1, <3>1, CancelDone
  <2>2. CASE c.kind # "cancel"
    BY <1>3, <2>2, SamePageDone DEF NoEngine
  <2> QED
    BY <2>1, <2>2
<1> QED
  BY <1>2, <1>3

\* The invariant after a step of the page in which calls end or stay.
LEMMA DoneAfter ==
    ASSUME DoneInv, PageDone, site' = site, saved' = saved,
           \A n \in Slots : \/ calls'[n] = calls[n]
                            \/ calls'[n].kind = "tick"
                            \/ CallDone(n)'
    PROVE  DoneInv'
<1>1. Slots' = Slots
  BY DEF Slots
<1>2. ASSUME NEW n \in Slots PROVE CallDone(n)'
  <2>1. CASE calls'[n] = calls[n]
    <3>1. AnswerDone(calls[n], calls[n])'
      BY <2>1 DEF DoneInv, CallDone, AnswerDone
    <3>2. calls'[n].kind = "cancel" => CancelMeets(calls[n].id)'
      <4>1. PICK id : id = calls[n].id
        OBVIOUS
      <4>2. calls'[n].kind = "cancel" => CancelMeets(id)'
        BY <2>1, <4>1 DEF DoneInv, CallDone, PageDone
      <4> QED
        BY <2>1, <4>1, <4>2 DEF CancelMeets
    <3> QED
      BY <3>1, <3>2 DEF CallDone
  <2>2. CASE calls'[n].kind = "tick"
    BY <2>2 DEF CallDone, AnswerDone, Submission
  <2> QED
    BY <2>1, <2>2
<1> QED
  BY <1>1, <1>2 DEF DoneInv, PageDone

LEMMA StartDone ==
    ASSUME TrackInv, FillInv, DoneInv, site' = site,
           NEW kind \in Kinds, NEW id, NEW qty \in Nat, Start(kind, id, qty),
           kind = "cancel" => CancelMeets(id)
    PROVE  DoneInv' /\ DoneKept
<1> DEFINE c == Request(kind, id, qty)
<1>1. /\ c.kind = kind /\ c.id = id /\ c.qty = qty /\ c.answer = 0 /\ c.fills = Nothing
      /\ DOMAIN c = DOMAIN NoCall
  BY DEF Request, NoCall
<1>2. saved' = saved
  BY DEF Start
<1> HIDE DEF c
<1>3. CASE useNative
  <2>1. Send(c) /\ UNCHANGED <<engine, page>>
    BY <1>3 DEF Start, c
  <2>2. PICK n \in Slots : calls' = [calls EXCEPT ![n] = [c EXCEPT !.stage = "sent"]]
    BY <2>1 DEF Send
  <2>3. /\ calls'[n].kind = kind /\ calls'[n].id = id /\ calls'[n].answer = 0
        /\ calls'[n].qty = qty
        /\ \A m \in Slots \ {n} : calls'[m] = calls[m]
    BY <1>1, <2>2 DEF TrackInv, CallsOK, NoCall
  <2>4. PageDone
    BY <2>1, SamePageDone
  <2>5. CallDone(n)'
    <3>1. AnswerDone(calls[n], calls[n])'
      BY <2>3 DEF AnswerDone
    <3>2. kind = "cancel" => CancelMeets(id)'
      BY <2>4 DEF PageDone
    <3>3. kind = "cancel" => CancelMeets(calls[n].id)'
      BY <2>3, <3>2 DEF CancelMeets
    <3> QED
      BY <2>3, <3>1, <3>3 DEF CallDone
  <2> QED
    BY <1>2, <2>3, <2>4, <2>5, DoneAfter DEF PageDone
<1>4. CASE ~useNative
  <2>1. (WasmCall(c) \/ NoEngine(c)) /\ calls' = calls
    BY <1>4 DEF Start, c
  <2>2. PageDone
    BY <1>1, <2>1, LocalCallDone
  <2> QED
    BY <1>2, <2>1, <2>2, DoneAfter DEF PageDone
<1> QED
  BY <1>3, <1>4

LEMMA CallEndsDone ==
    ASSUME TrackInv, FillInv, DoneInv, site' = site,
           NEW n \in Slots, Receive(n) \/ FetchFails(n)
    PROVE  DoneInv' /\ DoneKept
<1> DEFINE c == calls[n]
<1>1. /\ RowsOK(orders) /\ Leads(map, orders) /\ DoneRows(orders) /\ 0 \notin DOMAIN map
      /\ c.kind \in Kinds /\ c.qty \in Nat /\ AnswerDone(c, c)
      /\ c.kind = "cancel" => CancelMeets(c.id)
      /\ \A i \in DOMAIN c.fills : c.fills[i] \in Nat
  BY DEF TrackInv, CallsOK, FillInv, CallSound, FillsOK, DoneInv, CallDone
<1>2. /\ saved' = saved
      /\ \A m \in Slots : calls'[m] = calls[m] \/ calls'[m] = NoCall
  BY DEF Receive, FetchFails, TrackInv, CallsOK
<1>3. NoCall.kind = "tick"
  BY DEF NoCall
<1>4. PageDone
  <2>1. CASE Receive(n)
    <3>1. Continue(c, c, useNative, "native")
      BY <2>1 DEF Receive
    <3> HIDE DEF c
    <3> QED
      BY <1>1, <3>1, ContinueDone
  <2>2. CASE FetchFails(n)
    <3>1. WasmCall(c) \/ NoEngine(c)
      BY <2>2 DEF FetchFails
    <3> HIDE DEF c
    <3> QED
      BY <1>1, <3>1, LocalCallDone
  <2> QED
    BY <2>1, <2>2
<1>5. \A m \in Slots : calls'[m] = calls[m] \/ calls'[m].kind = "tick"
  BY <1>2, <1>3
<1> QED
  BY <1>2, <1>4, <1>5, DoneAfter DEF PageDone

LEMMA ServeDone ==
    ASSUME TrackInv, FillInv, DoneInv, site' = site, NEW n \in Slots, Serve(n)
    PROVE  DoneInv' /\ DoneKept
<1> DEFINE c == calls[n]
           e == engine["native"]
<1>1. /\ c.kind \in Kinds /\ DOMAIN c = DOMAIN NoCall /\ DOMAIN calls = Slots
      /\ c.qty \in Nat /\ EngineOK(e)
  BY DEF TrackInv, CallsOK, FillInv, EnginesOK, CallSound
<1>2. PICK r \in Outcomes(e, c) :
         calls' = [calls EXCEPT ![n].stage = "answered", ![n].answer = r.answer,
                                ![n].fills = r.fills]
  BY DEF Serve
<1>3. AnswerDone(c, r)
  BY <1>1, OutcomeDone DEF FillInv
<1>4. /\ calls'[n].kind = c.kind /\ calls'[n].id = c.id /\ calls'[n].answer = r.answer
      /\ calls'[n].fills = r.fills /\ calls'[n].qty = c.qty
      /\ \A m \in Slots \ {n} : calls'[m] = calls[m]
      /\ saved' = saved
  BY <1>1, <1>2 DEF NoCall, Serve
<1>5. PageDone
  BY SamePageDone DEF Serve
<1>6. CallDone(n)'
  <2>1. AnswerDone(calls[n], calls[n])'
    BY <1>3, <1>4 DEF AnswerDone
  <2>2. c.kind = "cancel" => CancelMeets(c.id)
    BY DEF DoneInv, CallDone
  <2>3. PICK id : id = c.id
    OBVIOUS
  <2>4. c.kind = "cancel" => CancelMeets(id)'
    BY <1>5, <2>2, <2>3 DEF PageDone
  <2>5. calls'[n].kind = "cancel" => CancelMeets(calls[n].id)'
    BY <1>4, <2>3, <2>4 DEF CancelMeets
  <2> QED
    BY <2>1, <2>5 DEF CallDone
<1> QED
  BY <1>4, <1>5, <1>6, DoneAfter DEF PageDone

\* A restore tracks no row that is full.
LEMMA RestoreDone ==
    ASSUME TrackInv, DoneInv, tryRestoreState
    PROVE  PageDone
<1>1. /\ \A k \in DOMAIN orders : k \in DOMAIN orders' /\ orders'[k] = orders[k]
      /\ \A k \in DOMAIN orders' \ DOMAIN orders :
            \E j \in DOMAIN saved : orders'[k] = saved[j]
      /\ \A i \in DOMAIN map' : \/ i \in DOMAIN map /\ map'[i] = map[i]
                                \/ Open(orders'[map'[i]]) /\ i # 0
  BY RestoreRows DEF TrackInv
<1>2. DoneRows(orders') /\ 0 \notin DOMAIN map' /\ DoneKept
  BY <1>1 DEF DoneInv, DoneRows, DoneKept
<1>3. ASSUME NEW i, CancelMeets(i) PROVE CancelMeets(i)'
  <2>1. PICK k \in DOMAIN orders :
           /\ orders[k].id = i
           /\ ~(i \in DOMAIN map /\ map[i] = k /\ orders[k].status = "FILLED")
    BY <1>3 DEF CancelMeets
  <2>2. k \in DOMAIN orders' /\ orders'[k] = orders[k]
    BY <1>1
  <2>3. ~(i \in DOMAIN map' /\ map'[i] = k /\ orders'[k].status = "FILLED")
    BY <1>1, <2>1, <2>2 DEF Open
  <2> QED
    BY <1>3, <2>1, <2>2, <2>3 DEF CancelMeets
<1> QED
  BY <1>2, <1>3 DEF PageDone

LEMMA ReloadDone ==
    ASSUME TrackInv, DoneInv, site' = site, Reload
    PROVE  DoneInv'
<1> DEFINE kept == Len(orders) - dropped
<1>1. /\ orders' = <<>> /\ calls' = [n \in Slots |-> NoCall] /\ DOMAIN map' = {}
      /\ saved' = [k \in 1..kept |-> Kept(orders[dropped + k])]
  BY DEF Reload, Nothing
<1>2. \A k \in 1..kept : /\ dropped + k \in DOMAIN orders
                         /\ DOMAIN orders[dropped + k]
                              = {"id", "orig", "filled", "home", "status"}
  BY SeqFacts DEF TrackInv, RowsOK, Shifted
<1> HIDE DEF kept
<1>3. ASSUME NEW k \in 1..kept
      PROVE  \E j \in DOMAIN orders :
                /\ saved'[k].id = orders[j].id /\ saved'[k].orig = orders[j].orig
                /\ saved'[k].filled = orders[j].filled
                /\ saved'[k].status = orders[j].status
                /\ IsRecord(saved'[k])
  <2> DEFINE row == orders[dropped + k]
  <2>1. /\ saved'[k] = Kept(row) /\ IsRecord(row)
        /\ DOMAIN row = {"id", "orig", "filled", "home", "status"}
    BY <1>1, <1>2 DEF DoneInv, DoneRows
  <2> HIDE DEF row
  <2>2. /\ saved'[k].id = row.id /\ saved'[k].orig = row.orig
        /\ saved'[k].filled = row.filled /\ saved'[k].status = row.status
        /\ IsRecord(saved'[k])
    BY <2>1 DEF Kept, IsRecord
  <2> QED
    BY <1>2, <2>2 DEF row
<1>4. DoneRows(saved')
  BY <1>1, <1>3 DEF DoneInv, DoneRows
<1>5. DoneRows(orders')
  BY <1>1 DEF DoneRows
<1>6. Slots' = Slots
  BY DEF Slots
<1>7. ASSUME NEW n \in Slots PROVE CallDone(n)'
  <2>1. calls'[n].kind = "tick"
    BY <1>1 DEF NoCall
  <2> QED
    BY <2>1 DEF CallDone, AnswerDone, Submission
<1> QED
  BY <1>1, <1>4, <1>5, <1>6, <1>7 DEF DoneInv

LEMMA DoneInductive ==
    TrackInv /\ FillInv /\ SessInv /\ DoneInv /\ [CNext]_cvars => DoneInv' /\ DoneStep
<1> SUFFICES ASSUME TrackInv, FillInv, SessInv, DoneInv, [CNext]_cvars
             PROVE  DoneInv' /\ DoneStep
  OBVIOUS
<1>1. site' = site
  BY DEF CNext, cvars
<1>2. ASSUME NEW kind \in {"limit", "market"}, NEW qty \in Qtys, Submit(kind, qty)
      PROVE  DoneInv' /\ DoneKept
  <2>1. qty \in Nat
    BY SiteFacts DEF FillInv
  <2> QED
    BY <1>1, <1>2, <2>1, StartDone DEF Submit, Kinds
<1>3. ASSUME NEW k \in DOMAIN orders, cancelOrder(k)
      PROVE  DoneInv' /\ DoneKept
  <2>1. CancelMeets(orders[k].id)
    BY <1>3 DEF cancelOrder, CancelMeets, Open
  <2> QED
    BY <1>1, <1>3, <2>1, StartDone DEF cancelOrder, Kinds
<1>4. ASSUME generateBatch
      PROVE  DoneInv' /\ DoneKept
  BY <1>1, <1>4, StartDone DEF generateBatch, Kinds
<1>5. ASSUME NEW n \in Slots, Serve(n) \/ Receive(n) \/ FetchFails(n)
      PROVE  DoneInv' /\ DoneKept
  BY <1>1, <1>5, ServeDone, CallEndsDone
<1>6. ASSUME OtherClient \/ ServerReset \/ UNCHANGED cvars
      PROVE  DoneInv' /\ DoneKept
  <2>1. UNCHANGED <<calls, page, saved>>
    BY <1>6 DEF OtherClient, ServerReset, cvars
  <2> QED
    BY <1>1, <2>1, SamePageDone, DoneAfter DEF PageDone
<1>7. ASSUME HealthAnswers \/ onRuntimeInitialized
      PROVE  DoneInv' /\ DoneKept
  <2>1. UNCHANGED <<calls, saved>> /\ (UNCHANGED page \/ tryRestoreState)
    BY <1>7 DEF HealthAnswers, onRuntimeInitialized, startEngineInit
  <2> QED
    BY <1>1, <2>1, SamePageDone, RestoreDone, DoneAfter DEF PageDone
<1>8. ASSUME Reload
      PROVE  DoneInv' /\ reloads' # reloads
  <2>1. reloads' = reloads + 1 /\ reloads \in Nat
    BY <1>8 DEF Reload, SessInv
  <2> QED
    BY <1>1, <1>8, <2>1, ReloadDone
<1> QED
  BY <1>2, <1>3, <1>4, <1>5, <1>6, <1>7, <1>8 DEF CNext, DoneStep

\* A row that is filled, cancelled or rejected stays exactly as it is until the page
\* is left, whatever overlapping answers are still to come and whichever engine they
\* are of, as long as no other row has its id: a fill of a full row changes nothing
\* and none reaches a cancelled one, and a cancel on its way finds no row that
\* filled in the meantime (script.js:137, :141, :240).
THEOREM DoneRowsStay == CSpec => StatusFinal
<1>1. CInit => TrackInv /\ FillInv /\ SessInv /\ DoneInv
  <2>1. CInit => SessInv
    BY DEF CInit, SessInv, NoCalls, NotOld
  <2>2. CInit => DoneInv
    BY DEF CInit, DoneInv, DoneRows, CallDone, AnswerDone, NoCall, Submission, Nothing
  <2> QED
    BY <2>1, <2>2, TrackInit, FillInit
<1>2. TrackInv /\ FillInv /\ SessInv /\ DoneInv /\ [CNext]_cvars
         => (TrackInv /\ FillInv /\ SessInv /\ DoneInv)'
  BY TrackInductive, FillInductive, OldInductive, DoneInductive
<1> DEFINE A == \A k \in DOMAIN orders :
                   /\ reloads' = reloads
                   /\ orders[k].status \in {"FILLED", "CANCELED", "REJECTED"}
                   /\ orders[k].id = 0 \/ \A j \in DOMAIN orders :
                                             orders[j].id = orders[k].id => j = k
                   => orders'[k] = orders[k]
<1>3. TrackInv /\ FillInv /\ SessInv /\ DoneInv /\ [CNext]_cvars => [A]_cvars
  BY DoneInductive DEF DoneStep, DoneKept, Done, Single
<1> QED
  BY <1>1, <1>2, <1>3, PTL DEF CSpec, StatusFinal

-----------------------------------------------------------------------------
(* What a row of the server shows.  A row that has its id to itself and has *)
(* missed nothing is tracked as long as it is open, and shows what traded   *)
(* but for what the answers in flight will add.                             *)

\* The ids of which nothing is said.
Rest == missed \cup mixed \cup engine["native"].lost

\* A row, server e, answers p in flight, and ids m of which nothing is said.
Settled(row, e, p, m) ==
    row.home = "native" /\ row.id \notin m \cup {0} =>
       /\ row.filled + p[row.id] = e.traded[row.id]
       /\ row.status \in {"OPEN", "PARTIAL", "FILLED", "CANCELED"}

Alone(rows, k) == \A j \in DOMAIN rows : rows[j].id = rows[k].id => j = k

AllSettled(rows, e, p, m) ==
    \A k \in DOMAIN rows : Alone(rows, k) => Settled(rows[k], e, p, m)

Tracked(rows, mp) ==
    \A k \in DOMAIN rows :
       Alone(rows, k) /\ rows[k].id # 0 /\ Open(rows[k]) => rows[k].id \in DOMAIN mp

NoRow(rows, i) == \A k \in DOMAIN rows : rows[k].id # i

\* The row that the answer of a call will make shows what traded already, if no
\* other row takes what is on its way to it.
CallSettled(c, rows, e, p, m) ==
    /\ c.kind \in Submission =>
          /\ c.answer \in Nat
          /\ NoRow(rows, c.answer) => Settled(NewRow(c, c, "native"), e, p, m)
    /\ c.kind = "cancel" => c.fills = Nothing

\* Every id that was saved is in the page again, ...
Restored == \A j \in DOMAIN saved : \E k \in DOMAIN orders : orders[k].id = saved[j].id

\* ... or the page has not started yet.
Fresh ==
    /\ orders = <<>> /\ ~useNative /\ ~engineReady /\ NoCalls
    /\ AllSettled(saved, engine["native"], Pending, Rest)

ArriveInv ==
    /\ AllSettled(orders, engine["native"], Pending, Rest)
    /\ Tracked(orders, map)
    /\ \A n \in Slots :
          CallSettled(calls[n], orders, engine["native"], Pending, Rest)
    /\ Fresh \/ Restored

\* Of the ids not in m, what is on its way grows by what trades.
KeepsPace(e, x, p, q, m) ==
    \A i \in DOMAIN e.traded \ m :
       /\ p[i] \in Nat /\ q[i] \in Nat /\ x.traded[i] \in Nat
       /\ p[i] + x.traded[i] = q[i] + e.traded[i]

LEMMA SettledStep ==
    ASSUME NEW e, EngineOK(e), NEW x, NEW p, NEW q, NEW s, NEW m, NEW m2, s \subseteq m2,
           m \subseteq m2, KeepsPace(e, x, p, q, m2),
           NEW row, Settled(row, e, p, m), Sound(row, e, p, s),
           NEW r, r.home = "native" => row.home = "native",
           r.id = row.id, r.filled = row.filled, r.status \in {row.status, "CANCELED"}
    PROVE  Settled(r, x, q, m2)
<1> DEFINE i == row.id
<1> SUFFICES ASSUME r.home = "native", i \notin m2 \cup {0}
             PROVE  Settled(r, x, q, m2)
  BY DEF Settled
<1>1. /\ row.filled + p[i] = e.traded[i]
      /\ row.status \in {"OPEN", "PARTIAL", "FILLED", "CANCELED"}
  BY DEF Settled
<1>2. i \in DOMAIN e.traded /\ row.filled \in Nat
  BY DEF Sound
<1>3. /\ p[i] \in Nat /\ q[i] \in Nat /\ x.traded[i] \in Nat /\ e.traded[i] \in Nat
      /\ p[i] + x.traded[i] = q[i] + e.traded[i]
  BY <1>2 DEF KeepsPace, EngineOK
<1> HIDE DEF i
<1>4. row.filled + q[i] = x.traded[i]
  <2>1. \A f, a, b, t, u \in Nat : f + a = t /\ a + u = b + t => f + b = u
    OBVIOUS
  <2> QED
    BY <1>1, <1>2, <1>3, <2>1
<1> QED
  BY <1>1, <1>4 DEF Settled, i

LEMMA AllSettledStep ==
    ASSUME NEW e, EngineOK(e), NEW x, NEW p, NEW q, NEW s, NEW m, NEW m2, s \subseteq m2,
           m \subseteq m2, KeepsPace(e, x, p, q, m2),
           NEW rows, AllSettled(rows, e, p, m), AllSound(rows, e, p, s)
    PROVE  AllSettled(rows, x, q, m2)
<1> SUFFICES ASSUME NEW k \in DOMAIN rows, Alone(rows, k)
             PROVE  Settled(rows[k], x, q, m2)
  BY DEF AllSettled
<1>1. Settled(rows[k], e, p, m) /\ Sound(rows[k], e, p, s)
  BY DEF AllSettled, AllSound
<1> QED
  BY <1>1, SettledStep

\* Every row of rows has its id in more.
Grown(rows, more) ==
    \A k \in DOMAIN rows : k \in DOMAIN more /\ more[k].id = rows[k].id

LEMMA CallSettledStep ==
    ASSUME NEW e, EngineOK(e), NEW x, NEW p, NEW q, NEW s, NEW m, NEW m2, s \subseteq m2,
           m \subseteq m2, KeepsPace(e, x, p, q, m2), NEW rows, NEW more, Grown(rows, more),
           NEW c, CallSettled(c, rows, e, p, m), CallSound(c, e, p, s)
    PROVE  CallSettled(c, more, x, q, m2)
<1>1. ASSUME c.kind \in Submission, NoRow(more, c.answer)
      PROVE  Settled(NewRow(c, c, "native"), x, q, m2)
  <2>1. PICK row : row = NewRow(c, c, "native")
    OBVIOUS
  <2>2. NoRow(rows, c.answer)
    BY <1>1 DEF NoRow, Grown
  <2>3. Settled(row, e, p, m) /\ Sound(row, e, p, s)
    BY <1>1, <2>1, <2>2 DEF CallSettled, CallSound
  <2>4. Settled(row, x, q, m2)
    BY <2>3, SettledStep
  <2> QED
    BY <2>1, <2>4
<1> QED
  BY <1>1 DEF CallSettled

\* An id that is alone in the longer list is alone in the shorter one.
LEMMA AloneBefore ==
    ASSUME NEW rows, NEW more, DOMAIN rows \subseteq DOMAIN more,
           \A k \in DOMAIN rows : more[k].id = rows[k].id,
           NEW k \in DOMAIN rows, Alone(more, k)
    PROVE  Alone(rows, k)
BY DEF Alone

LEMMA FilledTracked ==
    ASSUME RowsOK(orders), Leads(map, orders), Tracked(orders, map),
           NEW fills, NEW native, NEW rows, rows = RowsFilled(fills, native),
           NEW mp, mp = MapFilled(fills, native)
    PROVE  Tracked(rows, mp)
<1>1. DOMAIN rows = DOMAIN orders /\ \A k \in DOMAIN orders : rows[k].id = orders[k].id
  BY RowsFilledFacts
<1> SUFFICES ASSUME NEW k \in DOMAIN orders, Alone(rows, k), rows[k].id # 0, Open(rows[k])
             PROVE  rows[k].id \in DOMAIN mp
  BY <1>1 DEF Tracked
<1> DEFINE i == orders[k].id
<1>2. Alone(orders, k) /\ i # 0 /\ rows[k].id = i
  BY <1>1, AloneBefore
<1>3. i \in DOMAIN map
  <2>1. CASE Hits(fills, native, k)
    BY <2>1 DEF Hits
  <2>2. CASE ~Hits(fills, native, k)
    BY <1>2, <2>2, RowFill DEF Tracked
  <2> QED
    BY <2>1, <2>2
<1>4. map[i] = k
  BY <1>2, <1>3 DEF Leads, Alone
<1>5. rows[map[i]].status # "FILLED"
  BY <1>4 DEF Open
<1>6. i \in DOMAIN mp <=> ~(Hits(fills, native, map[i]) /\ rows[map[i]].status = "FILLED")
  BY <1>3, MapFill
<1> QED
  BY <1>2, <1>5, <1>6

LEMMA ContinueTracked ==
    ASSUME RowsOK(orders), Leads(map, orders), Tracked(orders, map),
           NEW c, c.kind \in Kinds, NEW r, NEW native, NEW home,
           c.kind \in Submission => r.answer \in Nat,
           Continue(c, r, native, home)
    PROVE  /\ Tracked(orders', map')
           /\ Grown(orders, orders')
<1>1. PICK rows, open, last : /\ rows = RowsFilled(r.fills, native)
                              /\ open = MapFilled(r.fills, native)
                              /\ last = Len(orders) + 1
  OBVIOUS
<1>2. /\ Tracked(rows, open) /\ DOMAIN rows = DOMAIN orders
      /\ \A k \in DOMAIN orders : rows[k].id = orders[k].id
  BY <1>1, FilledTracked, RowsFilledFacts
<1>3. CASE c.kind \in Submission
  <2>1. SubmitLeaves(c, r, native, home, rows, open, last)
    BY <1>1, <1>3, SubmitRows DEF Continue, Submission
  <2>2. /\ DOMAIN orders' = DOMAIN orders \cup {last} /\ last \notin DOMAIN orders
        /\ \A k \in DOMAIN orders : orders'[k] = rows[k]
        /\ orders'[last].id = r.answer
        /\ r.answer # 0 => r.answer \in DOMAIN map'
        /\ DOMAIN open \subseteq DOMAIN map'
    BY <1>3, <2>1 DEF SubmitLeaves, NewRow
  <2>3. ASSUME NEW k \in DOMAIN orders', Alone(orders', k), orders'[k].id # 0, Open(orders'[k])
        PROVE  orders'[k].id \in DOMAIN map'
    <3>1. CASE k = last
      BY <2>2, <2>3, <3>1
    <3>2. CASE k \in DOMAIN orders
      <4>1. Alone(rows, k)
        BY <1>2, <2>2, <2>3, <3>2, AloneBefore
      <4> QED
        BY <1>2, <2>2, <2>3, <3>2, <4>1 DEF Tracked
    <3> QED
      BY <2>2, <3>1, <3>2
  <2> QED
    BY <1>2, <2>2, <2>3 DEF Tracked, Grown
<1>4. CASE c.kind = "cancel"
  <2>1. PICK wasm : AfterCancel(c.id, wasm)
    BY <1>4 DEF Continue
  <2>2. CancelLeaves(c.id)
    BY <2>1, CancelRows
  <2>3. ASSUME NEW k \in DOMAIN orders', Alone(orders', k), orders'[k].id # 0, Open(orders'[k])
        PROVE  orders'[k].id \in DOMAIN map'
    <3>1. Alone(orders, k)
      BY <2>2, <2>3, AloneBefore DEF CancelLeaves
    <3>2. orders'[k] = orders[k] /\ ~(c.id \in DOMAIN map /\ map[c.id] = k)
      BY <2>2, <2>3 DEF Open, CancelLeaves
    <3>3. orders[k].id \in DOMAIN map
      BY <2>2, <2>3, <3>1, <3>2 DEF Tracked, CancelLeaves
    <3>4. map[orders[k].id] = k
      BY <3>1, <3>3 DEF Leads, Alone
    <3> QED
      BY <2>2, <3>2, <3>3, <3>4 DEF CancelLeaves
  <2> QED
    BY <2>2, <2>3 DEF Tracked, CancelLeaves, Grown
<1>5. CASE c.kind = "tick"
  BY <1>1, <1>2, <1>5 DEF Continue, AfterTick, Grown
<1> QED
  BY <1>3, <1>4, <1>5 DEF Kinds, Submission

\* Of the ids not in m, what is on its way less by the fills, and each fill finds a
\* row of its id that is not cancelled, in native mode.
Arriving(fills, native, e, p, q, m) ==
    \A i \in DOMAIN e.traded \ m :
       /\ p[i] \in Nat /\ q[i] \in Nat
       /\ i \notin DOMAIN fills => q[i] = p[i]
       /\ i \in DOMAIN fills =>
             /\ fills[i] \in Nat \ {0} /\ q[i] + fills[i] = p[i]
             /\ native
             /\ \E k \in DOMAIN orders : orders[k].id = i /\ orders[k].status # "CANCELED"

LEMMA FilledSettled ==
    ASSUME RowsOK(orders), Leads(map, orders), Tracked(orders, map),
           NEW e, EngineOK(e), NEW p, NEW q, NEW s, NEW m, NEW m2, s \subseteq m2,
           m \subseteq m2, NEW fills, NEW native, Arriving(fills, native, e, p, q, m2),
           AllSettled(orders, e, p, m), AllSound(orders, e, p, s),
           NEW rows, rows = RowsFilled(fills, native)
    PROVE  AllSettled(rows, e, q, m2)
<1>1. DOMAIN rows = DOMAIN orders /\ \A k \in DOMAIN orders : rows[k].id = orders[k].id
                                                     /\ rows[k].home = orders[k].home
  BY RowsFilledFacts
<1> SUFFICES ASSUME NEW k \in DOMAIN orders, Alone(rows, k), rows[k].home = "native",
                    rows[k].id \notin m2 \cup {0}
             PROVE  Settled(rows[k], e, q, m2)
  BY <1>1 DEF AllSettled, Settled
<1> DEFINE row == orders[k]
           i   == row.id
<1>2. Alone(orders, k) /\ i \notin m2 \cup {0} /\ row.home = "native"
  BY <1>1, AloneBefore
<1>3. /\ row.filled + p[i] = e.traded[i]
      /\ row.status \in {"OPEN", "PARTIAL", "FILLED", "CANCELED"}
      /\ i \in DOMAIN e.traded /\ row.orig \in Nat /\ row.filled \in Nat
      /\ e.traded[i] <= row.orig
      /\ row.status = "FILLED" => row.filled >= row.orig
  BY <1>2 DEF AllSettled, AllSound, Settled, Sound
<1>4. /\ p[i] \in Nat /\ q[i] \in Nat
      /\ i \notin DOMAIN fills => q[i] = p[i]
      /\ i \in DOMAIN fills =>
            /\ fills[i] \in Nat \ {0} /\ q[i] + fills[i] = p[i]
            /\ native
            /\ \E j \in DOMAIN orders : orders[j].id = i /\ orders[j].status # "CANCELED"
  BY <1>2, <1>3 DEF Arriving
<1>5. CASE i \notin DOMAIN fills
  <2>1. rows[k] = row
    BY <1>5, RowFill DEF Hits
  <2> QED
    BY <1>3, <1>4, <1>5, <2>1 DEF Settled
<1>6. CASE i \in DOMAIN fills
  <2>1. PICK f : f = fills[i]
    OBVIOUS
  <2>2. f \in Nat \ {0} /\ q[i] + f = p[i] /\ native
    BY <1>4, <1>6, <2>1
  <2>3. row.status # "CANCELED"
    BY <1>2, <1>4, <1>6 DEF Alone
  <2>4. row.filled + f <= row.orig /\ (row.filled + f) + q[i] = e.traded[i]
    BY <1>3, <1>4, <2>2
  <2>5. row.status # "FILLED"
    BY <1>3, <2>2, <2>4
  <2>6. Open(row)
    BY <1>3, <2>3, <2>5 DEF Open
  <2>7. i \in DOMAIN map
    BY <1>2, <2>6 DEF Tracked
  <2>8. map[i] = k
    BY <1>2, <2>7 DEF Leads, Alone
  <2>9. Hits(fills, native, k)
    BY <1>6, <2>2, <2>7, <2>8 DEF Hits
  <2>10. RefilledBy(row, rows[k], f)
    BY <2>1, <2>9, RowFill
  <2>11. /\ rows[k].id = i
         /\ rows[k].filled = IF row.filled + f > row.orig THEN row.orig
                             ELSE row.filled + f
         /\ rows[k].status \in {"FILLED", "PARTIAL"}
    BY <2>10 DEF RefilledBy
  <2>12. ~(row.filled + f > row.orig)
    BY <1>3, <2>2, <2>4
  <2> QED
    BY <2>4, <2>11, <2>12 DEF Settled
<1> QED
  BY <1>5, <1>6

\* The rest of a call leaves the rows settled, if the row it makes is.
LEMMA ContinueSettled ==
    ASSUME RowsOK(orders), Leads(map, orders), Tracked(orders, map),
           NEW e, EngineOK(e), NEW p, NEW q, NEW s, NEW m, NEW m2, s \subseteq m2,
           m \subseteq m2, NEW c, c.kind \in Kinds, NEW r, NEW native, NEW home,
           Continue(c, r, native, home),
           c.kind = "cancel" => r.fills = Nothing,
           Arriving(r.fills, native, e, p, q, m2),
           AllSettled(orders, e, p, m), AllSound(orders, e, p, s),
           c.kind \in Submission /\ NoRow(orders, r.answer)
              => Settled(NewRow(c, r, home), e, q, m2)
    PROVE  AllSettled(orders', e, q, m2)
<1>1. PICK rows, open, last : /\ rows = RowsFilled(r.fills, native)
                              /\ open = MapFilled(r.fills, native)
                              /\ last = Len(orders) + 1
  OBVIOUS
<1>2. /\ AllSettled(rows, e, q, m2) /\ DOMAIN rows = DOMAIN orders
      /\ \A k \in DOMAIN orders : rows[k].id = orders[k].id
  BY <1>1, FilledSettled, RowsFilledFacts
<1>3. CASE c.kind \in Submission
  <2>1. SubmitLeaves(c, r, native, home, rows, open, last)
    BY <1>1, <1>3, SubmitRows DEF Continue, Submission
  <2>2. /\ DOMAIN orders' = DOMAIN orders \cup {last} /\ last \notin DOMAIN orders
        /\ \A k \in DOMAIN orders : orders'[k] = rows[k]
        /\ orders'[last] = NewRow(c, r, home)
        /\ orders'[last].id = r.answer
    BY <2>1 DEF SubmitLeaves, NewRow
  <2>3. ASSUME NEW k \in DOMAIN orders', Alone(orders', k)
        PROVE  Settled(orders'[k], e, q, m2)
    <3>1. CASE k = last
      <4>1. NoRow(orders, r.answer)
        BY <1>2, <2>2, <2>3, <3>1 DEF Alone, NoRow
      <4> QED
        BY <1>3, <2>2, <3>1, <4>1
    <3>2. CASE k \in DOMAIN orders
      <4>1. Alone(rows, k)
        BY <1>2, <2>2, <2>3, <3>2, AloneBefore
      <4> QED
        BY <1>2, <2>2, <3>2, <4>1 DEF AllSettled
    <3> QED
      BY <2>2, <3>1, <3>2
  <2> QED
    BY <2>3 DEF AllSettled
<1>4. CASE c.kind = "cancel"
  <2>1. PICK wasm : AfterCancel(c.id, wasm)
    BY <1>4 DEF Continue
  <2>2. CancelLeaves(c.id)
    BY <2>1, CancelRows
  <2>3. KeepsPace(e, e, p, q, m2)
    BY <1>4 DEF Arriving, KeepsPace, Nothing, EngineOK
  <2>4. ASSUME NEW k \in DOMAIN orders', Alone(orders', k)
        PROVE  Settled(orders'[k], e, q, m2)
    <3>1. k \in DOMAIN orders /\ Alone(orders, k)
      BY <2>2, <2>4, AloneBefore DEF CancelLeaves
    <3>2. Settled(orders[k], e, p, m) /\ Sound(orders[k], e, p, s)
      BY <3>1 DEF AllSettled, AllSound
    <3>3. /\ orders'[k].id = orders[k].id /\ orders'[k].home = orders[k].home
          /\ orders'[k].filled = orders[k].filled
          /\ orders'[k].status \in {orders[k].status, "CANCELED"}
      BY <2>2, <3>1 DEF CancelLeaves
    <3> QED
      BY <2>3, <3>2, <3>3, SettledStep
  <2> QED
    BY <2>4 DEF AllSettled
<1>5. CASE c.kind = "tick"
  BY <1>1, <1>2, <1>5 DEF Continue, AfterTick
<1> QED
  BY <1>3, <1>4, <1>5 DEF Kinds, Submission

-----------------------------------------------------------------------------
(* Steps that leave the rows of the server settled.                         *)

\* What a step leaves of the invariant, when server e becomes x.
ArriveLeaves(x) ==
    /\ AllSettled(orders', x, Pending', Rest')
    /\ Tracked(orders', map')
    /\ Grown(orders, orders')

LEMMA ArriveFacts ==
    ASSUME TrackInv, FillInv, ArriveInv, NEW e, e = engine["native"]
    PROVE  /\ EngineOK(e) /\ DOMAIN e.traded \subseteq Nat /\ \A i \in DOMAIN e.traded : i >= 2
           /\ AllSettled(orders, e, Pending, Rest) /\ AllSound(orders, e, Pending, mixed)
           /\ AllSound(saved, e, Pending, mixed)
           /\ RowsOK(orders) /\ Leads(map, orders) /\ Tracked(orders, map)
           /\ \A n \in Slots : /\ CallSettled(calls[n], orders, e, Pending, Rest)
                               /\ CallSound(calls[n], e, Pending, mixed)
           /\ \A i \in DOMAIN e.traded : Pending[i] \in Nat
<1>1. EngineOK(e)
  BY DEF FillInv, EnginesOK
<1>2. DOMAIN e.traded \subseteq Nat /\ \A i \in DOMAIN e.traded : i >= 2
  BY <1>1 DEF EngineOK
<1>3. \A i \in DOMAIN e.traded : Pending[i] \in Nat
  BY <1>2, PendingNat
<1> QED
  BY <1>1, <1>2, <1>3 DEF ArriveInv, TrackInv, FillInv

\* Rows saved that are in the page stay there.
LEMMA RestoredAfter ==
    ASSUME Restored, Grown(orders, orders'), saved' = saved
    PROVE  Restored'
BY DEF Restored, Grown

\* A call that ends in the page fills no row of the server, but those of mixed ids.
LEMMA LocalCallArrive ==
    ASSUME TrackInv, FillInv, ArriveInv, MixedNext, missed \subseteq missed',
           NEW c, c.kind \in Kinds, c.qty \in Nat, WasmCall(c) \/ NoEngine(c),
           \A i \in DOMAIN engine["native"].traded \ Rest' :
              Pending'[i] \in Nat /\ Pending'[i] = Pending[i]
    PROVE  /\ ArriveLeaves(engine["native"])
           /\ orders = <<>> /\ ~engineReady => orders' = <<>>
<1>1. PICK e : e = engine["native"]
  OBVIOUS
<1>2. /\ EngineOK(e) /\ RowsOK(orders) /\ Leads(map, orders) /\ Tracked(orders, map)
      /\ AllSettled(orders, e, Pending, Rest) /\ AllSound(orders, e, Pending, mixed)
      /\ \A i \in DOMAIN e.traded : i >= 2 /\ i \in Nat /\ Pending[i] \in Nat
  BY <1>1, ArriveFacts
<1>3. /\ mixed \subseteq Rest' /\ mixed' \subseteq Rest' /\ Rest \subseteq Rest'
      /\ engine'["native"] = e
  <2>1. engine'["native"] = e
    BY <1>1 DEF WasmCall, NoEngine, FillInv, EnginesOK
  <2> QED
    BY <1>1, <2>1 DEF Rest, MixedNext
<1>4. PICK p, q, m2 : p = Pending /\ q = Pending' /\ m2 = Rest'
  OBVIOUS
<1>5. \A i \in DOMAIN e.traded \ m2 : p[i] \in Nat /\ q[i] \in Nat /\ q[i] = p[i]
  BY <1>1, <1>2, <1>4
<1>6. CASE WasmCall(c)
  <2>1. PICK w : w = engine["wasm"]
    OBVIOUS
  <2>2. PICK r \in Outcomes(w, c) : /\ Continue(c, r, FALSE, "wasm")
                                    /\ engine' = [engine EXCEPT !["wasm"] = r.engine]
    BY <1>6, <2>1 DEF WasmCall
  <2>3. PICK native : native = FALSE
    OBVIOUS
  <2>4. EngineOK(w) /\ site \in Deployments /\ DOMAIN e.traded \cap DOMAIN w.traded \subseteq mixed
    BY <1>1, <2>1 DEF FillInv, EnginesOK
  <2>5. /\ Advanced(w, r.engine, r.fills)
        /\ c.kind \in Submission /\ r.answer # 0 =>
              Created(w, r.engine, r.fills, r.answer, c.qty)
        /\ c.kind = "cancel" => r.fills = Nothing
    BY <2>4, OutcomeFacts
  <2>6. c.kind \in Submission => r.answer \in Nat
    BY <2>5 DEF Advanced, Created, EngineOK
  <2>7. \A i \in DOMAIN e.traded \ m2 : i \notin DOMAIN r.fills
    <3>1. DOMAIN r.fills \subseteq 1..(r.engine.next_id - 1)
      BY <2>5 DEF Advanced, FillsOK
    <3>2. DOMAIN r.engine.traded = 2..(r.engine.next_id - 1) /\ r.engine.next_id \in Nat
      BY <2>5 DEF Advanced, EngineOK
    <3>3. DOMAIN e.traded \cap DOMAIN r.engine.traded \subseteq mixed'
      BY <1>1, <1>3, <2>2 DEF MixedNext, FillInv, EnginesOK
    <3>4. \A i \in DOMAIN e.traded : i \in 1..(r.engine.next_id - 1) => i \in m2
      BY <1>2, <1>3, <1>4, <3>2, <3>3
    <3> QED
      BY <3>1, <3>4
  <2>8. Arriving(r.fills, native, e, p, q, m2)
    BY <1>5, <2>7 DEF Arriving
  <2>9. Settled(NewRow(c, r, "wasm"), e, q, m2)
    BY DEF Settled, NewRow
  <2>10. Continue(c, r, native, "wasm")
    BY <2>2, <2>3
  <2>11. AllSettled(orders', e, q, m2)
    BY <1>2, <1>3, <1>4, <2>5, <2>8, <2>9, <2>10, ContinueSettled
  <2>12. Tracked(orders', map') /\ Grown(orders, orders')
    BY <1>2, <2>6, <2>10, ContinueTracked
  <2> QED
    BY <1>1, <1>4, <1>6, <2>11, <2>12 DEF ArriveLeaves, WasmCall
<1>7. CASE NoEngine(c)
  <2>1. CASE c.kind = "cancel"
    <3>1. PICK r, native : r = [fills |-> Nothing] /\ native = FALSE
      OBVIOUS
    <3>2. r.fills = Nothing /\ AfterCancel(c.id, ~c.native)
      BY <1>7, <2>1, <3>1 DEF NoEngine
    <3>3. Continue(c, r, native, "wasm") /\ c.kind \notin Submission
      BY <2>1, <3>2 DEF Continue, Submission
    <3>4. Arriving(r.fills, native, e, p, q, m2)
      BY <1>5, <3>2 DEF Arriving, Nothing
    <3>5. AllSettled(orders', e, q, m2)
      BY <1>2, <1>3, <1>4, <3>2, <3>3, <3>4, ContinueSettled
    <3>6. Tracked(orders', map') /\ Grown(orders, orders')
      BY <1>2, <3>3, ContinueTracked
    <3>7. orders = <<>> => orders' = <<>>
      BY <1>2, <3>2 DEF AfterCancel, Leads
    <3> QED
      BY <1>1, <1>4, <3>5, <3>6, <3>7 DEF ArriveLeaves
  <2>2. CASE c.kind # "cancel"
    <3>1. orders' = orders /\ map' = map
      BY <1>7, <2>2 DEF NoEngine, page
    <3>2. KeepsPace(e, e, p, q, m2)
      BY <1>2, <1>5 DEF KeepsPace, EngineOK
    <3>3. AllSettled(orders, e, q, m2)
      BY <1>2, <1>3, <1>4, <3>2, AllSettledStep
    <3> QED
      BY <1>1, <1>2, <1>4, <3>1, <3>3 DEF ArriveLeaves, Grown
  <2> QED
    BY <2>1, <2>2
<1> QED
  BY <1>6, <1>7

LEMMA ArriveAfter ==
    ASSUME site' = site, NEW x, engine'["native"] = x, ArriveLeaves(x),
           \A n \in Slots : CallSettled(calls'[n], orders', x, Pending', Rest'),
           Fresh' \/ Restored'
    PROVE  ArriveInv'
<1>1. Slots' = Slots
  BY DEF Slots
<1> QED
  BY <1>1 DEF ArriveInv, ArriveLeaves

\* A call that has no answer yet.
LEMMA CallSettledEmpty ==
    ASSUME NEW c, c.fills = Nothing, c.answer = 0, NEW rows, NEW e, NEW p, NEW m
    PROVE  CallSettled(c, rows, e, p, m)
BY DEF CallSettled, Settled, NewRow

\* A page that has not started, and does nothing, is still to start.
LEMMA StaysFresh ==
    ASSUME TrackInv, FillInv, Fresh, site' = site, orders' = <<>>, ~useNative', ~engineReady',
           calls' = calls, saved' = saved, missed \subseteq missed', mixed \subseteq mixed',
           NEW x, x = engine'["native"],
           engine["native"].lost \subseteq x.lost \cup mixed',
           KeepsPace(engine["native"], x, Pending, Pending', Rest')
    PROVE  Fresh'
<1>1. PICK e, p, q, m2 : e = engine["native"] /\ p = Pending /\ q = Pending' /\ m2 = Rest'
  OBVIOUS
<1>2. EngineOK(e) /\ AllSound(saved, e, p, mixed) /\ AllSettled(saved, e, p, Rest)
  BY <1>1 DEF FillInv, EnginesOK, Fresh
<1>3. mixed \subseteq m2 /\ Rest \subseteq m2
  BY <1>1 DEF Rest
<1>4. AllSettled(saved, x, q, m2)
  BY <1>1, <1>2, <1>3, AllSettledStep
<1>5. NoCalls'
  BY DEF Fresh, NoCalls, Slots
<1> QED
  BY <1>1, <1>4, <1>5 DEF Fresh

LEMMA StartArrive ==
    ASSUME TrackInv, FillInv, ArriveInv, site' = site, MixedNext,
           NEW kind \in Kinds, NEW id, NEW qty \in Nat, Start(kind, id, qty)
    PROVE  ArriveInv'
<1> DEFINE c == Request(kind, id, qty)
<1>1. /\ c.kind = kind /\ c.qty = qty /\ c.fills = Nothing /\ c.answer = 0
      /\ DOMAIN c = DOMAIN NoCall
  BY DEF Request, NoCall
<1>2. /\ UNCHANGED <<useNative, engineReady, saved, missed>>
      /\ mixed \subseteq mixed' /\ missed \subseteq missed'
  BY DEF Start, MixedNext
<1>3. PICK e : e = engine["native"]
  OBVIOUS
<1>4. /\ EngineOK(e) /\ Tracked(orders, map)
      /\ AllSettled(orders, e, Pending, Rest) /\ AllSound(orders, e, Pending, mixed)
      /\ \A n \in Slots : /\ CallSettled(calls[n], orders, e, Pending, Rest)
                          /\ CallSound(calls[n], e, Pending, mixed)
      /\ \A i \in DOMAIN e.traded : i \in Nat /\ Pending[i] \in Nat
  BY <1>3, ArriveFacts
<1>5. mixed \subseteq Rest' /\ Rest \subseteq Rest' /\ engine'["native"] = e
  <2>1. engine'["native"] = e
    BY <1>3 DEF Start, WasmCall, NoEngine, FillInv, EnginesOK
  <2> QED
    BY <1>2, <1>3, <2>1 DEF Rest
<1> HIDE DEF c
<1>6. CASE useNative
  <2>1. Send(c) /\ UNCHANGED <<engine, page>>
    BY <1>6 DEF Start, c
  <2>2. PICK n \in Slots : /\ calls[n] = NoCall
                           /\ calls' = [calls EXCEPT ![n] = [c EXCEPT !.stage = "sent"]]
    BY <2>1 DEF Send, FirstFree
  <2>3. /\ \A k \in Slots \ {n} : calls'[k] = calls[k]
        /\ calls'[n].fills = Nothing /\ calls'[n].answer = 0
        /\ calls[n].fills = Nothing
    BY <1>1, <2>2 DEF TrackInv, CallsOK, NoCall
  <2>4. \A i \in Nat : Pending'[i] = Pending[i]
    BY <2>3, PendingSame
  <2>5. KeepsPace(e, e, Pending, Pending', Rest')
    BY <1>4, <2>4 DEF KeepsPace, EngineOK
  <2>6. orders' = orders /\ map' = map /\ Grown(orders, orders')
    BY <2>1 DEF page, Grown
  <2>7. AllSettled(orders', e, Pending', Rest')
    BY <1>4, <1>5, <2>5, <2>6, AllSettledStep
  <2>8. ASSUME NEW k \in Slots PROVE CallSettled(calls'[k], orders', e, Pending', Rest')
    <3>1. CASE k = n
      BY <2>3, <3>1, CallSettledEmpty
    <3>2. CASE k # n
      BY <1>4, <1>5, <2>3, <2>5, <2>6, <3>2, CallSettledStep
    <3> QED
      BY <3>1, <3>2
  <2>9. Restored'
    BY <1>2, <1>6, <2>6, RestoredAfter DEF ArriveInv, Fresh
  <2>10. ArriveLeaves(e)
    BY <1>4, <2>6, <2>7 DEF ArriveLeaves
  <2> QED
    BY <1>3, <2>1, <2>8, <2>9, <2>10, ArriveAfter
<1>7. CASE ~useNative
  <2>1. (WasmCall(c) \/ NoEngine(c)) /\ calls' = calls
    BY <1>7 DEF Start, c
  <2>2. \A i \in Nat : Pending'[i] = Pending[i]
    BY <2>1, PendingSame
  <2>3. KeepsPace(e, e, Pending, Pending', Rest')
    BY <1>4, <2>2 DEF KeepsPace, EngineOK
  <2>4. \A i \in DOMAIN engine["native"].traded \ Rest' :
           Pending'[i] \in Nat /\ Pending'[i] = Pending[i]
    BY <1>3, <1>4, <2>2
  <2>5. /\ ArriveLeaves(e)
        /\ orders = <<>> /\ ~engineReady => orders' = <<>>
    BY <1>1, <1>2, <1>3, <2>1, <2>4, LocalCallArrive
  <2>6. engine'["native"] = e
    BY <1>3, <2>1 DEF WasmCall, NoEngine, FillInv, EnginesOK
  <2>7. Grown(orders, orders')
    BY <2>5 DEF ArriveLeaves
  <2>8. \A k \in Slots : CallSettled(calls'[k], orders', e, Pending', Rest')
    BY <1>4, <1>5, <2>1, <2>3, <2>7, CallSettledStep
  <2>9. Fresh' \/ Restored'
    <3>1. CASE Fresh
      BY <1>2, <1>3, <2>1, <2>3, <2>5, <2>6, <3>1, StaysFresh DEF Fresh
    <3>2. CASE Restored
      BY <1>2, <2>7, <3>2, RestoredAfter
    <3> QED
      BY <3>1, <3>2 DEF ArriveInv
  <2> QED
    BY <2>5, <2>6, <2>8, <2>9, ArriveAfter
<1> QED
  BY <1>6, <1>7

LEMMA FetchFailsArrive ==
    ASSUME TrackInv, FillInv, ArriveInv, site' = site, MixedNext,
           NEW n \in Slots, FetchFails(n)
    PROVE  ArriveInv'
<1> DEFINE c == calls[n]
<1>1. c.kind \in Kinds /\ c.qty \in Nat /\ CallsOK
  BY DEF TrackInv, CallsOK, FillInv, CallSound
<1>2. /\ c # NoCall /\ (WasmCall(c) \/ NoEngine(c))
      /\ calls' = [calls EXCEPT ![n] = NoCall]
      /\ saved' = saved /\ mixed \subseteq mixed'
      /\ missed' = missed \cup Later(c.fills)
  BY DEF FetchFails, MixedNext
<1>3. PICK e : e = engine["native"]
  OBVIOUS
<1>4. /\ EngineOK(e)
      /\ \A k \in Slots : /\ CallSettled(calls[k], orders, e, Pending, Rest)
                          /\ CallSound(calls[k], e, Pending, mixed)
      /\ \A i \in DOMAIN e.traded : i \in Nat /\ i >= 2 /\ Pending[i] \in Nat
  BY <1>3, ArriveFacts
<1>5. mixed \subseteq Rest' /\ Rest \subseteq Rest' /\ missed \subseteq missed'
  <2>1. engine'["native"] = e
    BY <1>2, <1>3 DEF WasmCall, NoEngine, FillInv, EnginesOK
  <2> QED
    BY <1>2, <1>3, <2>1 DEF Rest
<1>6. \A i \in Nat : /\ Pending'[i] \in Nat /\ Pending[i] \in Nat
                     /\ Pending'[i] = Pending[i] - At(c.fills, i)
  BY <1>1, <1>2, CallOver
<1>7. ASSUME NEW i \in DOMAIN e.traded \ Rest'
      PROVE  Pending'[i] \in Nat /\ Pending'[i] = Pending[i]
  <2>1. i \notin Later(c.fills) /\ i \in Nat /\ i # 1
    BY <1>2, <1>4, <1>7 DEF Rest
  <2>2. At(c.fills, i) = 0
    BY <2>1 DEF Later, At
  <2> QED
    BY <1>6, <2>1, <2>2
<1>8. KeepsPace(e, e, Pending, Pending', Rest')
  BY <1>4, <1>7 DEF KeepsPace, EngineOK
<1> HIDE DEF c
<1>9. ArriveLeaves(e)
  BY <1>1, <1>2, <1>3, <1>5, <1>7, LocalCallArrive
<1>10. engine'["native"] = e
  BY <1>2, <1>3 DEF WasmCall, NoEngine, FillInv, EnginesOK
<1>11. Grown(orders, orders')
  BY <1>9 DEF ArriveLeaves
<1>12. ASSUME NEW k \in Slots PROVE CallSettled(calls'[k], orders', e, Pending', Rest')
  <2>1. CASE k = n
    <3>1. calls'[k] = NoCall
      BY <1>1, <1>2, <2>1 DEF CallsOK
    <3> QED
      BY <3>1, CallSettledEmpty DEF NoCall
  <2>2. CASE k # n
    <3>1. calls'[k] = calls[k]
      BY <1>1, <1>2, <2>2 DEF CallsOK
    <3> QED
      BY <1>4, <1>5, <1>8, <1>11, <3>1, CallSettledStep
  <2> QED
    BY <2>1, <2>2
<1>13. Restored'
  BY <1>2, <1>11, RestoredAfter DEF ArriveInv, Fresh, NoCalls, c
<1> QED
  BY <1>9, <1>10, <1>12, <1>13, ArriveAfter

\* What arrives in native mode finds its row, or is missed; in WASM mode it is missed.
LEMMA ReceiveArrive ==
    ASSUME TrackInv, FillInv, ArriveInv, site' = site, MixedNext, NEW n \in Slots, Receive(n)
    PROVE  ArriveInv'
<1> DEFINE c == calls[n]
<1>1. PICK e, p, q, m2, native :
         /\ e = engine["native"] /\ p = Pending /\ q = Pending' /\ m2 = Rest'
         /\ native = useNative
  OBVIOUS
<1>2. /\ c.kind \in Kinds /\ CallsOK /\ c.stage = "answered"
      /\ Continue(c, c, native, "native")
      /\ calls' = [calls EXCEPT ![n] = NoCall]
      /\ engine' = engine /\ saved' = saved /\ mixed \subseteq mixed'
      /\ missed' = missed \cup IF native THEN Rowless(Later(c.fills)) ELSE Later(c.fills)
  BY <1>1 DEF Receive, MixedNext, TrackInv, CallsOK
<1>3. /\ EngineOK(e) /\ RowsOK(orders) /\ Leads(map, orders) /\ Tracked(orders, map)
      /\ AllSettled(orders, e, p, Rest) /\ AllSound(orders, e, p, mixed)
      /\ \A k \in Slots : /\ CallSettled(calls[k], orders, e, p, Rest)
                          /\ CallSound(calls[k], e, p, mixed)
      /\ \A i \in DOMAIN e.traded : i \in Nat /\ i >= 2 /\ p[i] \in Nat
  BY <1>1, ArriveFacts
<1>4. mixed \subseteq m2 /\ Rest \subseteq m2
  BY <1>1, <1>2 DEF Rest
<1>5. \A i \in Nat : /\ p[i] \in Nat /\ q[i] \in Nat
                     /\ q[i] = p[i] - At(c.fills, i)
                     /\ At(c.fills, i) \in Nat
  BY <1>1, <1>2, CallOver
<1>6. CallSettled(c, orders, e, p, Rest) /\ CallSound(c, e, p, mixed)
  BY <1>3
<1> HIDE DEF c
\* A fill that is not missed finds a row.
<1>7. ASSUME NEW i \in DOMAIN e.traded \ m2, i \in DOMAIN c.fills
      PROVE  /\ native
             /\ \E k \in DOMAIN orders : orders[k].id = i /\ orders[k].status # "CANCELED"
  <2>1. i # 1 /\ i \notin missed'
    BY <1>1, <1>3, <1>7 DEF Rest
  <2>2. i \in Later(c.fills)
    BY <1>7, <2>1 DEF Later
  <2> QED
    BY <1>2, <2>1, <2>2 DEF Rowless
<1>8. Arriving(c.fills, native, e, p, q, m2)
  <2> SUFFICES ASSUME NEW i \in DOMAIN e.traded \ m2
               PROVE  /\ p[i] \in Nat /\ q[i] \in Nat
                      /\ i \notin DOMAIN c.fills => q[i] = p[i]
                      /\ i \in DOMAIN c.fills => c.fills[i] \in Nat \ {0}
                                                 /\ q[i] + c.fills[i] = p[i]
    BY <1>7 DEF Arriving
  <2>1. p[i] \in Nat /\ q[i] \in Nat /\ q[i] = p[i] - At(c.fills, i)
    BY <1>3, <1>5
  <2>2. i \notin DOMAIN c.fills => At(c.fills, i) = 0
    BY DEF At
  <2>3. i \in DOMAIN c.fills => c.fills[i] \in Nat \ {0} /\ At(c.fills, i) = c.fills[i]
    BY <1>6 DEF CallSound, FillsOK, At
  <2> QED
    BY <2>1, <2>2, <2>3
\* What is on its way to a row that is not there yet stays on its way.
<1>9. ASSUME NEW i \in DOMAIN e.traded \ m2, NoRow(orders, i)
      PROVE  q[i] = p[i]
  BY <1>7, <1>8, <1>9 DEF NoRow, Arriving
<1>10. ASSUME NEW d, CallSettled(d, orders, e, p, Rest), CallSound(d, e, p, mixed),
              d.kind \in Submission, NoRow(orders, d.answer)
       PROVE  Settled(NewRow(d, d, "native"), e, q, m2)
  <2>1. PICK row : row = NewRow(d, d, "native")
    OBVIOUS
  <2>2. Settled(row, e, p, Rest) /\ Sound(row, e, p, mixed)
    BY <1>10, <2>1 DEF CallSettled, CallSound
  <2>3. row.id = d.answer /\ row.home = "native"
    BY <2>1 DEF NewRow
  <2>4. d.answer \notin m2 \cup {0} => d.answer \in DOMAIN e.traded
    BY <1>4, <2>2, <2>3 DEF Sound
  <2>5. d.answer \notin m2 \cup {0} => q[d.answer] = p[d.answer]
    BY <1>9, <1>10, <2>4
  <2>6. Settled(row, e, q, m2)
    BY <1>4, <2>2, <2>3, <2>5 DEF Settled
  <2> QED
    BY <2>1, <2>6
<1>11. AllSettled(orders', e, q, m2)
  <2>1. c.kind = "cancel" => c.fills = Nothing
    BY <1>6 DEF CallSettled
  <2>2. c.kind \in Submission /\ NoRow(orders, c.answer) => Settled(NewRow(c, c, "native"), e, q, m2)
    BY <1>6, <1>10
  <2> QED
    BY <1>2, <1>3, <1>4, <1>8, <2>1, <2>2, ContinueSettled
<1>12. Tracked(orders', map') /\ Grown(orders, orders')
  <2>1. c.kind \in Submission => c.answer \in Nat
    BY <1>6 DEF CallSettled
  <2> QED
    BY <1>2, <1>3, <2>1, ContinueTracked
<1>13. ASSUME NEW k \in Slots PROVE CallSettled(calls'[k], orders', e, q, m2)
  <2>1. CASE k = n
    <3>1. calls'[k] = NoCall
      BY <1>2, <2>1 DEF CallsOK
    <3> QED
      BY <3>1, CallSettledEmpty DEF NoCall
  <2>2. CASE k # n
    <3>1. PICK d : d = calls[k]
      OBVIOUS
    <3>2. calls'[k] = d /\ CallSettled(d, orders, e, p, Rest) /\ CallSound(d, e, p, mixed)
      BY <1>2, <1>3, <2>2, <3>1 DEF CallsOK
    <3>3. NoRow(orders', d.answer) => NoRow(orders, d.answer)
      BY <1>12 DEF NoRow, Grown
    <3>4. d.kind = "cancel" => d.fills = Nothing
      BY <3>2 DEF CallSettled
    <3>5. d.kind \in Submission =>
             /\ d.answer \in Nat
             /\ NoRow(orders, d.answer) => Settled(NewRow(d, d, "native"), e, q, m2)
      BY <1>10, <3>2 DEF CallSettled
    <3> QED
      BY <3>2, <3>3, <3>4, <3>5 DEF CallSettled
  <2> QED
    BY <2>1, <2>2
<1>14. Restored'
  <2>1. calls[n] # NoCall
    BY <1>2 DEF NoCall, c
  <2> QED
    BY <1>2, <1>12, <2>1, RestoredAfter DEF ArriveInv, Fresh, NoCalls
<1>15. ArriveLeaves(e)
  BY <1>1, <1>11, <1>12 DEF ArriveLeaves
<1> QED
  BY <1>1, <1>2, <1>13, <1>14, <1>15, ArriveAfter

\* The server handles a call: what it fills is on its way.
LEMMA ServeArrive ==
    ASSUME TrackInv, FillInv, ArriveInv, site' = site, MixedNext, NEW n \in Slots, Serve(n)
    PROVE  ArriveInv'
<1> DEFINE c == calls[n]
<1>1. PICK e : e = engine["native"]
  OBVIOUS
<1>2. /\ EngineOK(e) /\ Tracked(orders, map)
      /\ AllSettled(orders, e, Pending, Rest) /\ AllSound(orders, e, Pending, mixed)
      /\ \A k \in Slots : /\ CallSettled(calls[k], orders, e, Pending, Rest)
                          /\ CallSound(calls[k], e, Pending, mixed)
      /\ \A i \in DOMAIN e.traded : i \in Nat /\ Pending[i] \in Nat
  BY <1>1, ArriveFacts
<1>3. /\ c.kind \in Kinds /\ DOMAIN c = DOMAIN NoCall /\ DOMAIN calls = Slots
      /\ c.stage = "sent" /\ DOMAIN engine = {"native", "wasm"} /\ site \in Deployments
      /\ CallSound(c, e, Pending, mixed)
  BY <1>1 DEF TrackInv, CallsOK, FillInv, EnginesOK, Serve
<1>4. c.fills = Nothing /\ c.qty \in Nat
  BY <1>3 DEF CallSound
<1>5. PICK r \in Outcomes(e, c) :
         /\ engine' = [engine EXCEPT !["native"] = r.engine]
         /\ calls' = [calls EXCEPT ![n].stage = "answered", ![n].answer = r.answer,
                                   ![n].fills = r.fills]
  BY <1>1 DEF Serve
<1>6. /\ Advanced(e, r.engine, r.fills)
      /\ c.kind \in Submission /\ r.answer # 0 =>
            c.kind = "limit" /\ Created(e, r.engine, r.fills, r.answer, c.qty)
      /\ c.kind = "cancel" => r.fills = Nothing
  BY <1>2, <1>3, <1>4, <1>5, OutcomeFacts
<1>7. /\ engine'["native"] = r.engine
      /\ calls'[n].fills = r.fills /\ calls'[n].answer = r.answer
      /\ calls'[n].kind = c.kind /\ calls'[n].qty = c.qty
      /\ \A k \in Slots \ {n} : calls'[k] = calls[k]
      /\ UNCHANGED <<saved, missed>> /\ mixed \subseteq mixed'
      /\ orders' = orders /\ map' = map
  BY <1>3, <1>5 DEF NoCall, Serve, page, MixedNext
<1>8. /\ mixed \subseteq Rest' /\ mixed' \subseteq Rest' /\ Rest \subseteq Rest'
      /\ Grown(orders, orders')
  BY <1>1, <1>6, <1>7 DEF Rest, Grown, Advanced
<1>9. \A i : At(r.fills, i) \in Nat
  BY <1>6, AtFacts DEF Advanced
<1>10. \A i \in Nat : /\ Pending[i] \in Nat /\ Pending'[i] \in Nat
                      /\ Pending'[i] = Pending[i] + At(r.fills, i)
  BY <1>4, <1>7, <1>9, PendingServed
<1> HIDE DEF c
<1>11. KeepsPace(e, r.engine, Pending, Pending', Rest')
  <2> SUFFICES ASSUME NEW i \in DOMAIN e.traded \ Rest'
               PROVE  /\ Pending[i] \in Nat /\ Pending'[i] \in Nat
                      /\ r.engine.traded[i] \in Nat
                      /\ Pending[i] + r.engine.traded[i] = Pending'[i] + e.traded[i]
    BY DEF KeepsPace
  <2>1. r.engine.traded[i] = e.traded[i] + At(r.fills, i) /\ e.traded[i] \in Nat
    <3>1. i \notin r.engine.lost
      BY <1>7 DEF Rest
    <3> QED
      BY <1>2, <1>6, <3>1 DEF Advanced, EngineOK
  <2>2. /\ Pending[i] \in Nat /\ Pending'[i] \in Nat /\ At(r.fills, i) \in Nat
        /\ Pending'[i] = Pending[i] + At(r.fills, i)
    BY <1>2, <1>9, <1>10
  <2> QED
    BY <2>1, <2>2
<1>12. AllSettled(orders', r.engine, Pending', Rest')
  BY <1>2, <1>7, <1>8, <1>11, AllSettledStep
\* No fill on its way is of an order that is new.
<1>13. ASSUME c.kind \in Submission, r.answer \notin Rest' \cup {0}
       PROVE  Pending'[r.answer] = 0
  <2>1. r.answer \in Nat /\ r.answer >= e.next_id /\ e.next_id \in Nat
    BY <1>2, <1>6, <1>13 DEF Created, Advanced, EngineOK
  <2>2. DOMAIN r.fills \subseteq 1..(e.next_id - 1)
    BY <1>2, <1>6, <1>13 DEF Created, EngineOK
  <2>3. \A k \in Slots : DOMAIN calls'[k].fills \subseteq 1..(e.next_id - 1) \cup Rest'
    BY <1>2, <1>7, <1>8, <2>2 DEF CallSound, FillsOK
  <2>4. r.answer \notin 1..(e.next_id - 1)
    BY <2>1
  <2>5. \A k \in Slots : At(calls'[k].fills, r.answer) = 0
    BY <1>13, <2>3, <2>4 DEF At
  <2> QED
    BY <1>3, <2>1, <2>5, PendingZeroNext
<1>14. ASSUME NEW k \in Slots PROVE CallSettled(calls'[k], orders', r.engine, Pending', Rest')
  <2>1. CASE k = n
    <3>1. PICK d : d = calls'[n]
      OBVIOUS
    <3>2. /\ d.kind = c.kind /\ d.answer = r.answer /\ d.fills = r.fills /\ d.qty = c.qty
      BY <1>7, <3>1
    <3>3. d.kind = "cancel" => d.fills = Nothing
      BY <1>6, <3>2
    <3>4. ASSUME d.kind \in Submission, d.answer \notin Rest' \cup {0}
          PROVE  Settled(NewRow(d, d, "native"), r.engine, Pending', Rest')
      <4>1. c.kind = "limit" /\ Created(e, r.engine, r.fills, r.answer, c.qty)
        BY <1>6, <3>2, <3>4
      <4>3. Pending'[r.answer] = 0
        BY <1>13, <3>2, <3>4
      <4>4. /\ NewRow(d, d, "native").id = r.answer
            /\ NewRow(d, d, "native").filled = Total(r.fills)
            /\ NewRow(d, d, "native").status \in {"OPEN", "PARTIAL", "FILLED"}
        BY <3>2, <4>1 DEF NewRow
      <4>5. Total(r.fills) \in Nat /\ r.engine.traded[r.answer] = Total(r.fills)
        BY <4>1 DEF Created
      <4> QED
        BY <4>3, <4>4, <4>5 DEF Settled
    <3>5. d.answer \in Rest' \cup {0}
             => Settled(NewRow(d, d, "native"), r.engine, Pending', Rest')
      BY DEF Settled, NewRow
    <3>6. d.kind \in Submission => d.answer \in Nat
      BY <1>6, <3>2 DEF Created, Advanced, EngineOK
    <3> QED
      BY <2>1, <3>1, <3>3, <3>4, <3>5, <3>6 DEF CallSettled
  <2>2. CASE k # n
    BY <1>2, <1>7, <1>8, <1>11, <2>2, CallSettledStep
  <2> QED
    BY <2>1, <2>2
<1>15. Restored'
  <2>1. calls[n] # NoCall
    BY <1>3 DEF NoCall, c
  <2> QED
    BY <1>7, <1>8, <2>1, RestoredAfter DEF ArriveInv, Fresh, NoCalls
<1>16. ArriveLeaves(r.engine)
  BY <1>2, <1>7, <1>8, <1>12 DEF ArriveLeaves
<1> QED
  BY <1>7, <1>14, <1>15, <1>16, ArriveAfter

\* The server changes, and what is on its way keeps pace with it.
LEMMA ServerAloneArrive ==
    ASSUME TrackInv, FillInv, ArriveInv, site' = site, MixedNext,
           UNCHANGED <<useNative, engineReady, calls, page, saved>>, missed \subseteq missed',
           NEW x, x = engine'["native"],
           engine["native"].lost \subseteq x.lost \cup mixed',
           KeepsPace(engine["native"], x, Pending, Pending', Rest')
    PROVE  ArriveInv'
<1>1. PICK e : e = engine["native"]
  OBVIOUS
<1>2. /\ EngineOK(e) /\ Tracked(orders, map)
      /\ AllSettled(orders, e, Pending, Rest) /\ AllSound(orders, e, Pending, mixed)
      /\ \A k \in Slots : /\ CallSettled(calls[k], orders, e, Pending, Rest)
                          /\ CallSound(calls[k], e, Pending, mixed)
  BY <1>1, ArriveFacts
<1>3. /\ calls' = calls /\ orders' = orders /\ map' = map /\ mixed \subseteq mixed'
      /\ KeepsPace(e, x, Pending, Pending', Rest')
  BY <1>1 DEF page, MixedNext
<1>4. mixed \subseteq Rest' /\ Rest \subseteq Rest' /\ Grown(orders, orders')
  BY <1>1, <1>3 DEF Rest, Grown
<1>5. AllSettled(orders', x, Pending', Rest')
  BY <1>2, <1>3, <1>4, AllSettledStep
<1>6. \A k \in Slots : CallSettled(calls'[k], orders', x, Pending', Rest')
  BY <1>2, <1>3, <1>4, CallSettledStep
<1>7. Fresh' \/ Restored'
  <2>1. CASE Fresh
    BY <1>3, <2>1, StaysFresh DEF Fresh
  <2>2. CASE Restored
    BY <1>4, <2>2, RestoredAfter
  <2> QED
    BY <2>1, <2>2 DEF ArriveInv
<1>8. ArriveLeaves(x)
  BY <1>2, <1>3, <1>4, <1>5 DEF ArriveLeaves
<1> QED
  BY <1>6, <1>7, <1>8, ArriveAfter

\* What another client fills is missed.
LEMMA OtherClientArrive ==
    ASSUME TrackInv, FillInv, ArriveInv, site' = site, MixedNext, OtherClient
    PROVE  ArriveInv'
<1>1. PICK e : e = engine["native"]
  OBVIOUS
<1>2. EngineOK(e) /\ \A i \in DOMAIN e.traded : i \in Nat /\ i >= 2 /\ Pending[i] \in Nat
  BY <1>1, ArriveFacts
<1>3. PICK r \in Ticked(e) : /\ engine' = [engine EXCEPT !["native"] = r.engine]
                             /\ missed' = missed \cup Later(r.fills)
  BY <1>1 DEF OtherClient
<1>4. Advanced(e, r.engine, r.fills)
  BY <1>2, TickedFacts DEF FillInv
<1>5. /\ engine'["native"] = r.engine /\ missed \subseteq missed'
      /\ UNCHANGED <<useNative, engineReady, calls, page, saved>>
  BY <1>3 DEF OtherClient, FillInv, EnginesOK
<1>6. \A i \in Nat : Pending'[i] = Pending[i]
  BY <1>5, PendingSame
<1>7. KeepsPace(e, r.engine, Pending, Pending', Rest')
  <2> SUFFICES ASSUME NEW i \in DOMAIN e.traded \ Rest'
               PROVE  /\ Pending[i] \in Nat /\ Pending'[i] \in Nat
                      /\ r.engine.traded[i] \in Nat
                      /\ Pending[i] + r.engine.traded[i] = Pending'[i] + e.traded[i]
    BY DEF KeepsPace
  <2>1. i \notin DOMAIN r.fills /\ i \notin r.engine.lost
    BY <1>2, <1>3, <1>5 DEF Rest, Later
  <2>2. r.engine.traded[i] = e.traded[i] + At(r.fills, i) /\ e.traded[i] \in Nat
    BY <1>2, <1>4, <2>1 DEF Advanced, EngineOK
  <2>3. Pending[i] \in Nat /\ Pending'[i] = Pending[i] /\ At(r.fills, i) = 0
    BY <1>2, <1>6, <2>1 DEF At
  <2> QED
    BY <2>2, <2>3
<1>8. e.lost \subseteq r.engine.lost
  BY <1>4 DEF Advanced
<1> QED
  BY <1>1, <1>5, <1>7, <1>8, ServerAloneArrive

\* After a reset nothing is said of any id that the server knew.
LEMMA ServerResetArrive ==
    ASSUME TrackInv, FillInv, ArriveInv, site' = site, MixedNext, ServerReset
    PROVE  ArriveInv'
<1>1. PICK e : e = engine["native"]
  OBVIOUS
<1>2. /\ EngineOK(e) /\ DOMAIN NewEngine.traded = {} /\ DOMAIN engine = {"native", "wasm"}
  BY <1>1, NewEngineOK DEF FillInv, EnginesOK
<1>3. /\ engine'["native"] = NewEngine /\ missed' = missed
      /\ UNCHANGED <<useNative, engineReady, calls, page, saved>>
  BY <1>2 DEF ServerReset
<1>4. DOMAIN e.traded \subseteq mixed'
  BY <1>1, <1>2, <1>3 DEF MixedNext
<1>5. KeepsPace(e, NewEngine, Pending, Pending', Rest')
  BY <1>4 DEF KeepsPace, Rest
<1>6. e.lost \subseteq mixed'
  BY <1>2, <1>4 DEF EngineOK
<1> QED
  BY <1>1, <1>3, <1>5, <1>6, ServerAloneArrive

\* A restore fills the page that has no row yet; later it only makes second rows.
LEMMA StartUpArrive ==
    ASSUME TrackInv, FillInv, ArriveInv, site' = site, MixedNext,
           HealthAnswers \/ onRuntimeInitialized
    PROVE  ArriveInv'
<1>1. PICK e, p, q, m2 : e = engine["native"] /\ p = Pending /\ q = Pending' /\ m2 = Rest'
  OBVIOUS
<1>2. /\ EngineOK(e) /\ Tracked(orders, map) /\ RowsOK(orders) /\ RowsOK(saved)
      /\ AllSettled(orders, e, p, Rest) /\ AllSound(orders, e, p, mixed)
      /\ AllSound(saved, e, p, mixed)
      /\ \A k \in Slots : /\ CallSettled(calls[k], orders, e, p, Rest)
                          /\ CallSound(calls[k], e, p, mixed)
      /\ \A i \in DOMAIN e.traded : i \in Nat /\ p[i] \in Nat
  BY <1>1, ArriveFacts DEF TrackInv
<1>3. /\ calls' = calls /\ saved' = saved /\ missed' = missed /\ mixed \subseteq mixed'
      /\ engine'["native"] = e
  BY <1>1 DEF HealthAnswers, onRuntimeInitialized, MixedNext, startEngineInit, FillInv, EnginesOK
<1>4. mixed \subseteq m2 /\ Rest \subseteq m2
  BY <1>1, <1>3 DEF Rest
<1>5. KeepsPace(e, e, p, q, m2)
  <2>1. \A i \in Nat : q[i] = p[i]
    BY <1>1, <1>3, PendingSame
  <2> QED
    BY <1>2, <2>1 DEF KeepsPace, EngineOK
<1>6. AllSettled(orders, e, q, m2)
  BY <1>2, <1>4, <1>5, AllSettledStep
<1>7. CASE tryRestoreState
  <2>1. /\ \A k \in DOMAIN orders : k \in DOMAIN orders' /\ orders'[k] = orders[k]
        /\ \A k \in DOMAIN orders' \ DOMAIN orders :
              \E j \in DOMAIN saved : orders'[k] = saved[j]
        /\ \A j \in DOMAIN saved :
              \E k \in DOMAIN orders' \ DOMAIN orders : orders'[k] = saved[j]
        /\ DOMAIN map \subseteq DOMAIN map'
        /\ \A k \in DOMAIN orders' :
              k > dropped => (orders'[k].id # 0 /\ Open(orders'[k])
                              => orders'[k].id \in DOMAIN map')
    BY <1>2, <1>7, RestoreRows
  <2>2. Grown(orders, orders') /\ Tracked(orders', map')
    <3>1. Grown(orders, orders')
      BY <2>1 DEF Grown
    <3> SUFFICES ASSUME NEW k \in DOMAIN orders', Alone(orders', k),
                        orders'[k].id # 0, Open(orders'[k])
                 PROVE  orders'[k].id \in DOMAIN map'
      BY <3>1 DEF Tracked
    <3>2. CASE k > dropped
      BY <2>1, <3>2
    <3>3. CASE ~(k > dropped)
      <4>1. RowsOK(orders') /\ Shifted
        BY <1>2, <1>7, RestoreOK DEF TrackInv
      <4>2. /\ Len(orders) \in Nat /\ DOMAIN orders = 1..Len(orders)
            /\ k \in Nat \ {0} /\ dropped \in Nat /\ dropped <= Len(orders)
        BY <4>1, SeqFacts DEF TrackInv, RowsOK, Shifted
      <4>3. k \in DOMAIN orders
        BY <3>3, <4>2
      <4>4. Alone(orders, k)
        BY <3>1, <4>3, AloneBefore DEF Grown
      <4> QED
        BY <1>2, <2>1, <4>3, <4>4 DEF Tracked
    <3> QED
      BY <3>2, <3>3
  <2>3. Restored'
    BY <1>3, <2>1 DEF Restored
  <2>4. AllSettled(orders', e, q, m2)
    <3>1. CASE Fresh
      <4>1. AllSettled(saved, e, q, m2)
        BY <1>1, <1>2, <1>4, <1>5, <3>1, AllSettledStep DEF Fresh
      <4>2. orders' = saved
        <5>1. orders' = <<>> \o saved
          BY <1>7, <3>1 DEF tryRestoreState, Fresh
        <5>2. saved \in Seq({saved[k] : k \in DOMAIN saved})
          BY <1>2 DEF RowsOK, IsSeq
        <5> QED
          BY <5>1, <5>2, ConcatEmptySeq
      <4> QED
        BY <4>1, <4>2
    <3>2. CASE Restored
      <4> SUFFICES ASSUME NEW k \in DOMAIN orders', Alone(orders', k)
                   PROVE  Settled(orders'[k], e, q, m2)
        BY DEF AllSettled
      <4>1. k \in DOMAIN orders
        <5>1. SUFFICES ASSUME k \notin DOMAIN orders PROVE FALSE
          OBVIOUS
        <5>2. PICK j \in DOMAIN saved : orders'[k] = saved[j]
          BY <2>1, <5>1
        <5>3. PICK l \in DOMAIN orders : orders[l].id = saved[j].id
          BY <3>2, <5>2 DEF Restored
        <5> QED
          BY <2>1, <5>1, <5>2, <5>3 DEF Alone
      <4>2. Alone(orders, k)
        BY <2>2, <4>1, AloneBefore DEF Grown
      <4> QED
        BY <1>6, <2>1, <4>1, <4>2 DEF AllSettled
    <3> QED
      BY <3>1, <3>2 DEF ArriveInv
  <2>5. \A k \in Slots : CallSettled(calls'[k], orders', e, q, m2)
    BY <1>2, <1>3, <1>4, <1>5, <2>2, CallSettledStep
  <2>6. ArriveLeaves(e)
    BY <1>1, <2>2, <2>4 DEF ArriveLeaves
  <2> QED
    BY <1>1, <1>3, <2>3, <2>5, <2>6, ArriveAfter
<1>8. CASE ~tryRestoreState
  <2>1. orders' = orders /\ map' = map /\ Grown(orders, orders')
    BY <1>8 DEF HealthAnswers, onRuntimeInitialized, startEngineInit, page, Grown
  <2>2. \A k \in Slots : CallSettled(calls'[k], orders', e, q, m2)
    BY <1>2, <1>3, <1>4, <1>5, <2>1, CallSettledStep
  <2>3. ArriveLeaves(e)
    BY <1>1, <1>2, <1>6, <2>1 DEF ArriveLeaves
  <2>4. Fresh' \/ Restored'
    <3>1. CASE Fresh
      <4>1. ~useNative' /\ ~engineReady'
        BY <1>8, <3>1 DEF Fresh, HealthAnswers, onRuntimeInitialized, startEngineInit
      <4>2. orders' = <<>>
        BY <2>1, <3>1 DEF Fresh
      <4>3. KeepsPace(engine["native"], engine'["native"], Pending, Pending', Rest')
        BY <1>1, <1>3, <1>5
      <4>4. missed \subseteq missed' /\ engine["native"].lost \subseteq e.lost \cup mixed'
        BY <1>1, <1>3
      <4> QED
        BY <1>1, <1>3, <3>1, <4>1, <4>2, <4>3, <4>4, StaysFresh
    <3>2. CASE Restored
      BY <1>3, <2>1, <3>2, RestoredAfter
    <3> QED
      BY <3>1, <3>2 DEF ArriveInv
  <2> QED
    BY <1>1, <1>3, <2>2, <2>3, <2>4, ArriveAfter
<1> QED
  BY <1>7, <1>8

\* What is on its way to a page that is left is missed.
LEMMA ReloadArrive ==
    ASSUME TrackInv, FillInv, ArriveInv, site' = site, MixedNext, Reload
    PROVE  ArriveInv'
<1> DEFINE kept == Len(orders) - dropped
<1>1. PICK e, p, q, m2 : e = engine["native"] /\ p = Pending /\ q = Pending' /\ m2 = Rest'
  OBVIOUS
<1>2. /\ EngineOK(e) /\ RowsOK(orders)
      /\ AllSettled(orders, e, p, Rest) /\ AllSound(orders, e, p, mixed)
      /\ \A i \in DOMAIN e.traded : i \in Nat /\ i >= 2
      /\ site \in Deployments
  BY <1>1, ArriveFacts DEF FillInv
<1>3. /\ orders' = <<>> /\ map' = Nothing /\ calls' = [n \in Slots |-> NoCall]
      /\ useNative' = FALSE /\ engineReady' = FALSE
      /\ engine' = [engine EXCEPT !["wasm"] = NewEngine]
      /\ missed' = missed \cup (UNION {Later(calls[n].fills) : n \in Slots})
                          \cup {orders[k].id : k \in 1..dropped}
      /\ mixed \subseteq mixed'
      /\ saved' = [k \in 1..kept |-> Kept(orders[dropped + k])]
  BY DEF Reload, MixedNext
<1>4. engine'["native"] = e /\ Slots' = Slots /\ \A n \in Slots : calls'[n] = NoCall
  BY <1>1, <1>3 DEF FillInv, EnginesOK, Slots
<1>5. mixed \subseteq m2 /\ Rest \subseteq m2
  BY <1>1, <1>3, <1>4 DEF Rest
<1>6. KeepsPace(e, e, p, q, m2)
  <2>1. ASSUME NEW i \in DOMAIN e.traded \ m2
        PROVE  p[i] = 0 /\ q[i] = 0
    <3>1. \A n \in Slots : i \notin Later(calls[n].fills)
      BY <1>1, <1>3, <2>1 DEF Rest
    <3>2. \A n \in Slots : At(calls[n].fills, i) = 0
      BY <1>2, <3>1 DEF Later, At
    <3>3. \A n \in Slots : At(calls'[n].fills, i) = 0
      BY <1>4 DEF At, NoCall, Nothing
    <3>4. Pending[i] = 0
      BY <1>2, <3>2, PendingZero
    <3>5. Pending'[i] = 0
      BY <1>2, <3>3, PendingZeroNext
    <3> QED
      BY <1>1, <3>4, <3>5
  <2> QED
    BY <1>2, <2>1 DEF KeepsPace, EngineOK
<1>7. AllSettled(saved', e, q, m2)
  <2>1. /\ Len(orders) \in Nat /\ DOMAIN orders = 1..Len(orders)
        /\ dropped \in Nat /\ dropped <= Len(orders)
    BY SeqFacts DEF TrackInv, RowsOK, Shifted
  <2>2. kept \in Nat /\ \A k \in 1..kept : dropped + k \in DOMAIN orders
    BY <2>1
  <2>3. \A j \in DOMAIN orders :
           \/ j \in 1..dropped
           \/ j - dropped \in 1..kept /\ j = dropped + (j - dropped)
    BY <2>1
  <2> HIDE DEF kept
  <2>4. ASSUME NEW k \in 1..kept
        PROVE  LET row == orders[dropped + k]
               IN  /\ saved'[k].home = "native" => row.home = "native"
                   /\ saved'[k].id = row.id /\ saved'[k].filled = row.filled
                   /\ saved'[k].status = row.status
    <3>1. PICK row : row = orders[dropped + k]
      OBVIOUS
    <3>2. /\ DOMAIN row = {"id", "orig", "filled", "home", "status"}
          /\ saved'[k] = Kept(row)
      BY <1>2, <1>3, <2>2, <3>1 DEF RowsOK
    <3> QED
      BY <3>1, <3>2 DEF Kept
  <2>5. ASSUME NEW k \in 1..kept, Alone(saved', k), saved'[k].id \notin m2
        PROVE  Alone(orders, dropped + k)
    <3> SUFFICES ASSUME NEW j \in DOMAIN orders, orders[j].id = orders[dropped + k].id
                 PROVE  j = dropped + k
      BY DEF Alone
    <3>1. j \notin 1..dropped
      <4>1. saved'[k].id = orders[j].id
        BY <2>4
      <4>2. j \in 1..dropped => orders[j].id \in missed'
        <5>1. {orders[i].id : i \in 1..dropped} \subseteq missed'
          BY DEF Reload
        <5> QED
          BY <5>1
      <4> QED
        BY <1>1, <2>5, <4>1, <4>2 DEF Rest
    <3>2. PICK l \in 1..kept : j = dropped + l
      BY <2>3, <3>1
    <3>3. saved'[l].id = saved'[k].id
      BY <2>4, <3>2
    <3>4. l = k
      BY <1>3, <2>5, <3>3 DEF Alone
    <3> QED
      BY <3>2, <3>4
  <2>6. ASSUME NEW k \in 1..kept, Alone(saved', k)
        PROVE  Settled(saved'[k], e, q, m2)
    <3>1. CASE saved'[k].id \in m2
      BY <3>1 DEF Settled
    <3>2. CASE saved'[k].id \notin m2
      <4>1. PICK row : row = orders[dropped + k]
        OBVIOUS
      <4>2. Settled(row, e, p, Rest) /\ Sound(row, e, p, mixed)
        BY <1>2, <2>2, <2>5, <2>6, <3>2, <4>1 DEF AllSettled, AllSound
      <4> QED
        BY <1>2, <1>5, <1>6, <2>4, <4>1, <4>2, SettledStep
    <3> QED
      BY <3>1, <3>2
  <2> QED
    BY <1>3, <2>6 DEF AllSettled
<1>8. Fresh'
  BY <1>1, <1>3, <1>4, <1>7 DEF Fresh, NoCalls
<1>9. AllSettled(orders', e, q, m2) /\ Tracked(orders', map')
  BY <1>3 DEF AllSettled, Tracked
<1>10. \A n \in Slots : CallSettled(calls'[n], orders', e, q, m2)
  BY <1>4, CallSettledEmpty DEF NoCall
<1> QED
  BY <1>1, <1>4, <1>8, <1>9, <1>10 DEF ArriveInv

LEMMA ArriveInductive ==
    TrackInv /\ FillInv /\ ArriveInv /\ [CNext]_cvars => ArriveInv'
<1> SUFFICES ASSUME TrackInv, FillInv, ArriveInv, [CNext]_cvars PROVE ArriveInv'
  OBVIOUS
<1>1. CASE CNext
  <2>1. site' = site /\ MixedNext
    BY <1>1 DEF CNext, MixedNext
  <2>2. ASSUME NEW kind \in {"limit", "market"}, NEW qty \in Qtys, Submit(kind, qty)
        PROVE  ArriveInv'
    <3>1. qty \in Nat
      BY SiteFacts DEF FillInv
    <3> QED
      BY <2>1, <2>2, <3>1, StartArrive DEF Submit, Kinds
  <2>3. ASSUME NEW k, cancelOrder(k)
        PROVE  ArriveInv'
    BY <2>1, <2>3, StartArrive DEF cancelOrder, Kinds
  <2>4. ASSUME generateBatch
        PROVE  ArriveInv'
    BY <2>1, <2>4, StartArrive DEF generateBatch, Kinds
  <2>5. ASSUME NEW n \in Slots, Serve(n) \/ Receive(n) \/ FetchFails(n)
        PROVE  ArriveInv'
    BY <2>1, <2>5, ServeArrive, ReceiveArrive, FetchFailsArrive
  <2>6. ASSUME OtherClient
        PROVE  ArriveInv'
    BY <2>1, <2>6, OtherClientArrive
  <2>9. ASSUME ServerReset
        PROVE  ArriveInv'
    BY <2>1, <2>9, ServerResetArrive
  <2>7. ASSUME HealthAnswers \/ onRuntimeInitialized
        PROVE  ArriveInv'
    BY <2>1, <2>7, StartUpArrive
  <2>8. ASSUME Reload
        PROVE  ArriveInv'
    BY <2>1, <2>8, ReloadArrive
  <2> QED
    BY <1>1, <2>2, <2>3, <2>4, <2>5, <2>6, <2>7, <2>8, <2>9 DEF CNext
<1>2. CASE UNCHANGED cvars
  <2>1. UNCHANGED <<site, engine, calls, orders, map, saved, missed, mixed, useNative,
                    engineReady>>
    BY <1>2 DEF cvars, page
  <2> QED
    BY <2>1 DEF ArriveInv, Fresh, Restored, NoCalls, Pending, Slots, Rest
<1> QED
  BY <1>1, <1>2

\* Once no answer with a fill of the order is on its way, a row of the server shows
\* exactly what its order traded, in whatever order answers came and however often
\* the page was left, unless a fill of it was missed, a liquidity order of a tick
\* filled it, its id was given out twice or it has two rows (script.js:134-144, :637).
THEOREM ServerRowsComplete == CSpec => []FillsArrive
<1>1. CInit => TrackInv /\ FillInv /\ ArriveInv
  <2>1. ASSUME CInit PROVE ArriveInv
    <3>1. /\ orders = <<>> /\ saved = <<>> /\ ~useNative /\ ~engineReady
          /\ calls = [n \in Slots |-> NoCall]
      BY <2>1 DEF CInit
    <3>2. \A n \in Slots :
             CallSettled(calls[n], orders, engine["native"], Pending, Rest)
      BY <3>1, CallSettledEmpty DEF NoCall
    <3>3. Fresh
      BY <3>1 DEF Fresh, NoCalls, AllSettled
    <3>4. /\ AllSettled(orders, engine["native"], Pending, Rest)
          /\ Tracked(orders, map)
      BY <3>1 DEF AllSettled, Tracked
    <3> QED
      BY <3>2, <3>3, <3>4 DEF ArriveInv
  <2> QED
    BY <2>1, TrackInit, FillInit
<1>2. TrackInv /\ FillInv /\ ArriveInv /\ [CNext]_cvars => (TrackInv /\ FillInv /\ ArriveInv)'
  BY TrackInductive, FillInductive, ArriveInductive
<1>3. ASSUME FillInv, ArriveInv PROVE FillsArrive
  <2> SUFFICES ASSUME NEW k \in DOMAIN orders, orders[k].home = "native",
                      orders[k].id \notin Rest \cup {0},
                      \A j \in DOMAIN orders : orders[j].id = orders[k].id => j = k,
                      \A n \in Slots : orders[k].id \notin DOMAIN calls[n].fills
               PROVE  orders[k].filled = engine["native"].traded[orders[k].id]
    BY DEF FillsArrive, Rest
  <2> DEFINE row == orders[k]
             i   == row.id
             e   == engine["native"]
  <2>1. Settled(row, e, Pending, Rest) /\ Sound(row, e, Pending, mixed)
        /\ EngineOK(e)
    BY <1>3 DEF ArriveInv, AllSettled, Alone, FillInv, AllSound, EnginesOK
  <2>2. row.filled + Pending[i] = e.traded[i] /\ row.filled \in Nat /\ i \in DOMAIN e.traded
    BY <2>1 DEF Settled, Sound, Rest
  <2>3. i \in Nat
    BY <2>1, <2>2 DEF EngineOK
  <2>4. \A n \in Slots : At(calls[n].fills, i) = 0
    BY DEF At
  <2>5. Pending[i] = 0
    BY <1>3, <2>3, <2>4, PendingZero DEF FillInv
  <2> QED
    BY <2>2, <2>5
<1> QED
  BY <1>1, <1>2, <1>3, PTL DEF CSpec
===============================================================================
