----------------------------- MODULE EngineLedger -----------------------------
(***************************************************************************)
(* MatchingEngine with a ledger beside it: for every order ever submitted, *)
(* what was asked, what it traded as taker and as maker, and what left     *)
(* without trading.  The ledger is an auxiliary variable: it follows the   *)
(* calls and the fills the caller sees, it never constrains the engine.    *)
(* Its properties relate a fill to calls made long before it, through      *)
(* every reuse of a pool slot in between.                                  *)
(***************************************************************************)
EXTENDS MatchingEngine

VARIABLE
    ledger     \* id -> what became of the order, for every id assigned

lvars == <<vars, ledger>>

\* What an order asked for, what it traded as taker (in its own submission) and
\* as maker (while it rested), what was cancelled or dropped of it, and whether
\* it was: nothing can happen to it any more.
NewEntry(c) == [side |-> c.side, price |-> c.price, is_market |-> c.is_market,
                asked |-> c.qty, taken |-> 0, made |-> 0, gone |-> 0,
                closed |-> FALSE]

LInit == Init /\ ledger = Empty

LBegin ==
    /\ \/ \E side \in Side, price \in Prices, qty \in Qtys :
             submit_limit(side, price, qty)
       \/ \E side \in Side, qty \in Qtys : submit_market(side, qty)
    /\ ledger' = With(ledger, call'.id, NewEntry(call'))

\* Both parties of the fill that was just appended to out.
LTrade ==
    /\ \E p \in Prices, o \in Slots : FillMaker(p, o) \/ FillTaker(p, o)
    /\ LET f == out'[Len(out')]
       IN  ledger' = [ledger EXCEPT ![f.taker_id].taken = @ + f.quantity,
                                    ![f.maker_id].made = @ + f.quantity]

LRest == Rest /\ UNCHANGED ledger

\* What is left of a market order, or of a limit order that found no slot.
LDrop ==
    /\ RestThrows \/ Return
    /\ ledger' = [ledger EXCEPT ![call.id].gone = call.qty,
                                ![call.id].closed = TRUE]

LCancel ==
    \E id \in DOMAIN index :
       /\ cancel(id)
       /\ ledger' = [ledger EXCEPT ![id].gone = order[index[id]].quantity,
                                   ![id].closed = TRUE]

LNext == LBegin \/ LTrade \/ LRest \/ LDrop \/ LCancel

LSpec == LInit /\ [][LNext]_lvars

-----------------------------------------------------------------------------
Left(i) == ledger[i].asked - ledger[i].taken - ledger[i].made - ledger[i].gone

\* No quantity is made or lost: what an order asked for is what it traded, what
\* left unfilled, and what is still at work, in the book or in the loop, and it
\* never trades more than it asked for (matching_engine.cpp:28-31 caps the fill
\* and subtracts it in three places).
QuantityConserved ==
    \A i \in DOMAIN ledger :
       /\ Left(i) >= 0
       /\ Left(i) = CASE i \in DOMAIN index -> order[index[i]].quantity
                      [] Matching /\ i = call.id -> call.qty
                      [] OTHER -> 0

\* Every fill is between the two sides, at the price the maker asked for long
\* ago and within the taker's limit, with the older order as the maker.
FillsHonourLimits ==
    \A n \in DOMAIN out :
       LET maker == ledger[out[n].maker_id]
           taker == ledger[out[n].taker_id]
       IN  /\ maker.side = Opposite(taker.side)
           /\ ~maker.is_market
           /\ out[n].price = maker.price
           /\ taker.is_market \/ Ahead(maker.side, out[n].price, taker.price)
           /\ out[n].maker_id < out[n].taker_id
           /\ out[n].quantity > 0

\* Price-time priority over the whole history: while an order rests, no younger
\* order of its side at the same or a worse price has ever traded as a maker.
NoOvertaking ==
    \A i \in DOMAIN index : \A j \in DOMAIN ledger :
       /\ i < j
       /\ ledger[i].side = ledger[j].side
       /\ Ahead(ledger[i].side, ledger[i].price, ledger[j].price)
       => ledger[j].made = 0

\* Nothing ever happens again to an order that was cancelled, dropped or
\* filled, also when its pool slot holds another order since.
ClosedStaysClosed ==
    [][\A i \in DOMAIN ledger :
          (ledger[i].closed \/ (Left(i) = 0 /\ ~(Matching /\ call.id = i)))
          => ledger'[i].taken = ledger[i].taken /\ ledger'[i].made = ledger[i].made
             /\ i \notin DOMAIN index']_lvars
===============================================================================
