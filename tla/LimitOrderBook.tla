---------------------------- MODULE LimitOrderBook ----------------------------
(***************************************************************************)
(* What a matching engine promises its caller, without lists, slots or     *)
(* maps: a set of resting orders, and calls that trade against them in     *)
(* price-time priority (matching_engine/src/matching_engine.hpp, the       *)
(* comments of the public interface and of match).  MatchingEngine and     *)
(* BaselineEngine are shown to implement this module.                      *)
(*                                                                         *)
(* A submission is not one step: every trade of the matching loop is a     *)
(* step of its own, so that the properties also hold in the middle of a    *)
(* call, where the code relies on them.                                    *)
(***************************************************************************)
EXTENDS OrderTypes

VARIABLES
    next_id,  \* the id the next submission gets
    resting,  \* id -> [side, price, quantity] of every order in the book
    call,     \* the submission being executed, or IdleCall
    out       \* the fills of the current (or last) submission, in order

vars == <<next_id, resting, call, out>>

Order == [side : Side, price : Prices, quantity : Qtys]

\* Price p is at least as good for the taker as q, on the given book side.
Ahead(side, p, q) == IF side = "Buy" THEN p >= q ELSE p <= q

-----------------------------------------------------------------------------
(* Priority: a better price first, and among equal prices the older order.  *)

Before(i, j) ==
    IF resting[i].price = resting[j].price
    THEN i < j
    ELSE Ahead(resting[i].side, resting[i].price, resting[j].price)

\* The taker of the call may trade at price p: its limit is not exceeded.
Crosses(p) == call.is_market \/ Ahead(Opposite(call.side), p, call.price)

\* i is the order the taker of the call must trade with next.
IsMaker(i) ==
    /\ resting[i].side = Opposite(call.side)
    /\ Crosses(resting[i].price)
    /\ \A j \in DOMAIN resting \ {i} :
          resting[j].side = resting[i].side => Before(i, j)

Matching == call.pc = "match"

\* The loop of match ends: nothing left to fill, or nobody to fill it.
MatchOver ==
    /\ Matching
    /\ \/ call.qty = 0
       \/ \A i \in DOMAIN resting : ~IsMaker(i)

-----------------------------------------------------------------------------
Init ==
    /\ next_id = 1
    /\ resting = Empty
    /\ call = IdleCall
    /\ out = <<>>

Begin(side, price, is_market, qty) ==
    /\ call.pc = "idle"
    /\ next_id <= MaxId
    /\ call' = [pc |-> "match", side |-> side, id |-> next_id, price |-> price,
                is_market |-> is_market, qty |-> qty]
    /\ next_id' = next_id + 1
    /\ out' = <<>>
    /\ UNCHANGED resting

submit_limit(side, price, qty) == Begin(side, price, FALSE, qty)

submit_market(side, qty) == Begin(side, 0, TRUE, qty)

\* One trade of the loop, at the price of the resting order.
Trade(i) ==
    /\ Matching
    /\ call.qty > 0
    /\ IsMaker(i)
    /\ LET q == Lesser(call.qty, resting[i].quantity)
       IN  /\ out' = Append(out, [maker_id |-> i, taker_id |-> call.id,
                                  price |-> resting[i].price, quantity |-> q])
           /\ call' = [call EXCEPT !.qty = @ - q]
           /\ resting' = IF q = resting[i].quantity
                         THEN Without(resting, i)
                         ELSE [resting EXCEPT ![i].quantity = @ - q]
    /\ UNCHANGED next_id

Remainder == [side |-> call.side, price |-> call.price, quantity |-> call.qty]

\* The remainder of a limit order enters the book.
Rest ==
    /\ MatchOver
    /\ ~call.is_market
    /\ call.qty > 0
    /\ Cardinality(DOMAIN resting) < Capacity
    /\ resting' = With(resting, call.id, Remainder)
    /\ call' = IdleCall
    /\ UNCHANGED <<next_id, out>>

\* The remainder is dropped with an exception, only when no order more fits.
Refuse ==
    /\ MatchOver
    /\ ~call.is_market
    /\ call.qty > 0
    /\ Cardinality(DOMAIN resting) = Capacity
    /\ call' = IdleCall
    /\ UNCHANGED <<next_id, resting, out>>

\* The call returns: all was filled, or the remainder of a market order goes.
Return ==
    /\ MatchOver
    /\ call.is_market \/ call.qty = 0
    /\ call' = IdleCall
    /\ UNCHANGED <<next_id, resting, out>>

\* Cancelling removes exactly that order; an id not in the book changes nothing.
cancel(id) ==
    /\ call.pc = "idle"
    /\ resting' = Without(resting, id)
    /\ UNCHANGED <<next_id, call, out>>

Next ==
    \/ \E side \in Side, price \in Prices, qty \in Qtys :
          submit_limit(side, price, qty)
    \/ \E side \in Side, qty \in Qtys : submit_market(side, qty)
    \/ \E i \in DOMAIN resting : Trade(i)
    \/ Rest
    \/ Refuse
    \/ Return
    \/ \E id \in 0..MaxId : cancel(id)

\* The caller runs a submission to its end: the loop is never abandoned.
Fairness ==
    /\ WF_vars(\E i \in DOMAIN resting : Trade(i))
    /\ WF_vars(Rest \/ Refuse \/ Return)

Spec == Init /\ [][Next]_vars

FairSpec == Spec /\ Fairness

-----------------------------------------------------------------------------
TypeOK ==
    /\ next_id \in 1..(MaxId + 1)
    /\ DOMAIN resting \subseteq 1..(next_id - 1)
    /\ \A i \in DOMAIN resting : resting[i] \in Order
    /\ resting = Restrict(resting, DOMAIN resting)
    /\ call \in Call
    /\ call.pc = "match" => call.id = next_id - 1
    /\ out \in Seq(Fill)
===============================================================================
