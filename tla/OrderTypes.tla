------------------------------ MODULE OrderTypes ------------------------------
(***************************************************************************)
(* The values every engine of the repository shares: sides, prices,        *)
(* quantities, fills (order.hpp, fill.hpp) and the submission being        *)
(* executed (the parameters and locals of submit_limit, submit_market and  *)
(* match in matching_engine.cpp).                                          *)
(***************************************************************************)
EXTENDS Integers, FiniteSets, Sequences, Functions

CONSTANTS
    Capacity,  \* orders that can rest at the same time (OrderPool capacity)
    MaxPrice,  \* the largest price tick; 0 is a valid tick
    MaxQty,    \* the largest quantity submitted; 0 is a legal argument
    MaxId      \* bound of the model: no submission once next_id exceeds it

ASSUME OrderAssumption ==
    /\ Capacity \in Nat
    /\ MaxPrice \in Nat
    /\ MaxQty \in Nat
    /\ MaxId \in Nat

Side   == {"Buy", "Sell"}
Prices == 0..MaxPrice
Qtys   == 0..MaxQty
Ids    == 1..MaxId

Fill == [maker_id : Ids, taker_id : Ids, price : Prices, quantity : Qtys]

Call == [pc : {"idle", "match"}, side : Side, id : 0..MaxId, price : Prices,
         is_market : BOOLEAN, qty : Qtys]

\* The record call holds between two submissions.
IdleCall == [pc |-> "idle", side |-> "Buy", id |-> 0, price |-> 0,
             is_market |-> FALSE, qty |-> 0]

Opposite(side) == IF side = "Buy" THEN "Sell" ELSE "Buy"

Lesser(a, b) == IF a <= b THEN a ELSE b

\* A map or table with no entry.
Empty == [i \in {} |-> 0]

\* The map m without key k; m itself when k is not in it (std::map::erase).
Without(m, k) == Restrict(m, DOMAIN m \ {k})

\* The map m with key k set to v (m[k] = v in C++).
With(m, k, v) == [i \in DOMAIN m \cup {k} |-> IF i = k THEN v ELSE m[i]]
===============================================================================
