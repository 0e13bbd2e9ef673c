---------------------------- MODULE BaselineEngine ----------------------------
(***************************************************************************)
(* The "naive" engine the benchmark compares with                          *)
(* (matching_engine/src/baseline_book.hpp and .cpp): one std::list of      *)
(* orders per price, a map of levels per side, a side table by id, no pool *)
(* and so no limit on the resting orders.  Unlike MatchingEngine::match,   *)
(* do_match has no flag for a market order: a taker price of 0 is one.     *)
(***************************************************************************)
EXTENDS OrderTypes

CONSTANTS
    WordMod,   \* total_volume is an unsigned word: arithmetic modulo WordMod
    MinPrice   \* the smallest price a limit order is submitted at

ASSUME BaselineAssumption ==
    /\ WordMod \in Nat
    /\ WordMod > MaxQty
    /\ MinPrice \in Prices

VARIABLES
    next_id,   \* BaselineMatchingEngine::next_id_
    levels,    \* side -> (price -> Level): bids_ and asks_
    index,     \* id -> [side, price]; the iterator is the node with that id
    call,      \* locals of the submission being executed, or IdleCall
    out        \* the caller's vector of fills

vars == <<next_id, levels, index, call, out>>

NewLevel == [orders |-> <<>>, total_volume |-> 0]

Ahead(side, p, q) == IF side = "Buy" THEN p >= q ELSE p <= q

\* begin() of bids_ (greater) or asks_ (less).
IsBegin(side, p) ==
    /\ p \in DOMAIN levels[side]
    /\ \A q \in DOMAIN levels[side] : Ahead(side, p, q)

LevelAt(side, price) ==
    IF price \in DOMAIN levels[side] THEN levels[side][price] ELSE NewLevel

\* A level left empty is erased from its map.
PutLevel(side, price, lvl) ==
    [levels EXCEPT ![side] = IF lvl.orders = <<>>
                             THEN Without(@, price)
                             ELSE With(@, price, lvl)]

AddVolume(lvl, q) == [lvl EXCEPT !.total_volume = (@ + q) % WordMod]
SubVolume(lvl, q) == [lvl EXCEPT !.total_volume = (@ - q) % WordMod]

\* The position of the node that the iterator stored for this id refers to.
Node(lvl, id) == CHOOSE k \in DOMAIN lvl.orders : lvl.orders[k].id = id

NodeQty(lvl, id) == lvl.orders[Node(lvl, id)].quantity

\* std::list::erase: the nodes other than the one at position k, in their order.
Erase(orders, k) ==
    [j \in 1..(Len(orders) - 1) |-> IF j < k THEN orders[j] ELSE orders[j + 1]]

Init ==
    /\ next_id = 1
    /\ levels = [side \in Side |-> Empty]
    /\ index = Empty
    /\ call = IdleCall
    /\ out = <<>>

Matching == call.pc = "match"

\* do_match sees no is_market: price 0 crosses everything.
Crosses(p) == call.price = 0 \/ Ahead(Opposite(call.side), p, call.price)

MatchOver ==
    /\ Matching
    /\ \/ call.qty = 0
       \/ \A p \in DOMAIN levels[Opposite(call.side)] :
             IsBegin(Opposite(call.side), p) => ~Crosses(p)

Begin(side, price, is_market, qty) ==
    /\ call.pc = "idle"
    /\ next_id <= MaxId
    /\ call' = [pc |-> "match", side |-> side, id |-> next_id, price |-> price,
                is_market |-> is_market, qty |-> qty]
    /\ next_id' = next_id + 1
    /\ out' = <<>>
    /\ UNCHANGED <<levels, index>>

submit_limit(side, price, qty) == Begin(side, price, FALSE, qty)

submit_market(side, qty) == Begin(side, 0, TRUE, qty)

\* Mutant of Consumed: a partly filled order goes to the back of its list.
Consumed_Requeues(lvl, q) ==
    [SubVolume(lvl, q) EXCEPT
       !.orders = LET front == Head(@)
                  IN  IF front.quantity = q
                      THEN Tail(@)
                      ELSE Append(Tail(@), [front EXCEPT !.quantity = @ - q])]

\* The list of a level after q units were taken from its front order.
Consumed(lvl, q) ==
    IF Head(lvl.orders).quantity = q
    THEN [SubVolume(lvl, q) EXCEPT !.orders = Tail(@)]
    ELSE [SubVolume(lvl, q) EXCEPT !.orders[1].quantity = @ - q]

\* One iteration of do_match: consume_best_ask or consume_best_bid.
consume_best(p) ==
    /\ Matching
    /\ call.qty > 0
    /\ IsBegin(Opposite(call.side), p)
    /\ Crosses(p)
    /\ LET lvl    == levels[Opposite(call.side)][p]
           front  == Head(lvl.orders)
           actual == Lesser(call.qty, front.quantity)
       IN  /\ levels' = PutLevel(Opposite(call.side), p, Consumed(lvl, actual))
           /\ index' = IF front.quantity = actual
                       THEN Without(index, front.id)
                       ELSE index
           /\ out' = Append(out, [maker_id |-> front.id, taker_id |-> call.id,
                                  price |-> p, quantity |-> actual])
           /\ call' = [call EXCEPT !.qty = @ - actual]
    /\ UNCHANGED next_id

HasRemainder == ~call.is_market /\ call.qty > 0

\* add_order of what do_match left of a limit order.
add_order ==
    /\ MatchOver
    /\ HasRemainder
    /\ LET lvl == LevelAt(call.side, call.price)
       IN  levels' = PutLevel(call.side, call.price,
                              [AddVolume(lvl, call.qty) EXCEPT
                                 !.orders = Append(@, [id |-> call.id,
                                                       quantity |-> call.qty])])
    /\ index' = With(index, call.id, [side |-> call.side, price |-> call.price])
    /\ call' = IdleCall
    /\ UNCHANGED <<next_id, out>>

Return ==
    /\ MatchOver
    /\ ~HasRemainder
    /\ call' = IdleCall
    /\ UNCHANGED <<next_id, levels, index, out>>

\* Mutant of cancel: total_volume is not reduced.
cancel_StaleVolume(id) ==
    /\ call.pc = "idle"
    /\ id \in DOMAIN index
    /\ LET e   == index[id]
           lvl == levels[e.side][e.price]
       IN  levels' = PutLevel(e.side, e.price,
                              [lvl EXCEPT
                                 !.orders = Erase(@, Node(lvl, id))])
    /\ index' = Without(index, id)
    /\ UNCHANGED <<next_id, call, out>>

cancel(id) ==
    /\ call.pc = "idle"
    /\ id \in DOMAIN index
    /\ LET e   == index[id]
           lvl == levels[e.side][e.price]
       IN  levels' = PutLevel(e.side, e.price,
                              [SubVolume(lvl, NodeQty(lvl, id)) EXCEPT
                                 !.orders = Erase(@, Node(lvl, id))])
    /\ index' = Without(index, id)
    /\ UNCHANGED <<next_id, call, out>>

cancel_miss(id) ==
    /\ call.pc = "idle"
    /\ id \notin DOMAIN index
    /\ UNCHANGED vars

Next ==
    \/ \E side \in Side, price \in MinPrice..MaxPrice, qty \in Qtys :
          submit_limit(side, price, qty)
    \/ \E side \in Side, qty \in Qtys : submit_market(side, qty)
    \/ \E p \in Prices : consume_best(p)
    \/ add_order
    \/ Return
    \/ \E id \in 0..MaxId : cancel(id) \/ cancel_miss(id)

Fairness ==
    /\ WF_vars(\E p \in Prices : consume_best(p))
    /\ WF_vars(add_order \/ Return)

Spec == Init /\ [][Next]_vars

FairSpec == Spec /\ Fairness

-----------------------------------------------------------------------------
NodesOf(side, p) == Range(levels[side][p].orders)

\* The side table and the lists hold the same orders, every list is in arrival
\* order without a dead or a repeated node, and total_volume is the sum of its
\* list modulo the word (baseline_book.cpp:13, :31, :56 keep it running).
BookOK ==
    /\ DOMAIN index = UNION {UNION {{n.id : n \in NodesOf(side, p)} :
                                    p \in DOMAIN levels[side]} : side \in Side}
    /\ \A side \in Side : \A p \in DOMAIN levels[side] :
          LET orders == levels[side][p].orders
          IN  /\ orders # <<>>
              /\ \A k \in DOMAIN orders :
                    /\ index[orders[k].id] = [side |-> side, price |-> p]
                    /\ orders[k].quantity \in 1..MaxQty
                    /\ \A l \in DOMAIN orders : k < l => orders[k].id < orders[l].id
              /\ levels[side][p].total_volume =
                    SumFunction([k \in DOMAIN orders |-> orders[k].quantity]) % WordMod

RestingOrders ==
    [i \in DOMAIN index |->
       [side |-> index[i].side, price |-> index[i].price,
        quantity |-> NodeQty(levels[index[i].side][index[i].price], i)]]

\* Without a pool nothing is ever refused: there is a slot for every id.
Book == INSTANCE LimitOrderBook WITH resting <- RestingOrders, Capacity <- MaxId

\* For prices above 0 the baseline is the same engine as the optimized one:
\* both implement LimitOrderBook, so the benchmark compares like with like.
ImplementsBook == Book!FairSpec
===============================================================================
