---------------------------- MODULE MatchingEngine ----------------------------
(***************************************************************************)
(* The optimized engine at the level of its pointers                       *)
(* (matching_engine/src: order.hpp, price_level.hpp, order_pool.hpp,       *)
(* order_book.hpp/.cpp, matching_engine.hpp/.cpp): a pool of Order slots   *)
(* whose next pointer threads both the free list and the FIFO of a price   *)
(* level, two maps of price levels, and a hash index by order id.          *)
(*                                                                         *)
(* One engine is single threaded.  A submission is one step per iteration  *)
(* of the loop of match, then one step for what follows the loop; cancel   *)
(* has no loop and is one step.  Uint64 arithmetic on total_volume is      *)
(* modulo WordMod, which stands for 2^64.                                  *)
(***************************************************************************)
EXTENDS OrderTypes

CONSTANT
    WordMod    \* total_volume is an unsigned word: arithmetic modulo WordMod

\* A single quantity fits in a word; a sum of quantities need not.
ASSUME WordAssumption == WordMod \in Nat /\ WordMod > MaxQty

Slots == 1..Capacity     \* OrderPool::storage_
NULL  == 0               \* nullptr

VARIABLES
    next_id,    \* MatchingEngine::next_id_
    order,      \* slot -> [id, price, quantity, side]; stale in a free slot
    prev, next, \* slot -> slot or NULL: the intrusive links of Order
    free_head,  \* OrderPool::free_head_
    levels,     \* side -> (price -> PriceLevel): bids_ and asks_
    index,      \* id -> slot: OrderBook::index_
    call,       \* locals of the submission being executed, or IdleCall
    out         \* the caller's vector of fills

pool == <<order, prev, next, free_head>>
vars == <<next_id, order, prev, next, free_head, levels, index, call, out>>

OrderRec   == [id : 0..MaxId, price : Prices, quantity : Qtys, side : Side]
PriceLevel == [head : Slots \cup {NULL}, tail : Slots \cup {NULL},
               total_volume : 0..(WordMod - 1)]

-----------------------------------------------------------------------------
(* PriceLevel: the FIFO of one price.                                       *)

NewLevel == [head |-> NULL, tail |-> NULL, total_volume |-> 0]

LevelEmpty(lvl) == lvl.head = NULL

AddVolume(lvl, q) == [lvl EXCEPT !.total_volume = (@ + q) % WordMod]
SubVolume(lvl, q) == [lvl EXCEPT !.total_volume = (@ - q) % WordMod]

\* push_back: the level, and the links of the orders, with o at the tail.
PushBack(lvl, o) ==
    [lvl EXCEPT !.head = IF lvl.tail # NULL THEN @ ELSE o, !.tail = o]

NextWithPushed(lvl, o) ==
    [s \in Slots |-> IF s = o THEN NULL
                     ELSE IF s = lvl.tail THEN o ELSE next[s]]

PrevWithPushed(lvl, o) == [prev EXCEPT ![o] = lvl.tail]

\* Mutant of Remove: removing the last order leaves tail on it.
Remove_KeepsTail(lvl, o) ==
    [lvl EXCEPT !.head = IF prev[o] # NULL THEN @ ELSE next[o]]

\* remove: the level, and the links of the orders, with o spliced out.
Remove(lvl, o) ==
    [lvl EXCEPT !.head = IF prev[o] # NULL THEN @ ELSE next[o],
                !.tail = IF next[o] # NULL THEN @ ELSE prev[o]]

NextWithRemoved(o) ==
    [s \in Slots |-> IF s = o THEN NULL
                     ELSE IF s = prev[o] THEN next[o] ELSE next[s]]

PrevWithRemoved(o) ==
    [s \in Slots |-> IF s = o THEN NULL
                     ELSE IF s = next[o] THEN prev[o] ELSE prev[s]]

-----------------------------------------------------------------------------
(* OrderBook and OrderPool.                                                 *)

\* begin() of bids_ (greater) or asks_ (less): the best price of a side.
Ahead(side, p, q) == IF side = "Buy" THEN p >= q ELSE p <= q

\* Mutant of IsBegin: both maps with the default comparator.
IsBegin_Ascending(side, p) ==
    p \in DOMAIN levels[side] /\ \A q \in DOMAIN levels[side] : p <= q

IsBegin(side, p) ==
    /\ p \in DOMAIN levels[side]
    /\ \A q \in DOMAIN levels[side] : Ahead(side, p, q)

\* levels[side][price] of operator[]: a missing level is created empty.
LevelAt(side, price) ==
    IF price \in DOMAIN levels[side] THEN levels[side][price] ELSE NewLevel

\* A level left empty is erased from its map.
PutLevel(side, price, lvl) ==
    [levels EXCEPT ![side] = IF LevelEmpty(lvl)
                             THEN Without(@, price)
                             ELSE With(@, price, lvl)]

\* OrderBook::add_order of slot o, whose fields are written to rec.
add_order(o, rec) ==
    LET lvl == LevelAt(rec.side, rec.price)
    IN  /\ order' = [order EXCEPT ![o] = rec]
        /\ next' = NextWithPushed(lvl, o)
        /\ prev' = PrevWithPushed(lvl, o)
        /\ levels' = PutLevel(rec.side, rec.price,
                              AddVolume(PushBack(lvl, o), rec.quantity))
        /\ index' = With(index, rec.id, o)

\* Mutant of remove_and_release: the id stays in the index.
remove_and_release_KeepsIndex(o, q) ==
    LET lvl == levels[order[o].side][order[o].price]
    IN  /\ levels' = PutLevel(order[o].side, order[o].price,
                              Remove(SubVolume(lvl, q), o))
        /\ index' = index
        /\ prev' = PrevWithRemoved(o)
        /\ next' = [NextWithRemoved(o) EXCEPT ![o] = free_head]
        /\ free_head' = o

\* remove_order of slot o after volume q left its level, then release.
remove_and_release(o, q) ==
    LET lvl == levels[order[o].side][order[o].price]
    IN  /\ levels' = PutLevel(order[o].side, order[o].price,
                              Remove(SubVolume(lvl, q), o))
        /\ index' = Without(index, order[o].id)
        /\ prev' = PrevWithRemoved(o)
        /\ next' = [NextWithRemoved(o) EXCEPT ![o] = free_head]
        /\ free_head' = o

-----------------------------------------------------------------------------
(* MatchingEngine.                                                          *)

Init ==
    /\ next_id = 1
    /\ order = [s \in Slots |-> [id |-> 0, price |-> 0, quantity |-> 0,
                                 side |-> "Buy"]]
    /\ prev = [s \in Slots |-> NULL]
    /\ next = [s \in Slots |-> IF s < Capacity THEN s + 1 ELSE NULL]
    /\ free_head = IF Capacity > 0 THEN 1 ELSE NULL
    /\ levels = [side \in Side |-> Empty]
    /\ index = Empty
    /\ call = IdleCall
    /\ out = <<>>

Matching == call.pc = "match"

\* Mutants of Crosses: equal prices do not trade; the limit is not tested.
Crosses_Strict(p) ==
    call.is_market \/ (Ahead(Opposite(call.side), p, call.price) /\ p # call.price)

Crosses_NoLimit(p) == call.is_market \/ p \in Prices

\* The test of the loop against the best opposite price.
Crosses(p) == call.is_market \/ Ahead(Opposite(call.side), p, call.price)

MatchOver ==
    /\ Matching
    /\ \/ call.qty = 0
       \/ \A p \in DOMAIN levels[Opposite(call.side)] :
             IsBegin(Opposite(call.side), p) => ~Crosses(p)

\* Mutant of Begin: ++next_id_ instead of next_id_++.
Begin_PreIncrement(side, price, is_market, qty) ==
    /\ call.pc = "idle"
    /\ next_id <= MaxId
    /\ call' = [pc |-> "match", side |-> side, id |-> next_id + 1, price |-> price,
                is_market |-> is_market, qty |-> qty]
    /\ next_id' = next_id + 1
    /\ out' = <<>>
    /\ UNCHANGED <<pool, levels, index>>

\* new_id, and the call of match.
Begin(side, price, is_market, qty) ==
    /\ call.pc = "idle"
    /\ next_id <= MaxId
    /\ call' = [pc |-> "match", side |-> side, id |-> next_id, price |-> price,
                is_market |-> is_market, qty |-> qty]
    /\ next_id' = next_id + 1
    /\ out' = <<>>
    /\ UNCHANGED <<pool, levels, index>>

submit_limit(side, price, qty) == Begin(side, price, FALSE, qty)

submit_market(side, qty) == Begin(side, 0, TRUE, qty)

\* Mutant of Maker: last in, first out.
Maker_Tail(p) == levels[Opposite(call.side)][p].tail

\* The order that trades in this iteration: the head of the best level.
Maker(p) == levels[Opposite(call.side)][p].head

\* Mutant of FillQty: the fill is not capped by the maker.
FillQty_Taker(o) == call.qty

FillQty(o) == Lesser(call.qty, order[o].quantity)

\* The part of an iteration that does not depend on whether the maker is done.
RecordFill(p, o) ==
    /\ Matching
    /\ call.qty > 0
    /\ IsBegin(Opposite(call.side), p)
    /\ Crosses(p)
    /\ o = Maker(p)
    /\ out' = Append(out, [maker_id |-> order[o].id, taker_id |-> call.id,
                           price |-> order[o].price, quantity |-> FillQty(o)])
    /\ call' = [call EXCEPT !.qty = @ - FillQty(o)]
    /\ order' = [order EXCEPT ![o].quantity = @ - FillQty(o)]
    /\ UNCHANGED next_id

\* An iteration that fills the maker: it leaves the book and its slot is free.
FillMaker(p, o) ==
    /\ RecordFill(p, o)
    /\ order[o].quantity = FillQty(o)
    /\ remove_and_release(o, FillQty(o))

\* Mutant of FillTaker: total_volume is not reduced.
FillTaker_StaleVolume(p, o) ==
    /\ RecordFill(p, o)
    /\ order[o].quantity # FillQty(o)
    /\ UNCHANGED <<levels, prev, next, free_head, index>>

\* An iteration that fills the taker and leaves the maker at the head.
FillTaker(p, o) ==
    /\ RecordFill(p, o)
    /\ order[o].quantity # FillQty(o)
    /\ levels' = [levels EXCEPT ![Opposite(call.side)][p] =
                     SubVolume(@, FillQty(o))]
    /\ UNCHANGED <<prev, next, free_head, index>>

\* Mutant of HasRemainder: what a market order leaves rests too.
HasRemainder_Market == call.qty > 0

HasRemainder == ~call.is_market /\ call.qty > 0

Remainder == [id |-> call.id, price |-> call.price, quantity |-> call.qty,
              side |-> call.side]

\* submit_limit after match: acquire a slot and add the remainder to the book.
Rest ==
    /\ MatchOver
    /\ HasRemainder
    /\ free_head # NULL
    /\ free_head' = next[free_head]
    /\ add_order(free_head, Remainder)
    /\ call' = IdleCall
    /\ UNCHANGED <<next_id, out>>

\* acquire throws bad_alloc: the fills made stay, the remainder is dropped.
RestThrows ==
    /\ MatchOver
    /\ HasRemainder
    /\ free_head = NULL
    /\ call' = IdleCall
    /\ UNCHANGED <<next_id, pool, levels, index, out>>

\* Mutant of Return: no break when nobody is left to trade with.
Return_Spins ==
    /\ MatchOver
    /\ ~HasRemainder
    /\ call' = IF call.qty = 0 THEN IdleCall ELSE call
    /\ UNCHANGED <<next_id, pool, levels, index, out>>

\* All was filled, or what a market order leaves is dropped.
Return ==
    /\ MatchOver
    /\ ~HasRemainder
    /\ call' = IdleCall
    /\ UNCHANGED <<next_id, pool, levels, index, out>>

\* Mutants of cancel: the slot is not released; it is released but not unlinked.
cancel_Leaks(id) ==
    /\ call.pc = "idle"
    /\ id \in DOMAIN index
    /\ LET o   == index[id]
           lvl == levels[order[o].side][order[o].price]
       IN  /\ levels' = PutLevel(order[o].side, order[o].price,
                                 Remove(SubVolume(lvl, order[o].quantity), o))
           /\ prev' = PrevWithRemoved(o)
           /\ next' = NextWithRemoved(o)
    /\ index' = Without(index, id)
    /\ UNCHANGED <<next_id, order, free_head, call, out>>

cancel_KeepsLinks(id) ==
    /\ call.pc = "idle"
    /\ id \in DOMAIN index
    /\ index' = Without(index, id)
    /\ next' = [next EXCEPT ![index[id]] = free_head]
    /\ free_head' = index[id]
    /\ UNCHANGED <<next_id, order, prev, levels, call, out>>

\* cancel: cancel_and_return, then release; false when the id is not indexed.
cancel(id) ==
    /\ call.pc = "idle"
    /\ id \in DOMAIN index
    /\ remove_and_release(index[id], order[index[id]].quantity)
    /\ UNCHANGED <<next_id, order, call, out>>

cancel_miss(id) ==
    /\ call.pc = "idle"
    /\ id \notin DOMAIN index
    /\ UNCHANGED vars

Next ==
    \/ \E side \in Side, price \in Prices, qty \in Qtys :
          submit_limit(side, price, qty)
    \/ \E side \in Side, qty \in Qtys : submit_market(side, qty)
    \/ \E p \in Prices, o \in Slots : FillMaker(p, o) \/ FillTaker(p, o)
    \/ Rest
    \/ RestThrows
    \/ Return
    \/ \E id \in 0..MaxId : cancel(id) \/ cancel_miss(id)

\* submit_limit and submit_market run to their end once called.
Fairness ==
    /\ WF_vars(\E p \in Prices, o \in Slots : FillMaker(p, o) \/ FillTaker(p, o))
    /\ WF_vars(Rest \/ RestThrows \/ Return)

Spec == Init /\ [][Next]_vars

FairSpec == Spec /\ Fairness

-----------------------------------------------------------------------------
(* Safety.                                                                  *)

TypeOK ==
    /\ next_id \in 1..(MaxId + 1)
    /\ order \in [Slots -> OrderRec]
    /\ prev \in [Slots -> Slots \cup {NULL}]
    /\ next \in [Slots -> Slots \cup {NULL}]
    /\ free_head \in Slots \cup {NULL}
    /\ DOMAIN levels = Side
    /\ \A side \in Side :
          /\ DOMAIN levels[side] \subseteq Prices
          /\ levels[side] \in [DOMAIN levels[side] -> PriceLevel]
    /\ DOMAIN index \subseteq 1..(next_id - 1)
    /\ index \in [DOMAIN index -> Slots]
    /\ call \in Call
    /\ Matching => call.id \in Ids /\ call.id = next_id - 1
    /\ out \in Seq(Fill)

\* Slot s holds a resting order; the others are free.
Live == {s \in Slots : order[s].id \in DOMAIN index /\ index[order[s].id] = s}

Free == Slots \ Live

\* The resting orders of one price level.
InLevel(side, p) == {s \in Live : order[s].side = side /\ order[s].price = p}

LevelOf(s) == InLevel(order[s].side, order[s].price)

\* The index holds exactly the orders that rest: each under its own id, alive,
\* in a level that exists, and the order being executed is not one of them
\* (order_book.cpp:9 and :25 keep index_ in step with the maps).
IndexOK ==
    /\ \A i \in DOMAIN index :
          /\ order[index[i]].id = i
          /\ order[index[i]].quantity > 0
          /\ order[index[i]].price \in DOMAIN levels[order[index[i]].side]
    /\ Matching => call.id \notin DOMAIN index

\* Ids are given out in arrival order, so the oldest order has the least id.
EndsOK ==
    \A side \in Side : \A p \in DOMAIN levels[side] :
       /\ levels[side][p].head \in InLevel(side, p)
       /\ levels[side][p].tail \in InLevel(side, p)
       /\ \A s \in InLevel(side, p) :
             /\ order[levels[side][p].head].id <= order[s].id
             /\ order[s].id <= order[levels[side][p].tail].id

\* The successor of s: none at the tail, else the next younger order.
NextLink(s) ==
    IF next[s] = NULL
    THEN s = levels[order[s].side][order[s].price].tail
    ELSE /\ next[s] \in LevelOf(s)
         /\ prev[next[s]] = s
         /\ order[s].id < order[next[s]].id
         /\ \A t \in LevelOf(s) : \/ order[t].id <= order[s].id
                                  \/ order[next[s]].id <= order[t].id

PrevLink(s) ==
    IF prev[s] = NULL
    THEN s = levels[order[s].side][order[s].price].head
    ELSE prev[s] \in LevelOf(s) /\ next[prev[s]] = s

LinksOK == \A s \in Live : NextLink(s) /\ PrevLink(s)

\* The intrusive list of every level is its orders in arrival order, from head
\* to tail and back, whatever was cancelled from its middle and whichever
\* slots were reused; no level is empty (price_level.hpp:12-29,
\* order_pool.hpp:52-55, order_book.cpp:31).
QueuesFIFO == EndsOK /\ LinksOK

\* The n entries of list are the slots of F, each once, linked by nxt from head.
IsFreeList(list, n, F, head, nxt) ==
    /\ \A s \in F : \E k \in 1..n : list[k] = s
    /\ \A k, l \in 1..n : list[k] = list[l] => k = l
    /\ head = IF n = 0 THEN NULL ELSE list[1]
    /\ \A k \in 1..n : nxt[list[k]] = IF k = n THEN NULL ELSE list[k + 1]

\* The free list holds every slot without an order, once, and ends: no slot is
\* leaked by a fill or a cancel and none is handed out twice.
FreeListOK ==
    \E list \in [1..Cardinality(Free) -> Free] :
       IsFreeList(list, Cardinality(Free), Free, free_head, next)

\* total_volume, a running uint64 updated in three places, is the sum of what
\* rests at the level (price_level.hpp:18, matching_engine.cpp:32,
\* order_book.cpp:29), modulo the word also when the sum passes it.
VolumeOK ==
    \A side \in Side : \A p \in DOMAIN levels[side] :
       levels[side][p].total_volume =
          SumFunctionOnSet([s \in Slots |-> order[s].quantity],
                           InLevel(side, p)) % WordMod

\* The book is never crossed, not even between two iterations of match.
NotCrossed ==
    \A b \in DOMAIN levels["Buy"], a \in DOMAIN levels["Sell"] : b < a

\* The fills of a submission walk the opposite side from its best price away
\* from it, inside one price by increasing id, and never beyond the limit:
\* priority over the whole sweep, across the levels that it empties and the
\* slots that it frees (matching_engine.cpp:17, :23, :27).
SweepInPriority ==
    LET book == Opposite(call.side)
    IN  Matching =>
          /\ \A n \in DOMAIN out :
                call.is_market \/ Ahead(book, out[n].price, call.price)
          /\ \A m, n \in DOMAIN out : m < n =>
                /\ Ahead(book, out[m].price, out[n].price)
                /\ out[m].price = out[n].price => out[m].maker_id < out[n].maker_id

\* Every submission returns, with the remainder resting, dropped or refused:
\* each iteration uses up the taker or a maker, and the loop ends when nobody is
\* left to trade with (matching_engine.cpp:10, :17, :24, :34).
CallReturns == Matching ~> ~Matching

-----------------------------------------------------------------------------
(* The engine implements LimitOrderBook.                                    *)

RestingOrders ==
    [i \in DOMAIN index |-> [side |-> order[index[i]].side,
                             price |-> order[index[i]].price,
                             quantity |-> order[index[i]].quantity]]

Book == INSTANCE LimitOrderBook WITH resting <- RestingOrders

\* Lists, free list, maps and index together behave as the set of orders of
\* LimitOrderBook: best price first, first in first out, remainder rests
\* unless all slots are taken, cancel removes one order, every call returns.
ImplementsBook == Book!FairSpec
===============================================================================
