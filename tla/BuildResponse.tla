----------------------------- MODULE BuildResponse -----------------------------
(***************************************************************************)
(* What the answer to a client says of the book (build_response,           *)
(* count_resting and compute_mid in matching_engine/src/shared_state.hpp), *)
(* read off the maps and lists of MatchingEngine between two calls.  The   *)
(* middle price, a double, is kept as twice its value; the layout of the   *)
(* JSON and the last trades (SharedState) are left out.                    *)
(***************************************************************************)
EXTENDS MatchingEngine

CONSTANT DepthCap    \* price levels shown of each side (8)

ASSUME DepthAssumption == DepthCap \in Nat \ {0}

\* The orders met from head on; a list that does not end is cut off.
Visited(head) ==
    LET at[k \in 0..Capacity] ==
          IF k = 0 THEN head
          ELSE IF at[k - 1] = NULL THEN NULL ELSE next[at[k - 1]]
    IN  Cardinality({k \in 0..Capacity : at[k] # NULL})

CountSide(side) ==
    SumFunction([p \in DOMAIN levels[side] |-> Visited(levels[side][p].head)])

count_resting == CountSide("Buy") + CountSide("Sell")

BestPrice(side) == CHOOSE p \in DOMAIN levels[side] : IsBegin(side, p)

\* Twice the middle price, 0 when a side is empty.
compute_mid ==
    IF \E side \in Side : DOMAIN levels[side] = {} THEN 0
    ELSE BestPrice("Buy") + BestPrice("Sell")

\* Mutant of InOrder: both maps with the default comparator.
InOrder_Ascending(side) ==
    CHOOSE line \in [1..Cardinality(DOMAIN levels[side]) -> DOMAIN levels[side]] :
       \A m, n \in DOMAIN line : m < n => line[m] < line[n]

\* The prices of a map from begin() to end().
InOrder(side) ==
    CHOOSE line \in [1..Cardinality(DOMAIN levels[side]) -> DOMAIN levels[side]] :
       \A m, n \in DOMAIN line :
          m < n => line[m] # line[n] /\ Ahead(side, line[m], line[n])

\* The first levels of a map, in its order.
Depth(side) ==
    [n \in 1..Lesser(Cardinality(DOMAIN levels[side]), DepthCap) |->
       [price |-> InOrder(side)[n], vol |-> levels[side][InOrder(side)[n]].total_volume]]

build_response ==
    [bids |-> Depth("Buy"), asks |-> Depth("Sell"),
     resting |-> count_resting, mid |-> compute_mid]

-----------------------------------------------------------------------------
RestingAt(side, p) ==
    {i \in DOMAIN RestingOrders : /\ RestingOrders[i].side = side
                                  /\ RestingOrders[i].price = p}

Quoted(side) == {p \in Prices : RestingAt(side, p) # {}}

\* shown is the best of what rests on a side, in the order of priority.
ShowsBest(shown, side) ==
    /\ Len(shown) = Lesser(DepthCap, Cardinality(Quoted(side)))
    /\ \A n \in DOMAIN shown :
          LET p == shown[n].price
          IN  /\ p \in Quoted(side)
              /\ n = Cardinality({q \in Quoted(side) : Ahead(side, q, p)})
              /\ shown[n].vol =
                   SumFunctionOnSet([i \in DOMAIN RestingOrders |->
                                       RestingOrders[i].quantity],
                                    RestingAt(side, p)) % WordMod

\* What a client is told is what rests, although it is read off the level maps,
\* their volumes and a walk along next, none of which a client's order is
\* looked up in: as many orders as can be cancelled, the best levels of each
\* side with what their orders add up to, and a middle price between the two
\* first lines (shared_state.hpp:60-74, :106-124).
ResponseFaithful ==
    ~Matching =>
       /\ build_response.resting = Cardinality(DOMAIN RestingOrders)
       /\ ShowsBest(build_response.bids, "Buy")
       /\ ShowsBest(build_response.asks, "Sell")
       /\ build_response.mid =
             IF build_response.bids = <<>> \/ build_response.asks = <<>> THEN 0
             ELSE build_response.bids[1].price + build_response.asks[1].price
===============================================================================
