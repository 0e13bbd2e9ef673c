-------------------------------- MODULE Workload --------------------------------
(***************************************************************************)
(* The workload generator (bench/workload_generator.hpp): the events that  *)
(* an engine is to run later.  It keeps ids of its own, counting what it   *)
(* expects the engine to assign.  The random generator is any choice;      *)
(* prices are uint64, modulo MaxPrice + 1, which stands for 2^64.          *)
(***************************************************************************)
EXTENDS OrderTypes

CONSTANTS
    TotalEvents,     \* total_events
    MidPrice, Tick,  \* mid_price, tick_size
    PriceLevels,     \* price_levels
    QtyMin,          \* qty_min; qty_max is MaxQty
    Bursty,          \* bursty
    BurstEvery, BurstLen

\* What WorkloadConfig::validate accepts (nobody calls it; the defaults pass).
\* The fractions are left out, since an event is any choice; validate does not
\* relate the levels to the middle price.
validate == QtyMin \in Qtys /\ PriceLevels \in Nat \ {0} /\ Tick \in Prices \ {0}

ASSUME WorkloadAssumption ==
    /\ validate
    /\ TotalEvents \in Nat /\ MidPrice \in Prices
    /\ Bursty \in BOOLEAN /\ BurstEvery \in Nat \ {0} /\ BurstLen \in Nat

VARIABLES
    events,     \* what was generated
    gen_next,   \* next_id of generate
    gen_live    \* live_ids of generate; a set, as its order feeds a random index

gvars == <<events, gen_next, gen_live>>

GInit == events = <<>> /\ gen_next = 1 /\ gen_live = {}

Word(x) == x % (MaxPrice + 1)

\* Mutant of PriceAt: the sides are swapped.
PriceAt_Swapped(side, level) ==
    Word(IF side = "Buy" THEN MidPrice + (level + 1) * Tick
         ELSE MidPrice - (level + 1) * Tick)

PriceAt(side, level) ==
    Word(IF side = "Buy" THEN MidPrice - (level + 1) * Tick
         ELSE MidPrice + (level + 1) * Tick)

InBurst == Bursty /\ Len(events) % BurstEvery < BurstLen

Generating == Len(events) < TotalEvents

Emit(type, side, price, qty, id) ==
    events' = Append(events, [type |-> type, side |-> side, price |-> price,
                              qty |-> qty, id |-> id])

\* A burst emits nothing but limit orders at the nearest level.
limit_event(side, level, qty) ==
    /\ Generating
    /\ InBurst => level = 0
    /\ Emit("limit", side, PriceAt(side, level), qty, gen_next)
    /\ gen_live' = gen_live \cup {gen_next}
    /\ gen_next' = gen_next + 1

cancel_event(id) ==
    /\ Generating /\ ~InBurst
    /\ id \in gen_live
    /\ Emit("cancel", "Buy", 0, 0, id)
    /\ gen_live' = gen_live \ {id}
    /\ UNCHANGED gen_next

\* Also what a cancel becomes when gen_live is empty.
market_event(side, qty) ==
    /\ Generating /\ ~InBurst
    /\ Emit("market", side, 0, qty, 0)
    /\ UNCHANGED <<gen_next, gen_live>>

generate ==
    \/ \E side \in Side, qty \in QtyMin..MaxQty :
          \/ \E level \in 0..(PriceLevels - 1) : limit_event(side, level, qty)
          \/ market_event(side, qty)
    \/ \E id \in gen_live : cancel_event(id)
===============================================================================
