---------------------------- MODULE SimulatedMarket ----------------------------
(***************************************************************************)
(* What the simulated order flow of the server (server.cpp,                *)
(* dispatch_workload_tick and maintain_liquidity) and of its benchmark     *)
(* (run_benchmark) have in common: the seeds of a new engine, and a middle *)
(* price that wanders and around which limit orders are placed.  The       *)
(* random generator is any choice.                                         *)
(***************************************************************************)
EXTENDS LimitOrderBook

CONSTANTS
    SeedLevels,  \* price levels of each side after init_engine_and_book (8)
    SeedQty,     \* quantity of a seed (200)
    MidInit,     \* the middle price at first (100)
    MidMin,      \* PRICE_MIN (60)
    MidMax,      \* PRICE_MAX (160)
    MaxOffset    \* largest distance of a simulated limit from the middle (6)

ASSUME MarketAssumption ==
    /\ SeedLevels \in Nat \ {0} /\ 2 * SeedLevels <= Capacity
    /\ 2 * SeedLevels <= MaxId
    /\ SeedQty \in Qtys \ {0}
    /\ MidMin \in Nat /\ MidMin > 1 /\ MidMax \in Nat /\ MidInit \in MidMin..MidMax
    /\ SeedLevels < MidInit /\ MidInit + SeedLevels <= MaxPrice
    /\ MaxOffset \in Nat /\ MidMax + MaxOffset <= MaxPrice /\ MidMax < MaxPrice

VARIABLE mid    \* tick_mid, bmid

\* One bid below and one ask above the middle at each distance, in turn.
Seeds ==
    [i \in 1..(2 * SeedLevels) |->
       LET d == (i + 1) \div 2
       IN  [side |-> IF i % 2 = 1 THEN "Buy" ELSE "Sell",
            price |-> IF i % 2 = 1 THEN MidInit - d ELSE MidInit + d,
            quantity |-> SeedQty]]

\* The seeds rest, and the next id follows theirs.
Seeded ==
    /\ next_id = 2 * SeedLevels + 1
    /\ resting = Seeds
    /\ call = IdleCall
    /\ out = <<>>
    /\ mid = MidInit

\* A new engine with the same seeds.
Reseed ==
    /\ next_id' = 2 * SeedLevels + 1
    /\ resting' = Seeds
    /\ call' = IdleCall
    /\ out' = <<>>
    /\ mid' = MidInit

NoSide(side) == \A i \in DOMAIN resting : resting[i].side # side

\* The price of a simulated limit order.
LimitPrice(side, offset) ==
    IF side = "Sell" THEN mid + offset
    ELSE IF mid - offset >= 1 THEN mid - offset ELSE 1

\* The middle moves by at most a tick, within its range.
MoveMid ==
    \/ mid' = mid
    \/ mid > MidMin /\ mid' = mid - 1
    \/ mid < MidMax /\ mid' = mid + 1

Busy == call.pc # "idle"

Filled(fills) == SumFunction([n \in DOMAIN fills |-> fills[n].quantity])
===============================================================================
