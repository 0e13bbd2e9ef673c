------------------------------ MODULE ExportEvents ------------------------------
(***************************************************************************)
(* The scenario of bench/export_events.cpp: phases 1 to 6 are fixed calls  *)
(* of the logger with the prices and quantities of the source, phase 7 is  *)
(* random (any choice here), phase 8 are two sweeps.  The comments of the  *)
(* source state the book and the ids between the phases; what the browser  *)
(* replays has to be that story.                                           *)
(***************************************************************************)
EXTENDS EventLog

CONSTANTS
    RandomOps,   \* calls of phase 7 (100)
    RandomQtys   \* quantities they draw (30..149)

ASSUME ExportAssumption ==
    /\ RandomOps \in Nat /\ RandomQtys \subseteq Qtys \ {0}
    /\ MaxPrice >= 104 /\ MaxQty >= 600
    /\ MaxId >= 26 + RandomOps /\ Capacity >= 22 + RandomOps

VARIABLES
    done,    \* calls of the script begun
    drawn    \* auxiliary: the ids of the limit orders of phase 7

xvars == <<evars, done, drawn>>

Limit(side, price, qty) == [kind |-> "limit", side |-> side, price |-> price, qty |-> qty]
Market(side, qty) == [kind |-> "market", side |-> side, price |-> 0, qty |-> qty]
Cancel(id) == [kind |-> "cancel", side |-> "Buy", price |-> 0, qty |-> id]

build_book ==
    <<Limit("Sell", 104, 80), Limit("Sell", 103, 120), Limit("Sell", 102, 200),
      Limit("Sell", 101, 150), Limit("Buy", 97, 80), Limit("Buy", 98, 120),
      Limit("Buy", 99, 200), Limit("Buy", 100, 150)>>

deepen_levels ==
    <<Limit("Sell", 101, 100), Limit("Sell", 101, 80), Limit("Sell", 102, 100),
      Limit("Buy", 100, 100), Limit("Buy", 100, 80), Limit("Buy", 99, 120)>>

market_sweeps == <<Market("Buy", 280), Market("Sell", 280)>>

cancellations == <<Cancel(2), Cancel(7)>>

replenish ==
    <<Limit("Sell", 101, 200), Limit("Sell", 102, 150), Limit("Sell", 103, 180),
      Limit("Buy", 100, 200), Limit("Buy", 99, 150), Limit("Buy", 98, 180)>>

cross_spread == <<Limit("Buy", 102, 300), Limit("Sell", 99, 300)>>

Script == build_book \o deepen_levels \o market_sweeps \o cancellations
          \o replenish \o cross_spread

final_sweeps == <<Market("Buy", 600), Market("Sell", 600)>>

Fixed == Len(Script)

\* Mutant of RandomPrice: the sides are swapped.
RandomPrice_Swapped(side, level) == IF side = "Buy" THEN 100 + level ELSE 100 - level

RandomPrice(side, level) == IF side = "Buy" THEN 100 - level ELSE 100 + level

\* What phase 7 may draw.
RandomCalls ==
    {Market(side, qty) : side \in Side, qty \in RandomQtys} \cup
    {Limit(side, RandomPrice(side, level), qty) :
        side \in Side, level \in 1..3, qty \in RandomQtys}

InRandom == done >= Fixed /\ done < Fixed + RandomOps

\* The calls that may come next; none at the end.
Coming ==
    CASE done < Fixed -> {Script[done + 1]}
      [] InRandom -> RandomCalls
      [] done >= Fixed + RandomOps /\ done < Fixed + RandomOps + 2 ->
            {final_sweeps[done - Fixed - RandomOps + 1]}
      [] OTHER -> {}

XInit == EInit /\ done = 0 /\ drawn = {}

call_logger(c) ==
    /\ IF c.kind = "cancel" THEN log_cancel(c.qty)
       ELSE log_submit(c.kind, c.side, c.price, c.qty)
    /\ done' = done + 1
    /\ drawn' = IF InRandom /\ c.kind = "limit" THEN drawn \cup {next_id} ELSE drawn

XNext ==
    \/ \E c \in Coming : call_logger(c)
    \/ (LogEngine \/ log_done) /\ UNCHANGED <<done, drawn>>

XSpec == XInit /\ [][XNext]_xvars

-----------------------------------------------------------------------------
\* The quantity of a level in the reader's book, and the ids of its orders.
Shown(book, side, p) == {i \in DOMAIN book : book[i].side = side /\ book[i].price = p}

Total(book, side, p) ==
    SumFunction([i \in Shown(book, side, p) |-> book[i].quantity])

\* Levels from the best one away, as the comments list them.
Has(book, side, total) ==
    \A p \in 97..104 : Total(book, side, p) = IF p \in DOMAIN total THEN total[p] ELSE 0

Levels(best, quantities) ==
    [p \in IF best > 100 THEN best..(best + Len(quantities) - 1)
           ELSE (best - Len(quantities) + 1)..best |->
       quantities[(IF p > best THEN p - best ELSE best - p) + 1]]

Comment(asks, bids) == [Sell |-> Levels(101, asks), Buy |-> Levels(100, bids)]

\* "Book state now", after so many calls (export_events.cpp:55-57, :68-70,
\* :78-80, :91-93), and what :96 and :100 say of phase 6; 0 is a level that is
\* gone.
Comments ==
    14 :> Comment(<<330, 300, 120, 80>>, <<330, 320, 120, 80>>) @@
    16 :> Comment(<<50, 300, 120, 80>>, <<50, 320, 120, 80>>) @@
    18 :> Comment(<<50, 300, 0, 80>>, <<50, 120, 120, 80>>) @@
    24 :> Comment(<<250, 450, 180, 80>>, <<250, 270, 300, 80>>) @@
    25 :> Comment(<<0, 400, 180, 80>>, <<250, 270, 300, 80>>) @@
    26 :> Comment(<<0, 400, 180, 80>>, <<0, 220, 300, 80>>)

Trades(from, to) == [n \in 1..(to - from + 1) |-> log[from + n - 1].qty]

\* A reader that replays the log has, between the phases, the book that the
\* comments of the scenario describe, down to the order that is left at the top
\* of a queue ("id=10, partial", "id=13, partial", "id=14 only") and to the three
\* trades of a sweep ("150+100+30 of 80").
BookAsCommented ==
    LET book == Replay(Len(log))
    IN  submission = NoSubmission =>
          /\ done \in DOMAIN Comments =>
                \A side \in Side : Has(book, side, Comments[done][side])
          /\ done = 16 => Len(log) = 20 /\ Trades(15, 17) = <<150, 100, 30>>
                                        /\ Trades(18, 20) = <<150, 100, 30>>
          /\ done \in {16, 18} => /\ Shown(book, "Sell", 101) = {10}
                                  /\ Shown(book, "Buy", 100) = {13}
          /\ done = 18 => Shown(book, "Buy", 99) = {14}

\* "Prices stay within 97-103" (export_events.cpp:106): a limit order of phase 7
\* only ever rests, on its own side of 100 and whatever was drawn before, so
\* that every taker of the phase is a market order.
RandomLimitsRest ==
    /\ \A n \in DOMAIN out : out[n].taker_id \notin drawn
    /\ \A i \in drawn \cap DOMAIN resting :
          resting[i].price \in IF resting[i].side = "Buy" THEN 97..99 ELSE 101..103
===============================================================================
