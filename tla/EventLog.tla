-------------------------------- MODULE EventLog --------------------------------
(***************************************************************************)
(* The engine wrapped by EventLogger (event_logger.hpp): after each call   *)
(* the logger turns the fills and the remainder into events.  A reader of  *)
(* the log keeps a book of its own and applies one event at a time.        *)
(*                                                                         *)
(* The reader is not in src/; it is modelled from the event schema in the  *)
(* header of event_logger.hpp.                                             *)
(***************************************************************************)
EXTENDS LimitOrderBook, SequencesExt

VARIABLES
    log,         \* the events, in the order they were emitted
    t,           \* t_, the time of the next event
    submission,  \* the one that the logger waits for, or NoSubmission
    books        \* auxiliary: the book after each change of it

evars == <<vars, log, t, submission, books>>

NoSubmission == [kind |-> "none", side |-> "Buy", id |-> 0, price |-> 0, qty |-> 0]

EInit == Init /\ log = <<>> /\ t = 0 /\ submission = NoSubmission /\ books = <<>>

log_submit(kind, side, price, qty) ==
    /\ submission = NoSubmission
    /\ Begin(side, price, kind = "market", qty)
    /\ submission' = [kind |-> kind, side |-> side, id |-> next_id, price |-> price, qty |-> qty]
    /\ UNCHANGED <<log, t, books>>

LogEngine ==
    /\ (\E i \in DOMAIN resting : Trade(i)) \/ Rest \/ Return
    /\ books' = IF resting' = resting THEN books ELSE Append(books, resting')
    /\ UNCHANGED <<log, t, submission>>

\* An exception of submit_limit leaves the logger: its trades are never logged.
LogThrows ==
    /\ Refuse
    /\ submission' = [NoSubmission EXCEPT !.kind = "threw"]
    /\ UNCHANGED <<log, t, books>>

\* Mutant of TradeEvents: the side of the taker is logged.
TradeEvents_TakerSide ==
    [n \in DOMAIN out |->
       [type |-> "trade", t |-> t + n - 1, id |-> out[n].maker_id, side |-> submission.side,
        price |-> out[n].price, qty |-> out[n].quantity]]

\* emit_trade for every fill.
TradeEvents ==
    [n \in DOMAIN out |->
       [type |-> "trade", t |-> t + n - 1, id |-> out[n].maker_id,
        side |-> Opposite(submission.side), price |-> out[n].price, qty |-> out[n].quantity]]

\* Mutant of Left: the fills are not subtracted.
Left_Asked == submission.qty

Left == submission.qty - SumFunction([n \in DOMAIN out |-> out[n].quantity])

\* emit_add for what rests.
AddEvents ==
    IF submission.kind = "limit" /\ Left > 0
    THEN <<[type |-> "add", t |-> t + Len(out), id |-> submission.id, side |-> submission.side,
            price |-> submission.price, qty |-> Left]>>
    ELSE <<>>

Emitted(events) ==
    /\ log' = log \o events
    /\ t' = t + Len(events)

\* Mutant of log_done: the add comes before the trades.
log_done_AddFirst ==
    /\ submission.kind \in {"limit", "market"} /\ call.pc = "idle"
    /\ Emitted(AddEvents \o TradeEvents)
    /\ submission' = NoSubmission
    /\ UNCHANGED <<vars, books>>

log_done ==
    /\ submission.kind \in {"limit", "market"} /\ call.pc = "idle"
    /\ Emitted(TradeEvents \o AddEvents)
    /\ submission' = NoSubmission
    /\ UNCHANGED <<vars, books>>

log_cancel(id) ==
    /\ submission = NoSubmission
    /\ cancel(id)
    /\ IF id \in DOMAIN resting
       THEN /\ Emitted(<<[type |-> "cancel", t |-> t, id |-> id, side |-> "Buy",
                          price |-> 0, qty |-> 0]>>)
            /\ books' = Append(books, resting')
       ELSE UNCHANGED <<log, t, books>>
    /\ UNCHANGED submission

ENext ==
    \/ \E side \in Side, price \in Prices, qty \in Qtys :
          log_submit("limit", side, price, qty)
    \/ \E side \in Side, qty \in Qtys : log_submit("market", side, 0, qty)
    \/ LogEngine \/ LogThrows \/ log_done
    \/ \E id \in Ids : log_cancel(id)

ESpec == EInit /\ [][ENext]_evars

-----------------------------------------------------------------------------
(* The reader.                                                              *)

Applied(book, e) ==
    CASE e.type = "add"    -> With(book, e.id, [side |-> e.side, price |-> e.price,
                                                quantity |-> e.qty])
      [] e.type = "cancel" -> Without(book, e.id)
      [] e.type = "trade"  ->
           IF e.id \notin DOMAIN book THEN book
           ELSE IF book[e.id].quantity <= e.qty THEN Without(book, e.id)
           ELSE [book EXCEPT ![e.id].quantity = @ - e.qty]

Replay(n) == FoldLeft(Applied, Empty, SubSeq(log, 1, n))

\* "TRADEs from matching are emitted before the ADD for any resting remainder,
\* matching the order in which the book state changes" (event_logger.hpp:21):
\* the reader's books are the engine's, change by change, whatever was traded,
\* cancelled or dropped between them, and between two calls the log lacks none.
\* A submission that throws is not logged, though it may have traded: then the log
\* ends with the call before it (event_logger.hpp:33).
ReplayMirrors ==
    /\ Len(log) <= Len(books)
    /\ \A n \in DOMAIN log : Replay(n) = books[n]
    /\ submission = NoSubmission => Len(log) = Len(books)

\* Every trade of the log names an order that the reader has, on the side and
\* at the price it was added with, and with enough left (event_logger.hpp:38);
\* times count the events.
TradesMatch ==
    /\ t = Len(log)
    /\ \A n \in DOMAIN log :
         /\ log[n].t = n - 1
         /\ log[n].type = "trade" =>
              LET book == Replay(n - 1)
              IN  /\ log[n].id \in DOMAIN book
                  /\ book[log[n].id].side = log[n].side
                  /\ book[log[n].id].price = log[n].price
                  /\ book[log[n].id].quantity >= log[n].qty
===============================================================================
