------------------------------ MODULE LedgerProofs ------------------------------
(***************************************************************************)
(* Proofs about EngineLedger, for every value of the constants: what the   *)
(* fills owe to calls made long before them, through every reuse of a pool *)
(* slot in between.                                                        *)
(*                                                                         *)
(* The theorems rest on LedgerOK: a slot that holds an order still has     *)
(* the side and the price of the entry made when that order was submitted, *)
(* and so has the call that runs.                                          *)
(*                                                                         *)
(* The last part is about BuildResponse: the answer to a client.  A walk   *)
(* along a level meets its orders by increasing id (LevelInOrder), so that *)
(* the count of the answer counts each once; a map from begin() to end()   *)
(* is its prices sorted (InOrderSorted).                                   *)
(***************************************************************************)
EXTENDS MatchingEngineProofs, EngineLedger, BuildResponse

Entry == [side : Side, price : Prices, is_market : BOOLEAN, asked : Qtys,
          taken : Int, made : Int, gone : Int, closed : BOOLEAN]

EntriesOK == ledger \in [1..(next_id - 1) -> Entry]

\* The entry of an order still says what its slot says.
SlotsMatch ==
    \A s \in Live : /\ ledger[order[s].id].side = order[s].side
                    /\ ledger[order[s].id].price = order[s].price
                    /\ ~ledger[order[s].id].is_market

CallMatches ==
    Matching => /\ ledger[call.id].side = call.side
                /\ ledger[call.id].price = call.price
                /\ ledger[call.id].is_market = call.is_market

\* The parties of every fill have an entry.
PartiesKnown ==
    \A n \in DOMAIN out : out[n].maker_id < next_id /\ out[n].taker_id < next_id

LedgerOK == EntriesOK /\ SlotsMatch /\ CallMatches /\ PartiesKnown

LInv == LedgerOK /\ FillsHonourLimits /\ NoOvertaking

-----------------------------------------------------------------------------
(* The ledger after each kind of entry.                                     *)

\* What an order asked for never changes.
SameTerms(L, M) ==
    \A x \in DOMAIN L : /\ M[x].side = L[x].side
                        /\ M[x].price = L[x].price
                        /\ M[x].is_market = L[x].is_market

\* The ledger after a fill of q between taker a and maker b, and after q of a left.
Noted(L, a, b, q) == [L EXCEPT ![a].taken = @ + q, ![b].made = @ + q]
Gone(L, a, q)     == [L EXCEPT ![a].gone = q, ![a].closed = TRUE]

LEMMA NoteTaken ==
    ASSUME NEW D, NEW L \in [D -> Entry], NEW a \in D, NEW q \in Int
    PROVE  LET K == [L EXCEPT ![a].taken = @ + q]
           IN  /\ K \in [D -> Entry]
               /\ \A x \in D : /\ K[x].side = L[x].side
                               /\ K[x].price = L[x].price
                               /\ K[x].is_market = L[x].is_market
                               /\ K[x].made = L[x].made
BY DEF Entry

LEMMA NoteMade ==
    ASSUME NEW D, NEW L \in [D -> Entry], NEW b \in D, NEW q \in Int
    PROVE  LET M == [L EXCEPT ![b].made = @ + q]
           IN  /\ M \in [D -> Entry]
               /\ \A x \in D : /\ M[x].side = L[x].side
                               /\ M[x].price = L[x].price
                               /\ M[x].is_market = L[x].is_market
               /\ \A x \in D \ {b} : M[x].made = L[x].made
BY DEF Entry

LEMMA NoteFill ==
    ASSUME NEW D, NEW L \in [D -> Entry], NEW a \in D, NEW b \in D, NEW q \in Int
    PROVE  /\ Noted(L, a, b, q) \in [D -> Entry]
           /\ SameTerms(L, Noted(L, a, b, q))
           /\ \A x \in D \ {b} : Noted(L, a, b, q)[x].made = L[x].made
<1> DEFINE K == [L EXCEPT ![a].taken = @ + q]
           M == [K EXCEPT ![b].made = @ + q]
<1>1. /\ K \in [D -> Entry]
      /\ \A x \in D : /\ K[x].side = L[x].side
                      /\ K[x].price = L[x].price
                      /\ K[x].is_market = L[x].is_market
                      /\ K[x].made = L[x].made
  BY NoteTaken
<1>2. Noted(L, a, b, q) = M
  BY DEF Noted
<1> HIDE DEF K
<1>3. /\ M \in [D -> Entry]
      /\ \A x \in D : /\ M[x].side = K[x].side
                      /\ M[x].price = K[x].price
                      /\ M[x].is_market = K[x].is_market
      /\ \A x \in D \ {b} : M[x].made = K[x].made
  BY <1>1, NoteMade
<1> HIDE DEF M
<1> QED
  BY <1>1, <1>2, <1>3 DEF SameTerms

LEMMA NoteGone ==
    ASSUME NEW D, NEW L \in [D -> Entry], NEW a \in D, NEW q \in Int
    PROVE  /\ Gone(L, a, q) \in [D -> Entry]
           /\ SameTerms(L, Gone(L, a, q))
           /\ \A x \in D : Gone(L, a, q)[x].made = L[x].made
BY DEF Entry, SameTerms, Gone

-----------------------------------------------------------------------------
(* The steps.                                                               *)

\* Steps that trade nothing and bring no order into the book.
LEMMA QuietStep ==
    ASSUME LInv, EntriesOK', SameTerms(ledger, ledger'),
           \A x \in DOMAIN ledger : ledger'[x].made = ledger[x].made,
           DOMAIN ledger \subseteq DOMAIN ledger',
           \A x \in DOMAIN ledger' \ DOMAIN ledger : ledger'[x].made = 0,
           DOMAIN index' \subseteq DOMAIN index,
           \A s \in Live' : s \in Live /\ order'[s] = order[s] /\ order[s].id \in DOMAIN ledger,
           DOMAIN index \subseteq DOMAIN ledger,
           CallMatches', next_id' \in Nat, next_id \in Nat, next_id <= next_id',
           out' = out \/ out' = <<>>, \A n \in DOMAIN out : out[n] \in Fill
    PROVE  LInv'
<1>1. SlotsMatch'
  BY DEF LInv, LedgerOK, SlotsMatch, SameTerms
<1>2. PartiesKnown'
  BY DEF LInv, LedgerOK, PartiesKnown, Fill, Ids
<1>3. FillsHonourLimits'
  <2>1. ASSUME NEW n \in DOMAIN out'
        PROVE  LET maker == ledger'[out'[n].maker_id]
                   taker == ledger'[out'[n].taker_id]
               IN  /\ maker.side = Opposite(taker.side)
                   /\ ~maker.is_market
                   /\ out'[n].price = maker.price
                   /\ taker.is_market \/ Ahead(maker.side, out'[n].price, taker.price)
                   /\ out'[n].maker_id < out'[n].taker_id
                   /\ out'[n].quantity > 0
    <3>1. out' = out /\ n \in DOMAIN out
      BY <2>1
    <3>2. out[n].maker_id \in DOMAIN ledger /\ out[n].taker_id \in DOMAIN ledger
      BY <3>1 DEF LInv, LedgerOK, PartiesKnown, EntriesOK, Fill, Ids
    <3> QED
      BY <3>1, <3>2 DEF LInv, FillsHonourLimits, SameTerms
  <2> QED
    BY <2>1 DEF FillsHonourLimits, Ahead
<1>4. NoOvertaking'
  <2>1. ASSUME NEW i \in DOMAIN index', NEW j \in DOMAIN ledger', i < j,
               ledger'[i].side = ledger'[j].side,
               Ahead(ledger'[i].side, ledger'[i].price, ledger'[j].price)
        PROVE  ledger'[j].made = 0
    <3>1. CASE j \notin DOMAIN ledger
      BY <3>1
    <3>2. CASE j \in DOMAIN ledger
      BY <2>1, <3>2 DEF LInv, NoOvertaking, SameTerms
    <3> QED
      BY <3>1, <3>2
  <2> QED
    BY <2>1 DEF NoOvertaking, Ahead
<1> QED
  BY <1>1, <1>2, <1>3, <1>4 DEF LInv, LedgerOK
-----------------------------------------------------------------------------

LEMMA LedgerIds ==
    ASSUME IInv, LInv
    PROVE  /\ next_id \in Nat \ {0}
           /\ DOMAIN ledger = 1..(next_id - 1)
           /\ DOMAIN index \subseteq DOMAIN ledger
           /\ \A s \in Live : order[s].id \in DOMAIN ledger
           /\ Matching => call.id = next_id - 1 /\ call.id \in DOMAIN ledger
           /\ \A n \in DOMAIN out : /\ out[n] \in Fill
                                    /\ out[n].maker_id \in DOMAIN ledger
                                    /\ out[n].taker_id \in DOMAIN ledger
<1>1. TypeOK /\ IndexOK
  BY DEF IInv
<1>2. /\ next_id \in Nat \ {0}
      /\ DOMAIN ledger = 1..(next_id - 1)
      /\ DOMAIN index \subseteq DOMAIN ledger
  BY <1>1, OrderAssumption DEF TypeOK, LInv, LedgerOK, EntriesOK
<1>3. \A s \in Live : order[s].id \in DOMAIN ledger
  BY <1>1, <1>2, LiveFacts
<1>4. Matching => call.id = next_id - 1 /\ call.id \in DOMAIN ledger
  BY <1>1, <1>2, OrderAssumption DEF TypeOK, Ids
<1>5. \A n \in DOMAIN out : out[n] \in Fill
  BY <1>1 DEF TypeOK
<1>6. \A n \in DOMAIN out : out[n].maker_id \in Nat \ {0} /\ out[n].taker_id \in Nat \ {0}
  BY <1>5, OrderAssumption DEF Fill, Ids
<1>7. \A n \in DOMAIN out : /\ out[n].maker_id \in DOMAIN ledger
                            /\ out[n].taker_id \in DOMAIN ledger
  BY <1>2, <1>6 DEF LInv, LedgerOK, PartiesKnown
<1> QED
  BY <1>2, <1>3, <1>4, <1>5, <1>7

LEMMA BeginLedger ==
    ASSUME IInv, LInv, NEW side \in Side, NEW price \in Prices,
           NEW is_market \in BOOLEAN, NEW qty \in Qtys,
           Begin(side, price, is_market, qty),
           ledger' = With(ledger, call'.id, NewEntry(call'))
    PROVE  LInv'
<1>1. /\ call'.id = next_id /\ call'.side = side /\ call'.price = price
      /\ call'.is_market = is_market /\ call'.qty = qty
      /\ next_id' = next_id + 1 /\ out' = <<>>
      /\ UNCHANGED <<order, index>>
  BY DEF Begin, pool
<1>2. next_id \in Nat \ {0} /\ DOMAIN ledger = 1..(next_id - 1)
  BY LedgerIds
<1>3. NewEntry(call') \in Entry /\ NewEntry(call').made = 0
  BY <1>1 DEF NewEntry, Entry
<1>4. /\ DOMAIN ledger' = DOMAIN ledger \cup {next_id}
      /\ ledger'[next_id] = NewEntry(call')
      /\ \A x \in DOMAIN ledger \ {next_id} : ledger'[x] = ledger[x]
      /\ ledger' = [x \in DOMAIN ledger' |-> ledger'[x]]
  BY <1>1, WithFacts DEF With
<1>5. \A x \in DOMAIN ledger : x # next_id /\ ledger'[x] = ledger[x]
  BY <1>2, <1>4
<1>6. EntriesOK'
  <2>1. DOMAIN ledger' = 1..(next_id' - 1) /\ next_id' \in Nat
    BY <1>1, <1>2, <1>4
  <2>2. \A x \in DOMAIN ledger : ledger[x] \in Entry
    BY <1>2 DEF LInv, LedgerOK, EntriesOK
  <2>3. \A x \in DOMAIN ledger' : ledger'[x] \in Entry
    BY <1>3, <1>4, <1>5, <2>2
  <2> QED
    BY <1>4, <2>1, <2>3 DEF EntriesOK
<1>7. CallMatches'
  BY <1>1, <1>4 DEF CallMatches, NewEntry
<1>8. SameTerms(ledger, ledger')
  BY <1>5 DEF SameTerms
<1>9. Live' = Live
  BY <1>1 DEF Live
<1>10. \A n \in DOMAIN out : out[n] \in Fill
  BY LedgerIds
<1> QED
  BY <1>1, <1>2, <1>3, <1>4, <1>5, <1>6, <1>7, <1>8, <1>9, <1>10, LedgerIds, QuietStep

\* The end of a submission that leaves something unfilled, and a cancel.
LEMMA GoneLedger ==
    ASSUME IInv, LInv, NEW id \in DOMAIN ledger, NEW q \in Int,
           ledger' = Gone(ledger, id, q),
           next_id' = next_id, out' = out, order' = order,
           DOMAIN index' \subseteq DOMAIN index, Live' \subseteq Live, ~Matching'
    PROVE  LInv'
<1>1. /\ ledger' \in [1..(next_id - 1) -> Entry]
      /\ SameTerms(ledger, ledger')
      /\ \A x \in DOMAIN ledger : ledger'[x].made = ledger[x].made
  <2>1. ledger \in [1..(next_id - 1) -> Entry] /\ DOMAIN ledger = 1..(next_id - 1)
    BY DEF LInv, LedgerOK, EntriesOK
  <2>2. id \in 1..(next_id - 1)
    BY <2>1
  <2> DEFINE D == 1..(next_id - 1)
  <2>3. ledger \in [D -> Entry] /\ id \in D
    BY <2>1, <2>2
  <2> HIDE DEF D
  <2>4. /\ Gone(ledger, id, q) \in [D -> Entry]
        /\ SameTerms(ledger, Gone(ledger, id, q))
        /\ \A x \in D : Gone(ledger, id, q)[x].made = ledger[x].made
    BY <2>3, NoteGone
  <2> QED
    BY <2>1, <2>4 DEF D
<1>2. EntriesOK' /\ DOMAIN ledger' = DOMAIN ledger /\ CallMatches'
  BY <1>1, LedgerIds DEF EntriesOK, CallMatches
<1>3. next_id' \in Nat /\ next_id \in Nat /\ next_id <= next_id'
  BY LedgerIds
<1>4. \A s \in Live' : s \in Live /\ order'[s] = order[s] /\ order[s].id \in DOMAIN ledger
  BY LedgerIds
<1>5. DOMAIN index \subseteq DOMAIN ledger /\ \A n \in DOMAIN out : out[n] \in Fill
  BY LedgerIds
<1> QED
  BY <1>1, <1>2, <1>3, <1>4, <1>5, QuietStep

LEMMA DropLedger ==
    ASSUME IInv, LInv, LDrop
    PROVE  LInv'
<1>1. /\ Matching /\ call' = IdleCall
      /\ UNCHANGED <<next_id, order, index, out>>
      /\ ledger' = Gone(ledger, call.id, call.qty)
  BY DEF LDrop, RestThrows, Return, MatchOver, pool, Gone
<1>2. call.id \in DOMAIN ledger /\ call.qty \in Int
  BY <1>1, LedgerIds, OrderAssumption DEF IInv, TypeOK, Call, Qtys
<1>3. Live' = Live /\ ~Matching'
  BY <1>1 DEF Live, IdleCall, Matching
<1> QED
  BY <1>1, <1>2, <1>3, GoneLedger

LEMMA CancelLedger ==
    ASSUME IInv, LInv, LCancel
    PROVE  LInv'
<1>1. PICK id \in DOMAIN index :
         cancel(id) /\ ledger' = Gone(ledger, id, order[index[id]].quantity)
  BY DEF LCancel, Gone
<1>2. TypeOK /\ IndexOK
  BY DEF IInv
<1>3. PICK o \in Live : o = index[id] /\ order[o].id = id
  BY <1>2, RestingFacts
<1>4. UNCHANGED <<next_id, order, out, call>> /\ call.pc = "idle"
  BY <1>1 DEF cancel
<1>5. index' = Without(index, order[o].id)
  BY <1>1, <1>3 DEF cancel, remove_and_release
<1>6. Live' = Live \ {o}
  <2>1. \A s \in Slots : order'[s].id = order[s].id
    BY <1>4
  <2> QED
    BY <1>2, <1>5, <2>1, LiveAfterRemove
<1>7. DOMAIN index' \subseteq DOMAIN index
  BY <1>5 DEF Without, Restrict
<1>8. id \in DOMAIN ledger /\ order[o].quantity \in Int
  BY <1>2, <1>3, LedgerIds, LiveFacts, OrderAssumption DEF OrderRec, Qtys
<1>9. ~Matching'
  BY <1>4 DEF Matching
<1> QED
  BY <1>1, <1>3, <1>4, <1>6, <1>7, <1>8, <1>9, GoneLedger

\* The remainder that enters the book is younger than every order before it.
LEMMA RestLedger ==
    ASSUME IInv, LInv, LRest
    PROVE  LInv'
<1> DEFINE o == free_head
<1>1. TypeOK /\ IndexOK /\ FreeListOK /\ Rest /\ ledger' = ledger
  BY DEF IInv, LRest
<1>2. /\ DOMAIN index' = DOMAIN index \cup {call.id}
      /\ Live' = Live \cup {o}
      /\ \A s \in Live : order'[s] = order[s]
      /\ order'[o] = Remainder
  BY <1>1, InLevelAfterRest, RestFacts
<1>3. Matching /\ HasRemainder /\ call' = IdleCall /\ UNCHANGED <<next_id, out>>
  BY <1>1 DEF Rest, MatchOver
<1>4. EntriesOK' /\ PartiesKnown' /\ CallMatches'
  BY <1>1, <1>3 DEF LInv, LedgerOK, EntriesOK, PartiesKnown, CallMatches, Matching, IdleCall
<1>5. SlotsMatch'
  BY <1>1, <1>2, <1>3 DEF LInv, LedgerOK, SlotsMatch, CallMatches, Remainder, HasRemainder
<1>6. FillsHonourLimits'
  BY <1>1, <1>3 DEF LInv, FillsHonourLimits, Ahead
<1>7. NoOvertaking'
  <2>1. \A j \in DOMAIN ledger : ~ (call.id < j)
    BY <1>3, LedgerIds
  <2> QED
    BY <1>1, <1>2, <2>1 DEF LInv, NoOvertaking, Ahead
<1> QED
  BY <1>4, <1>5, <1>6, <1>7 DEF LInv, LedgerOK

\* An iteration trades with the oldest order of the best price: whoever rests
\* on and is older than the maker has a worse price.
LEMMA TradeLedger ==
    ASSUME IInv, LInv, NEW p \in Prices, NEW o \in Slots, RecordFill(p, o),
           Live' \subseteq Live, DOMAIN index' \subseteq DOMAIN index,
           ledger' = Noted(ledger, call.id, order[o].id, FillQty(o))
    PROVE  LInv'
<1> DEFINE book == Opposite(call.side)
           i    == order[o].id
           c    == call.id
           q    == FillQty(o)
           k    == Len(out) + 1
<1>1. TypeOK /\ IndexOK /\ QueuesFIFO
  BY DEF IInv
<1>2. /\ o \in Live /\ order[o].side = book /\ order[o].price = p
      /\ q \in Nat /\ q > 0 /\ book \in Side
      /\ Matching /\ Crosses(p) /\ IsBegin(book, p) /\ o = Maker(p)
  BY <1>1, FillFacts DEF RecordFill
<1>3. /\ out' = Append(out, [maker_id |-> i, taker_id |-> c, price |-> order[o].price,
                             quantity |-> q])
      /\ call' = [call EXCEPT !.qty = @ - q]
      /\ call \in Call /\ out \in Seq(Fill) /\ next_id' = next_id
  BY <1>1 DEF RecordFill, TypeOK
<1>4. /\ call'.side = call.side /\ call'.price = call.price /\ call'.id = c
      /\ call'.is_market = call.is_market /\ call'.pc = call.pc
  BY <1>3 DEF Call
<1>5. /\ DOMAIN out' = DOMAIN out \cup {k} /\ Len(out') = k
      /\ \A n \in DOMAIN out : out'[n] = out[n]
      /\ out'[k].maker_id = i /\ out'[k].taker_id = c
      /\ out'[k].price = p /\ out'[k].quantity = q
  BY <1>2, <1>3
<1>6. /\ c \in DOMAIN ledger /\ i \in DOMAIN ledger /\ i < c
      /\ DOMAIN ledger = 1..(next_id - 1) /\ next_id \in Nat
  BY <1>1, <1>2, LedgerIds, LiveFacts DEF IndexOK, Live
<1>7. /\ ledger' \in [1..(next_id - 1) -> Entry]
      /\ SameTerms(ledger, ledger')
      /\ \A x \in DOMAIN ledger \ {i} : ledger'[x].made = ledger[x].made
  <2>1. ledger \in [1..(next_id - 1) -> Entry]
    BY DEF LInv, LedgerOK, EntriesOK
  <2>2. q \in Int
    BY <1>2
  <2> DEFINE D == 1..(next_id - 1)
  <2>3. ledger \in [D -> Entry] /\ c \in D /\ i \in D
    BY <1>6, <2>1
  <2> HIDE DEF D, c, i, q
  <2>4. Noted(ledger, c, i, q) \in [D -> Entry]
    BY <2>2, <2>3, NoteFill
  <2>5. SameTerms(ledger, Noted(ledger, c, i, q))
    BY <2>2, <2>3, NoteFill
  <2>6. ASSUME NEW x \in D \ {i}
        PROVE  Noted(ledger, c, i, q)[x].made = ledger[x].made
    BY <2>2, <2>3, NoteFill
  <2> QED
    BY <1>6, <2>4, <2>5, <2>6 DEF D, c, i, q
<1>8. EntriesOK' /\ DOMAIN ledger' = DOMAIN ledger
  BY <1>3, <1>6, <1>7 DEF EntriesOK
<1>9. SameOrders
  BY <1>1, FillWrites
<1>10. SlotsMatch'
  <2>1. ASSUME NEW s \in Live'
        PROVE  /\ s \in Live
               /\ order'[s].side = order[s].side /\ order'[s].price = order[s].price
               /\ order'[s].id = order[s].id /\ order[s].id \in DOMAIN ledger
    <3>1. s \in Live /\ s \in Slots
      BY <2>1 DEF Live
    <3> QED
      BY <1>9, <3>1, LedgerIds DEF SameOrders
  <2>2. ASSUME NEW s \in Live'
        PROVE  /\ ledger'[order'[s].id].side = order'[s].side
               /\ ledger'[order'[s].id].price = order'[s].price
               /\ ~ledger'[order'[s].id].is_market
    BY <1>7, <2>1, <2>2 DEF LInv, LedgerOK, SlotsMatch, SameTerms
  <2> QED
    BY <2>2 DEF SlotsMatch
<1>11. CallMatches'
  BY <1>2, <1>4, <1>6, <1>7 DEF LInv, LedgerOK, CallMatches, SameTerms, Matching
<1>12. PartiesKnown'
  BY <1>3, <1>5, <1>6 DEF LInv, LedgerOK, PartiesKnown
<1>13. FillsHonourLimits'
  <2>1. ASSUME NEW n \in DOMAIN out'
        PROVE  LET maker == ledger'[out'[n].maker_id]
                   taker == ledger'[out'[n].taker_id]
               IN  /\ maker.side = Opposite(taker.side)
                   /\ ~maker.is_market
                   /\ out'[n].price = maker.price
                   /\ taker.is_market \/ Ahead(maker.side, out'[n].price, taker.price)
                   /\ out'[n].maker_id < out'[n].taker_id
                   /\ out'[n].quantity > 0
    <3>1. CASE n \in DOMAIN out
      <4>1. out[n].maker_id \in DOMAIN ledger /\ out[n].taker_id \in DOMAIN ledger
        BY <3>1, LedgerIds
      <4> QED
        BY <1>5, <1>7, <3>1, <4>1 DEF LInv, FillsHonourLimits, SameTerms
    <3>2. CASE n = k
      <4>1. /\ ledger[i].side = book /\ ledger[i].price = p /\ ~ledger[i].is_market
        BY <1>2 DEF LInv, LedgerOK, SlotsMatch
      <4>2. /\ ledger[c].side = call.side /\ ledger[c].price = call.price
            /\ ledger[c].is_market = call.is_market
        BY <1>2 DEF LInv, LedgerOK, CallMatches
      <4>3. /\ ledger'[i].side = book /\ ledger'[i].price = p /\ ~ledger'[i].is_market
            /\ ledger'[c].side = call.side /\ ledger'[c].price = call.price
            /\ ledger'[c].is_market = call.is_market
        BY <1>6, <1>7, <4>1, <4>2 DEF SameTerms
      <4> QED
        BY <1>2, <1>5, <1>6, <3>2, <4>3 DEF Crosses
    <3> QED
      BY <1>5, <3>1, <3>2
  <2> QED
    BY <2>1 DEF FillsHonourLimits, Ahead
<1>14. NoOvertaking'
  <2>1. ASSUME NEW x \in DOMAIN index', NEW j \in DOMAIN ledger', x < j,
               ledger'[x].side = ledger'[j].side,
               Ahead(ledger'[x].side, ledger'[x].price, ledger'[j].price)
        PROVE  ledger'[j].made = 0
    <3>1. /\ x \in DOMAIN index /\ x \in DOMAIN ledger /\ j \in DOMAIN ledger
          /\ ledger[x].side = ledger[j].side
          /\ Ahead(ledger[x].side, ledger[x].price, ledger[j].price)
      BY <1>7, <1>8, <2>1, LedgerIds DEF SameTerms
    <3>2. CASE j # i
      BY <1>7, <2>1, <3>1, <3>2 DEF LInv, NoOvertaking
    <3>3. CASE j = i
      <4> DEFINE t == index[x]
      <4>1. t \in Live /\ order[t].id = x
        BY <1>1, <3>1, RestingFacts
      <4>2. /\ ledger[i].side = book /\ ledger[i].price = p
            /\ ledger[x].side = order[t].side /\ ledger[x].price = order[t].price
        BY <1>2, <4>1 DEF LInv, LedgerOK, SlotsMatch
      <4>3. order[t].side = book /\ Ahead(book, order[t].price, p)
        BY <3>1, <3>3, <4>2
      <4>4. order[t].price \in DOMAIN levels[book] /\ order[t].price \in Prices
        BY <1>1, <4>1, <4>3, LiveFacts
      <4>5. Ahead(book, p, order[t].price)
        BY <1>2, <4>4 DEF IsBegin
      <4>6. order[t].price = p
        BY <4>3, <4>4, <4>5, OrderAssumption DEF Ahead, Prices
      <4>7. order[o].id <= order[t].id
        <5>1. t \in InLevel(book, p) /\ p \in DOMAIN levels[book]
          BY <4>1, <4>3, <4>4, <4>6 DEF InLevel
        <5>2. o = levels[book][p].head
          BY <1>2 DEF Maker
        <5> QED
          BY <1>1, <1>2, <5>1, <5>2 DEF QueuesFIFO, EndsOK
      <4> QED
        BY <1>6, <2>1, <3>1, <3>3, <4>1, <4>7
    <3> QED
      BY <3>2, <3>3
  <2> QED
    BY <2>1 DEF NoOvertaking, Ahead
<1> QED
  BY <1>8, <1>10, <1>11, <1>12, <1>13, <1>14 DEF LInv, LedgerOK

LEMMA LTradeLedger ==
    ASSUME IInv, LInv, LTrade
    PROVE  LInv'
<1>1. PICK p \in Prices, o \in Slots : FillMaker(p, o) \/ FillTaker(p, o)
  BY DEF LTrade
<1>2. TypeOK /\ IndexOK /\ QueuesFIFO /\ RecordFill(p, o)
  BY <1>1 DEF IInv, FillMaker, FillTaker
<1>3. o \in Live /\ SameOrders
  BY <1>2, FillFacts, FillWrites
<1>4. ledger' = Noted(ledger, call.id, order[o].id, FillQty(o))
  <2>1. /\ out' = Append(out, [maker_id |-> order[o].id, taker_id |-> call.id,
                               price |-> order[o].price, quantity |-> FillQty(o)])
        /\ out \in Seq(Fill)
    BY <1>2 DEF RecordFill, TypeOK
  <2>2. /\ out'[Len(out')].maker_id = order[o].id
        /\ out'[Len(out')].taker_id = call.id
        /\ out'[Len(out')].quantity = FillQty(o)
    BY <2>1
  <2> QED
    BY <2>2 DEF LTrade, Noted
<1>5. CASE FillMaker(p, o)
  <2>1. remove_and_release(o, FillQty(o))
    BY <1>5 DEF FillMaker
  <2>2. Live' = Live \ {o}
    BY <1>2, <1>3, <2>1, InLevelAfterRemove
  <2>3. DOMAIN index' \subseteq DOMAIN index
    BY <2>1 DEF remove_and_release, Without, Restrict
  <2> QED
    BY <1>2, <1>4, <2>2, <2>3, TradeLedger
<1>6. CASE FillTaker(p, o)
  <2>1. Live' = Live /\ index' = index
    BY <1>3, <1>6 DEF FillTaker, Live, SameOrders
  <2> QED
    BY <1>2, <1>4, <2>1, TradeLedger
<1> QED
  BY <1>1, <1>5, <1>6

LEMMA LNextInv == IInv /\ LInv /\ [LNext]_lvars => LInv'
<1> SUFFICES ASSUME IInv, LInv, [LNext]_lvars PROVE LInv'
  OBVIOUS
<1>1. CASE LBegin
  <2>1. 0 \in Prices
    BY OrderAssumption DEF Prices
  <2> QED
    BY <1>1, <2>1, BeginLedger DEF LBegin, submit_limit, submit_market
<1>2. CASE LTrade
  BY <1>2, LTradeLedger
<1>3. CASE LRest
  BY <1>3, RestLedger
<1>4. CASE LDrop
  BY <1>4, DropLedger
<1>5. CASE LCancel
  BY <1>5, CancelLedger
<1>6. CASE UNCHANGED lvars
  <2>1. UNCHANGED <<next_id, order, index, call, out, ledger>>
    BY <1>6 DEF lvars, vars
  <2> QED
    BY <2>1 DEF LInv, LedgerOK, EntriesOK, SlotsMatch, CallMatches, PartiesKnown, Live,
       Matching, FillsHonourLimits, NoOvertaking, Ahead
<1> QED
  BY <1>1, <1>2, <1>3, <1>4, <1>5, <1>6 DEF LNext

LEMMA LInitInv == LInit => LInv
<1> SUFFICES ASSUME LInit PROVE LInv
  OBVIOUS
<1>1. next_id = 1 /\ DOMAIN index = {} /\ out = <<>> /\ call = IdleCall /\ ledger = Empty
  BY DEF LInit, Init, Empty
<1>2. Live = {} /\ ~Matching
  BY <1>1 DEF Live, Matching, IdleCall
<1>3. EntriesOK
  BY <1>1 DEF EntriesOK, Empty
<1> QED
  BY <1>1, <1>2, <1>3 DEF LInv, LedgerOK, SlotsMatch, CallMatches, PartiesKnown,
     FillsHonourLimits, NoOvertaking

\* The ledger only watches: without it, its steps are steps of the engine.
LEMMA LedgerWatches == LSpec => Spec
<1>1. LInit => Init
  BY DEF LInit
<1>2. ASSUME IInv, [LNext]_lvars PROVE [Next]_vars
  <2>1. CASE LBegin
    BY <2>1 DEF LBegin, Next
  <2>2. CASE LTrade
    BY <2>2 DEF LTrade, Next
  <2>3. CASE LRest \/ LDrop
    BY <2>3 DEF LRest, LDrop, Next
  <2>4. CASE LCancel
    <3>1. PICK id \in DOMAIN index : cancel(id)
      BY <2>4 DEF LCancel
    <3>2. id \in 0..MaxId
      BY <1>2, <3>1, OrderAssumption DEF IInv, TypeOK
    <3> QED
      BY <3>1, <3>2 DEF Next
  <2> QED
    BY <1>2, <2>1, <2>2, <2>3, <2>4 DEF LNext, lvars
<1> QED
  BY <1>1, <1>2, InitInv, NextInv, PTL DEF LSpec, Spec

LEMMA LedgerInvariance == LSpec => []LInv
<1>1. IInv /\ LInv /\ [LNext]_lvars => LInv'
  BY LNextInv
<1> QED
  BY <1>1, LInitInv, LedgerWatches, Invariance, PTL DEF LSpec

\* Every fill is between the two sides, at the price that the maker asked for when
\* it came, within the limit of the taker, and the older order is the maker
\* (matching_engine.cpp:10-34).
THEOREM FillsAreHonoured == LSpec => []FillsHonourLimits
<1>1. LInv => FillsHonourLimits
  BY DEF LInv
<1> QED
  BY <1>1, LedgerInvariance, PTL

\* Price-time priority over a whole history: no order has traded as maker while an
\* older one of its side, at the same or a better price, still rests
\* (matching_engine.cpp:17, :23, price_level.hpp:12).
THEOREM NobodyOvertakes == LSpec => []NoOvertaking
<1>1. LInv => NoOvertaking
  BY DEF LInv
<1> QED
  BY <1>1, LedgerInvariance, PTL

-----------------------------------------------------------------------------
(* No quantity is made or lost.                                             *)

\* What is still at work of order i, in the book or in the loop.
Held(i) ==
    IF i \in DOMAIN index THEN order[index[i]].quantity
    ELSE IF Matching /\ i = call.id THEN call.qty ELSE 0

AtWork(i) == i \in DOMAIN index \/ (Matching /\ i = call.id)

LeftIsHeld == \A i \in DOMAIN ledger : Left(i) = Held(i)

\* Nothing has left an order that is at work.
OpenOK ==
    \A i \in DOMAIN ledger :
       AtWork(i) => ledger[i].gone = 0 /\ ledger[i].closed = FALSE

QInv == EntriesOK /\ LeftIsHeld /\ OpenOK

LEMMA HeldFacts ==
    ASSUME IInv
    PROVE  /\ \A i : Held(i) \in Nat
           /\ \A i \in DOMAIN index : Held(i) > 0
<1>1. TypeOK /\ IndexOK
  BY DEF IInv
<1>2. \A i \in DOMAIN index : order[index[i]].quantity \in Nat /\ order[index[i]].quantity > 0
  BY <1>1, RestingFacts, LiveFacts, OrderAssumption DEF OrderRec, Qtys
<1>3. call.qty \in Nat
  BY <1>1, OrderAssumption DEF TypeOK, Call, Qtys
<1> QED
  BY <1>2, <1>3 DEF Held

LEMMA ConservedIsHeld ==
    ASSUME IInv, QInv
    PROVE  QuantityConserved
<1>1. ASSUME NEW i \in DOMAIN ledger
      PROVE  /\ Left(i) >= 0
             /\ Left(i) = CASE i \in DOMAIN index -> order[index[i]].quantity
                            [] Matching /\ i = call.id -> call.qty
                            [] OTHER -> 0
  <2>1. Left(i) = Held(i) /\ Held(i) \in Nat
    BY HeldFacts DEF QInv, LeftIsHeld
  <2>2. ~ (i \in DOMAIN index /\ Matching /\ i = call.id)
    BY DEF IInv, IndexOK
  <2> QED
    BY <2>1, <2>2 DEF Held
<1> QED
  BY <1>1 DEF QuantityConserved

LEMMA FillFields ==
    ASSUME NEW D, NEW L \in [D -> Entry], NEW a \in D, NEW b \in D, a # b, NEW q \in Int,
           NEW M, M = Noted(L, a, b, q)
    PROVE  /\ \A x \in D : /\ M[x].asked = L[x].asked /\ M[x].gone = L[x].gone
                           /\ M[x].closed = L[x].closed
           /\ M[a].taken = L[a].taken + q /\ M[a].made = L[a].made
           /\ M[b].taken = L[b].taken /\ M[b].made = L[b].made + q
           /\ \A x \in D \ {a, b} : M[x].taken = L[x].taken /\ M[x].made = L[x].made
BY DEF Noted, Entry

LEMMA GoneFields ==
    ASSUME NEW D, NEW L \in [D -> Entry], NEW a \in D, NEW q \in Int,
           NEW M, M = Gone(L, a, q)
    PROVE  /\ \A x \in D : /\ M[x].asked = L[x].asked /\ M[x].taken = L[x].taken
                           /\ M[x].made = L[x].made
           /\ M[a].gone = q
           /\ \A x \in D \ {a} : M[x].gone = L[x].gone /\ M[x].closed = L[x].closed
BY DEF Gone, Entry

\* An order at work was submitted.
LEMMA AtWorkKnown ==
    ASSUME IInv, LInv
    PROVE  \A i : AtWork(i) => i \in DOMAIN ledger
BY LedgerIds DEF AtWork

\* What every step owes: the orders it does not touch stay as they are.
LEMMA Unmoved ==
    ASSUME QInv, NEW i \in DOMAIN ledger, ledger'[i] = ledger[i],
           Held(i)' = Held(i), AtWork(i)' => AtWork(i)
    PROVE  /\ Left(i)' = Held(i)'
           /\ AtWork(i)' => ledger'[i].gone = 0 /\ ledger'[i].closed = FALSE
BY DEF QInv, LeftIsHeld, OpenOK, Left

LEMMA BeginConserves ==
    ASSUME IInv, LInv, QInv, NEW side \in Side, NEW price \in Prices,
           NEW is_market \in BOOLEAN, NEW qty \in Qtys,
           Begin(side, price, is_market, qty),
           ledger' = With(ledger, call'.id, NewEntry(call')), EntriesOK'
    PROVE  QInv'
<1>1. /\ call'.id = next_id /\ call'.qty = qty /\ call'.pc = "match"
      /\ ~Matching /\ UNCHANGED <<order, index>>
  BY DEF Begin, pool, Matching
<1>2. /\ next_id \in Nat \ {0} /\ DOMAIN ledger = 1..(next_id - 1)
      /\ DOMAIN index \subseteq DOMAIN ledger
  BY LedgerIds
<1>3. PICK k \in Nat : k = next_id
  BY <1>2
<1>4. ledger' = With(ledger, k, NewEntry(call')) /\ call'.id = k
  BY <1>1, <1>3
<1>5. /\ DOMAIN ledger' = DOMAIN ledger \cup {k}
      /\ ledger'[k] = NewEntry(call')
      /\ \A x \in DOMAIN ledger \ {k} : ledger'[x] = ledger[x]
  BY <1>4 DEF With
<1>6. k \notin DOMAIN ledger /\ k \notin DOMAIN index
  BY <1>2, <1>3
<1>7. ASSUME NEW i \in DOMAIN ledger
      PROVE  /\ Left(i)' = Held(i)'
             /\ AtWork(i)' => ledger'[i].gone = 0 /\ ledger'[i].closed = FALSE
  <2>1. ledger'[i] = ledger[i] /\ i # k
    BY <1>5, <1>6
  <2>2. Held(i)' = Held(i) /\ (AtWork(i)' => AtWork(i))
    BY <1>1, <1>4, <2>1 DEF Held, AtWork
  <2> QED
    BY <2>1, <2>2, Unmoved
<1>8. /\ Left(k)' = Held(k)'
      /\ ledger'[k].gone = 0 /\ ledger'[k].closed = FALSE
  <2>1. Held(k)' = qty
    BY <1>1, <1>4, <1>6 DEF Held, Matching
  <2>2. /\ ledger'[k].asked = qty /\ ledger'[k].taken = 0 /\ ledger'[k].made = 0
        /\ ledger'[k].gone = 0 /\ ledger'[k].closed = FALSE
    BY <1>1, <1>5 DEF NewEntry
  <2>3. qty \in Nat
    BY OrderAssumption DEF Qtys
  <2>4. Left(k)' = ledger'[k].asked - ledger'[k].taken - ledger'[k].made - ledger'[k].gone
    BY DEF Left
  <2> QED
    BY <2>1, <2>2, <2>3, <2>4
<1>9. LeftIsHeld'
  BY <1>5, <1>7, <1>8 DEF LeftIsHeld
<1>10. OpenOK'
  BY <1>5, <1>7, <1>8 DEF OpenOK
<1> QED
  BY <1>9, <1>10 DEF QInv

\* What a fill takes from the taker and the maker, it takes from what is at work.
LEMMA TradeConserves ==
    ASSUME IInv, LInv, QInv, NEW p \in Prices, NEW o \in Slots, RecordFill(p, o),
           NEW i, i = order[o].id, NEW q, q = FillQty(o),
           ledger' = Noted(ledger, call.id, i, q), EntriesOK',
           \/ index' = index
           \/ index' = Without(index, i) /\ order[o].quantity = q
    PROVE  QInv'
<1>0. PICK c : c = call.id
  OBVIOUS
<1>1. TypeOK /\ IndexOK /\ QueuesFIFO
  BY DEF IInv
<1>2. /\ o \in Live /\ i \in DOMAIN index /\ index[i] = o
      /\ q \in Nat /\ Matching /\ order[o].quantity \in Nat
  BY <1>1, FillFacts, RestingFacts, HeldFacts DEF RecordFill, Held
<1>3. /\ call'.qty = call.qty - q /\ call'.id = c /\ call'.pc = call.pc
      /\ call.qty \in Nat
  BY <1>0, <1>1, OrderAssumption DEF RecordFill, TypeOK, Call, Qtys
<1>4. /\ \A s \in Slots \ {o} : order'[s] = order[s]
      /\ order'[o].quantity = order[o].quantity - q
  BY <1>1, FillWrites
<1>5. c \in DOMAIN ledger /\ i \in DOMAIN ledger /\ i # c /\ c \notin DOMAIN index
  BY <1>0, <1>1, <1>2, LedgerIds DEF IndexOK
<1>6. /\ \A x \in DOMAIN ledger : /\ ledger'[x].asked = ledger[x].asked
                                  /\ ledger'[x].gone = ledger[x].gone
                                  /\ ledger'[x].closed = ledger[x].closed
      /\ ledger'[c].taken = ledger[c].taken + q /\ ledger'[c].made = ledger[c].made
      /\ ledger'[i].taken = ledger[i].taken /\ ledger'[i].made = ledger[i].made + q
      /\ \A x \in DOMAIN ledger \ {c, i} : /\ ledger'[x].taken = ledger[x].taken
                                           /\ ledger'[x].made = ledger[x].made
  <2> DEFINE D == DOMAIN ledger
  <2>1. ledger \in [D -> Entry] /\ q \in Int /\ c \in D /\ i \in D /\ c # i
    BY <1>2, <1>5 DEF QInv, EntriesOK
  <2> HIDE DEF D
  <2>2. ledger' = Noted(ledger, c, i, q)
    BY <1>0
  <2>3. QED
    BY <2>1, <2>2, FillFields DEF D
<1>7. DOMAIN ledger' = DOMAIN ledger
  BY DEF Noted
<1>8. /\ \A x \in DOMAIN index \ {i} : x \in DOMAIN index' /\ index'[x] = index[x]
      /\ DOMAIN index' \subseteq DOMAIN index
      /\ i \in DOMAIN index' => index'[i] = o
      /\ i \notin DOMAIN index' => order[o].quantity = q
  BY <1>2 DEF Without, Restrict
<1>9. \A x : AtWork(x)' => AtWork(x)
  BY <1>0, <1>3, <1>8 DEF AtWork, Matching
<1>10. OpenOK'
  BY <1>6, <1>7, <1>9 DEF QInv, OpenOK
<1>11. Held(i)' = Held(i) - q
  <2>1. Held(i) = order[o].quantity
    BY <1>2 DEF Held
  <2>2. CASE i \in DOMAIN index'
    BY <1>4, <1>8, <2>1, <2>2 DEF Held
  <2>3. CASE i \notin DOMAIN index'
    <3>1. Held(i)' = 0
      BY <1>0, <1>3, <1>5, <2>3 DEF Held
    <3> QED
      BY <1>2, <1>8, <2>1, <2>3, <3>1
  <2> QED
    BY <2>2, <2>3
<1>12. Held(c)' = Held(c) - q
  BY <1>0, <1>2, <1>3, <1>5, <1>8 DEF Held, Matching
<1>13. ASSUME NEW x \in DOMAIN ledger \ {c, i} PROVE Held(x)' = Held(x)
  <2>1. CASE x \in DOMAIN index
    <3>1. index'[x] = index[x] /\ x \in DOMAIN index' /\ index[x] # o /\ index[x] \in Slots
      BY <1>1, <1>2, <1>8, <1>13, <2>1, RestingFacts DEF Live
    <3> QED
      BY <1>4, <2>1, <3>1 DEF Held
  <2>2. CASE x \notin DOMAIN index
    BY <1>0, <1>3, <1>8, <1>13, <2>2 DEF Held, Matching
  <2> QED
    BY <2>1, <2>2
<1>14. ASSUME NEW x \in DOMAIN ledger PROVE Left(x)' = Held(x)'
  <2>1. Left(x) = Held(x) /\ ledger[x] \in Entry
    BY DEF QInv, LeftIsHeld, EntriesOK
  <2>2. /\ ledger[x].asked \in Int /\ ledger[x].taken \in Int
        /\ ledger[x].made \in Int /\ ledger[x].gone \in Int
    BY <2>1, OrderAssumption DEF Entry, Qtys
  <2>3. Left(x) = ledger[x].asked - ledger[x].taken - ledger[x].made - ledger[x].gone
        /\ Left(x)' = ledger'[x].asked - ledger'[x].taken - ledger'[x].made - ledger'[x].gone
    BY DEF Left
  <2>4. CASE x = i
    <3>1. /\ ledger'[x].asked = ledger[x].asked /\ ledger'[x].gone = ledger[x].gone
          /\ ledger'[x].taken = ledger[x].taken /\ ledger'[x].made = ledger[x].made + q
      BY <1>6, <2>4
    <3>2. Held(x)' = Left(x) - q
      BY <1>11, <2>1, <2>4
    <3> QED
      BY <1>2, <2>2, <2>3, <3>1, <3>2
  <2>5. CASE x = c
    <3>1. /\ ledger'[x].asked = ledger[x].asked /\ ledger'[x].gone = ledger[x].gone
          /\ ledger'[x].taken = ledger[x].taken + q /\ ledger'[x].made = ledger[x].made
      BY <1>6, <2>5
    <3>2. Held(x)' = Left(x) - q
      BY <1>12, <2>1, <2>5
    <3> QED
      BY <1>2, <2>2, <2>3, <3>1, <3>2
  <2>6. CASE x \notin {c, i}
    BY <1>6, <1>13, <2>1, <2>6 DEF Left
  <2> QED
    BY <2>4, <2>5, <2>6
<1> QED
  BY <1>7, <1>10, <1>14 DEF QInv, LeftIsHeld

\* What leaves an order without trading is all that was at work of it.
LEMMA GoneConserves ==
    ASSUME IInv, LInv, QInv, NEW id \in DOMAIN ledger, AtWork(id), NEW q, q = Held(id),
           ledger' = Gone(ledger, id, q), EntriesOK',
           ~AtWork(id)', Held(id)' = 0,
           \A x \in DOMAIN ledger \ {id} : Held(x)' = Held(x) /\ (AtWork(x)' => AtWork(x))
    PROVE  QInv'
<1>1. q \in Nat /\ DOMAIN ledger' = DOMAIN ledger
  BY HeldFacts DEF Gone
<1>2. /\ \A x \in DOMAIN ledger : /\ ledger'[x].asked = ledger[x].asked
                                  /\ ledger'[x].taken = ledger[x].taken
                                  /\ ledger'[x].made = ledger[x].made
      /\ ledger'[id].gone = q
      /\ \A x \in DOMAIN ledger \ {id} : /\ ledger'[x].gone = ledger[x].gone
                                         /\ ledger'[x].closed = ledger[x].closed
  <2> DEFINE D == DOMAIN ledger
  <2>1. ledger \in [D -> Entry] /\ q \in Int /\ id \in D
    BY <1>1 DEF QInv, EntriesOK
  <2> HIDE DEF D
  <2>2. QED
    BY <2>1, GoneFields DEF D
<1>3. OpenOK'
  BY <1>1, <1>2 DEF QInv, OpenOK
<1>4. ASSUME NEW x \in DOMAIN ledger PROVE Left(x)' = Held(x)'
  <2>1. Left(x) = Held(x) /\ ledger[x] \in Entry
    BY DEF QInv, LeftIsHeld, EntriesOK
  <2>2. /\ ledger[x].asked \in Int /\ ledger[x].taken \in Int
        /\ ledger[x].made \in Int /\ ledger[x].gone \in Int
    BY <2>1, OrderAssumption DEF Entry, Qtys
  <2>3. CASE x = id
    BY <1>1, <1>2, <2>1, <2>2, <2>3 DEF Left, QInv, OpenOK
  <2>4. CASE x # id
    BY <1>2, <2>1, <2>4 DEF Left
  <2> QED
    BY <2>3, <2>4
<1> QED
  BY <1>1, <1>3, <1>4 DEF QInv, LeftIsHeld

LEMMA DropConserves ==
    ASSUME IInv, LInv, QInv, LDrop, EntriesOK'
    PROVE  QInv'
<1>1. /\ Matching /\ call' = IdleCall /\ UNCHANGED <<order, index>>
      /\ ledger' = Gone(ledger, call.id, call.qty)
  BY DEF LDrop, RestThrows, Return, MatchOver, pool, Gone
<1>2. call.id \in DOMAIN ledger /\ call.id \notin DOMAIN index
  BY <1>1, LedgerIds DEF IInv, IndexOK
<1>3. ~Matching'
  BY <1>1 DEF IdleCall, Matching
<1>4. AtWork(call.id) /\ Held(call.id) = call.qty
  BY <1>1, <1>2 DEF AtWork, Held
<1>5. ASSUME NEW x PROVE x # call.id => Held(x)' = Held(x) /\ (AtWork(x)' => AtWork(x))
  BY <1>1, <1>3 DEF Held, AtWork
<1> DEFINE id == call.id
<1>6. ~(id \in DOMAIN index' \/ (Matching' /\ id = call'.id))
  BY <1>1, <1>2, <1>3
<1>7. PICK k \in DOMAIN ledger : k = call.id
  BY <1>2
<1>8. ~AtWork(k)' /\ Held(k)' = 0
  BY <1>3, <1>6, <1>7 DEF AtWork, Held
<1> QED
  BY <1>1, <1>4, <1>5, <1>7, <1>8, GoneConserves

LEMMA CancelConserves ==
    ASSUME IInv, LInv, QInv, LCancel, EntriesOK'
    PROVE  QInv'
<1>1. PICK id \in DOMAIN index :
         cancel(id) /\ ledger' = Gone(ledger, id, order[index[id]].quantity)
  BY DEF LCancel, Gone
<1>2. order[index[id]].id = id /\ id \in DOMAIN ledger
  BY LedgerIds, RestingFacts DEF IInv
<1>3. UNCHANGED <<order, call>> /\ ~Matching /\ index' = Without(index, id)
  BY <1>1, <1>2 DEF cancel, remove_and_release, Matching
<1>4. /\ DOMAIN index' = DOMAIN index \ {id}
      /\ \A x \in DOMAIN index \ {id} : index'[x] = index[x]
  BY <1>3 DEF Without, Restrict
<1>5. AtWork(id) /\ Held(id) = order[index[id]].quantity
  BY DEF AtWork, Held
<1>6. ~Matching'
  BY <1>3 DEF Matching
<1>7. ~AtWork(id)' /\ Held(id)' = 0
  BY <1>4, <1>6 DEF AtWork, Held
<1>8. ASSUME NEW x \in DOMAIN ledger \ {id}
      PROVE  Held(x)' = Held(x) /\ (AtWork(x)' => AtWork(x))
  BY <1>3, <1>4, <1>6 DEF AtWork, Held
<1> QED
  BY <1>1, <1>2, <1>5, <1>7, <1>8, GoneConserves

LEMMA RestConserves ==
    ASSUME IInv, LInv, QInv, LRest, EntriesOK'
    PROVE  QInv'
<1> DEFINE o == free_head
<1>1. TypeOK /\ IndexOK /\ FreeListOK /\ Rest /\ ledger' = ledger
  BY DEF IInv, LRest
<1>2. /\ DOMAIN index' = DOMAIN index \cup {call.id}
      /\ index'[call.id] = o
      /\ \A i \in DOMAIN index : index'[i] = index[i]
      /\ \A s \in Live : order'[s] = order[s]
      /\ order'[o] = Remainder
  BY <1>1, InLevelAfterRest, RestFacts
<1>3. Matching /\ call' = IdleCall /\ call.id \notin DOMAIN index
  BY <1>1 DEF Rest, MatchOver, IndexOK
<1>4. ~Matching'
  BY <1>3 DEF Matching, IdleCall
<1>5. \A i \in DOMAIN index : index[i] \in Live
  BY <1>1, RestingFacts
<1>6. ASSUME NEW x \in DOMAIN ledger
      PROVE  Held(x)' = Held(x) /\ (AtWork(x)' => AtWork(x))
  <2>1. CASE x = call.id
    BY <1>2, <1>3, <2>1 DEF Held, AtWork, Remainder
  <2>2. CASE x \in DOMAIN index
    BY <1>2, <1>5, <2>2 DEF Held, AtWork
  <2>3. CASE x # call.id /\ x \notin DOMAIN index
    BY <1>2, <1>4, <2>3 DEF Held, AtWork
  <2> QED
    BY <2>1, <2>2, <2>3
<1>7. ASSUME NEW x \in DOMAIN ledger
      PROVE  /\ Left(x)' = Held(x)'
             /\ AtWork(x)' => ledger'[x].gone = 0 /\ ledger'[x].closed = FALSE
  BY <1>1, <1>6, Unmoved
<1> QED
  BY <1>1, <1>7 DEF QInv, LeftIsHeld, OpenOK

LEMMA LTradeConserves ==
    ASSUME IInv, LInv, QInv, LTrade, EntriesOK'
    PROVE  QInv'
<1>1. PICK p \in Prices, o \in Slots :
         /\ FillMaker(p, o) \/ FillTaker(p, o)
         /\ RecordFill(p, o)
         /\ ledger' = Noted(ledger, call.id, order[o].id, FillQty(o))
  <2>1. PICK p \in Prices, o \in Slots : FillMaker(p, o) \/ FillTaker(p, o)
    BY DEF LTrade
  <2>2. RecordFill(p, o)
    BY <2>1 DEF FillMaker, FillTaker
  <2>3. /\ out' = Append(out, [maker_id |-> order[o].id, taker_id |-> call.id,
                               price |-> order[o].price, quantity |-> FillQty(o)])
        /\ out \in Seq(Fill)
    BY <2>2 DEF RecordFill, IInv, TypeOK
  <2>4. /\ out'[Len(out')].maker_id = order[o].id
        /\ out'[Len(out')].taker_id = call.id
        /\ out'[Len(out')].quantity = FillQty(o)
    BY <2>3
  <2>5. ledger' = Noted(ledger, call.id, order[o].id, FillQty(o))
    BY <2>4 DEF LTrade, Noted
  <2> QED
    BY <2>1, <2>2, <2>5
<1>2. \/ index' = index
      \/ index' = Without(index, order[o].id) /\ order[o].quantity = FillQty(o)
  BY <1>1 DEF FillMaker, FillTaker, remove_and_release
<1> QED
  BY <1>1, <1>2, TradeConserves

LEMMA QNextInv == IInv /\ LInv /\ QInv /\ [LNext]_lvars => QInv'
<1> SUFFICES ASSUME IInv, LInv, QInv, [LNext]_lvars PROVE QInv'
  OBVIOUS
<1>1. EntriesOK'
  BY LNextInv DEF LInv, LedgerOK
<1>2. CASE LBegin
  <2>1. 0 \in Prices
    BY OrderAssumption DEF Prices
  <2> QED
    BY <1>1, <1>2, <2>1, BeginConserves DEF LBegin, submit_limit, submit_market
<1>3. CASE LTrade
  BY <1>1, <1>3, LTradeConserves
<1>4. CASE LRest
  BY <1>1, <1>4, RestConserves
<1>5. CASE LDrop
  BY <1>1, <1>5, DropConserves
<1>6. CASE LCancel
  BY <1>1, <1>6, CancelConserves
<1>7. CASE UNCHANGED lvars
  <2>1. UNCHANGED <<next_id, order, index, call, ledger>>
    BY <1>7 DEF lvars, vars
  <2> QED
    BY <2>1 DEF QInv, EntriesOK, LeftIsHeld, OpenOK, Left, Held, AtWork, Matching
<1> QED
  BY <1>2, <1>3, <1>4, <1>5, <1>6, <1>7 DEF LNext

LEMMA QInvariance == LSpec => []QInv
<1>1. LInit => QInv
  <2>1. ASSUME LInit PROVE QInv
    <3>1. DOMAIN ledger = {} /\ EntriesOK
      BY <2>1, LInitInv DEF LInit, Empty, LInv, LedgerOK
    <3> QED
      BY <3>1 DEF QInv, LeftIsHeld, OpenOK
  <2> QED
    BY <2>1
<1>2. IInv /\ LInv /\ QInv /\ [LNext]_lvars => QInv'
  BY QNextInv
<1> QED
  BY <1>1, <1>2, LedgerInvariance, LedgerWatches, Invariance, PTL DEF LSpec

\* No quantity is made or lost, over any history: what an order asked for is what it
\* traded, what left it, and what is still in the book or in the loop
\* (matching_engine.cpp:28-31, :68-77).
THEOREM QuantityIsConserved == LSpec => []QuantityConserved
<1>1. IInv /\ QInv => QuantityConserved
  BY ConservedIsHeld
<1> QED
  BY <1>1, QInvariance, LedgerWatches, Invariance, PTL

-----------------------------------------------------------------------------
(* What is over is over.                                                    *)

\* A step leaves an order that is not at work alone.
LEMMA IdleStays ==
    ASSUME IInv, LInv, LNext, NEW i \in DOMAIN ledger, ~AtWork(i)
    PROVE  /\ ledger'[i].taken = ledger[i].taken /\ ledger'[i].made = ledger[i].made
           /\ i \notin DOMAIN index'
<1>1. /\ next_id \in Nat /\ DOMAIN ledger = 1..(next_id - 1)
      /\ i \notin DOMAIN index /\ (Matching => i # call.id)
  BY LedgerIds DEF AtWork
<1> DEFINE D == DOMAIN ledger
<1>2. ledger \in [D -> Entry]
  BY DEF LInv, LedgerOK, EntriesOK
<1>3. CASE LBegin
  <2>1. call'.id = next_id /\ index' = index /\ ledger' = With(ledger, call'.id, NewEntry(call'))
    BY <1>3 DEF LBegin, submit_limit, submit_market, Begin, pool
  <2>2. ledger'[i] = ledger[i]
    BY <1>1, <2>1 DEF With
  <2> QED
    BY <1>1, <2>1, <2>2
<1>4. CASE LTrade
  <2>1. PICK p \in Prices, o \in Slots : FillMaker(p, o) \/ FillTaker(p, o)
    BY <1>4 DEF LTrade
  <2>2. RecordFill(p, o) /\ TypeOK /\ IndexOK /\ QueuesFIFO
    BY <2>1 DEF FillMaker, FillTaker, IInv
  <2>3. DOMAIN index' \subseteq DOMAIN index
    BY <2>1 DEF FillMaker, FillTaker, remove_and_release, Without, Restrict
  <2>4. /\ order[o].id \in DOMAIN index /\ FillQty(o) \in Int /\ Matching
        /\ order[o].id \in D /\ call.id \in D /\ order[o].id # call.id
    <3>1. o \in Live /\ FillQty(o) \in Nat /\ Matching
      BY <2>2, FillFacts DEF RecordFill
    <3>2. order[o].id \in DOMAIN index
      BY <2>2, <3>1, RestingFacts
    <3> QED
      BY <2>2, <3>1, <3>2, LedgerIds DEF IndexOK
  <2>5. ledger' = Noted(ledger, call.id, order[o].id, FillQty(o))
    <3>1. /\ out' = Append(out, [maker_id |-> order[o].id, taker_id |-> call.id,
                                 price |-> order[o].price, quantity |-> FillQty(o)])
          /\ out \in Seq(Fill)
      BY <2>2 DEF RecordFill, TypeOK
    <3>2. /\ out'[Len(out')].maker_id = order[o].id
          /\ out'[Len(out')].taker_id = call.id
          /\ out'[Len(out')].quantity = FillQty(o)
      BY <3>1
    <3> QED
      BY <1>4, <3>2 DEF LTrade, Noted
  <2>6. i \in D \ {call.id, order[o].id}
    BY <1>1, <2>4
  <2>7. ledger'[i].taken = ledger[i].taken /\ ledger'[i].made = ledger[i].made
    <3> HIDE DEF D
    <3> QED
      BY <1>2, <2>4, <2>5, <2>6, FillFields
  <2> QED
    BY <1>1, <2>3, <2>7
<1>5. CASE LRest
  <2>1. DOMAIN index' = DOMAIN index \cup {call.id} /\ Matching /\ ledger' = ledger
    BY <1>5, InLevelAfterRest, RestFacts DEF IInv, LRest, Rest, MatchOver
  <2> QED
    BY <1>1, <2>1
<1>6. CASE LDrop
  <2>1. index' = index /\ ledger' = Gone(ledger, call.id, call.qty)
        /\ call.id \in D /\ call.qty \in Int
    BY <1>6, LedgerIds, OrderAssumption
    DEF LDrop, RestThrows, Return, MatchOver, pool, Gone, IInv, TypeOK, Call, Qtys
  <2>2. ledger'[i].taken = ledger[i].taken /\ ledger'[i].made = ledger[i].made
    <3>1. i \in D
      OBVIOUS
    <3> HIDE DEF D
    <3> QED
      BY <1>2, <2>1, <3>1, GoneFields
  <2> QED
    BY <1>1, <2>1, <2>2
<1>7. CASE LCancel
  <2>1. PICK id \in DOMAIN index :
           cancel(id) /\ ledger' = Gone(ledger, id, order[index[id]].quantity)
    BY <1>7 DEF LCancel, Gone
  <2>2. DOMAIN index' \subseteq DOMAIN index
    BY <2>1 DEF cancel, remove_and_release, Without, Restrict
  <2>3. id \in D /\ order[index[id]].quantity \in Int
    BY LedgerIds, RestingFacts, LiveFacts, OrderAssumption DEF IInv, OrderRec, Qtys
  <2>4. ledger'[i].taken = ledger[i].taken /\ ledger'[i].made = ledger[i].made
    <3>1. i \in D
      OBVIOUS
    <3> HIDE DEF D
    <3> QED
      BY <1>2, <2>1, <2>3, <3>1, GoneFields
  <2> QED
    BY <1>1, <2>2, <2>4
<1> QED
  BY <1>3, <1>4, <1>5, <1>6, <1>7 DEF LNext

\* Nothing ever happens again to an order that was cancelled, dropped or filled, also
\* when its slot holds another order since (matching_engine.cpp:79-91, :30-38).
THEOREM ClosedOrdersRest == LSpec => ClosedStaysClosed
<1>1. IInv /\ LInv /\ QInv /\ [LNext]_lvars =>
      [\A i \in DOMAIN ledger :
          (ledger[i].closed \/ (Left(i) = 0 /\ ~(Matching /\ call.id = i)))
          => ledger'[i].taken = ledger[i].taken /\ ledger'[i].made = ledger[i].made
             /\ i \notin DOMAIN index']_lvars
  <2> SUFFICES ASSUME IInv, LInv, QInv, LNext, NEW i \in DOMAIN ledger,
                      ledger[i].closed \/ (Left(i) = 0 /\ ~(Matching /\ call.id = i))
               PROVE  /\ ledger'[i].taken = ledger[i].taken
                      /\ ledger'[i].made = ledger[i].made
                      /\ i \notin DOMAIN index'
    OBVIOUS
  <2>1. ~AtWork(i)
    <3>1. CASE ledger[i].closed
      BY <3>1 DEF QInv, OpenOK
    <3>2. CASE Left(i) = 0 /\ ~(Matching /\ call.id = i)
      <4>1. Held(i) = 0
        BY <3>2 DEF QInv, LeftIsHeld
      <4>2. i \notin DOMAIN index
        BY <4>1, HeldFacts
      <4> QED
        BY <3>2, <4>2 DEF AtWork
    <3> QED
      BY <3>1, <3>2
  <2> QED
    BY <2>1, IdleStays
<1> QED
  BY <1>1, QInvariance, LedgerInvariance, LedgerWatches, Invariance, PTL
  DEF LSpec, ClosedStaysClosed

-----------------------------------------------------------------------------
(* What a client is told of the book.                                       *)

\* The links of a level are its orders in the order of their ids, one by one.
LEMMA LevelInOrder ==
    ASSUME IInv, NEW side \in Side, NEW p \in DOMAIN levels[side], NEW S, S = InLevel(side, p),
           NEW id, id = [s \in S |-> order[s].id]
    PROVE  /\ IsFiniteSet(S) /\ Cardinality(S) \in 1..Capacity
           /\ \E e \in [1..Cardinality(S) -> S] :
                 /\ e[1] = levels[side][p].head
                 /\ \A k \in 1..Cardinality(S) :
                       /\ e[k] \in Slots
                       /\ next[e[k]] = IF k = Cardinality(S) THEN NULL ELSE e[k + 1]
<1>1. TypeOK /\ IndexOK /\ QueuesFIFO
  BY DEF IInv
<1>2. PICK head, tail : head = levels[side][p].head /\ tail = levels[side][p].tail
  OBVIOUS
<1>3. /\ head \in S /\ tail \in S
      /\ \A s \in S : id[head] <= id[s] /\ id[s] <= id[tail]
  BY <1>1, <1>2 DEF QueuesFIFO, EndsOK
<1>4. /\ S \subseteq Live /\ S \subseteq Slots
      /\ \A s \in S : id[s] \in Int /\ NextLink(s) /\ LevelOf(s) = S
                      /\ levels[order[s].side][order[s].price].tail = tail
  <2>1. S \subseteq Live /\ \A s \in S : LevelOf(s) = S /\ order[s].side = side /\ order[s].price = p
    BY <1>1, LevelFacts
  <2> QED
    BY <1>1, <1>2, <2>1, LiveFacts DEF QueuesFIFO, LinksOK, Live
<1>5. \A s, t \in S : id[s] = id[t] => s = t
  BY <1>1, <1>4, LiveFacts
<1>6. PICK N : N = Cardinality(S)
  OBVIOUS
<1>7. IsFiniteSet(S) /\ N \in 1..Capacity
  <2>1. IsFiniteSet(Slots) /\ Cardinality(Slots) = Capacity
    BY <1>1, LiveCardinality
  <2>2. IsFiniteSet(S) /\ N <= Capacity
    BY <1>4, <1>6, <2>1, FS_Subset
  <2>3. N \in Nat /\ N # 0
    BY <1>3, <1>6, <2>2, FS_CardinalityType, FS_EmptySet
  <2> QED
    BY <2>2, <2>3, OrderAssumption
<1>8. PICK e \in [1..N -> S] : SortedBy(e, N, S, id)
  <2>1. \A s \in S : id[s] \in Int
    BY ONLY <1>4
  <2>2. IsFiniteSet(S)
    BY <1>7
  <2>3. \E e \in [1..Cardinality(S) -> S] : SortedBy(e, Cardinality(S), S, id)
    BY ONLY <1>5, <2>1, <2>2, SortedExists
  <2> QED
    BY <1>6, <2>3
<1>9. /\ \A k \in 1..N : e[k] \in S /\ id[e[k]] \in Int
      /\ \A s \in S : \E k \in 1..N : e[k] = s
      /\ \A j, k \in 1..N : j < k => id[e[j]] < id[e[k]]
  BY <1>4, <1>8 DEF SortedBy
<1>10. e[1] = head
  <2>1. PICK k \in 1..N : e[k] = head
    BY <1>3, <1>9
  <2>2. 1 \in 1..N /\ (k = 1 \/ 1 < k)
    BY <1>7
  <2>3. ASSUME 1 < k PROVE FALSE
    <3>1. id[e[1]] < id[e[k]]
      BY ONLY <1>9, <2>2, <2>3
    <3>2. id[e[k]] <= id[e[1]] /\ id[e[1]] \in Int /\ id[e[k]] \in Int
      BY ONLY <1>3, <1>9, <2>1, <2>2
    <3> QED
      BY ONLY <3>1, <3>2
  <2> QED
    BY <2>1, <2>2, <2>3
<1>11. ASSUME NEW k \in 1..N
       PROVE  next[e[k]] = IF k = N THEN NULL ELSE e[k + 1]
  <2>1. PICK s : s = e[k]
    OBVIOUS
  <2>2. /\ s \in S /\ id[s] \in Int
        /\ IF next[s] = NULL THEN s = tail
           ELSE /\ next[s] \in S /\ id[s] < id[next[s]]
                /\ \A t \in S : id[t] <= id[s] \/ id[next[s]] <= id[t]
    BY <1>4, <1>9, <2>1 DEF NextLink
  <2>3. ASSUME next[s] # NULL
        PROVE  k # N /\ next[s] = e[k + 1]
    <3>1. PICK j \in 1..N : e[j] = next[s]
      BY <1>9, <2>2, <2>3
    <3>2. id[e[k]] < id[e[j]] /\ id[e[k]] \in Int /\ id[e[j]] \in Int
      BY <1>9, <2>1, <2>2, <2>3, <3>1
    <3>3. ~(j < k) /\ j # k
      <4>1. j < k => id[e[j]] < id[e[k]]
        BY ONLY <1>9, j \in 1..N, k \in 1..N
      <4>2. ~(id[e[j]] < id[e[k]]) /\ e[j] # e[k]
        BY ONLY <3>2
      <4> QED
        BY ONLY <4>1, <4>2
    <3>4. k < j /\ k # N /\ k + 1 \in 1..N
      BY <1>7, <3>3
    <3>5. CASE k + 1 < j
      <4>1. id[e[k]] < id[e[k + 1]] /\ id[e[k + 1]] < id[e[j]] /\ e[k + 1] \in S
            /\ id[e[k + 1]] \in Int
        BY ONLY <1>9, <3>4, <3>5, j \in 1..N, k \in 1..N
      <4>2. id[e[k + 1]] <= id[e[k]] \/ id[e[j]] <= id[e[k + 1]]
        BY <2>1, <2>2, <2>3, <3>1, <4>1
      <4> QED
        BY <3>2, <4>1, <4>2
    <3> QED
      BY <3>1, <3>4, <3>5
  <2>4. ASSUME next[s] = NULL PROVE k = N
    <3>1. s = tail
      BY <2>2, <2>4
    <3>2. CASE k < N
      <4>1. id[e[k]] < id[e[N]] /\ e[N] \in S /\ id[e[N]] \in Int /\ id[e[k]] \in Int
        BY ONLY <1>7, <1>9, <3>2, k \in 1..N
      <4>2. id[e[N]] <= id[e[k]]
        BY <1>3, <2>1, <3>1, <4>1
      <4> QED
        BY <4>1, <4>2
    <3> QED
      BY <1>7, <3>2
  <2> QED
    BY <2>1, <2>3, <2>4
<1> QED
  BY <1>2, <1>4, <1>6, <1>7, <1>9, <1>10, <1>11

\* One step of the walk of count_resting, at giving the orders met before.
WalkStep(head, at) ==
    [k \in 0..Capacity |->
       IF k = 0 THEN head ELSE IF at[k - 1] = NULL THEN NULL ELSE next[at[k - 1]]]

\* Walking a level from its head meets each of its orders once, and ends.
LEMMA WalkMeetsAll ==
    ASSUME IInv, NEW side \in Side, NEW p \in DOMAIN levels[side]
    PROVE  Visited(levels[side][p].head) = Cardinality(InLevel(side, p))
<1>1. PICK S, head : S = InLevel(side, p) /\ head = levels[side][p].head
  OBVIOUS
<1>2. PICK N : N = Cardinality(S)
  OBVIOUS
<1>3. /\ N \in 1..Capacity
      /\ \E e \in [1..N -> S] :
            /\ e[1] = head
            /\ \A k \in 1..N : /\ e[k] \in Slots
                               /\ next[e[k]] = IF k = N THEN NULL ELSE e[k + 1]
  <2>1. PICK id : id = [s \in S |-> order[s].id]
    OBVIOUS
  <2> QED
    BY <1>1, <1>2, <2>1, LevelInOrder
<1>4. PICK e \in [1..N -> S] :
            /\ e[1] = head
            /\ \A k \in 1..N : /\ e[k] \in Slots
                               /\ next[e[k]] = IF k = N THEN NULL ELSE e[k + 1]
  BY <1>3
<1> DEFINE g == [k \in 0..Capacity |-> IF k < N THEN e[k + 1] ELSE NULL]
           at == CHOOSE h : h = WalkStep(head, h)
<1>5. Capacity \in Nat /\ N \in Nat /\ \A k \in 1..N : e[k] # NULL
  BY <1>3, <1>4, OrderAssumption DEF Slots, NULL
<1>6. ASSUME NEW k \in 0..Capacity
      PROVE  g[k] = IF k = 0 THEN head ELSE IF g[k - 1] = NULL THEN NULL ELSE next[g[k - 1]]
  <2>1. CASE k = 0
    BY <1>3, <1>4, <1>5, <2>1
  <2>2. CASE k # 0
    <3>1. k - 1 \in 0..Capacity /\ g[k - 1] = IF k - 1 < N THEN e[k] ELSE NULL
      BY <1>5, <2>2
    <3>2. CASE k - 1 < N
      <4>1. k \in 1..N /\ g[k - 1] = e[k] /\ g[k - 1] # NULL
        BY <1>5, <2>2, <3>1, <3>2
      <4>2. next[e[k]] = IF k = N THEN NULL ELSE e[k + 1]
        BY <1>4, <4>1
      <4>3. g[k] = IF k = N THEN NULL ELSE e[k + 1]
        BY <1>5, <4>1
      <4> HIDE DEF g
      <4> QED
        BY <2>2, <4>1, <4>2, <4>3
    <3>3. CASE ~(k - 1 < N)
      <4>1. g[k - 1] = NULL /\ g[k] = NULL
        BY <1>5, <2>2, <3>1, <3>3
      <4> HIDE DEF g
      <4> QED
        BY <2>2, <4>1
    <3> QED
      BY <3>2, <3>3
  <2> QED
    BY <2>1, <2>2
<1>7. g = WalkStep(head, g)
  <2>1. g = [k \in 0..Capacity |-> g[k]]
    OBVIOUS
  <2> HIDE DEF g
  <2> QED
    BY <1>6, <2>1 DEF WalkStep
<1> HIDE DEF g
<1>8. at = WalkStep(head, at)
  BY <1>7
<1> HIDE DEF at
<1>9. \A k \in 0..Capacity : at[k] = g[k]
  <2> DEFINE T == {k \in 0..Capacity : at[k] # g[k]}
  <2> SUFFICES ASSUME T # {} PROVE FALSE
    OBVIOUS
  <2>1. T \subseteq Nat
    BY <1>5
  <2>2. PICK k \in T : \A j \in T : k <= j
    <3> HIDE DEF T
    <3> QED
      BY <2>1, LeastNatural
  <2>3. at[k] = IF k = 0 THEN head ELSE IF at[k - 1] = NULL THEN NULL ELSE next[at[k - 1]]
    BY <1>8 DEF WalkStep
  <2>4. CASE k = 0
    BY <1>6, <2>2, <2>3, <2>4
  <2>5. CASE k # 0
    <3>1. k - 1 \in 0..Capacity /\ ~(k <= k - 1)
      BY <1>5, <2>2, <2>5
    <3>2. at[k - 1] = g[k - 1]
      BY <2>2, <3>1
    <3> QED
      BY <1>6, <2>2, <2>3, <2>5, <3>2
  <2> QED
    BY <2>4, <2>5
<1>10. \A k \in 0..Capacity : at[k] # NULL <=> k < N
  <2>1. ASSUME NEW k \in 0..Capacity PROVE g[k] # NULL <=> k < N
    <3>1. g[k] = IF k < N THEN e[k + 1] ELSE NULL
      BY DEF g
    <3>2. k < N => k + 1 \in 1..N
      BY <1>5
    <3> QED
      BY <1>5, <3>1, <3>2
  <2> QED
    BY <1>9, <2>1
<1>11. {k \in 0..Capacity : at[k] # NULL} = 0..(N - 1)
  BY <1>3, <1>5, <1>10
<1>12. Visited(head) = Cardinality({k \in 0..Capacity : at[k] # NULL})
  BY DEF Visited, at, WalkStep
<1>13. Cardinality(0..(N - 1)) = N
  <2>1. 0 \in Int /\ N - 1 \in Int /\ ~(0 > N - 1) /\ N - 1 - 0 + 1 = N
    BY <1>3
  <2> QED
    BY <2>1, FS_Interval
<1> QED
  BY <1>1, <1>2, <1>11, <1>12, <1>13

\* count_resting counts each order once, in whichever level it is.
LEMMA CountsAll ==
    ASSUME IInv
    PROVE  count_resting = Cardinality(DOMAIN RestingOrders)
<1>1. TypeOK /\ IndexOK
  BY DEF IInv
<1> DEFINE Of(side) == {s \in Live : order[s].side = side}
<1>2. IsFiniteSet(Live) /\ Cardinality(DOMAIN RestingOrders) = Cardinality(Live)
  BY <1>1, LiveCardinality, RestingFacts
<1>3. ASSUME NEW side \in Side
      PROVE  CountSide(side) = Cardinality(Of(side)) /\ IsFiniteSet(Of(side))
  <2> DEFINE D == DOMAIN levels[side]
             part == [p \in D |-> InLevel(side, p)]
             f == [p \in D |-> Visited(levels[side][p].head)]
  <2>1. IsFiniteSet(D)
    <3>1. D \subseteq Prices
      BY <1>1 DEF TypeOK
    <3>2. IsFiniteSet(Prices)
      BY OrderAssumption, FS_Interval DEF Prices
    <3> QED
      BY <3>1, <3>2, FS_Subset
  <2>2. IsFiniteSet(Of(side))
    BY <1>2, FS_Subset
  <2>3. \A p \in D : IsFiniteSet(part[p]) /\ f[p] = Cardinality(part[p])
    <3>1. ASSUME NEW p \in D PROVE IsFiniteSet(InLevel(side, p))
      BY <1>2, FS_Subset DEF InLevel
    <3> QED
      BY <3>1, WalkMeetsAll
  <2>4. \A p, q \in D : p # q => part[p] \cap part[q] = {}
    BY DEF InLevel
  <2>5. UNION {part[p] : p \in D} = Of(side)
    <3>1. ASSUME NEW s \in Of(side) PROVE \E p \in D : s \in part[p]
      BY <1>1, LiveFacts DEF InLevel
    <3>2. ASSUME NEW p \in D PROVE part[p] \subseteq Of(side)
      BY DEF InLevel
    <3> HIDE DEF part, Of
    <3> QED
      BY <3>1, <3>2
  <2>6. DOMAIN f = D /\ CountSide(side) = SumFunctionOnSet(f, D)
    BY DEF CountSide, SumFunction
  <2> HIDE DEF f, part, Of, D
  <2>7. SumFunctionOnSet(f, D) = Cardinality(UNION {part[p] : p \in D})
    BY <2>1, <2>3, <2>4, SumOfSizes
  <2> QED
    BY <2>2, <2>5, <2>6, <2>7
<1>4. Of("Buy") \cup Of("Sell") = Live /\ Of("Buy") \cap Of("Sell") = {}
  BY <1>1, LiveFacts DEF Side
<1> HIDE DEF Of
<1>5. /\ IsFiniteSet(Of("Buy")) /\ CountSide("Buy") = Cardinality(Of("Buy"))
      /\ IsFiniteSet(Of("Sell")) /\ CountSide("Sell") = Cardinality(Of("Sell"))
  BY <1>3 DEF Side
<1>6. Cardinality(Live) = Cardinality(Of("Buy")) + Cardinality(Of("Sell")) - Cardinality({})
  BY <1>4, <1>5, FS_Union
<1>7. /\ Cardinality(Of("Buy")) \in Nat /\ Cardinality(Of("Sell")) \in Nat
      /\ Cardinality({}) = 0
  BY <1>5, FS_CardinalityType, FS_EmptySet
<1> QED
  BY <1>2, <1>5, <1>6, <1>7 DEF count_resting

\* The order of a map as a key that increases.
PriceKey(side) == [p \in Prices |-> IF side = "Buy" THEN -p ELSE p]

LEMMA KeyFacts ==
    ASSUME NEW side \in Side
    PROVE  /\ \A p \in Prices : PriceKey(side)[p] \in Int
           /\ \A p, q \in Prices :
                 /\ Ahead(side, p, q) <=> PriceKey(side)[p] <= PriceKey(side)[q]
                 /\ PriceKey(side)[p] = PriceKey(side)[q] => p = q
<1>1. \A p \in Prices : p \in Int /\ PriceKey(side)[p] = IF side = "Buy" THEN -p ELSE p
  BY OrderAssumption DEF Prices, PriceKey
<1> QED
  BY <1>1 DEF Ahead

\* From begin() to end() a map shows each of its levels, in its order.
LEMMA InOrderSorted ==
    ASSUME TypeOK, NEW side \in Side, NEW D, D = DOMAIN levels[side],
           NEW N, N = Cardinality(D)
    PROVE  /\ IsFiniteSet(D) /\ N \in Nat /\ D \subseteq Prices
           /\ SortedBy(InOrder(side), N, D, PriceKey(side))
<1>1. D \subseteq Prices
  BY DEF TypeOK
<1>2. IsFiniteSet(D) /\ N \in Nat
  <2>1. IsFiniteSet(Prices)
    BY OrderAssumption, FS_Interval DEF Prices
  <2> QED
    BY <1>1, <2>1, FS_Subset, FS_CardinalityType
<1> DEFINE key == PriceKey(side)
           Line(e) == \A m, n \in DOMAIN e : m < n => e[m] # e[n] /\ Ahead(side, e[m], e[n])
<1>3. /\ \A p \in D : key[p] \in Int
      /\ \A p, q \in D : /\ Ahead(side, p, q) <=> key[p] <= key[q]
                         /\ key[p] = key[q] => p = q
  BY <1>1, KeyFacts
<1> HIDE DEF key
<1>4. \E e \in [1..N -> D] : Line(e)
  <2>1. PICK e \in [1..N -> D] : SortedBy(e, N, D, key)
    BY <1>2, <1>3, SortedExists
  <2>2. ASSUME NEW m \in 1..N, NEW n \in 1..N, m < n
        PROVE  e[m] # e[n] /\ Ahead(side, e[m], e[n])
    <3>1. key[e[m]] < key[e[n]] /\ e[m] \in D /\ e[n] \in D
      BY <2>1, <2>2 DEF SortedBy
    <3>2. key[e[m]] \in Int /\ key[e[n]] \in Int
      BY <1>3, <3>1
    <3> QED
      BY <1>3, <3>1, <3>2
  <2> QED
    BY <2>2
<1>5. PICK e : e = InOrder(side)
  OBVIOUS
<1>6. e \in [1..N -> D] /\ Line(e)
  <2>1. e = CHOOSE line \in [1..N -> D] : Line(line)
    BY <1>5 DEF InOrder
  <2> HIDE DEF Line
  <2> QED
    BY <1>4, <2>1
<1>7. ASSUME NEW m \in 1..N, NEW n \in 1..N, m < n
      PROVE  key[e[m]] < key[e[n]] /\ e[m] # e[n]
  <2>1. e[m] # e[n] /\ Ahead(side, e[m], e[n]) /\ e[m] \in D /\ e[n] \in D
    BY <1>6, <1>7
  <2>2. key[e[m]] <= key[e[n]] /\ key[e[m]] # key[e[n]]
        /\ key[e[m]] \in Int /\ key[e[n]] \in Int
    BY <1>3, <2>1
  <2> QED
    BY <2>1, <2>2
<1>8. \A p \in D : \E k \in 1..N : e[k] = p
  <2>1. IsInjective(e)
    <3> SUFFICES ASSUME NEW m \in 1..N, NEW n \in 1..N, e[m] = e[n], m # n PROVE FALSE
      BY <1>6 DEF IsInjective
    <3>1. m < n \/ n < m
      BY <1>2
    <3> QED
      BY <1>7, <3>1
  <2>2. e \in Injection(1..N, D)
    BY <1>6, <2>1 DEF Injection
  <2>3. Cardinality(1..N) = N
    <3>1. 1 \in Int /\ N \in Int /\ (1 > N => N = 0) /\ N - 1 + 1 = N
      BY <1>2
    <3> QED
      BY <3>1, FS_Interval
  <2>4. e \in Surjection(1..N, D)
    BY <1>2, <2>2, <2>3, FS_Injection
  <2> QED
    BY <2>4 DEF Surjection
<1>9. SortedBy(e, N, D, key)
  BY <1>6, <1>7, <1>8 DEF SortedBy
<1> QED
  BY <1>1, <1>2, <1>5, <1>9 DEF key

\* The prices with orders are those of the levels.
LEMMA QuotedLevels ==
    ASSUME IInv, VolumeOK, NEW side \in Side
    PROVE  /\ Quoted(side) = DOMAIN levels[side]
           /\ \A p \in DOMAIN levels[side] :
                 levels[side][p].total_volume =
                   SumFunctionOnSet([i \in DOMAIN RestingOrders |-> RestingOrders[i].quantity],
                                    RestingAt(side, p)) % WordMod
<1>1. \A p : RestingAt(side, p) = AtPrice(RestingOrders, side, p)
  BY DEF RestingAt, AtPrice
<1>2. DOMAIN levels[side] \subseteq Prices
  BY DEF IInv, TypeOK
<1>3. DOMAIN levels[side] = PricesOf(RestingOrders, side)
  BY LevelVolume
<1>4. \A p : p \in PricesOf(RestingOrders, side) <=> AtPrice(RestingOrders, side, p) # {}
  BY DEF PricesOf, AtPrice
<1>5. Quoted(side) = DOMAIN levels[side]
  BY <1>1, <1>2, <1>3, <1>4 DEF Quoted
<1> QED
  BY <1>1, <1>5, LevelVolume DEF RestingSum

\* The levels of an answer are the best of their side, in order, with what rests.
LEMMA DepthShowsBest ==
    ASSUME IInv, VolumeOK, NEW side \in Side
    PROVE  /\ ShowsBest(Depth(side), side)
           /\ Depth(side) = <<>> <=> DOMAIN levels[side] = {}
           /\ DOMAIN levels[side] # {} => Depth(side)[1].price = BestPrice(side)
<1>1. TypeOK
  BY DEF IInv
<1>2. PICK D, N, e, M : /\ D = DOMAIN levels[side]
                        /\ N = Cardinality(D)
                        /\ e = InOrder(side)
                        /\ M = Lesser(N, DepthCap)
  OBVIOUS
<1>3. IsFiniteSet(D) /\ N \in Nat /\ D \subseteq Prices /\ SortedBy(e, N, D, PriceKey(side))
  BY <1>1, <1>2, InOrderSorted
<1>4. /\ M \in Nat /\ M <= N /\ M = Lesser(DepthCap, N)
      /\ M = 0 <=> N = 0
      /\ 1..M \subseteq 1..N
  BY <1>2, <1>3, DepthAssumption DEF Lesser
<1>5. N = 0 <=> D = {}
  BY <1>2, <1>3, FS_EmptySet
<1>6. Depth(side) = [n \in 1..M |-> [price |-> e[n], vol |-> levels[side][e[n]].total_volume]]
  BY <1>2 DEF Depth
<1>7. PICK shown : shown = Depth(side)
  OBVIOUS
<1>8. /\ DOMAIN shown = 1..M
      /\ \A n \in 1..M : shown[n].price = e[n] /\ shown[n].vol = levels[side][e[n]].total_volume
      /\ shown = [n \in 1..M |-> shown[n]]
  BY <1>6, <1>7
<1>9. Len(shown) = M
  <2>1. IsSeq(shown)
    BY <1>4, <1>8, FunctionIsSeq
  <2>2. Len(shown) \in Nat /\ DOMAIN shown = 1..Len(shown)
    BY <2>1, SeqFacts
  <2> QED
    BY <1>4, <1>8, <2>2
<1>10. ASSUME NEW n \in 1..M
       PROVE  /\ e[n] \in D
              /\ n = Cardinality({q \in D : Ahead(side, q, e[n])})
              /\ shown[n].vol =
                   SumFunctionOnSet([i \in DOMAIN RestingOrders |-> RestingOrders[i].quantity],
                                    RestingAt(side, e[n])) % WordMod
  <2>1. n \in 1..N /\ e[n] \in D
    BY <1>3, <1>4 DEF SortedBy
  <2>2. \A p \in D : PriceKey(side)[p] \in Int
    BY <1>3, KeyFacts
  <2>3. Cardinality({q \in D : PriceKey(side)[q] <= PriceKey(side)[e[n]]}) = n
    BY <1>3, <2>1, <2>2, SortedRank
  <2>4. {q \in D : PriceKey(side)[q] <= PriceKey(side)[e[n]]} = {q \in D : Ahead(side, q, e[n])}
    BY <1>3, <2>1, KeyFacts
  <2> QED
    BY <1>2, <1>8, <2>1, <2>3, <2>4, QuotedLevels
<1>11. ShowsBest(shown, side)
  <2>1. Quoted(side) = D
    BY <1>2, QuotedLevels
  <2> QED
    BY <1>2, <1>4, <1>8, <1>9, <1>10, <2>1 DEF ShowsBest
<1>12. shown = <<>> <=> D = {}
  <2>1. shown = <<>> => M = 0
    BY <1>9
  <2>2. M = 0 => shown = <<>>
    <3>1. IsSeq(shown)
      BY <1>4, <1>8, FunctionIsSeq
    <3> QED
      BY <1>9, <3>1, EmptySeq DEF IsSeq
  <2> QED
    BY <1>4, <1>5, <2>1, <2>2
<1>13. ASSUME D # {} PROVE shown[1].price = BestPrice(side)
  <2>1. 1 \in 1..M /\ 1 \in 1..N
    BY <1>4, <1>5, <1>13
  <2>2. e[1] \in D /\ \A q \in D : Ahead(side, e[1], q)
    <3>1. ASSUME NEW q \in D PROVE Ahead(side, e[1], q)
      <4>1. PICK k \in 1..N : e[k] = q
        BY <1>3 DEF SortedBy
      <4>2. k = 1 \/ 1 < k
        OBVIOUS
      <4>3. 1 < k => PriceKey(side)[e[1]] < PriceKey(side)[e[k]]
        BY <1>3, <2>1 DEF SortedBy
      <4>4. e[1] \in Prices /\ e[k] \in Prices
        BY <1>3, <1>10, <2>1, <4>1
      <4>5. PriceKey(side)[e[1]] \in Int /\ PriceKey(side)[e[k]] \in Int
        BY <4>4, KeyFacts
      <4>6. PriceKey(side)[e[1]] <= PriceKey(side)[e[k]]
        BY <4>2, <4>3, <4>5
      <4> QED
        BY <4>1, <4>4, <4>6, KeyFacts
    <3> QED
      BY <1>10, <2>1, <3>1
  <2>3. IsBegin(side, e[1])
    BY <1>2, <2>2 DEF IsBegin
  <2>4. \A p \in D : IsBegin(side, p) => p = e[1]
    <3> SUFFICES ASSUME NEW p \in D, IsBegin(side, p) PROVE p = e[1]
      OBVIOUS
    <3>1. Ahead(side, p, e[1]) /\ Ahead(side, e[1], p) /\ p \in Int /\ e[1] \in Int
      BY <1>2, <1>3, <2>2, OrderAssumption DEF IsBegin, Prices
    <3> QED
      BY <3>1 DEF Ahead
  <2>5. BestPrice(side) = e[1]
    BY <1>2, <2>2, <2>3, <2>4 DEF BestPrice
  <2> QED
    BY <1>8, <2>1, <2>5
<1> QED
  BY <1>2, <1>7, <1>11, <1>12, <1>13

\* What a client is told is what rests, for any capacity, prices, quantities, word
\* and number of levels shown (shared_state.hpp:60-74, :106-124).
THEOREM AnswersFaithful == Spec => []ResponseFaithful
<1>1. ASSUME IInv, VolumeOK PROVE ResponseFaithful
  <2>1. /\ build_response.resting = count_resting /\ build_response.mid = compute_mid
        /\ build_response.bids = Depth("Buy") /\ build_response.asks = Depth("Sell")
    BY DEF build_response
  <2>2. "Buy" \in Side /\ "Sell" \in Side /\ \A side \in Side : side = "Buy" \/ side = "Sell"
    BY DEF Side
  <2>3. build_response.resting = Cardinality(DOMAIN RestingOrders)
    BY <1>1, <2>1, CountsAll
  <2>4. ShowsBest(build_response.bids, "Buy") /\ ShowsBest(build_response.asks, "Sell")
    BY <1>1, <2>1, <2>2, DepthShowsBest
  <2>5. /\ Depth("Buy") = <<>> <=> DOMAIN levels["Buy"] = {}
        /\ Depth("Sell") = <<>> <=> DOMAIN levels["Sell"] = {}
        /\ DOMAIN levels["Buy"] # {} => Depth("Buy")[1].price = BestPrice("Buy")
        /\ DOMAIN levels["Sell"] # {} => Depth("Sell")[1].price = BestPrice("Sell")
    BY <1>1, <2>2, DepthShowsBest
  <2>6. (\E side \in Side : DOMAIN levels[side] = {})
        <=> DOMAIN levels["Buy"] = {} \/ DOMAIN levels["Sell"] = {}
    BY <2>2
  <2>7. build_response.mid =
           IF build_response.bids = <<>> \/ build_response.asks = <<>> THEN 0
           ELSE build_response.bids[1].price + build_response.asks[1].price
    BY <2>1, <2>5, <2>6 DEF compute_mid
  <2> QED
    BY <2>3, <2>4, <2>7 DEF ResponseFaithful
<1> QED
  BY <1>1, Invariance, VolumesCorrect, PTL
===============================================================================
