------------------------- MODULE MatchingEngineProofs -------------------------
(***************************************************************************)
(* Proofs about MatchingEngine, for every capacity, price range, quantity  *)
(* range, word size and number of submissions.                             *)
(*                                                                         *)
(* None of the invariants is inductive by itself: a slot has the type of a *)
(* fill only because the head of a level is a live slot, the links of a    *)
(* level stay a list only because the free list is disjoint from it, and   *)
(* the book stays uncrossed only because begin() of a map exists and is    *)
(* the best price.  IInv is their conjunction, and it is inductive.        *)
(*                                                                         *)
(* The last part shows from it that the engine, with its lists, slots and  *)
(* maps, implements LimitOrderBook and that its sweeps follow price-time   *)
(* priority: the head of the best level is the oldest of the best orders,  *)
(* and acquire fails only when every slot holds an order.                  *)
(***************************************************************************)
EXTENDS MatchingEngine, DataFacts

IInv == TypeOK /\ IndexOK /\ QueuesFIFO /\ FreeListOK /\ NotCrossed

-----------------------------------------------------------------------------
(* Helpers of OrderTypes and of the levels.                                 *)

\* What erasing a key leaves: every other key, with its value.
LEMMA WithoutFacts ==
    ASSUME NEW m, NEW k
    PROVE  /\ DOMAIN Without(m, k) = DOMAIN m \ {k}
           /\ \A x \in DOMAIN m \ {k} : Without(m, k)[x] = m[x]
BY DEF Without, Restrict

\* What setting a key leaves: every other key with its value, and the new one.
LEMMA WithFacts ==
    ASSUME NEW m, NEW k, NEW v
    PROVE  /\ DOMAIN With(m, k, v) = DOMAIN m \cup {k}
           /\ With(m, k, v)[k] = v
           /\ \A x \in DOMAIN m \ {k} : With(m, k, v)[x] = m[x]
BY DEF With

LEMMA SideFacts ==
    ASSUME NEW side \in Side
    PROVE  /\ Opposite(side) \in Side
           /\ Opposite(side) # side
           /\ Opposite(Opposite(side)) = side
BY DEF Side, Opposite

\* PutLevel erases an emptied level, stores any other, and leaves the rest.
LEMMA PutLevelFacts ==
    ASSUME DOMAIN levels = Side, NEW side \in Side, NEW p, NEW lvl,
           NEW L, L = PutLevel(side, p, lvl)
    PROVE  /\ DOMAIN L = Side
           /\ \A s \in Side \ {side} : L[s] = levels[s]
           /\ LevelEmpty(lvl) => DOMAIN L[side] = DOMAIN levels[side] \ {p}
           /\ ~LevelEmpty(lvl) => /\ DOMAIN L[side] = DOMAIN levels[side] \cup {p}
                                  /\ L[side][p] = lvl
           /\ \A q \in DOMAIN levels[side] \ {p} : L[side][q] = levels[side][q]
<1>1. /\ DOMAIN L = Side
      /\ \A s \in Side \ {side} : L[s] = levels[s]
      /\ L[side] = IF LevelEmpty(lvl) THEN Without(levels[side], p)
                   ELSE With(levels[side], p, lvl)
  BY DEF PutLevel
<1>2. CASE LevelEmpty(lvl)
  <2>1. L[side] = Without(levels[side], p)
    BY <1>1, <1>2
  <2>2. /\ DOMAIN L[side] = DOMAIN levels[side] \ {p}
        /\ \A x \in DOMAIN levels[side] \ {p} : L[side][x] = levels[side][x]
    BY <2>1 DEF Without, Restrict
  <2> QED
    BY <1>1, <1>2, <2>2
<1>3. CASE ~LevelEmpty(lvl)
  <2>1. L[side] = With(levels[side], p, lvl)
    BY <1>1, <1>3
  <2>2. /\ DOMAIN L[side] = DOMAIN levels[side] \cup {p}
        /\ L[side][p] = lvl
        /\ \A x \in DOMAIN levels[side] \ {p} : L[side][x] = levels[side][x]
    BY <2>1 DEF With
  <2> QED
    BY <1>1, <1>3, <2>2
<1> QED
  BY <1>2, <1>3

LevelsTyped ==
    /\ DOMAIN levels = Side
    /\ \A side \in Side : /\ DOMAIN levels[side] \subseteq Prices
                          /\ levels[side] \in [DOMAIN levels[side] -> PriceLevel]

\* PutLevel keeps the maps of levels typed.
LEMMA PutLevelTyped ==
    ASSUME LevelsTyped, NEW side \in Side, NEW p \in Prices, NEW lvl \in PriceLevel,
           levels' = PutLevel(side, p, lvl)
    PROVE  LevelsTyped'
<1>1. /\ DOMAIN levels' = Side
      /\ \A s \in Side \ {side} : levels'[s] = levels[s]
      /\ levels'[side] = IF LevelEmpty(lvl) THEN Without(levels[side], p)
                         ELSE With(levels[side], p, lvl)
  BY DEF PutLevel, LevelsTyped
<1>2. DOMAIN levels[side] \subseteq Prices /\ levels[side] \in [DOMAIN levels[side] -> PriceLevel]
  BY DEF LevelsTyped
<1>3. /\ DOMAIN levels'[side] \subseteq Prices
      /\ levels'[side] \in [DOMAIN levels'[side] -> PriceLevel]
  <2>1. CASE LevelEmpty(lvl)
    <3>1. levels'[side] = Without(levels[side], p)
      BY <1>1, <2>1
    <3> QED
      BY <1>2, <3>1 DEF Without, Restrict
  <2>2. CASE ~LevelEmpty(lvl)
    <3>1. levels'[side] = With(levels[side], p, lvl)
      BY <1>1, <2>2
    <3> QED
      BY <1>2, <3>1 DEF With
  <2> QED
    BY <2>1, <2>2
<1> QED
  BY <1>1, <1>3 DEF LevelsTyped

-----------------------------------------------------------------------------
(* Live slots.                                                              *)

\* What is known of a live slot, and that an id is in one slot only.
LEMMA LiveFacts ==
    ASSUME TypeOK, IndexOK
    PROVE  /\ \A s \in Live : /\ s \in Slots
                             /\ order[s] \in OrderRec
                             /\ order[s].side \in Side
                             /\ order[s].price \in Prices
                             /\ order[s].id \in 1..(next_id - 1)
                             /\ order[s].id \in Nat
                             /\ order[s].quantity > 0
                             /\ order[s].price \in DOMAIN levels[order[s].side]
                             /\ s \in LevelOf(s)
           /\ \A s, t \in Live : order[s].id = order[t].id => s = t
           /\ \A i \in DOMAIN index : index[i] \in Live /\ order[index[i]].id = i
<1>1. \A i \in DOMAIN index : index[i] \in Slots /\ order[index[i]].id = i
  BY DEF TypeOK, IndexOK
<1>2. \A i \in DOMAIN index : index[i] \in Live
  BY <1>1 DEF Live
<1>3. \A s \in Live : s \in Slots /\ order[s].id \in DOMAIN index /\ index[order[s].id] = s
  BY DEF Live
<1>4. \A s \in Live : /\ order[s].quantity > 0
                      /\ order[s].price \in DOMAIN levels[order[s].side]
  BY <1>3 DEF IndexOK
<1>5. \A s \in Live : order[s] \in OrderRec
  BY <1>3 DEF TypeOK
<1>6. \A s \in Live : /\ order[s].side \in Side
                      /\ order[s].price \in Prices
                      /\ order[s].id \in Nat
  BY <1>5, OrderAssumption DEF OrderRec
<1>7. \A s \in Live : s \in LevelOf(s)
  BY DEF LevelOf, InLevel
<1>8. \A s \in Live : order[s].id \in 1..(next_id - 1)
  BY <1>3 DEF TypeOK
<1> QED
  BY <1>1, <1>2, <1>3, <1>4, <1>5, <1>6, <1>7, <1>8

\* The head and the tail of a level, its links, in terms of its slots.
LEMMA LevelFacts ==
    ASSUME TypeOK, IndexOK, NEW side \in Side, NEW p \in DOMAIN levels[side]
    PROVE  /\ p \in Prices
           /\ levels[side][p] \in PriceLevel
           /\ InLevel(side, p) \subseteq Live
           /\ \A s \in InLevel(side, p) : /\ LevelOf(s) = InLevel(side, p)
                                         /\ order[s].side = side
                                         /\ order[s].price = p
BY DEF TypeOK, InLevel, LevelOf

-----------------------------------------------------------------------------
(* remove_and_release.                                                      *)

\* Exactly the removed slot stops being live.
LEMMA LiveAfterRemove ==
    ASSUME TypeOK, IndexOK, NEW o \in Live,
           index' = Without(index, order[o].id),
           \A s \in Slots : order'[s].id = order[s].id
    PROVE  Live' = Live \ {o}
<1>1. /\ DOMAIN index' = DOMAIN index \ {order[o].id}
      /\ \A i \in DOMAIN index \ {order[o].id} : index'[i] = index[i]
  BY DEF Without, Restrict
<1>2. \A s \in Live \ {o} : order[s].id # order[o].id
  BY LiveFacts
<1> QED
  BY <1>1, <1>2 DEF Live

\* Which levels remove_and_release leaves, and the ends of the one it changes.
LEMMA LevelsAfterRemove ==
    ASSUME TypeOK, IndexOK, QueuesFIFO, NEW o \in Live, NEW q \in Nat,
           NEW sd, sd = order[o].side, NEW pr, pr = order[o].price,
           remove_and_release(o, q)
    PROVE  /\ LevelsTyped'
           /\ DOMAIN levels' = Side
           /\ \A side \in Side : DOMAIN levels'[side] \subseteq DOMAIN levels[side]
           /\ \A side \in Side, p \in Prices :
                 side # sd \/ p # pr =>
                    /\ p \in DOMAIN levels'[side] <=> p \in DOMAIN levels[side]
                    /\ p \in DOMAIN levels[side] => levels'[side][p] = levels[side][p]
           /\ pr \in DOMAIN levels'[sd] <=> prev[o] # NULL \/ next[o] # NULL
           /\ pr \in DOMAIN levels'[sd] =>
                 /\ levels'[sd][pr] \in PriceLevel
                 /\ levels'[sd][pr].head =
                       IF prev[o] # NULL THEN levels[sd][pr].head ELSE next[o]
                 /\ levels'[sd][pr].tail =
                       IF next[o] # NULL THEN levels[sd][pr].tail ELSE prev[o]
<1> DEFINE lvl == levels[sd][pr]
           nl  == Remove(SubVolume(lvl, q), o)
<1>1. /\ o \in Slots
      /\ sd \in Side
      /\ pr \in DOMAIN levels[sd]
      /\ lvl \in PriceLevel
      /\ lvl.head \in Slots
      /\ DOMAIN levels = Side
      /\ prev[o] \in Slots \cup {NULL}
      /\ next[o] \in Slots \cup {NULL}
  <2>1. o \in Slots /\ sd \in Side /\ pr \in DOMAIN levels[sd]
    BY LiveFacts
  <2>2. lvl.head \in Slots
    BY <2>1 DEF QueuesFIFO, EndsOK, InLevel, Live
  <2> QED
    BY <2>1, <2>2 DEF TypeOK
<1>2. (lvl.total_volume - q) % WordMod \in 0..(WordMod - 1)
  <2>1. lvl.total_volume \in Int /\ WordMod \in Nat /\ WordMod > 0
    BY <1>1, WordAssumption, OrderAssumption DEF PriceLevel
  <2> HIDE DEF lvl
  <2> QED
    BY <2>1
<1>3. /\ nl \in PriceLevel
      /\ nl.head = IF prev[o] # NULL THEN lvl.head ELSE next[o]
      /\ nl.tail = IF next[o] # NULL THEN lvl.tail ELSE prev[o]
  <2> HIDE DEF lvl
  <2> QED
    BY <1>1, <1>2 DEF PriceLevel, Remove, SubVolume
<1>4. NULL \notin Slots
  BY DEF NULL, Slots
<1>5. LevelEmpty(nl) <=> prev[o] = NULL /\ next[o] = NULL
  BY <1>1, <1>3, <1>4 DEF LevelEmpty
<1>6. levels' = PutLevel(sd, pr, nl)
  BY DEF remove_and_release
<1> HIDE DEF nl
<1>12. LevelsTyped'
  <2>1. LevelsTyped /\ pr \in Prices
    BY <1>1 DEF TypeOK, LevelsTyped
  <2> QED
    BY <1>1, <1>3, <1>6, <2>1, PutLevelTyped
<1>7. /\ DOMAIN levels' = Side
      /\ \A s \in Side \ {sd} : levels'[s] = levels[s]
      /\ LevelEmpty(nl) => DOMAIN levels'[sd] = DOMAIN levels[sd] \ {pr}
      /\ ~LevelEmpty(nl) => /\ DOMAIN levels'[sd] = DOMAIN levels[sd] \cup {pr}
                            /\ levels'[sd][pr] = nl
      /\ \A p \in DOMAIN levels[sd] \ {pr} : levels'[sd][p] = levels[sd][p]
  BY <1>1, <1>6, PutLevelFacts
<1>8. \A side \in Side : DOMAIN levels'[side] \subseteq DOMAIN levels[side]
  BY <1>1, <1>7
<1>9. ASSUME NEW side \in Side, NEW p \in Prices, side # sd \/ p # pr
      PROVE  /\ p \in DOMAIN levels'[side] <=> p \in DOMAIN levels[side]
             /\ p \in DOMAIN levels[side] => levels'[side][p] = levels[side][p]
  BY <1>7, <1>9
<1>10. pr \in DOMAIN levels'[sd] <=> ~LevelEmpty(nl)
  BY <1>7
<1>11. pr \in DOMAIN levels'[sd] => levels'[sd][pr] = nl
  BY <1>7, <1>10
<1> QED
  BY <1>3, <1>5, <1>7, <1>8, <1>9, <1>10, <1>11, <1>12

\* A step that changes no slot's order, but perhaps its quantity.
SameOrders ==
    \A s \in Slots : /\ order'[s].id = order[s].id
                     /\ order'[s].side = order[s].side
                     /\ order'[s].price = order[s].price

\* The orders of every level after a removal.
LEMMA InLevelAfterRemove ==
    ASSUME TypeOK, IndexOK, NEW o \in Live, NEW q, remove_and_release(o, q),
           SameOrders
    PROVE  /\ Live' = Live \ {o}
           /\ \A side, p : InLevel(side, p)' = InLevel(side, p) \ {o}
           /\ \A s \in Live' : LevelOf(s)' = LevelOf(s) \ {o}
<1>1. Live' = Live \ {o}
  BY LiveAfterRemove DEF remove_and_release, SameOrders
<1>2. \A s \in Live : s \in Slots
  BY DEF Live
<1>3. ASSUME NEW side, NEW p
      PROVE  InLevel(side, p)' = InLevel(side, p) \ {o}
  BY <1>1, <1>2 DEF InLevel, SameOrders
<1>4. ASSUME NEW s \in Live'
      PROVE  LevelOf(s)' = LevelOf(s) \ {o}
  BY <1>1, <1>2, <1>3 DEF LevelOf, SameOrders
<1> QED
  BY <1>1, <1>3, <1>4

\* Before the removal, an order without a predecessor is the head and one
\* without a successor the tail; the others are strictly between.
LEMMA Neighbours ==
    ASSUME TypeOK, IndexOK, QueuesFIFO, NEW o \in Live
    PROVE  LET lvl == levels[order[o].side][order[o].price]
           IN  /\ prev[o] = NULL <=> o = lvl.head
               /\ next[o] = NULL <=> o = lvl.tail
               /\ prev[o] # NULL => /\ prev[o] \in LevelOf(o)
                                    /\ prev[o] # o
                                    /\ next[prev[o]] = o
                                    /\ order[prev[o]].id < order[o].id
               /\ next[o] # NULL => /\ next[o] \in LevelOf(o)
                                    /\ next[o] # o
                                    /\ prev[next[o]] = o
                                    /\ order[o].id < order[next[o]].id
<1> DEFINE lvl == levels[order[o].side][order[o].price]
<1>1. /\ LevelOf(o) \subseteq Live
      /\ o \in LevelOf(o)
      /\ \A s \in LevelOf(o) : /\ order[s].id \in Nat
                               /\ order[lvl.head].id <= order[s].id
                               /\ order[s].id <= order[lvl.tail].id
      /\ lvl.head \in LevelOf(o)
      /\ lvl.tail \in LevelOf(o)
  <2>1. order[o].side \in Side /\ order[o].price \in DOMAIN levels[order[o].side]
    BY LiveFacts
  <2>2. /\ LevelOf(o) \subseteq Live
        /\ \A s \in LevelOf(o) : order[s].id \in Nat
        /\ o \in LevelOf(o)
    BY LiveFacts DEF LevelOf, InLevel
  <2> QED
    BY <2>1, <2>2 DEF QueuesFIFO, EndsOK, LevelOf
<1>2. NULL \notin Live
  BY DEF NULL, Live, Slots
<1>3. prev[o] # NULL => prev[o] \in LevelOf(o) /\ next[prev[o]] = o
  BY DEF QueuesFIFO, LinksOK, PrevLink
<1>4. prev[o] # NULL => order[prev[o]].id < order[o].id
  BY <1>1, <1>2, <1>3 DEF QueuesFIFO, LinksOK, NextLink
<1>5. next[o] # NULL => /\ next[o] \in LevelOf(o)
                        /\ prev[next[o]] = o
                        /\ order[o].id < order[next[o]].id
  BY DEF QueuesFIFO, LinksOK, NextLink
<1>6. prev[o] = NULL => o = lvl.head
  BY DEF QueuesFIFO, LinksOK, PrevLink
<1>7. next[o] = NULL => o = lvl.tail
  BY DEF QueuesFIFO, LinksOK, NextLink
<1>8. prev[o] # NULL => o # lvl.head /\ prev[o] # o
  BY <1>1, <1>3, <1>4
<1>9. next[o] # NULL => o # lvl.tail /\ next[o] # o
  BY <1>1, <1>5
<1> QED
  BY <1>3, <1>4, <1>5, <1>6, <1>7, <1>8, <1>9

\* The links that remove_and_release leaves among the orders that stay.
LEMMA LinksAfterRemove ==
    ASSUME TypeOK, NEW o \in Live, NEW q, remove_and_release(o, q)
    PROVE  /\ \A s \in Slots \ {o} :
                 /\ next'[s] = IF s = prev[o] THEN next[o] ELSE next[s]
                 /\ prev'[s] = IF s = next[o] THEN prev[o] ELSE prev[s]
           /\ next'[o] = free_head
           /\ free_head' = o
<1>1. o \in Slots
  BY DEF Live
<1> QED
  BY <1>1 DEF remove_and_release, NextWithRemoved, PrevWithRemoved

\* Splicing an order out keeps every queue a FIFO.
LEMMA QueuesAfterRemove ==
    ASSUME TypeOK, IndexOK, QueuesFIFO, NEW o \in Live, NEW q \in Nat,
           remove_and_release(o, q), SameOrders
    PROVE  QueuesFIFO'
<1> DEFINE sd  == order[o].side
           pr  == order[o].price
           lvl == levels[sd][pr]
<1>1. /\ Live' = Live \ {o}
      /\ \A side, p : InLevel(side, p)' = InLevel(side, p) \ {o}
      /\ \A s \in Live' : LevelOf(s)' = LevelOf(s) \ {o}
  BY InLevelAfterRemove
<1>2. /\ \A side \in Side : DOMAIN levels'[side] \subseteq DOMAIN levels[side]
      /\ \A side \in Side, p \in Prices :
            (side # sd \/ p # pr) /\ p \in DOMAIN levels[side]
            => levels'[side][p] = levels[side][p]
      /\ pr \in DOMAIN levels'[sd] <=> prev[o] # NULL \/ next[o] # NULL
      /\ pr \in DOMAIN levels'[sd] =>
            /\ levels'[sd][pr].head = IF prev[o] # NULL THEN lvl.head ELSE next[o]
            /\ levels'[sd][pr].tail = IF next[o] # NULL THEN lvl.tail ELSE prev[o]
  BY LevelsAfterRemove
<1>3. /\ prev[o] = NULL <=> o = lvl.head
      /\ next[o] = NULL <=> o = lvl.tail
      /\ prev[o] # NULL => /\ prev[o] \in LevelOf(o)
                           /\ prev[o] # o
                           /\ next[prev[o]] = o
                           /\ order[prev[o]].id < order[o].id
      /\ next[o] # NULL => /\ next[o] \in LevelOf(o)
                           /\ next[o] # o
                           /\ prev[next[o]] = o
                           /\ order[o].id < order[next[o]].id
  BY Neighbours
<1>4. \A s \in Slots \ {o} :
         /\ next'[s] = IF s = prev[o] THEN next[o] ELSE next[s]
         /\ prev'[s] = IF s = next[o] THEN prev[o] ELSE prev[s]
  BY LinksAfterRemove
<1>5. /\ \A s \in Live : /\ s \in Slots
                        /\ order[s].id \in Nat
                        /\ order[s].side \in Side
                        /\ order[s].price \in Prices
                        /\ order[s].price \in DOMAIN levels[order[s].side]
                        /\ s \in LevelOf(s)
                        /\ LevelOf(s) \subseteq Live
      /\ \A s, t \in Live : order[s].id = order[t].id => s = t
      /\ \A s \in Live : \A t \in LevelOf(s) : LevelOf(t) = LevelOf(s)
      /\ \A s \in Live : s \in LevelOf(o) <=> order[s].side = sd /\ order[s].price = pr
  BY LiveFacts DEF LevelOf, InLevel
<1>6. EndsOK'
  <2> SUFFICES ASSUME NEW side \in Side, NEW p \in DOMAIN levels'[side]
               PROVE  LET new == levels'[side][p]
                          rest == InLevel(side, p) \ {o}
                      IN  /\ new.head \in rest
                          /\ new.tail \in rest
                          /\ \A s \in rest : /\ order[new.head].id <= order[s].id
                                             /\ order[s].id <= order[new.tail].id
    <3>1. \A side, p : \A s \in InLevel(side, p) : order'[s].id = order[s].id
      BY <1>5 DEF InLevel, SameOrders
    <3>2. DOMAIN levels' = Side
      BY LevelsAfterRemove
    <3> QED
      BY <1>1, <3>1, <3>2 DEF EndsOK
  <2>1. /\ p \in DOMAIN levels[side]
        /\ p \in Prices
        /\ InLevel(side, p) \subseteq Live
        /\ levels[side][p].head \in InLevel(side, p)
        /\ levels[side][p].tail \in InLevel(side, p)
        /\ \A s \in InLevel(side, p) :
              /\ order[levels[side][p].head].id <= order[s].id
              /\ order[s].id <= order[levels[side][p].tail].id
    BY <1>2, LevelFacts DEF QueuesFIFO, EndsOK
  <2>2. CASE side # sd \/ p # pr
    <3>1. o \notin InLevel(side, p)
      BY <2>2 DEF InLevel
    <3> QED
      BY <1>2, <2>1, <2>2, <3>1
  <2>3. CASE side = sd /\ p = pr
    <3>1. InLevel(side, p) = LevelOf(o)
      BY <2>3 DEF LevelOf
    <3>2. LET h == levels'[side][p].head
          IN  h \in LevelOf(o) \ {o} /\ \A s \in LevelOf(o) \ {o} : order[h].id <= order[s].id
      <4>1. CASE prev[o] # NULL
        BY <1>2, <1>3, <2>1, <2>3, <3>1, <4>1
      <4>2. CASE prev[o] = NULL
        <5>1. next[o] # NULL /\ levels'[side][p].head = next[o]
          BY <1>2, <2>3, <4>2
        <5>2. \A s \in LevelOf(o) : \/ order[s].id <= order[o].id
                                    \/ order[next[o]].id <= order[s].id
          BY <5>1 DEF QueuesFIFO, LinksOK, NextLink
        <5>3. \A s \in LevelOf(o) \ {o} : order[o].id <= order[s].id /\ order[o].id # order[s].id
          BY <1>3, <1>5, <2>1, <2>3, <3>1, <4>2
        <5>4. \A s \in LevelOf(o) : order[s].id \in Nat
          BY <1>5
        <5>5. \A s \in LevelOf(o) \ {o} : order[next[o]].id <= order[s].id
          BY <1>5, <5>2, <5>3, <5>4
        <5> QED
          BY <1>3, <5>1, <5>5
      <4> QED
        BY <4>1, <4>2
    <3>3. LET t == levels'[side][p].tail
          IN  t \in LevelOf(o) \ {o} /\ \A s \in LevelOf(o) \ {o} : order[s].id <= order[t].id
      <4>1. CASE next[o] # NULL
        BY <1>2, <1>3, <2>1, <2>3, <3>1, <4>1
      <4>2. CASE next[o] = NULL
        <5>1. prev[o] # NULL /\ levels'[side][p].tail = prev[o]
          BY <1>2, <2>3, <4>2
        <5>2. prev[o] \in Live /\ next[prev[o]] = o /\ LevelOf(prev[o]) = LevelOf(o)
          BY <1>3, <1>5, <5>1
        <5>3. \A s \in LevelOf(o) : \/ order[s].id <= order[prev[o]].id
                                    \/ order[o].id <= order[s].id
          <6>1. next[prev[o]] # NULL
            BY <1>5, <5>2 DEF NULL, Slots
          <6> QED
            BY <5>2, <6>1 DEF QueuesFIFO, LinksOK, NextLink
        <5>4. \A s \in LevelOf(o) \ {o} : order[s].id <= order[o].id /\ order[o].id # order[s].id
          BY <1>3, <1>5, <2>1, <2>3, <3>1, <4>2
        <5>5. \A s \in LevelOf(o) : order[s].id \in Nat
          BY <1>5
        <5>6. \A s \in LevelOf(o) \ {o} : order[s].id <= order[prev[o]].id
          BY <1>5, <5>3, <5>4, <5>5
        <5> QED
          BY <1>3, <5>1, <5>6
      <4> QED
        BY <4>1, <4>2
    <3> QED
      BY <3>1, <3>2, <3>3
  <2> QED
    BY <2>2, <2>3
<1>7. ASSUME NEW s \in Live'
      PROVE  /\ s \in Live
             /\ s # o
             /\ s \in Slots
             /\ order'[s] .id = order[s].id
             /\ order'[s].side = order[s].side
             /\ order'[s].price = order[s].price
             /\ LevelOf(s)' = LevelOf(s) \ {o}
             /\ s \in LevelOf(o) \/ levels'[order[s].side][order[s].price]
                                      = levels[order[s].side][order[s].price]
             /\ s \in LevelOf(o) =>
                   /\ order[s].side = sd
                   /\ order[s].price = pr
                   /\ LevelOf(s) = LevelOf(o)
                   /\ levels'[sd][pr].head = IF prev[o] # NULL THEN lvl.head ELSE next[o]
                   /\ levels'[sd][pr].tail = IF next[o] # NULL THEN lvl.tail ELSE prev[o]
  <2>1. s \in Live /\ s # o /\ s \in Slots
    BY <1>1, <1>5
  <2>2. s \in LevelOf(o) \/ levels'[order[s].side][order[s].price]
                             = levels[order[s].side][order[s].price]
    <3>1. s \in LevelOf(o) \/ order[s].side # sd \/ order[s].price # pr
      BY <2>1 DEF LevelOf, InLevel
    <3> QED
      BY <1>2, <1>5, <2>1, <3>1
  <2>3. s \in LevelOf(o) => prev[o] # NULL \/ next[o] # NULL
    <3>1. s \in LevelOf(o) => order[lvl.head].id <= order[s].id /\ order[s].id <= order[lvl.tail].id
      BY <1>5 DEF QueuesFIFO, EndsOK, LevelOf
    <3>2. prev[o] = NULL /\ next[o] = NULL => o = lvl.head /\ o = lvl.tail
      BY <1>3
    <3>3. order[s].id \in Nat /\ order[o].id \in Nat /\ order[s].id # order[o].id
      BY <1>5, <2>1
    <3> QED
      BY <3>1, <3>2, <3>3
  <2>4. /\ order'[s].id = order[s].id
        /\ order'[s].side = order[s].side
        /\ order'[s].price = order[s].price
    BY <2>1 DEF SameOrders
  <2>5. LevelOf(s)' = LevelOf(s) \ {o}
    BY <1>1, <2>1
  <2>6. s \in LevelOf(o) => /\ order[s].side = sd
                           /\ order[s].price = pr
                           /\ LevelOf(s) = LevelOf(o)
    BY <1>5, <2>1
  <2>7. s \in LevelOf(o) =>
           /\ levels'[sd][pr].head = IF prev[o] # NULL THEN lvl.head ELSE next[o]
           /\ levels'[sd][pr].tail = IF next[o] # NULL THEN lvl.tail ELSE prev[o]
    BY <1>2, <2>3
  <2> QED
    BY <2>1, <2>2, <2>4, <2>5, <2>6, <2>7
<1>8. ASSUME NEW s \in Live'
      PROVE  NextLink(s)'
  <2>1. NextLink(s)
    BY <1>7 DEF QueuesFIFO, LinksOK
  <2>2. \A t \in LevelOf(s) \cup LevelOf(o) : t \in Slots /\ order'[t].id = order[t].id
    BY <1>5, <1>7 DEF SameOrders
  <2>3. o \notin LevelOf(s)' /\ LevelOf(s)' \subseteq LevelOf(s)
    BY <1>7
  <2>4. CASE s = prev[o]
    <3>1. /\ next'[s] = next[o]
          /\ next[s] = o
          /\ s \in LevelOf(o)
          /\ LevelOf(s)' = LevelOf(o) \ {o}
      BY <1>3, <1>4, <1>5, <1>7, <2>4 DEF NULL, Slots
    <3>2. CASE next[o] = NULL
      BY <1>7, <2>4, <3>1, <3>2 DEF NextLink, NULL, Slots
    <3>3. CASE next[o] # NULL
      <4>1. /\ next[o] \in LevelOf(o) \ {o}
            /\ next[o] \in Slots
            /\ prev'[next[o]] = s
        BY <1>3, <1>4, <2>2, <2>4, <3>3
      <4>2. o \in Slots /\ o # NULL
        BY <1>5 DEF NULL, Slots
      <4>3. /\ order[s].id < order[o].id
            /\ order[o].id < order[next[o]].id
            /\ \A t \in LevelOf(o) : order[t].id \in Nat
        BY <1>3, <1>5, <1>7, <2>4, <3>3 DEF NULL, Slots
      <4>4. \A t \in LevelOf(o) : order[t].id <= order[s].id \/ order[o].id <= order[t].id
        BY <1>7, <2>1, <3>1, <4>2 DEF NextLink
      <4>5. \A t \in LevelOf(o) : order[t].id <= order[o].id \/ order[next[o]].id <= order[t].id
        BY <3>3 DEF QueuesFIFO, LinksOK, NextLink
      <4>6. \A t \in LevelOf(o) \ {o} : order[t].id # order[o].id
        BY <1>5
      <4>7. \A t \in LevelOf(o) \ {o} : order[t].id <= order[s].id \/ order[next[o]].id <= order[t].id
        BY <1>5, <4>3, <4>4, <4>5, <4>6
      <4>8. order[s].id < order[next[o]].id
        BY <1>5, <3>1, <4>1, <4>3
      <4> QED
        BY <1>7, <2>2, <3>1, <3>3, <4>1, <4>7, <4>8 DEF NextLink
    <3> QED
      BY <3>2, <3>3
  <2>5. CASE s # prev[o]
    <3>1. next'[s] = next[s]
      BY <1>4, <1>7, <2>5
    <3>2. CASE next[s] = NULL
      <4>1. s = levels[order[s].side][order[s].price].tail
        BY <2>1, <3>2 DEF NextLink
      <4>2. s = levels'[order[s].side][order[s].price].tail
        <5>1. CASE s \in LevelOf(o)
          <6>1. order[s].side = sd /\ order[s].price = pr /\ s # o
            BY <1>7, <5>1
          <6>2. levels'[sd][pr].tail = IF next[o] # NULL THEN lvl.tail ELSE prev[o]
            BY <1>7, <5>1
          <6> QED
            BY <1>3, <4>1, <6>1, <6>2
        <5>2. CASE s \notin LevelOf(o)
          BY <1>7, <4>1, <5>2
        <5> QED
          BY <5>1, <5>2
      <4>3. s = levels'[order'[s].side][order'[s].price].tail
        BY <1>7, <4>2
      <4> QED
        BY <3>1, <3>2, <4>3 DEF NextLink
    <3>3. CASE next[s] # NULL
      <4>1. next[s] \in LevelOf(s) /\ prev[next[s]] = s /\ next[s] \in Slots
        BY <2>1, <2>2, <3>3 DEF NextLink
      <4>2. next[s] # o /\ next[s] # next[o]
        BY <1>3, <1>7, <2>5, <3>3, <4>1
      <4>3. prev'[next[s]] = s
        BY <1>4, <4>1, <4>2
      <4> QED
        BY <1>7, <2>1, <2>2, <3>1, <3>3, <4>1, <4>2, <4>3 DEF NextLink
    <3> QED
      BY <3>2, <3>3
  <2> QED
    BY <2>4, <2>5
<1>9. ASSUME NEW s \in Live'
      PROVE  PrevLink(s)'
  <2>1. PrevLink(s)
    BY <1>7 DEF QueuesFIFO, LinksOK
  <2>2. \A t \in LevelOf(s) \cup LevelOf(o) : t \in Slots
    BY <1>5, <1>7
  <2>3. CASE s = next[o]
    <3>1. /\ prev'[s] = prev[o]
          /\ s \in LevelOf(o)
          /\ LevelOf(s)' = LevelOf(o) \ {o}
      BY <1>3, <1>4, <1>7, <2>3 DEF NULL, Slots
    <3>2. CASE prev[o] = NULL
      BY <1>7, <2>3, <3>1, <3>2 DEF PrevLink, NULL, Slots
    <3>3. CASE prev[o] # NULL
      BY <1>3, <1>4, <2>2, <2>3, <3>1, <3>3 DEF PrevLink
    <3> QED
      BY <3>2, <3>3
  <2>4. CASE s # next[o]
    <3>1. prev'[s] = prev[s]
      BY <1>4, <1>7, <2>4
    <3>2. CASE prev[s] = NULL
      <4>1. s = levels[order[s].side][order[s].price].head
        BY <2>1, <3>2 DEF PrevLink
      <4>2. s = levels'[order[s].side][order[s].price].head
        <5>1. CASE s \in LevelOf(o)
          <6>1. order[s].side = sd /\ order[s].price = pr /\ s # o
            BY <1>7, <5>1
          <6>2. levels'[sd][pr].head = IF prev[o] # NULL THEN lvl.head ELSE next[o]
            BY <1>7, <5>1
          <6> QED
            BY <1>3, <4>1, <6>1, <6>2
        <5>2. CASE s \notin LevelOf(o)
          BY <1>7, <4>1, <5>2
        <5> QED
          BY <5>1, <5>2
      <4>3. s = levels'[order'[s].side][order'[s].price].head
        BY <1>7, <4>2
      <4> QED
        BY <3>1, <3>2, <4>3 DEF PrevLink
    <3>3. CASE prev[s] # NULL
      <4>1. prev[s] \in LevelOf(s) /\ next[prev[s]] = s /\ prev[s] \in Slots
        BY <2>1, <2>2, <3>3 DEF PrevLink
      <4>2. prev[s] # o /\ prev[s] # prev[o]
        BY <1>3, <1>7, <2>4, <3>3, <4>1
      <4>3. next'[prev[s]] = s
        BY <1>4, <4>1, <4>2
      <4> QED
        BY <1>7, <3>1, <3>3, <4>1, <4>2, <4>3 DEF PrevLink
    <3> QED
      BY <3>2, <3>3
  <2> QED
    BY <2>3, <2>4
<1> QED
  BY <1>6, <1>8, <1>9 DEF QueuesFIFO, LinksOK

\* The levels that remove_and_release leaves are typed, and the book it leaves
\* is uncrossed.
LEMMA NotCrossedAfterRemove ==
    ASSUME TypeOK, IndexOK, QueuesFIFO, NotCrossed, NEW o \in Live, NEW q \in Nat,
           remove_and_release(o, q)
    PROVE  NotCrossed'
<1>1. \A side \in Side : DOMAIN levels'[side] \subseteq DOMAIN levels[side]
  BY LevelsAfterRemove
<1> QED
  BY <1>1 DEF NotCrossed, Side

\* Every order that stays is indexed, alive, and in a level.
LEMMA IndexAfterRemove ==
    ASSUME TypeOK, IndexOK, QueuesFIFO, NEW o \in Live, NEW q \in Nat,
           remove_and_release(o, q), SameOrders,
           \A s \in Slots \ {o} : order'[s].quantity = order[s].quantity,
           call'.pc = call.pc, call'.id = call.id
    PROVE  IndexOK'
<1>1. /\ DOMAIN index' = DOMAIN index \ {order[o].id}
      /\ \A i \in DOMAIN index \ {order[o].id} : index'[i] = index[i]
  BY DEF remove_and_release, Without, Restrict
<1>2. ASSUME NEW i \in DOMAIN index'
      PROVE  /\ order'[index'[i]].id = i
             /\ order'[index'[i]].quantity > 0
             /\ order'[index'[i]].price \in DOMAIN levels'[order'[index'[i]].side]
  <2> DEFINE s == index[i]
  <2>1. /\ index'[i] = s
        /\ s \in Live
        /\ s \in Slots
        /\ order[s].id = i
        /\ s # o
        /\ order[s].side \in Side
        /\ order[s].price \in Prices
        /\ order[s].quantity > 0
        /\ order[s].price \in DOMAIN levels[order[s].side]
    BY <1>1, LiveFacts
  <2>2. order[s].price \in DOMAIN levels'[order[s].side]
    <3>1. CASE order[s].side = order[o].side /\ order[s].price = order[o].price
      <4>1. s \in LevelOf(o) /\ o \in LevelOf(o)
        BY <2>1, <3>1, LiveFacts DEF LevelOf, InLevel
      <4>2. prev[o] = NULL => order[o].id < order[s].id
        <5>1. prev[o] = NULL => order[o].id <= order[s].id
          BY <2>1, <3>1, <4>1, Neighbours DEF QueuesFIFO, EndsOK, LevelOf
        <5> QED
          BY <2>1, <5>1, LiveFacts
      <4>3. next[o] = NULL => order[s].id < order[o].id
        <5>1. next[o] = NULL => order[s].id <= order[o].id
          BY <2>1, <3>1, <4>1, Neighbours DEF QueuesFIFO, EndsOK, LevelOf
        <5> QED
          BY <2>1, <5>1, LiveFacts
      <4>4. prev[o] # NULL \/ next[o] # NULL
        BY <2>1, <4>2, <4>3, LiveFacts
      <4> QED
        BY <3>1, <4>4, LevelsAfterRemove
    <3>2. CASE ~(order[s].side = order[o].side /\ order[s].price = order[o].price)
      BY <2>1, <3>2, LevelsAfterRemove
    <3> QED
      BY <3>1, <3>2
  <2> QED
    BY <2>1, <2>2 DEF SameOrders
<1>3. Matching' => call'.id \notin DOMAIN index'
  BY <1>1 DEF IndexOK, Matching
<1> QED
  BY <1>2, <1>3 DEF IndexOK

-----------------------------------------------------------------------------
(* The free list.                                                           *)

\* Pushing a slot in front of a free list.
LEMMA PushFreeList ==
    ASSUME NEW F, NEW n \in Nat, NEW list \in [1..n -> F], NEW head, NEW nxt,
           IsFreeList(list, n, F, head, nxt),
           NEW o, o \notin F, NEW nxt2, nxt2[o] = head,
           \A s \in F : nxt2[s] = nxt[s]
    PROVE  \E l \in [1..(n + 1) -> F \cup {o}] :
              IsFreeList(l, n + 1, F \cup {o}, o, nxt2)
<1> DEFINE l == [k \in 1..(n + 1) |-> IF k = 1 THEN o ELSE list[k - 1]]
<1>1. /\ \A s \in F : \E k \in 1..n : list[k] = s
      /\ \A j, k \in 1..n : list[j] = list[k] => j = k
      /\ head = IF n = 0 THEN NULL ELSE list[1]
      /\ \A k \in 1..n : nxt[list[k]] = IF k = n THEN NULL ELSE list[k + 1]
  BY DEF IsFreeList
<1>2. l \in [1..(n + 1) -> F \cup {o}]
  OBVIOUS
<1>3. /\ l[1] = o
      /\ \A k \in 1..n : k + 1 \in 1..(n + 1) /\ l[k + 1] = list[k]
      /\ \A k \in 1..(n + 1) : k # 1 => k - 1 \in 1..n /\ l[k] = list[k - 1]
  OBVIOUS
<1> HIDE DEF l
<1>4. \A s \in F \cup {o} : \E k \in 1..(n + 1) : l[k] = s
  <2> TAKE s \in F \cup {o}
  <2>1. CASE s = o
    BY <1>3, <2>1
  <2>2. CASE s # o
    <3>1. PICK k \in 1..n : list[k] = s
      BY <1>1, <2>2
    <3> QED
      BY <1>3, <3>1
  <2> QED
    BY <2>1, <2>2
<1>5. \A j, k \in 1..(n + 1) : l[j] = l[k] => j = k
  <2> SUFFICES ASSUME NEW j \in 1..(n + 1), NEW k \in 1..(n + 1), l[j] = l[k]
               PROVE  j = k
    OBVIOUS
  <2>1. CASE j = 1 \/ k = 1
    BY <1>3, <2>1
  <2>2. CASE j # 1 /\ k # 1
    BY <1>1, <1>3, <2>2
  <2> QED
    BY <2>1, <2>2
<1>6. \A k \in 1..(n + 1) : nxt2[l[k]] = IF k = n + 1 THEN NULL ELSE l[k + 1]
  <2> TAKE k \in 1..(n + 1)
  <2>1. CASE k = 1
    BY <1>1, <1>3, <2>1
  <2>2. CASE k # 1
    <3>1. k - 1 \in 1..n /\ l[k] = list[k - 1] /\ list[k - 1] \in F
      BY <1>3, <2>2
    <3>2. nxt2[l[k]] = IF k - 1 = n THEN NULL ELSE list[k]
      BY <1>1, <3>1
    <3>3. k # n + 1 => l[k + 1] = list[k]
      BY <1>3, <3>1
    <3> QED
      BY <3>1, <3>2, <3>3
  <2> QED
    BY <2>1, <2>2
<1>7. o = IF n + 1 = 0 THEN NULL ELSE l[1]
  BY <1>3
<1>8. IsFreeList(l, n + 1, F \cup {o}, o, nxt2)
  BY <1>4, <1>5, <1>6, <1>7, Zenon DEF IsFreeList
<1> QED
  BY <1>2, <1>8

\* Popping the first slot of a free list.
LEMMA PopFreeList ==
    ASSUME NEW F, NEW n \in Nat, NEW list \in [1..n -> F], NEW head, NEW nxt,
           IsFreeList(list, n, F, head, nxt), n # 0,
           NEW nxt2, \A s \in F \ {head} : nxt2[s] = nxt[s]
    PROVE  /\ head \in F
           /\ \E l \in [1..(n - 1) -> F \ {head}] :
                 IsFreeList(l, n - 1, F \ {head}, nxt[head], nxt2)
<1> DEFINE l == [k \in 1..(n - 1) |-> list[k + 1]]
<1>1. /\ \A s \in F : \E k \in 1..n : list[k] = s
      /\ \A j, k \in 1..n : list[j] = list[k] => j = k
      /\ head = list[1]
      /\ \A k \in 1..n : nxt[list[k]] = IF k = n THEN NULL ELSE list[k + 1]
  BY DEF IsFreeList
<1>2. head \in F
  BY <1>1
<1>3. l \in [1..(n - 1) -> F \ {head}]
  BY <1>1
<1>4. \A k \in 1..(n - 1) : l[k] = list[k + 1] /\ k + 1 \in 1..n
  OBVIOUS
<1> HIDE DEF l
<1>5. \A s \in F \ {head} : \E k \in 1..(n - 1) : l[k] = s
  <2> TAKE s \in F \ {head}
  <2>1. PICK k \in 1..n : list[k] = s
    BY <1>1
  <2>2. k # 1
    BY <1>1, <2>1
  <2>3. k - 1 \in 1..(n - 1) /\ (k - 1) + 1 = k
    BY <2>1, <2>2
  <2>4. l[k - 1] = s
    BY <1>4, <2>1, <2>3
  <2> QED
    BY <2>3, <2>4
<1>6. \A j, k \in 1..(n - 1) : l[j] = l[k] => j = k
  <2> SUFFICES ASSUME NEW j \in 1..(n - 1), NEW k \in 1..(n - 1), l[j] = l[k]
               PROVE  j = k
    OBVIOUS
  <2>1. list[j + 1] = list[k + 1] /\ j + 1 \in 1..n /\ k + 1 \in 1..n
    BY <1>4
  <2>2. j + 1 = k + 1
    BY <1>1, <2>1
  <2> QED
    BY <2>2
<1>7. nxt[head] = IF n - 1 = 0 THEN NULL ELSE l[1]
  <2>1. nxt[head] = IF 1 = n THEN NULL ELSE list[2]
    BY <1>1
  <2>2. n # 1 => l[1] = list[2]
    BY <1>4
  <2> QED
    BY <2>1, <2>2
<1>8. \A k \in 1..(n - 1) : nxt2[l[k]] = IF k = n - 1 THEN NULL ELSE l[k + 1]
  <2> TAKE k \in 1..(n - 1)
  <2>1. k + 1 \in 1..n /\ l[k] = list[k + 1] /\ l[k] \in F \ {head}
    BY <1>3, <1>4
  <2>2. nxt2[l[k]] = IF k + 1 = n THEN NULL ELSE list[(k + 1) + 1]
    BY <1>1, <2>1
  <2>3. k # n - 1 => l[k + 1] = list[(k + 1) + 1]
    BY <1>4, <2>1
  <2> QED
    BY <2>1, <2>2, <2>3
<1>9. IsFreeList(l, n - 1, F \ {head}, nxt[head], nxt2)
  BY <1>5, <1>6, <1>7, <1>8 DEF IsFreeList
<1> QED
  BY <1>2, <1>3, <1>9

\* There are finitely many free slots.
LEMMA FreeFinite == IsFiniteSet(Free)
<1>1. IsFiniteSet(Slots)
  BY OrderAssumption, FS_Interval DEF Slots
<1> QED
  BY <1>1, FS_Subset DEF Free

\* release puts the removed slot back, and the splice left the free list alone.
LEMMA FreeListAfterRemove ==
    ASSUME TypeOK, IndexOK, QueuesFIFO, FreeListOK, NEW o \in Live, NEW q,
           remove_and_release(o, q), SameOrders
    PROVE  FreeListOK'
<1>1. Live' = Live \ {o}
  BY InLevelAfterRemove
<1>2. o \in Slots /\ o \notin Free /\ Free' = Free \cup {o}
  BY <1>1 DEF Free, Live
<1>3. PICK list \in [1..Cardinality(Free) -> Free] :
         IsFreeList(list, Cardinality(Free), Free, free_head, next)
  BY DEF FreeListOK
<1>4. /\ \A s \in Slots \ {o} : next'[s] = IF s = prev[o] THEN next[o] ELSE next[s]
      /\ next'[o] = free_head
      /\ free_head' = o
  BY LinksAfterRemove
<1>5. prev[o] \notin Free
  BY Neighbours DEF LevelOf, InLevel, Free, NULL, Slots
<1>6. \A s \in Free : next'[s] = next[s]
  BY <1>2, <1>4, <1>5 DEF Free
<1>7. /\ Cardinality(Free) \in Nat
      /\ Cardinality(Free') = Cardinality(Free) + 1
  BY <1>2, FreeFinite, FS_CardinalityType, FS_AddElement
<1>8. \E l \in [1..(Cardinality(Free) + 1) -> Free \cup {o}] :
         IsFreeList(l, Cardinality(Free) + 1, Free \cup {o}, o, next')
  <2> DEFINE F == Free
             n == Cardinality(Free)
             nxt2 == next'
  <2>1. /\ n \in Nat
        /\ list \in [1..n -> F]
        /\ IsFreeList(list, n, F, free_head, next)
        /\ o \notin F
        /\ nxt2[o] = free_head
        /\ \A s \in F : nxt2[s] = next[s]
    BY <1>2, <1>3, <1>4, <1>6, <1>7
  <2> HIDE DEF F, n, nxt2
  <2>2. \E l \in [1..(n + 1) -> F \cup {o}] : IsFreeList(l, n + 1, F \cup {o}, o, nxt2)
    BY <2>1, PushFreeList
  <2> QED
    BY <2>2 DEF F, n, nxt2
<1> QED
  BY <1>2, <1>4, <1>7, <1>8 DEF FreeListOK

-----------------------------------------------------------------------------
(* Rest: acquire a slot, write the order, push it to its level.             *)

\* The slot that acquire hands out is free, and the new order is the youngest.
LEMMA RestFacts ==
    ASSUME TypeOK, IndexOK, FreeListOK, Rest, NEW o, o = free_head
    PROVE  /\ o \in Slots
           /\ o \notin Live
           /\ o # NULL
           /\ call.side \in Side
           /\ call.price \in Prices
           /\ call.qty \in Qtys
           /\ call.qty > 0
           /\ call.id \in Nat
           /\ call.id = next_id - 1
           /\ Remainder \in OrderRec
           /\ \A s \in Live : order[s].id < call.id
           /\ order'[o] = Remainder
           /\ \A s \in Slots \ {o} : order'[s] = order[s]
<1>1. PICK list \in [1..Cardinality(Free) -> Free] :
         IsFreeList(list, Cardinality(Free), Free, free_head, next)
  BY DEF FreeListOK
<1>2. free_head # NULL
  BY DEF Rest
<1>3. Cardinality(Free) \in Nat /\ Cardinality(Free) # 0
  BY <1>1, <1>2, FreeFinite, FS_CardinalityType DEF IsFreeList
<1>4. o \in Free
  <2>1. o = list[1]
    BY <1>1, <1>2 DEF IsFreeList
  <2> QED
    BY <1>1, <1>3, <2>1
<1>5. o \in Slots /\ o \notin Live /\ o # NULL
  BY <1>2, <1>4 DEF Free
<1>6. /\ call \in Call
      /\ call.id = next_id - 1
      /\ call.id \notin DOMAIN index
      /\ call.qty > 0
  BY DEF Rest, MatchOver, HasRemainder, TypeOK, IndexOK
<1>7. /\ call.side \in Side
      /\ call.price \in Prices
      /\ call.qty \in Qtys
      /\ call.id \in 0..MaxId
  BY <1>6 DEF Call
<1>8. Remainder \in OrderRec
  BY <1>7 DEF Remainder, OrderRec
<1>9. \A s \in Live : order[s].id < call.id
  <2>1. \A s \in Live : order[s].id \in 1..(next_id - 1) /\ order[s].id \in DOMAIN index
    BY LiveFacts DEF Live
  <2>2. next_id \in Int
    BY DEF TypeOK
  <2> QED
    BY <1>6, <2>1, <2>2
<1>10. order' = [order EXCEPT ![o] = Remainder] /\ DOMAIN order = Slots
  BY DEF Rest, add_order, TypeOK
<1> QED
  BY <1>5, <1>6, <1>7, <1>8, <1>9, <1>10, OrderAssumption

\* Exactly the acquired slot becomes live, in the level of the remainder.
LEMMA InLevelAfterRest ==
    ASSUME TypeOK, IndexOK, FreeListOK, Rest, NEW o, o = free_head,
           NEW sd, sd = call.side, NEW pr, pr = call.price
    PROVE  /\ DOMAIN index' = DOMAIN index \cup {call.id}
           /\ index'[call.id] = o
           /\ \A i \in DOMAIN index : index'[i] = index[i]
           /\ Live' = Live \cup {o}
           /\ \A s \in Live : order'[s] = order[s]
           /\ \A side, p : InLevel(side, p)' = IF side = sd /\ p = pr
                                             THEN InLevel(side, p) \cup {o}
                                             ELSE InLevel(side, p)
<1>1. /\ o \in Slots
      /\ o \notin Live
      /\ order'[o] = Remainder
      /\ \A s \in Slots \ {o} : order'[s] = order[s]
      /\ \A s \in Live : order[s].id < call.id
  BY RestFacts
<1>2. call.id \notin DOMAIN index
  BY DEF Rest, MatchOver, IndexOK
<1>3. index' = With(index, call.id, o)
  BY DEF Rest, add_order, Remainder
<1>4. /\ DOMAIN index' = DOMAIN index \cup {call.id}
      /\ index'[call.id] = o
      /\ \A i \in DOMAIN index : index'[i] = index[i]
  BY <1>2, <1>3 DEF With
<1>5. Live' = Live \cup {o}
  <2>1. order'[o].id = call.id
    BY <1>1 DEF Remainder
  <2>2. ASSUME NEW s \in Slots, s # o
        PROVE  s \in Live' <=> s \in Live
    <3>1. order'[s].id = order[s].id
      BY <1>1, <2>2
    <3> QED
      BY <1>2, <1>4, <2>2, <3>1 DEF Live
  <2>3. o \in Live'
    BY <1>1, <1>4, <2>1 DEF Live
  <2> QED
    BY <2>2, <2>3 DEF Live
<1>6. ASSUME NEW side, NEW p
      PROVE  InLevel(side, p)' = IF side = sd /\ p = pr
                                 THEN InLevel(side, p) \cup {o}
                                 ELSE InLevel(side, p)
  <2>1. order'[o].side = sd /\ order'[o].price = pr
    BY <1>1 DEF Remainder
  <2>2. \A s \in Live : order'[s] = order[s]
    BY <1>1 DEF Live
  <2> QED
    BY <1>5, <2>1, <2>2 DEF InLevel
<1>7. \A s \in Live : order'[s] = order[s]
  BY <1>1 DEF Live
<1> QED
  BY <1>4, <1>5, <1>6, <1>7

\* Rest extends or creates one level, with the new order at its tail.
LEMMA LevelsAfterRest ==
    ASSUME TypeOK, IndexOK, QueuesFIFO, FreeListOK, Rest, NEW o, o = free_head,
           NEW sd, sd = call.side, NEW pr, pr = call.price
    PROVE  /\ LevelsTyped'
           /\ DOMAIN levels' = Side
           /\ DOMAIN levels'[sd] = DOMAIN levels[sd] \cup {pr}
           /\ \A side \in Side \ {sd} : levels'[side] = levels[side]
           /\ \A p \in DOMAIN levels[sd] \ {pr} : levels'[sd][p] = levels[sd][p]
           /\ levels'[sd][pr] \in PriceLevel
           /\ levels'[sd][pr].tail = o
           /\ levels'[sd][pr].head =
                 IF pr \in DOMAIN levels[sd] THEN levels[sd][pr].head ELSE o
           /\ LevelAt(sd, pr).tail =
                 IF pr \in DOMAIN levels[sd] THEN levels[sd][pr].tail ELSE NULL
<1> DEFINE lvl == LevelAt(sd, pr)
           nl  == AddVolume(PushBack(lvl, o), call.qty)
<1>1. /\ o \in Slots
      /\ o # NULL
      /\ sd \in Side
      /\ pr \in Prices
      /\ call.qty \in Int
      /\ DOMAIN levels = Side
      /\ WordMod \in Nat
      /\ WordMod > 0
  BY RestFacts, OrderAssumption, WordAssumption DEF TypeOK, Qtys
<1>2. pr \in DOMAIN levels[sd] =>
         /\ lvl = levels[sd][pr]
         /\ lvl \in PriceLevel
         /\ lvl.head \in Slots
         /\ lvl.tail \in Slots
  BY <1>1, LevelFacts DEF LevelAt, QueuesFIFO, EndsOK, InLevel, Live
<1>3. pr \notin DOMAIN levels[sd] => lvl = NewLevel /\ lvl \in PriceLevel
  BY <1>1 DEF LevelAt, NewLevel, PriceLevel
<1>4. lvl \in PriceLevel /\ lvl.total_volume \in Int
  BY <1>2, <1>3, <1>1 DEF PriceLevel
<1>5. NULL \notin Slots
  BY DEF NULL, Slots
<1>6. /\ nl.tail = o
      /\ nl.head = IF lvl.tail # NULL THEN lvl.head ELSE o
      /\ nl.total_volume = (lvl.total_volume + call.qty) % WordMod
      /\ nl \in PriceLevel
  <2> HIDE DEF lvl
  <2>1. (lvl.total_volume + call.qty) % WordMod \in 0..(WordMod - 1)
    BY <1>1, <1>4
  <2> QED
    BY <1>1, <1>4, <2>1 DEF AddVolume, PushBack, PriceLevel
<1>7. nl.head = IF pr \in DOMAIN levels[sd] THEN levels[sd][pr].head ELSE o
  <2> HIDE DEF nl
  <2> QED
    BY <1>2, <1>3, <1>5, <1>6 DEF NewLevel
<1>8. ~LevelEmpty(nl)
  <2> HIDE DEF nl
  <2> QED
    BY <1>1, <1>2, <1>5, <1>7 DEF LevelEmpty
<1>9. levels' = PutLevel(sd, pr, nl)
  BY DEF Rest, add_order, Remainder
<1>10. lvl.tail = IF pr \in DOMAIN levels[sd] THEN levels[sd][pr].tail ELSE NULL
  BY <1>2, <1>3 DEF NewLevel
<1> HIDE DEF nl
<1>12. LevelsTyped'
  <2>1. LevelsTyped
    BY DEF TypeOK, LevelsTyped
  <2> QED
    BY <1>1, <1>6, <1>9, <2>1, PutLevelTyped
<1>11. /\ DOMAIN levels' = Side
       /\ \A s \in Side \ {sd} : levels'[s] = levels[s]
       /\ DOMAIN levels'[sd] = DOMAIN levels[sd] \cup {pr}
       /\ levels'[sd][pr] = nl
       /\ \A p \in DOMAIN levels[sd] \ {pr} : levels'[sd][p] = levels[sd][p]
  BY <1>1, <1>8, <1>9, PutLevelFacts
<1> QED
  BY <1>6, <1>7, <1>10, <1>11, <1>12

\* The links that Rest leaves.
LEMMA LinksAfterRest ==
    ASSUME TypeOK, Rest, NEW o, o = free_head, o \in Slots,
           NEW t, t = LevelAt(call.side, call.price).tail
    PROVE  /\ \A s \in Slots \ {o} : /\ next'[s] = IF s = t THEN o ELSE next[s]
                                    /\ prev'[s] = prev[s]
           /\ next'[o] = NULL
           /\ prev'[o] = t
           /\ free_head' = next[o]
BY DEF Rest, add_order, NextWithPushed, PrevWithPushed, Remainder, TypeOK

\* Pushing the youngest order at the tail keeps every queue a FIFO.
LEMMA QueuesAfterRest ==
    ASSUME TypeOK, IndexOK, QueuesFIFO, FreeListOK, Rest,
           NEW o, o = free_head, NEW sd, sd = call.side, NEW pr, pr = call.price,
           NEW t, t = LevelAt(call.side, call.price).tail
    PROVE  QueuesFIFO'
<1>1. /\ o \in Slots
      /\ o \notin Live
      /\ o # NULL
      /\ sd \in Side
      /\ pr \in Prices
      /\ call.id \in Nat
      /\ \A s \in Live : order[s].id < call.id
      /\ order'[o].id = call.id
      /\ order'[o].side = sd
      /\ order'[o].price = pr
  BY RestFacts DEF Remainder
<1>2. /\ Live' = Live \cup {o}
      /\ \A s \in Live : order'[s] = order[s]
      /\ \A side, p : InLevel(side, p)' = IF side = sd /\ p = pr
                                        THEN InLevel(side, p) \cup {o}
                                        ELSE InLevel(side, p)
  BY InLevelAfterRest
<1>3. /\ DOMAIN levels' = Side
      /\ DOMAIN levels'[sd] = DOMAIN levels[sd] \cup {pr}
      /\ \A side \in Side \ {sd} : levels'[side] = levels[side]
      /\ \A p \in DOMAIN levels[sd] \ {pr} : levels'[sd][p] = levels[sd][p]
      /\ levels'[sd][pr].tail = o
      /\ levels'[sd][pr].head =
            IF pr \in DOMAIN levels[sd] THEN levels[sd][pr].head ELSE o
      /\ t = IF pr \in DOMAIN levels[sd] THEN levels[sd][pr].tail ELSE NULL
  BY LevelsAfterRest
<1>4. /\ \A s \in Slots \ {o} : /\ next'[s] = IF s = t THEN o ELSE next[s]
                               /\ prev'[s] = prev[s]
      /\ next'[o] = NULL
      /\ prev'[o] = t
  BY <1>1, LinksAfterRest
<1>5. \A s \in Live : /\ s \in Slots
                     /\ s # NULL
                     /\ order[s].id \in Nat
                     /\ order[s].side \in Side
                     /\ order[s].price \in DOMAIN levels[order[s].side]
                     /\ s \in LevelOf(s)
                     /\ LevelOf(s) \subseteq Live
  BY LiveFacts DEF LevelOf, InLevel, NULL, Slots
<1>tails. \A s \in Live : (next[s] = NULL) <=> (s = levels[order[s].side][order[s].price].tail)
  BY Neighbours
<1>6. pr \in DOMAIN levels[sd] =>
         /\ t \in InLevel(sd, pr)
         /\ levels[sd][pr].head \in InLevel(sd, pr)
         /\ \A s \in InLevel(sd, pr) : order[s].id <= order[t].id
  BY <1>1, <1>3 DEF QueuesFIFO, EndsOK
<1>7. pr \notin DOMAIN levels[sd] => InLevel(sd, pr) = {}
  BY <1>5 DEF InLevel
<1>8. EndsOK'
  <2> SUFFICES ASSUME NEW side \in Side, NEW p \in DOMAIN levels'[side]
               PROVE  LET new == levels'[side][p]
                      IN  /\ new.head \in InLevel(side, p)'
                          /\ new.tail \in InLevel(side, p)'
                          /\ \A s \in InLevel(side, p)' :
                                /\ order'[new.head].id <= order'[s].id
                                /\ order'[s].id <= order'[new.tail].id
    BY DEF EndsOK
  <2>1. CASE side = sd /\ p = pr
    <3>1. InLevel(side, p)' = InLevel(sd, pr) \cup {o} /\ InLevel(sd, pr) \subseteq Live
      BY <1>2, <2>1 DEF InLevel
    <3>2. CASE pr \in DOMAIN levels[sd]
      <4> DEFINE h == levels[sd][pr].head
      <4>1. \A s \in InLevel(sd, pr) : order[h].id <= order[s].id
        BY <1>1, <3>2 DEF QueuesFIFO, EndsOK
      <4>2. levels'[sd][pr].head = h /\ h \in InLevel(sd, pr) /\ h \in Live
        BY <1>3, <1>6, <3>1, <3>2
      <4> HIDE DEF h
      <4>3. \A s \in InLevel(sd, pr) : /\ order'[s].id = order[s].id
                                       /\ order'[s].id \in Nat
                                       /\ order'[s].id < order'[o].id
        BY <1>1, <1>2, <1>5, <3>1
      <4>4. order'[h].id = order[h].id /\ order'[h].id \in Nat /\ order'[h].id < order'[o].id
        BY <4>2, <4>3
      <4>5. levels'[sd][pr].head = h /\ levels'[sd][pr].tail = o
        BY <1>3, <4>2
      <4>6. h \in InLevel(side, p)' /\ o \in InLevel(side, p)'
        BY <3>1, <4>2
      <4>7. order'[o].id \in Nat
        BY <1>1, <1>2
      <4>8. ASSUME NEW s \in InLevel(side, p)'
            PROVE  order'[h].id <= order'[s].id /\ order'[s].id <= order'[o].id
        <5>1. CASE s = o
          BY <4>4, <4>7, <5>1
        <5>2. CASE s # o
          BY <3>1, <4>1, <4>3, <4>4, <4>7, <5>2
        <5> QED
          BY <5>1, <5>2
      <4> QED
        BY <2>1, <4>5, <4>6, <4>8
    <3>3. CASE pr \notin DOMAIN levels[sd]
      BY <1>1, <1>3, <1>7, <2>1, <3>1, <3>3
    <3> QED
      BY <3>2, <3>3
  <2>2. CASE side # sd \/ p # pr
    <3>1. /\ p \in DOMAIN levels[side]
          /\ levels'[side][p] = levels[side][p]
          /\ InLevel(side, p)' = InLevel(side, p)
          /\ InLevel(side, p) \subseteq Live
      BY <1>2, <1>3, <2>2 DEF InLevel
    <3>2. /\ levels[side][p].head \in InLevel(side, p)
          /\ levels[side][p].tail \in InLevel(side, p)
          /\ \A s \in InLevel(side, p) :
                /\ order[levels[side][p].head].id <= order[s].id
                /\ order[s].id <= order[levels[side][p].tail].id
      BY <3>1 DEF QueuesFIFO, EndsOK
    <3> QED
      BY <1>2, <3>1, <3>2
  <2> QED
    BY <2>1, <2>2
<1>9. ASSUME NEW s \in Live
      PROVE  /\ s # o
             /\ LevelOf(s) \subseteq LevelOf(s)'
             /\ LevelOf(s)' \subseteq LevelOf(s) \cup {o}
             /\ o \in LevelOf(s)' <=> order[s].side = sd /\ order[s].price = pr
             /\ order[s].side = sd /\ order[s].price = pr => s \in InLevel(sd, pr)
             /\ order[s].side # sd \/ order[s].price # pr =>
                   levels'[order[s].side][order[s].price]
                     = levels[order[s].side][order[s].price]
  BY <1>1, <1>2, <1>3, <1>5 DEF LevelOf, InLevel
<1>10. ASSUME NEW s \in Live
       PROVE  NextLink(s)'
  <2>1. NextLink(s)
    BY DEF QueuesFIFO, LinksOK
  <2>2. CASE s = t
    <3>1. order[s].side = sd /\ order[s].price = pr /\ LevelOf(s) = InLevel(sd, pr)
      <4>1. s \in InLevel(sd, pr)
        BY <1>3, <1>5, <1>6, <2>2
      <4> QED
        BY <4>1 DEF LevelOf, InLevel
    <3>2. \A u \in LevelOf(s) : order[u].id <= order[s].id
      BY <1>3, <1>5, <1>6, <2>2, <3>1
    <3>3. next'[s] = o /\ prev'[o] = s
      BY <1>4, <1>5, <1>9, <2>2
    <3>4. \A u \in LevelOf(s)' : \/ order'[u].id <= order'[s].id
                                 \/ order'[o].id <= order'[u].id
      BY <1>1, <1>2, <1>5, <1>9, <3>2
    <3> QED
      BY <1>1, <1>2, <1>9, <3>1, <3>3, <3>4 DEF NextLink
  <2>3. CASE s # t
    <3>1. next'[s] = next[s]
      BY <1>4, <1>5, <1>9, <2>3
    <3>2. CASE next[s] = NULL
      <4>1. s = levels[order[s].side][order[s].price].tail
        BY <1>tails, <3>2
      <4>2. order[s].side # sd \/ order[s].price # pr
        BY <1>3, <1>5, <2>3, <4>1
      <4> QED
        BY <1>2, <1>9, <3>1, <3>2, <4>1, <4>2 DEF NextLink
    <3>3. CASE next[s] # NULL
      <4>1. /\ next[s] \in LevelOf(s)
            /\ next[s] \in Live
            /\ prev[next[s]] = s
            /\ order[s].id < order[next[s]].id
            /\ \A u \in LevelOf(s) : \/ order[u].id <= order[s].id
                                     \/ order[next[s]].id <= order[u].id
        BY <1>5, <2>1, <3>3 DEF NextLink
      <4>2. prev'[next[s]] = s
        BY <1>1, <1>4, <1>5, <4>1
      <4>3. \A u \in LevelOf(s)' : \/ order'[u].id <= order'[s].id
                                   \/ order'[next[s]].id <= order'[u].id
        BY <1>1, <1>2, <1>5, <1>9, <4>1
      <4> QED
        BY <1>2, <1>9, <3>1, <3>3, <4>1, <4>2, <4>3 DEF NextLink
    <3> QED
      BY <3>2, <3>3
  <2> QED
    BY <2>2, <2>3
<1>11. ASSUME NEW s \in Live
       PROVE  PrevLink(s)'
  <2>1. PrevLink(s)
    BY DEF QueuesFIFO, LinksOK
  <2>2. prev'[s] = prev[s] /\ order'[s] = order[s]
    BY <1>2, <1>4, <1>5, <1>9
  <2>3. CASE prev[s] = NULL
    <3>1. s = levels[order[s].side][order[s].price].head
      BY <2>1, <2>3 DEF PrevLink
    <3>2. levels'[order[s].side][order[s].price].head
             = levels[order[s].side][order[s].price].head
      BY <1>3, <1>5, <1>9
    <3> QED
      BY <2>2, <2>3, <3>1, <3>2 DEF PrevLink
  <2>4. CASE prev[s] # NULL
    <3>1. prev[s] \in LevelOf(s) /\ prev[s] \in Live /\ next[prev[s]] = s
      BY <1>5, <2>1, <2>4 DEF PrevLink
    <3>2. prev[s] # t
      <4>1. t = NULL \/ next[t] = NULL
        BY <1>1, <1>3, <1>6, <1>tails DEF InLevel
      <4> QED
        BY <1>5, <2>4, <3>1, <4>1
    <3>3. next'[prev[s]] = s
      BY <1>1, <1>4, <1>5, <3>1, <3>2
    <3> QED
      BY <1>9, <2>2, <2>4, <3>1, <3>3 DEF PrevLink
  <2> QED
    BY <2>3, <2>4
<1>12. LevelOf(o)' = InLevel(sd, pr) \cup {o}
  BY <1>1, <1>2 DEF LevelOf
<1>13. NextLink(o)'
  BY <1>1, <1>3, <1>4 DEF NextLink
<1>14. PrevLink(o)'
  <2>1. CASE t = NULL
    <3>1. pr \notin DOMAIN levels[sd]
      BY <1>5, <1>6, <2>1 DEF InLevel
    <3> QED
      BY <1>1, <1>3, <1>4, <2>1, <3>1 DEF PrevLink
  <2>2. CASE t # NULL
    <3>1. t \in InLevel(sd, pr) /\ t \in Live
      BY <1>3, <1>6, <2>2 DEF InLevel
    <3>2. next'[t] = o
      BY <1>1, <1>4, <1>5, <3>1
    <3> QED
      BY <1>4, <1>12, <2>2, <3>1, <3>2 DEF PrevLink
  <2> QED
    BY <2>1, <2>2
<1> QED
  BY <1>2, <1>8, <1>10, <1>11, <1>13, <1>14 DEF QueuesFIFO, LinksOK

\* acquire pops the free list, and the push leaves the rest of it alone.
LEMMA FreeListAfterRest ==
    ASSUME TypeOK, IndexOK, QueuesFIFO, FreeListOK, Rest
    PROVE  FreeListOK'
<1> DEFINE o == free_head
           t == LevelAt(call.side, call.price).tail
<1>1. /\ o \in Slots
      /\ o \notin Live
      /\ o # NULL
      /\ call.side \in Side
      /\ call.price \in Prices
  BY RestFacts
<1>2. Live' = Live \cup {o}
  BY InLevelAfterRest
<1>3. /\ \A s \in Slots \ {o} : next'[s] = IF s = t THEN o ELSE next[s]
      /\ free_head' = next[o]
  BY <1>1, LinksAfterRest
<1>4. t \notin Free
  <2>1. t = NULL \/ t \in Live
    BY <1>1 DEF LevelAt, NewLevel, QueuesFIFO, EndsOK, InLevel
  <2> QED
    BY <2>1 DEF Free, Slots, NULL
<1>5. o \in Free /\ Free' = Free \ {o}
  BY <1>1, <1>2 DEF Free
<1>6. PICK list \in [1..Cardinality(Free) -> Free] :
         IsFreeList(list, Cardinality(Free), Free, free_head, next)
  BY DEF FreeListOK
<1>7. /\ Cardinality(Free) \in Nat
      /\ Cardinality(Free) # 0
      /\ Cardinality(Free') = Cardinality(Free) - 1
  <2>1. IsFiniteSet(Free)
    BY FreeFinite
  <2>2. Cardinality(Free) \in Nat /\ Cardinality(Free) # 0
    BY <1>5, <2>1, FS_CardinalityType, FS_EmptySet
  <2> QED
    BY <1>5, <2>1, <2>2, FS_RemoveElement
<1>8. \E l \in [1..(Cardinality(Free) - 1) -> Free \ {o}] :
         IsFreeList(l, Cardinality(Free) - 1, Free \ {o}, next[o], next')
  <2> DEFINE F == Free
             n == Cardinality(Free)
             head == free_head
             nxt2 == next'
  <2>1. /\ n \in Nat
        /\ n # 0
        /\ list \in [1..n -> F]
        /\ IsFreeList(list, n, F, head, next)
        /\ \A s \in F \ {head} : nxt2[s] = next[s]
    BY <1>3, <1>4, <1>6, <1>7 DEF Free
  <2> HIDE DEF F, n, head, nxt2
  <2>2. \E l \in [1..(n - 1) -> F \ {head}] :
           IsFreeList(l, n - 1, F \ {head}, next[head], nxt2)
    BY <2>1, PopFreeList
  <2> QED
    BY <2>2 DEF F, n, head, nxt2
<1> QED
  BY <1>3, <1>5, <1>7, <1>8 DEF FreeListOK

\* The new order is indexed and alive; the others keep theirs.
LEMMA IndexAfterRest ==
    ASSUME TypeOK, IndexOK, QueuesFIFO, FreeListOK, Rest
    PROVE  IndexOK'
<1> DEFINE o == free_head
<1>1. /\ o \in Slots
      /\ o \notin Live
      /\ call.side \in Side
      /\ call.price \in Prices
      /\ call.qty > 0
      /\ order'[o] = Remainder
      /\ \A s \in Slots \ {o} : order'[s] = order[s]
  BY RestFacts
<1>2. /\ DOMAIN index' = DOMAIN index \cup {call.id}
      /\ index'[call.id] = o
      /\ \A i \in DOMAIN index : index'[i] = index[i]
  BY InLevelAfterRest
<1>3. /\ DOMAIN levels'[call.side] = DOMAIN levels[call.side] \cup {call.price}
      /\ \A side \in Side \ {call.side} : levels'[side] = levels[side]
  BY LevelsAfterRest
<1>4. ~Matching'
  BY DEF Rest, IdleCall, Matching
<1>5. ASSUME NEW i \in DOMAIN index'
      PROVE  /\ order'[index'[i]].id = i
             /\ order'[index'[i]].quantity > 0
             /\ order'[index'[i]].price \in DOMAIN levels'[order'[index'[i]].side]
  <2>1. CASE i = call.id
    BY <1>1, <1>2, <1>3, <2>1 DEF Remainder
  <2>2. CASE i # call.id
    <3>1. /\ i \in DOMAIN index
          /\ index[i] \in Live
          /\ order[index[i]].id = i
      BY <1>2, <2>2, LiveFacts
    <3>2. /\ index'[i] = index[i]
          /\ order'[index[i]] = order[index[i]]
      BY <1>1, <1>2, <3>1 DEF Live
    <3>3. order[index[i]].side \in Side
      BY <3>1, LiveFacts
    <3> QED
      BY <1>3, <3>1, <3>2, <3>3 DEF IndexOK
  <2> QED
    BY <2>1, <2>2
<1> QED
  BY <1>4, <1>5 DEF IndexOK

\* begin() of a side that has a level is its best price.
LEMMA BestExists ==
    ASSUME TypeOK, NEW side \in Side, DOMAIN levels[side] # {}
    PROVE  \E p \in DOMAIN levels[side] : IsBegin(side, p)
<1> DEFINE D == DOMAIN levels[side]
<1>1. D \subseteq Prices /\ D # {}
  BY DEF TypeOK
<1>2. D \subseteq Nat /\ \A p \in D : p <= MaxPrice
  BY <1>1, OrderAssumption DEF Prices
<1>3. CASE side = "Sell"
  <2>1. PICK p \in D : \A q \in D : p <= q
    BY <1>1, <1>2, LeastNatural
  <2> QED
    BY <1>3, <2>1 DEF IsBegin, Ahead
<1>4. CASE side = "Buy"
  <2> DEFINE T == {MaxPrice - p : p \in D}
  <2>1. T \subseteq Nat /\ T # {}
    BY <1>1, <1>2, OrderAssumption
  <2>2. PICK x \in T : \A y \in T : x <= y
    <3> HIDE DEF T
    <3> QED
      BY <2>1, LeastNatural
  <2>3. PICK p \in D : x = MaxPrice - p
    OBVIOUS
  <2>4. \A q \in D : p >= q
    <3> TAKE q \in D
    <3>1. x <= MaxPrice - q
      BY <2>2
    <3> QED
      BY <1>2, <2>3, <3>1, OrderAssumption
  <2> QED
    BY <1>4, <2>4 DEF IsBegin, Ahead
<1> QED
  BY <1>3, <1>4 DEF Side

\* What rests does not cross: match only stops short of it when the best
\* opposite price, hence every opposite price, is beyond the limit.
LEMMA NotCrossedAfterRest ==
    ASSUME TypeOK, IndexOK, QueuesFIFO, FreeListOK, NotCrossed, Rest
    PROVE  NotCrossed'
<1> DEFINE opp == Opposite(call.side)
<1>1. /\ call.side \in Side
      /\ call.price \in Prices
      /\ call.qty > 0
  BY RestFacts
<1>2. opp \in Side /\ opp # call.side
  BY <1>1, SideFacts
<1>3. /\ DOMAIN levels'[call.side] = DOMAIN levels[call.side] \cup {call.price}
      /\ \A side \in Side \ {call.side} : levels'[side] = levels[side]
  BY LevelsAfterRest
<1>4. ASSUME NEW q \in DOMAIN levels[opp]
      PROVE  ~Ahead(opp, q, call.price)
  <2>1. PICK p \in DOMAIN levels[opp] : IsBegin(opp, p)
    BY <1>2, BestExists
  <2>2. ~Ahead(opp, p, call.price)
    BY <1>1, <2>1, OrderAssumption DEF Rest, HasRemainder, MatchOver, Crosses, Qtys
  <2>3. Ahead(opp, p, q)
    BY <2>1 DEF IsBegin
  <2>4. p \in Int /\ q \in Int /\ call.price \in Int
    BY <1>1, <1>2 DEF TypeOK, Prices
  <2> QED
    BY <2>2, <2>3, <2>4 DEF Ahead
<1>5. \A side \in Side : \A p \in DOMAIN levels[side] : p \in Int
  BY DEF TypeOK, Prices
<1>6. call.price \in Int
  BY <1>1 DEF Prices
<1>7. CASE call.side = "Buy"
  <2>1. opp = "Sell"
    BY <1>7 DEF Opposite
  <2>2. \A a \in DOMAIN levels["Sell"] : call.price < a
    BY <1>4, <1>5, <1>6, <2>1 DEF Ahead, Side
  <2> QED
    BY <1>3, <1>7, <2>2 DEF NotCrossed, Side
<1>8. CASE call.side = "Sell"
  <2>1. opp = "Buy"
    BY <1>8 DEF Opposite
  <2>2. \A b \in DOMAIN levels["Buy"] : b < call.price
    BY <1>4, <1>5, <1>6, <2>1 DEF Ahead, Side
  <2> QED
    BY <1>3, <1>8, <2>2 DEF NotCrossed, Side
<1> QED
  BY <1>1, <1>7, <1>8 DEF Side

\* What Rest leaves has its types.
LEMMA TypeAfterRest ==
    ASSUME TypeOK, IndexOK, QueuesFIFO, FreeListOK, Rest
    PROVE  TypeOK'
<1> DEFINE o == free_head
           t == LevelAt(call.side, call.price).tail
<1>1. o \in Slots /\ call.side \in Side /\ call.price \in Prices /\ Remainder \in OrderRec
  BY RestFacts
<1>2. call.id \in 1..(next_id - 1)
  BY OrderAssumption DEF Rest, MatchOver, TypeOK, Ids
<1>3. index' = With(index, call.id, o) /\ order' = [order EXCEPT ![o] = Remainder]
  BY DEF Rest, add_order, Remainder
<1>4. order' \in [Slots -> OrderRec]
  BY <1>1, <1>3 DEF TypeOK
<1>5. /\ DOMAIN index' \subseteq 1..(next_id - 1)
      /\ index' \in [DOMAIN index' -> Slots]
  BY <1>1, <1>2, <1>3 DEF TypeOK, With
<1>6. t \in Slots \cup {NULL}
  BY <1>1 DEF LevelAt, NewLevel, TypeOK, PriceLevel
<1>7. /\ next' = [s \in Slots |-> IF s = o THEN NULL ELSE IF s = t THEN o ELSE next[s]]
      /\ prev' = [prev EXCEPT ![o] = t]
      /\ free_head' = next[o]
  BY DEF Rest, add_order, NextWithPushed, PrevWithPushed, Remainder
<1>8. /\ prev' \in [Slots -> Slots \cup {NULL}]
      /\ next' \in [Slots -> Slots \cup {NULL}]
      /\ free_head' \in Slots \cup {NULL}
  <2> HIDE DEF t
  <2> QED
    BY <1>1, <1>6, <1>7 DEF TypeOK
<1>9. LevelsTyped'
  BY LevelsAfterRest
<1>10. call' \in Call /\ ~Matching'
  BY OrderAssumption DEF Rest, IdleCall, Call, Matching, Side, Prices, Qtys
<1> QED
  BY <1>4, <1>5, <1>8, <1>9, <1>10 DEF TypeOK, Rest, LevelsTyped

\* Rest keeps the inductive invariant.
LEMMA RestInv == IInv /\ Rest => IInv'
<1> SUFFICES ASSUME IInv, Rest PROVE IInv'
  OBVIOUS
<1>1. TypeOK /\ IndexOK /\ QueuesFIFO /\ FreeListOK /\ NotCrossed
  BY DEF IInv
<1> QED
  BY <1>1, TypeAfterRest, IndexAfterRest, QueuesAfterRest, FreeListAfterRest,
     NotCrossedAfterRest DEF IInv

-----------------------------------------------------------------------------
(* The steps that leave the book alone.                                     *)

\* The queues, the free list and the uncrossed book depend on the book only.
LEMMA SameBook ==
    ASSUME IndexOK, QueuesFIFO, FreeListOK, NotCrossed,
           UNCHANGED <<order, prev, next, free_head, levels, index>>,
           Matching' => call'.id \notin DOMAIN index
    PROVE  IndexOK' /\ QueuesFIFO' /\ FreeListOK' /\ NotCrossed'
<1>1. Live' = Live /\ Free' = Free /\ \A side, p : InLevel(side, p)' = InLevel(side, p)
  BY DEF Live, Free, InLevel
<1>2. IndexOK'
  BY DEF IndexOK
<1>3. EndsOK'
  BY <1>1 DEF QueuesFIFO, EndsOK
<1>4. LinksOK'
  BY <1>1 DEF QueuesFIFO, LinksOK, NextLink, PrevLink, LevelOf
<1>5. FreeListOK'
  BY <1>1 DEF FreeListOK
<1>6. NotCrossed'
  BY DEF NotCrossed
<1> QED
  BY <1>2, <1>3, <1>4, <1>5, <1>6 DEF QueuesFIFO

\* A new submission has an id that no resting order has.
LEMMA BeginInv ==
    ASSUME IInv, NEW side \in Side, NEW price \in Prices, NEW is_market \in BOOLEAN,
           NEW qty \in Qtys, Begin(side, price, is_market, qty)
    PROVE  IInv'
<1>1. TypeOK /\ IndexOK /\ QueuesFIFO /\ FreeListOK /\ NotCrossed
  BY DEF IInv
<1>2. /\ UNCHANGED <<order, prev, next, free_head, levels, index>>
      /\ next_id' = next_id + 1
      /\ next_id \in Ids
      /\ call'.id = next_id
      /\ call' \in Call
      /\ out' = <<>>
  BY <1>1, OrderAssumption DEF Begin, pool, TypeOK, Ids, Call
<1>3. call'.id \notin DOMAIN index
  BY <1>1, <1>2 DEF TypeOK, Ids
<1>4. TypeOK'
  BY <1>1, <1>2, OrderAssumption DEF TypeOK, Ids, Matching
<1> QED
  BY <1>1, <1>2, <1>3, <1>4, SameBook DEF IInv

\* The end of a submission that rests nothing.
LEMMA ReturnInv ==
    ASSUME IInv, Return \/ RestThrows
    PROVE  IInv'
<1>1. TypeOK /\ IndexOK /\ QueuesFIFO /\ FreeListOK /\ NotCrossed
  BY DEF IInv
<1>2. /\ UNCHANGED <<next_id, order, prev, next, free_head, levels, index, out>>
      /\ call' = IdleCall
  BY DEF Return, RestThrows, pool
<1>3. call' \in Call /\ ~Matching'
  BY <1>2, OrderAssumption DEF IdleCall, Call, Matching, Side, Prices, Qtys
<1>4. TypeOK'
  BY <1>1, <1>2, <1>3 DEF TypeOK
<1> QED
  BY <1>1, <1>2, <1>3, <1>4, SameBook DEF IInv

\* A stutter, or a cancel of an unknown id.
LEMMA StutterInv ==
    ASSUME IInv, UNCHANGED vars
    PROVE  IInv'
<1>1. TypeOK /\ IndexOK /\ QueuesFIFO /\ FreeListOK /\ NotCrossed
  BY DEF IInv
<1>2. UNCHANGED <<next_id, order, prev, next, free_head, levels, index, call, out>>
  BY DEF vars
<1>3. TypeOK'
  BY <1>1, <1>2 DEF TypeOK, Matching
<1>4. Matching' => call'.id \notin DOMAIN index
  BY <1>1, <1>2 DEF IndexOK, Matching
<1> QED
  BY <1>1, <1>2, <1>3, <1>4, SameBook DEF IInv

-----------------------------------------------------------------------------
(* Trades and cancels.                                                      *)

\* What remove_and_release leaves has its types.
LEMMA TypesAfterRemove ==
    ASSUME TypeOK, IndexOK, QueuesFIFO, NEW o \in Live, NEW q \in Nat,
           remove_and_release(o, q)
    PROVE  /\ LevelsTyped'
           /\ prev' \in [Slots -> Slots \cup {NULL}]
           /\ next' \in [Slots -> Slots \cup {NULL}]
           /\ free_head' \in Slots \cup {NULL}
           /\ DOMAIN index' \subseteq 1..(next_id - 1)
           /\ index' \in [DOMAIN index' -> Slots]
<1>1. LevelsTyped'
  BY LevelsAfterRemove
<1>2. o \in Slots /\ prev[o] \in Slots \cup {NULL} /\ next[o] \in Slots \cup {NULL}
  BY DEF Live, TypeOK
<1>3. prev' \in [Slots -> Slots \cup {NULL}]
  BY <1>2 DEF TypeOK, remove_and_release, PrevWithRemoved
<1>4. next' \in [Slots -> Slots \cup {NULL}]
  <2>1. NextWithRemoved(o) \in [Slots -> Slots \cup {NULL}]
    BY <1>2 DEF TypeOK, NextWithRemoved
  <2> QED
    BY <1>2, <2>1 DEF TypeOK, remove_and_release
<1>5. /\ DOMAIN index' \subseteq 1..(next_id - 1)
      /\ index' \in [DOMAIN index' -> Slots]
  BY DEF TypeOK, remove_and_release, Without, Restrict
<1> QED
  BY <1>1, <1>2, <1>3, <1>4, <1>5 DEF remove_and_release

\* The maker of an iteration rests; the fill is at least one unit and at most
\* what each of the two orders has left.
LEMMA FillFacts ==
    ASSUME TypeOK, IndexOK, QueuesFIFO, NEW p \in Prices, NEW o \in Slots,
           RecordFill(p, o), NEW f, f = FillQty(o)
    PROVE  /\ o \in Live
           /\ order[o].side = Opposite(call.side)
           /\ order[o].price = p
           /\ order[o].id \in Ids
           /\ Opposite(call.side) \in Side
           /\ f \in Nat
           /\ f > 0
           /\ f <= call.qty
           /\ f <= order[o].quantity
           /\ call.qty \in Qtys
           /\ order[o].quantity \in Qtys
<1>1. call \in Call /\ call.id \in Ids
  BY DEF TypeOK, RecordFill
<1>2. call.side \in Side /\ call.qty \in Qtys
  BY <1>1 DEF Call
<1>3. Opposite(call.side) \in Side
  BY <1>2, SideFacts
<1>4. o \in InLevel(Opposite(call.side), p)
  BY <1>3 DEF RecordFill, IsBegin, Maker, QueuesFIFO, EndsOK
<1>5. /\ o \in Live
      /\ order[o].side = Opposite(call.side)
      /\ order[o].price = p
  BY <1>4 DEF InLevel
<1>6. order[o] \in OrderRec /\ order[o].quantity > 0 /\ order[o].id \in 1..(next_id - 1)
  BY <1>5, LiveFacts
<1>7. order[o].quantity \in Qtys
  BY <1>6 DEF OrderRec
<1>8. order[o].id \in Ids
  BY <1>6, OrderAssumption DEF TypeOK, Ids
<1>9. call.qty > 0
  BY DEF RecordFill
<1> QED
  BY <1>2, <1>3, <1>5, <1>6, <1>7, <1>8, <1>9, OrderAssumption
  DEF FillQty, Lesser, Qtys

\* What one iteration writes apart from the lists.
LEMMA FillWrites ==
    ASSUME TypeOK, IndexOK, QueuesFIFO, NEW p \in Prices, NEW o \in Slots,
           RecordFill(p, o), NEW f, f = FillQty(o)
    PROVE  /\ SameOrders
           /\ \A s \in Slots \ {o} : order'[s] = order[s]
           /\ order'[o].quantity = order[o].quantity - f
           /\ order' \in [Slots -> OrderRec]
           /\ call' \in Call
           /\ call'.pc = call.pc
           /\ call'.id = call.id
           /\ out' \in Seq(Fill)
           /\ next_id' = next_id
<1>1. /\ o \in Live
      /\ order[o].id \in Ids
      /\ order[o].price = p
      /\ f \in Nat
      /\ f <= call.qty
      /\ f <= order[o].quantity
      /\ call.qty \in Qtys
      /\ order[o].quantity \in Qtys
  BY FillFacts
<1>2. order[o] \in OrderRec /\ call \in Call /\ call.id \in Ids
  BY <1>1, LiveFacts DEF TypeOK, RecordFill
<1>3. /\ order' = [order EXCEPT ![o].quantity = @ - f]
      /\ call' = [call EXCEPT !.qty = @ - f]
      /\ out' = Append(out, [maker_id |-> order[o].id, taker_id |-> call.id,
                             price |-> order[o].price, quantity |-> f])
      /\ next_id' = next_id
  BY DEF RecordFill
<1>4. f \in Qtys /\ order[o].quantity - f \in Qtys /\ call.qty - f \in Qtys
  BY <1>1, OrderAssumption DEF Qtys
<1>5. /\ [order[o] EXCEPT !.quantity = @ - f] \in OrderRec
      /\ [order[o] EXCEPT !.quantity = @ - f].quantity = order[o].quantity - f
  BY <1>2, <1>4 DEF OrderRec
<1>6. order' \in [Slots -> OrderRec]
  BY <1>3, <1>5 DEF TypeOK
<1>7. SameOrders /\ \A s \in Slots \ {o} : order'[s] = order[s]
  BY <1>2, <1>3 DEF SameOrders, TypeOK, OrderRec
<1>8. order'[o].quantity = order[o].quantity - f
  BY <1>2, <1>3 DEF TypeOK, OrderRec
<1>9. call' \in Call /\ call'.pc = call.pc /\ call'.id = call.id
  BY <1>2, <1>3, <1>4 DEF Call
<1>10. out' \in Seq(Fill)
  BY <1>1, <1>2, <1>3, <1>4 DEF TypeOK, Fill
<1> QED
  BY <1>3, <1>6, <1>7, <1>8, <1>9, <1>10

\* A fill that exhausts the maker.
LEMMA FillMakerInv ==
    ASSUME IInv, NEW p \in Prices, NEW o \in Slots, FillMaker(p, o)
    PROVE  IInv'
<1> DEFINE f == FillQty(o)
<1>1. TypeOK /\ IndexOK /\ QueuesFIFO /\ FreeListOK /\ NotCrossed
  BY DEF IInv
<1>2. RecordFill(p, o) /\ remove_and_release(o, f)
  BY DEF FillMaker
<1>3. o \in Live /\ f \in Nat
  BY <1>1, <1>2, FillFacts
<1>4. /\ SameOrders
      /\ \A s \in Slots \ {o} : order'[s] = order[s]
      /\ order' \in [Slots -> OrderRec]
      /\ call' \in Call
      /\ call'.pc = call.pc
      /\ call'.id = call.id
      /\ out' \in Seq(Fill)
      /\ next_id' = next_id
  BY <1>1, <1>2, FillWrites
<1> HIDE DEF f
<1>5. TypeOK'
  BY <1>1, <1>2, <1>3, <1>4, TypesAfterRemove DEF TypeOK, LevelsTyped, Matching
<1>6. IndexOK'
  BY <1>1, <1>2, <1>3, <1>4, IndexAfterRemove
<1>7. QueuesFIFO' /\ FreeListOK' /\ NotCrossed'
  BY <1>1, <1>2, <1>3, <1>4, QueuesAfterRemove, FreeListAfterRemove, NotCrossedAfterRemove
<1> QED
  BY <1>5, <1>6, <1>7 DEF IInv

\* A fill that exhausts the taker: the level keeps its ends and its orders.
LEMMA FillTakerInv ==
    ASSUME IInv, NEW p \in Prices, NEW o \in Slots, FillTaker(p, o)
    PROVE  IInv'
<1> DEFINE f  == FillQty(o)
           sd == Opposite(call.side)
<1>1. TypeOK /\ IndexOK /\ QueuesFIFO /\ FreeListOK /\ NotCrossed
  BY DEF IInv
<1>2. /\ RecordFill(p, o)
      /\ order[o].quantity # f
      /\ levels' = [levels EXCEPT ![sd][p] = SubVolume(@, f)]
      /\ UNCHANGED <<prev, next, free_head, index>>
  BY DEF FillTaker
<1>3. /\ o \in Live
      /\ order[o].side = sd
      /\ order[o].price = p
      /\ sd \in Side
      /\ f \in Nat
      /\ f <= order[o].quantity
      /\ order[o].quantity \in Qtys
      /\ p \in DOMAIN levels[sd]
  BY <1>1, <1>2, FillFacts DEF RecordFill, IsBegin
<1>4. /\ SameOrders
      /\ \A s \in Slots \ {o} : order'[s] = order[s]
      /\ order'[o].quantity = order[o].quantity - f
      /\ order' \in [Slots -> OrderRec]
      /\ call' \in Call
      /\ call'.pc = call.pc
      /\ call'.id = call.id
      /\ out' \in Seq(Fill)
      /\ next_id' = next_id
  BY <1>1, <1>2, FillWrites
<1> HIDE DEF f, sd
<1>5. /\ LevelsTyped
      /\ levels[sd][p] \in PriceLevel
  BY <1>1, <1>3 DEF TypeOK, LevelsTyped
<1>6. /\ SubVolume(levels[sd][p], f) \in PriceLevel
      /\ SubVolume(levels[sd][p], f).head = levels[sd][p].head
      /\ SubVolume(levels[sd][p], f).tail = levels[sd][p].tail
  <2>1. (levels[sd][p].total_volume - f) % WordMod \in 0..(WordMod - 1)
    BY <1>3, <1>5, WordAssumption, OrderAssumption DEF PriceLevel
  <2> QED
    BY <1>5, <2>1 DEF SubVolume, PriceLevel
<1>7. /\ LevelsTyped'
      /\ \A side \in Side : DOMAIN levels'[side] = DOMAIN levels[side]
      /\ \A side \in Side : \A q \in DOMAIN levels[side] :
            /\ levels'[side][q].head = levels[side][q].head
            /\ levels'[side][q].tail = levels[side][q].tail
  BY <1>2, <1>3, <1>5, <1>6 DEF LevelsTyped
<1>8. /\ Live' = Live
      /\ Free' = Free
      /\ \A side, q : InLevel(side, q)' = InLevel(side, q)
      /\ \A s \in Live : LevelOf(s)' = LevelOf(s)
  <2>1. Live' = Live
    BY <1>2, <1>4 DEF Live, SameOrders
  <2> QED
    BY <1>4, <2>1 DEF Free, InLevel, LevelOf, SameOrders, Live
<1>9. TypeOK'
  BY <1>1, <1>2, <1>4, <1>7 DEF TypeOK, LevelsTyped, Matching
<1>10. IndexOK'
  <2>1. order'[o].quantity > 0
    BY <1>2, <1>3, <1>4 DEF Qtys
  <2>2. \A s \in Live : order'[s].quantity > 0
    BY <1>1, <1>4, <2>1, LiveFacts
  <2>3. Matching' => call'.id \notin DOMAIN index'
    BY <1>1, <1>2, <1>4 DEF IndexOK, Matching
  <2>4. \A i \in DOMAIN index : /\ index[i] \in Live
                               /\ index[i] \in Slots
                               /\ order[index[i]].side \in Side
                               /\ order[index[i]].id = i
                               /\ order[index[i]].price \in DOMAIN levels[order[index[i]].side]
    BY <1>1, LiveFacts
  <2> QED
    BY <1>2, <1>4, <1>7, <2>2, <2>3, <2>4 DEF IndexOK, SameOrders
<1>11. \A s \in Live : s \in Slots /\ order[s].side \in Side
                       /\ order[s].price \in DOMAIN levels[order[s].side]
                       /\ LevelOf(s) \subseteq Live
  BY <1>1, LiveFacts DEF LevelOf, InLevel
<1>12. EndsOK'
  <2>1. \A side \in Side : \A q \in DOMAIN levels[side] : InLevel(side, q) \subseteq Slots
    BY DEF InLevel, Live
  <2> QED
    BY <1>1, <1>4, <1>7, <1>8, <2>1 DEF QueuesFIFO, EndsOK, SameOrders
<1>13. ASSUME NEW s \in Live PROVE NextLink(s)' /\ PrevLink(s)'
  <2>1. NextLink(s) /\ PrevLink(s)
    BY <1>1 DEF QueuesFIFO, LinksOK
  <2>2. LevelOf(s) \subseteq Slots /\ s \in Slots /\ LevelOf(s)' = LevelOf(s)
    BY <1>8, <1>11 DEF Live
  <2>3. PrevLink(s)'
    BY <1>2, <1>4, <1>7, <1>8, <1>11, <2>1, <2>2 DEF PrevLink, SameOrders
  <2>4. NextLink(s)'
    BY <1>2, <1>4, <1>7, <1>8, <1>11, <2>1, <2>2 DEF NextLink, SameOrders
  <2> QED
    BY <2>3, <2>4
<1>14. QueuesFIFO'
  BY <1>8, <1>12, <1>13 DEF QueuesFIFO, LinksOK
<1>15. FreeListOK'
  BY <1>1, <1>2, <1>8 DEF FreeListOK
<1>16. NotCrossed'
  BY <1>1, <1>7 DEF NotCrossed, Side
<1> QED
  BY <1>9, <1>10, <1>14, <1>15, <1>16 DEF IInv

\* A cancel of a resting order.
LEMMA CancelInv ==
    ASSUME IInv, NEW id \in 0..MaxId, cancel(id)
    PROVE  IInv'
<1> DEFINE o == index[id]
           q == order[o].quantity
<1>1. TypeOK /\ IndexOK /\ QueuesFIFO /\ FreeListOK /\ NotCrossed
  BY DEF IInv
<1>2. /\ remove_and_release(o, q)
      /\ UNCHANGED <<next_id, order, call, out>>
      /\ id \in DOMAIN index
  BY DEF cancel
<1>3. o \in Live /\ q \in Nat
  <2>1. o \in Live
    BY <1>1, <1>2, LiveFacts
  <2>2. order[o] \in OrderRec
    BY <1>1, <2>1, LiveFacts
  <2> QED
    BY <2>1, <2>2, OrderAssumption DEF OrderRec, Qtys
<1>4. SameOrders
  BY <1>2 DEF SameOrders
<1> HIDE DEF o, q
<1>5. TypeOK'
  BY <1>1, <1>2, <1>3, TypesAfterRemove DEF TypeOK, LevelsTyped, Matching
<1>6. IndexOK'
  BY <1>1, <1>2, <1>3, <1>4, IndexAfterRemove
<1>7. QueuesFIFO' /\ FreeListOK' /\ NotCrossed'
  BY <1>1, <1>2, <1>3, <1>4, QueuesAfterRemove, FreeListAfterRemove, NotCrossedAfterRemove
<1> QED
  BY <1>5, <1>6, <1>7 DEF IInv

-----------------------------------------------------------------------------
(* The theorems.                                                            *)

\* A new engine: nothing rests, and the free list is 1, 2, ..., Capacity.
LEMMA InitInv == Init => IInv
<1> SUFFICES ASSUME Init PROVE IInv
  OBVIOUS
<1>1. DOMAIN index = {} /\ DOMAIN levels = Side /\ \A side \in Side : DOMAIN levels[side] = {}
  BY DEF Init, Empty
<1>2. Live = {} /\ Free = Slots
  BY <1>1 DEF Live, Free
<1>3. TypeOK
  <2>1. /\ order \in [Slots -> OrderRec]
        /\ call \in Call
        /\ ~Matching
        /\ out \in Seq(Fill)
        /\ next_id \in 1..(MaxId + 1)
    BY OrderAssumption DEF Init, OrderRec, Prices, Qtys, Side, IdleCall, Call, Matching
  <2>2. /\ prev \in [Slots -> Slots \cup {NULL}]
        /\ next \in [Slots -> Slots \cup {NULL}]
        /\ free_head \in Slots \cup {NULL}
    BY OrderAssumption DEF Init, Slots
  <2>3. index = Empty /\ levels = [side \in Side |-> Empty]
    BY DEF Init
  <2> QED
    BY <2>1, <2>2, <2>3 DEF TypeOK, Empty
<1>4. IndexOK
  BY <1>1 DEF IndexOK, Init, IdleCall, Matching
<1>5. QueuesFIFO
  BY <1>1, <1>2 DEF QueuesFIFO, EndsOK, LinksOK
<1>6. FreeListOK
  <2>1. Cardinality(Free) = Capacity
    <3>1. Cardinality(1..Capacity) = IF 1 > Capacity THEN 0 ELSE Capacity - 1 + 1
      BY OrderAssumption, FS_Interval
    <3> QED
      BY <1>2, <3>1, OrderAssumption DEF Slots
  <2> DEFINE list == [k \in 1..Capacity |-> k]
  <2>2. list \in [1..Capacity -> Free]
    BY <1>2 DEF Slots
  <2>3. IsFreeList(list, Capacity, Free, free_head, next)
    BY <1>2, OrderAssumption DEF IsFreeList, Init, Slots, NULL
  <2> QED
    BY <2>1, <2>2, <2>3 DEF FreeListOK
<1>7. NotCrossed
  BY <1>1 DEF NotCrossed, Side
<1> QED
  BY <1>3, <1>4, <1>5, <1>6, <1>7 DEF IInv

\* Every step of the engine keeps the inductive invariant.
LEMMA NextInv == IInv /\ [Next]_vars => IInv'
<1> SUFFICES ASSUME IInv, [Next]_vars PROVE IInv'
  OBVIOUS
<1>1. ASSUME NEW side \in Side, NEW price \in Prices, NEW qty \in Qtys,
             submit_limit(side, price, qty)
      PROVE  IInv'
  BY <1>1, BeginInv DEF submit_limit
<1>2. ASSUME NEW side \in Side, NEW qty \in Qtys, submit_market(side, qty)
      PROVE  IInv'
  <2>1. 0 \in Prices
    BY OrderAssumption DEF Prices
  <2> QED
    BY <1>2, <2>1, BeginInv DEF submit_market
<1>3. ASSUME NEW p \in Prices, NEW o \in Slots, FillMaker(p, o)
      PROVE  IInv'
  BY <1>3, FillMakerInv
<1>4. ASSUME NEW p \in Prices, NEW o \in Slots, FillTaker(p, o)
      PROVE  IInv'
  BY <1>4, FillTakerInv
<1>5. ASSUME Rest PROVE IInv'
  BY <1>5, RestInv
<1>6. ASSUME RestThrows PROVE IInv'
  BY <1>6, ReturnInv
<1>7. ASSUME Return PROVE IInv'
  BY <1>7, ReturnInv
<1>8. ASSUME NEW id \in 0..MaxId, cancel(id)
      PROVE  IInv'
  BY <1>8, CancelInv
<1>9. ASSUME NEW id \in 0..MaxId, cancel_miss(id)
      PROVE  IInv'
  BY <1>9, StutterInv DEF cancel_miss
<1>10. ASSUME UNCHANGED vars PROVE IInv'
  BY <1>10, StutterInv
<1> QED
  BY <1>1, <1>2, <1>3, <1>4, <1>5, <1>6, <1>7, <1>8, <1>9, <1>10 DEF Next

\* The inductive invariant holds in every reachable state.
THEOREM Invariance == Spec => []IInv
<1>1. Init => IInv
  BY InitInv
<1>2. IInv /\ [Next]_vars => IInv'
  BY NextInv
<1> QED
  BY <1>1, <1>2, PTL DEF Spec

\* Every variable keeps its type: in particular the maker of a fill is a slot
\* that holds an order (matching_engine.cpp:27-32).
THEOREM TypeCorrect == Spec => []TypeOK
<1>1. IInv => TypeOK
  BY DEF IInv
<1> QED
  BY <1>1, Invariance, PTL

\* The hash index holds exactly the orders that rest (order_book.cpp:3-41).
THEOREM IndexCorrect == Spec => []IndexOK
<1>1. IInv => IndexOK
  BY DEF IInv
<1> QED
  BY <1>1, Invariance, PTL

\* Every level's intrusive list is its orders in arrival order, whatever is
\* cancelled, filled or reused (price_level.hpp:12-29).
THEOREM QueuesCorrect == Spec => []QueuesFIFO
<1>1. IInv => QueuesFIFO
  BY DEF IInv
<1> QED
  BY <1>1, Invariance, PTL

\* The pool leaks no slot and hands none out twice (order_pool.hpp:39-55).
THEOREM FreeListCorrect == Spec => []FreeListOK
<1>1. IInv => FreeListOK
  BY DEF IInv
<1> QED
  BY <1>1, Invariance, PTL

\* The book is never crossed (matching_engine.cpp:10-25, :47-51).
THEOREM BookNeverCrossed == Spec => []NotCrossed
<1>1. IInv => NotCrossed
  BY DEF IInv
<1> QED
  BY <1>1, Invariance, PTL

-----------------------------------------------------------------------------
(* total_volume.                                                            *)

QuantityOf(ord) == [s \in Slots |-> ord[s].quantity]

\* What rests at one level.
VolumeIn(side, p) == SumFunctionOnSet(QuantityOf(order), InLevel(side, p))

VInv == IInv /\ VolumeOK

\* Any set of slots is finite, and their quantities are integers.
LEMMA QuantityFacts ==
    ASSUME NEW ord \in [Slots -> OrderRec], NEW S, S \subseteq Slots
    PROVE  /\ IsFiniteSet(S)
           /\ \A s \in S : QuantityOf(ord)[s] = ord[s].quantity /\ QuantityOf(ord)[s] \in Int
<1>1. IsFiniteSet(Slots)
  BY OrderAssumption, FS_Interval DEF Slots
<1>2. \A s \in Slots : QuantityOf(ord)[s] = ord[s].quantity /\ QuantityOf(ord)[s] \in Int
  BY OrderAssumption DEF OrderRec, Qtys, QuantityOf
<1> QED
  BY <1>1, <1>2, FS_Subset

\* A sum of quantities of slots is a number.
LEMMA VolumeType ==
    ASSUME TypeOK, NEW side, NEW p
    PROVE  VolumeIn(side, p) \in Int
<1>1. InLevel(side, p) \subseteq Slots /\ order \in [Slots -> OrderRec]
  BY DEF InLevel, Live, TypeOK
<1> QED
  BY <1>1, QuantityFacts, SumInt DEF VolumeIn

\* A step that changes the part of one slot in a level changes the volume by
\* the difference, whether the slot leaves it, enters it or stays.
LEMMA VolumeMoves ==
    ASSUME TypeOK, TypeOK', NEW side, NEW p, NEW o,
           InLevel(side, p)' \ {o} = InLevel(side, p) \ {o},
           \A s \in InLevel(side, p) \ {o} : order'[s].quantity = order[s].quantity
    PROVE  VolumeIn(side, p)' =
              VolumeIn(side, p)
              - (IF o \in InLevel(side, p) THEN order[o].quantity ELSE 0)
              + (IF o \in InLevel(side, p)' THEN order'[o].quantity ELSE 0)
<1> DEFINE old  == InLevel(side, p)
           new  == InLevel(side, p)'
           rest == old \ {o}
           f    == QuantityOf(order)
           g    == QuantityOf(order')
           Sum(h, S) == SumFunctionOnSet(h, S)
<1>1. /\ old \subseteq Slots /\ IsFiniteSet(old)
      /\ \A s \in old : f[s] = order[s].quantity /\ f[s] \in Int
  <2>1. old \subseteq Slots /\ order \in [Slots -> OrderRec]
    BY DEF InLevel, Live, TypeOK
  <2> QED
    BY <2>1, QuantityFacts
<1>2. /\ new \subseteq Slots /\ IsFiniteSet(new)
      /\ \A s \in new : g[s] = order'[s].quantity /\ g[s] \in Int
  <2>1. new \subseteq Slots /\ order' \in [Slots -> OrderRec]
    BY DEF InLevel, Live, TypeOK
  <2> QED
    BY <2>1, QuantityFacts
<1>3. rest \subseteq old /\ IsFiniteSet(rest) /\ new \ {o} = rest
  BY <1>1, FS_Subset
<1>4. \A s \in rest : f[s] = g[s] /\ f[s] \in Int
  BY <1>1, <1>2, <1>3
<1>5. VolumeIn(side, p) = Sum(f, old) /\ VolumeIn(side, p)' = Sum(g, new)
  BY DEF VolumeIn
<1> HIDE DEF old, new, f, g, rest
<1>6. Sum(f, rest) = Sum(g, rest) /\ Sum(f, rest) \in Int
  BY <1>1, <1>3, <1>4, SumSame, SumInt
<1>7. Sum(f, old) = IF o \in old THEN f[o] + Sum(f, rest) ELSE Sum(f, rest)
  <2>1. o \notin old => old = rest
    BY DEF rest
  <2>2. o \in old => Sum(f, old) = f[o] + Sum(f, rest)
    BY <1>1, SumAdd DEF rest
  <2> QED
    BY <2>1, <2>2
<1>8. Sum(g, new) = IF o \in new THEN g[o] + Sum(g, rest) ELSE Sum(g, rest)
  <2>1. o \notin new => new = rest
    BY <1>3
  <2>2. o \in new => Sum(g, new) = g[o] + Sum(g, rest)
    BY <1>2, <1>3, SumAdd
  <2> QED
    BY <2>1, <2>2
<1> HIDE DEF Sum
<1>9. Sum(g, new) = Sum(f, old) - (IF o \in old THEN f[o] ELSE 0)
                               + (IF o \in new THEN g[o] ELSE 0)
  BY <1>1, <1>2, <1>6, <1>7, <1>8
<1>10. /\ (o \in old => f[o] = order[o].quantity)
       /\ (o \in new => g[o] = order'[o].quantity)
  BY <1>1, <1>2
<1> QED
  BY <1>5, <1>9, <1>10 DEF old, new

\* The word may be reduced before or after a quantity is added or taken out.
LEMMA WordAdd ==
    ASSUME NEW a \in Int, NEW q \in Int
    PROVE  ((a % WordMod) + q) % WordMod = (a + q) % WordMod
<1>1. WordMod \in Nat /\ WordMod > 0
  BY WordAssumption, OrderAssumption
<1> QED
  BY <1>1, ModAdd

\* Subtraction from a word that already wrapped.
LEMMA WordSub ==
    ASSUME NEW a \in Int, NEW q \in Int
    PROVE  ((a % WordMod) - q) % WordMod = (a - q) % WordMod
<1> DEFINE d == -q
           r == a % WordMod
<1>1. d \in Int /\ r \in Int
  BY WordAssumption, OrderAssumption
<1>2. r - q = r + d /\ a - q = a + d
  BY <1>1
<1> HIDE DEF d
<1>3. (r + d) % WordMod = (a + d) % WordMod
  BY <1>1, WordAdd
<1> QED
  BY <1>2, <1>3

\* An order that leaves takes its quantity out of the volume of its level.
LEMMA VolumeAfterRemove ==
    ASSUME VInv, TypeOK', NEW o \in Live, NEW q \in Nat, q = order[o].quantity,
           remove_and_release(o, q), SameOrders,
           \A s \in Slots \ {o} : order'[s] = order[s]
    PROVE  VolumeOK'
<1> DEFINE sd  == order[o].side
           pr  == order[o].price
           lvl == levels[sd][pr]
           nl  == Remove(SubVolume(lvl, q), o)
<1>1. TypeOK /\ IndexOK /\ QueuesFIFO /\ VolumeOK
  BY DEF VInv, IInv
<1>2. /\ Live' = Live \ {o}
      /\ \A side, p : InLevel(side, p)' = InLevel(side, p) \ {o}
  BY <1>1, InLevelAfterRemove
<1>3. /\ \A side \in Side : DOMAIN levels'[side] \subseteq DOMAIN levels[side]
      /\ \A side \in Side, p \in Prices :
            side # sd \/ p # pr =>
               /\ p \in DOMAIN levels'[side] <=> p \in DOMAIN levels[side]
               /\ p \in DOMAIN levels[side] => levels'[side][p] = levels[side][p]
  BY <1>1, LevelsAfterRemove
<1>4. /\ sd \in Side /\ pr \in DOMAIN levels[sd] /\ DOMAIN levels = Side
      /\ lvl \in PriceLevel
      /\ \A side, p : o \in InLevel(side, p) <=> side = sd /\ p = pr
  BY <1>1, LiveFacts DEF InLevel, TypeOK
<1>5. pr \in DOMAIN levels'[sd] =>
         levels'[sd][pr].total_volume = (lvl.total_volume - q) % WordMod
  <2>1. levels' = PutLevel(sd, pr, nl)
    BY DEF remove_and_release
  <2>2. nl.total_volume = (lvl.total_volume - q) % WordMod
    <3> HIDE DEF lvl
    <3> QED
      BY <1>4 DEF Remove, SubVolume, PriceLevel
  <2> HIDE DEF nl
  <2>3. pr \in DOMAIN levels'[sd] => levels'[sd][pr] = nl
    BY <1>4, <2>1, PutLevelFacts
  <2> QED
    BY <2>2, <2>3
<1>6. ASSUME NEW side, NEW p
      PROVE  VolumeIn(side, p)' = IF side = sd /\ p = pr THEN VolumeIn(side, p) - q
                                  ELSE VolumeIn(side, p)
  <2>1. /\ InLevel(side, p)' \ {o} = InLevel(side, p) \ {o}
        /\ o \notin InLevel(side, p)'
        /\ \A s \in InLevel(side, p) \ {o} : order'[s].quantity = order[s].quantity
    BY <1>2 DEF InLevel, Live
  <2>2. VolumeIn(side, p)' =
           VolumeIn(side, p)
           - (IF o \in InLevel(side, p) THEN order[o].quantity ELSE 0)
           + (IF o \in InLevel(side, p)' THEN order'[o].quantity ELSE 0)
    BY <1>1, <2>1, VolumeMoves
  <2>3. VolumeIn(side, p) \in Int
    BY <1>1, VolumeType
  <2> QED
    BY <1>4, <2>1, <2>2, <2>3
<1>7. \A side \in Side : \A p \in DOMAIN levels[side] :
         levels[side][p].total_volume = VolumeIn(side, p) % WordMod /\ p \in Prices
  BY <1>1 DEF VolumeOK, VolumeIn, QuantityOf, TypeOK
<1>8. VolumeIn(sd, pr) \in Int
  BY <1>1, VolumeType
<1> HIDE DEF sd, pr, lvl, nl
<1>9. ASSUME NEW side \in Side, NEW p \in DOMAIN levels'[side]
      PROVE  levels'[side][p].total_volume = VolumeIn(side, p)' % WordMod
  <2>1. p \in DOMAIN levels[side] /\ p \in Prices
    BY <1>3, <1>7
  <2>2. CASE side # sd \/ p # pr
    BY <1>3, <1>6, <1>7, <2>1, <2>2
  <2>3. CASE side = sd /\ p = pr
    <3>1. lvl.total_volume = VolumeIn(sd, pr) % WordMod
      BY <1>4, <1>7 DEF lvl
    <3>2. ((VolumeIn(sd, pr) % WordMod) - q) % WordMod = (VolumeIn(sd, pr) - q) % WordMod
      <4> DEFINE v == VolumeIn(sd, pr)
      <4>1. v \in Int /\ q \in Int
        BY <1>8
      <4> HIDE DEF v
      <4>2. ((v % WordMod) - q) % WordMod = (v - q) % WordMod
        BY <4>1, WordSub
      <4> QED
        BY <4>2 DEF v
    <3> QED
      BY <1>5, <1>6, <2>3, <3>1, <3>2
  <2> QED
    BY <2>2, <2>3
<1> QED
  BY <1>9 DEF VolumeOK, VolumeIn, QuantityOf

\* A fill that leaves the maker: total_volume goes down by the fill, and so does
\* the quantity of one of the orders of the level.
LEMMA VolumeAfterFillTaker ==
    ASSUME VInv, TypeOK', NEW p \in Prices, NEW o \in Slots, FillTaker(p, o)
    PROVE  VolumeOK'
<1> DEFINE f  == FillQty(o)
           sd == Opposite(call.side)
<1>1. TypeOK /\ IndexOK /\ QueuesFIFO /\ VolumeOK
  BY DEF VInv, IInv
<1>2. /\ RecordFill(p, o)
      /\ levels' = [levels EXCEPT ![sd][p] = SubVolume(@, f)]
      /\ UNCHANGED index
  BY DEF FillTaker
<1>3. /\ o \in Live
      /\ order[o].side = sd
      /\ order[o].price = p
      /\ sd \in Side
      /\ f \in Nat
      /\ order[o].quantity \in Int
      /\ p \in DOMAIN levels[sd]
  <2>1. /\ o \in Live
        /\ order[o].side = sd
        /\ order[o].price = p
        /\ sd \in Side
        /\ f \in Nat
        /\ order[o].quantity \in Qtys
    BY <1>1, <1>2, FillFacts
  <2>2. p \in DOMAIN levels[sd]
    BY <1>2 DEF RecordFill, IsBegin
  <2> QED
    BY <2>1, <2>2, OrderAssumption DEF Qtys
<1>4. /\ SameOrders
      /\ \A s \in Slots \ {o} : order'[s] = order[s]
      /\ order'[o].quantity = order[o].quantity - f
  BY <1>1, <1>2, FillWrites
<1> HIDE DEF f, sd
<1>5. /\ DOMAIN levels = Side
      /\ \A side \in Side : levels[side] \in [DOMAIN levels[side] -> PriceLevel]
  BY <1>1 DEF TypeOK
<1>6. /\ \A side \in Side : DOMAIN levels'[side] = DOMAIN levels[side]
      /\ \A side \in Side : \A r \in DOMAIN levels[side] :
            levels'[side][r] = IF side = sd /\ r = p THEN SubVolume(levels[sd][p], f)
                               ELSE levels[side][r]
  BY <1>2, <1>3, <1>5
<1>7. SubVolume(levels[sd][p], f).total_volume = (levels[sd][p].total_volume - f) % WordMod
  BY <1>3, <1>5 DEF SubVolume, PriceLevel
<1>8. /\ Live' = Live
      /\ \A side, r : InLevel(side, r)' = InLevel(side, r)
      /\ \A side, r : o \in InLevel(side, r) <=> side = sd /\ r = p
  <2>1. Live' = Live
    BY <1>2, <1>4 DEF Live, SameOrders
  <2> QED
    BY <1>3, <1>4, <2>1 DEF InLevel, SameOrders, Live
<1>9. ASSUME NEW side, NEW r
      PROVE  VolumeIn(side, r)' = IF side = sd /\ r = p THEN VolumeIn(side, r) - f
                                  ELSE VolumeIn(side, r)
  <2>1. /\ InLevel(side, r)' \ {o} = InLevel(side, r) \ {o}
        /\ \A s \in InLevel(side, r) \ {o} : order'[s].quantity = order[s].quantity
    BY <1>4, <1>8 DEF InLevel, Live
  <2>2. VolumeIn(side, r)' =
           VolumeIn(side, r)
           - (IF o \in InLevel(side, r) THEN order[o].quantity ELSE 0)
           + (IF o \in InLevel(side, r)' THEN order'[o].quantity ELSE 0)
    BY <1>1, <2>1, VolumeMoves
  <2>3. VolumeIn(side, r) \in Int
    BY <1>1, VolumeType
  <2> QED
    BY <1>3, <1>4, <1>8, <2>2, <2>3
<1>10. \A side \in Side : \A r \in DOMAIN levels[side] :
          levels[side][r].total_volume = VolumeIn(side, r) % WordMod
  BY <1>1 DEF VolumeOK, VolumeIn, QuantityOf
<1>11. ((VolumeIn(sd, p) % WordMod) - f) % WordMod = (VolumeIn(sd, p) - f) % WordMod
  <2> DEFINE v == VolumeIn(sd, p)
  <2>1. v \in Int /\ f \in Int
    BY <1>1, <1>3, VolumeType
  <2> HIDE DEF v
  <2>2. ((v % WordMod) - f) % WordMod = (v - f) % WordMod
    BY <2>1, WordSub
  <2> QED
    BY <2>2 DEF v
<1>12. ASSUME NEW side \in Side, NEW r \in DOMAIN levels'[side]
       PROVE  levels'[side][r].total_volume = VolumeIn(side, r)' % WordMod
  <2>1. CASE side # sd \/ r # p
    BY <1>6, <1>9, <1>10, <2>1
  <2>2. CASE side = sd /\ r = p
    BY <1>3, <1>6, <1>7, <1>9, <1>10, <1>11, <2>2
  <2> QED
    BY <2>1, <2>2
<1> QED
  BY <1>12 DEF VolumeOK, VolumeIn, QuantityOf

\* The remainder that comes to rest adds its quantity to its level, which may be
\* new and then held nothing.
LEMMA VolumeAfterRest ==
    ASSUME VInv, TypeOK', Rest
    PROVE  VolumeOK'
<1> DEFINE o  == free_head
           sd == call.side
           pr == call.price
           q  == call.qty
           lvl == LevelAt(sd, pr)
           nl  == AddVolume(PushBack(lvl, o), q)
<1>1. TypeOK /\ IndexOK /\ QueuesFIFO /\ FreeListOK /\ VolumeOK
  BY DEF VInv, IInv
<1>2. /\ o \in Slots /\ o \notin Live
      /\ sd \in Side
      /\ q \in Int
      /\ order'[o] = Remainder
      /\ \A s \in Slots \ {o} : order'[s] = order[s]
  BY <1>1, RestFacts, OrderAssumption DEF Qtys
<1>3. /\ DOMAIN levels' = Side
      /\ DOMAIN levels'[sd] = DOMAIN levels[sd] \cup {pr}
      /\ \A side \in Side \ {sd} : levels'[side] = levels[side]
      /\ \A p \in DOMAIN levels[sd] \ {pr} : levels'[sd][p] = levels[sd][p]
  BY <1>1, LevelsAfterRest
<1>4. \A side, p : InLevel(side, p)' = IF side = sd /\ p = pr
                                      THEN InLevel(side, p) \cup {o}
                                      ELSE InLevel(side, p)
  BY <1>1, InLevelAfterRest
<1>5. \A side, p : VolumeIn(side, p) \in Int
  BY <1>1, VolumeType
<1>6. ASSUME NEW side, NEW p
      PROVE  VolumeIn(side, p)' = IF side = sd /\ p = pr THEN VolumeIn(side, p) + q
                                  ELSE VolumeIn(side, p)
  <2>1. /\ InLevel(side, p)' \ {o} = InLevel(side, p) \ {o}
        /\ o \notin InLevel(side, p)
        /\ \A s \in InLevel(side, p) \ {o} : order'[s].quantity = order[s].quantity
        /\ o \in InLevel(side, p)' <=> side = sd /\ p = pr
    BY <1>2, <1>4 DEF InLevel, Live
  <2>2. VolumeIn(side, p)' =
           VolumeIn(side, p)
           - (IF o \in InLevel(side, p) THEN order[o].quantity ELSE 0)
           + (IF o \in InLevel(side, p)' THEN order'[o].quantity ELSE 0)
    BY <1>1, <2>1, VolumeMoves
  <2>3. order'[o].quantity = q
    BY <1>2 DEF Remainder
  <2> QED
    BY <1>2, <1>5, <2>1, <2>2, <2>3
<1>7. /\ DOMAIN levels = Side
      /\ \A side \in Side : levels[side] \in [DOMAIN levels[side] -> PriceLevel]
      /\ \A side \in Side : \A p \in DOMAIN levels[side] :
            levels[side][p].total_volume = VolumeIn(side, p) % WordMod
  BY <1>1 DEF TypeOK, VolumeOK, VolumeIn, QuantityOf
<1>8. lvl.total_volume = VolumeIn(sd, pr) % WordMod /\ lvl \in [head : Slots \cup {NULL},
                         tail : Slots \cup {NULL}, total_volume : Int]
  <2>1. CASE pr \in DOMAIN levels[sd]
    BY <1>2, <1>7, <2>1, WordAssumption DEF LevelAt, PriceLevel
  <2>2. CASE pr \notin DOMAIN levels[sd]
    <3>1. InLevel(sd, pr) = {}
      BY <1>1, <2>2, LiveFacts DEF InLevel
    <3>2. VolumeIn(sd, pr) = 0
      BY <3>1, SumPick, FS_EmptySet DEF VolumeIn
    <3>3. 0 % WordMod = 0
      BY WordAssumption, OrderAssumption
    <3> QED
      BY <2>2, <3>2, <3>3 DEF LevelAt, NewLevel
  <2> QED
    BY <2>1, <2>2
<1>9. levels'[sd][pr].total_volume = (lvl.total_volume + q) % WordMod
  <2>1. levels' = PutLevel(sd, pr, nl)
    BY DEF Rest, add_order, Remainder
  <2>2. nl.total_volume = (lvl.total_volume + q) % WordMod
    <3> HIDE DEF lvl
    <3> QED
      BY <1>8 DEF AddVolume, PushBack
  <2> HIDE DEF nl
  <2>3. pr \in DOMAIN levels'[sd]
    BY <1>3
  <2>4. levels'[sd][pr] = nl
    BY <1>2, <1>7, <2>1, <2>3, PutLevelFacts
  <2> QED
    BY <2>2, <2>4
<1> HIDE DEF o, sd, pr, q, lvl, nl
<1>10. ((VolumeIn(sd, pr) % WordMod) + q) % WordMod = (VolumeIn(sd, pr) + q) % WordMod
  <2> DEFINE v == VolumeIn(sd, pr)
  <2>1. v \in Int
    BY <1>5
  <2> HIDE DEF v
  <2>2. ((v % WordMod) + q) % WordMod = (v + q) % WordMod
    BY <1>2, <2>1, WordAdd
  <2> QED
    BY <2>2 DEF v
<1>11. ASSUME NEW side \in Side, NEW p \in DOMAIN levels'[side]
       PROVE  levels'[side][p].total_volume = VolumeIn(side, p)' % WordMod
  <2>1. CASE side # sd
    BY <1>3, <1>6, <1>7, <2>1
  <2>2. CASE side = sd /\ p # pr
    BY <1>3, <1>6, <1>7, <2>2
  <2>3. CASE side = sd /\ p = pr
    BY <1>6, <1>8, <1>9, <1>10, <2>3
  <2> QED
    BY <2>1, <2>2, <2>3
<1> QED
  BY <1>11 DEF VolumeOK, VolumeIn, QuantityOf

\* A step that leaves the orders, the index and the levels alone.
LEMMA VolumeSameBook ==
    ASSUME VInv, UNCHANGED <<order, levels, index>>
    PROVE  VolumeOK'
<1>1. \A side, p : InLevel(side, p)' = InLevel(side, p)
  BY DEF InLevel, Live
<1> QED
  BY <1>1 DEF VInv, VolumeOK

\* Every step of the engine keeps the volumes.
LEMMA VolumeInductive == VInv /\ [Next]_vars => VInv'
<1> SUFFICES ASSUME VInv, [Next]_vars PROVE VolumeOK'
  BY NextInv DEF VInv
<1>1. TypeOK /\ IndexOK /\ QueuesFIFO /\ TypeOK'
  BY NextInv DEF VInv, IInv
<1>2. ASSUME NEW side, NEW price, NEW is_market, NEW qty, Begin(side, price, is_market, qty)
      PROVE  VolumeOK'
  BY <1>2, VolumeSameBook DEF Begin, pool
<1>3. ASSUME NEW p \in Prices, NEW o \in Slots, FillMaker(p, o)
      PROVE  VolumeOK'
  <2>1. /\ RecordFill(p, o)
        /\ remove_and_release(o, FillQty(o))
        /\ order[o].quantity = FillQty(o)
    BY <1>3 DEF FillMaker
  <2>2. o \in Live /\ FillQty(o) \in Nat
    BY <1>1, <2>1, FillFacts
  <2>3. SameOrders /\ \A s \in Slots \ {o} : order'[s] = order[s]
    BY <1>1, <2>1, FillWrites
  <2> QED
    BY <1>1, <2>1, <2>2, <2>3, VolumeAfterRemove
<1>4. ASSUME NEW p \in Prices, NEW o \in Slots, FillTaker(p, o)
      PROVE  VolumeOK'
  BY <1>1, <1>4, VolumeAfterFillTaker
<1>5. ASSUME Rest PROVE VolumeOK'
  BY <1>1, <1>5, VolumeAfterRest
<1>6. ASSUME RestThrows \/ Return PROVE VolumeOK'
  BY <1>6, VolumeSameBook DEF RestThrows, Return, pool
<1>7. ASSUME NEW id \in 0..MaxId, cancel(id)
      PROVE  VolumeOK'
  <2> DEFINE o == index[id]
             q == order[o].quantity
  <2>1. /\ remove_and_release(o, q) /\ UNCHANGED order
        /\ id \in DOMAIN index
    BY <1>7 DEF cancel
  <2>2. o \in Live /\ q \in Nat
    <3>1. o \in Live /\ order[o] \in OrderRec
      BY <1>1, <2>1, LiveFacts
    <3> QED
      BY <3>1, OrderAssumption DEF OrderRec, Qtys
  <2>3. SameOrders /\ \A s \in Slots \ {o} : order'[s] = order[s]
    BY <2>1 DEF SameOrders
  <2> HIDE DEF o
  <2> QED
    BY <1>1, <2>1, <2>2, <2>3, VolumeAfterRemove
<1>8. ASSUME UNCHANGED vars PROVE VolumeOK'
  BY <1>8, VolumeSameBook DEF vars, pool
<1> QED
  BY <1>2, <1>3, <1>4, <1>5, <1>6, <1>7, <1>8
  DEF Next, submit_limit, submit_market, cancel_miss

\* total_volume, the running word of every level, is at all times the sum of what
\* rests there modulo the word, through every fill, cancel, insertion and reuse
\* of a slot (matching_engine.cpp:32, order_book.cpp:14, :29).
THEOREM VolumesCorrect == Spec => []VolumeOK
<1>1. Init => VInv
  <2>1. Init => IInv
    BY InitInv
  <2>2. Init => VolumeOK
    BY DEF Init, VolumeOK, Empty
  <2> QED
    BY <2>1, <2>2 DEF VInv
<1>2. VInv => VolumeOK
  BY DEF VInv
<1> QED
  BY <1>1, <1>2, VolumeInductive, PTL DEF Spec

-----------------------------------------------------------------------------
(* The refinement mapping.                                                  *)

\* LimitOrderBook has OrderTypes from its own instance: the operators agree.
LEMMA BookOperators ==
    /\ \A side : Book!Opposite(side) = Opposite(side)
    /\ \A side, p, q : Book!Ahead(side, p, q) <=> Ahead(side, p, q)
    /\ \A p : Book!Crosses(p) <=> Crosses(p)
    /\ \A a, b : Book!Lesser(a, b) = Lesser(a, b)
    /\ \A m, k : Book!Without(m, k) = Without(m, k)
    /\ \A m, k, v : Book!With(m, k, v) = With(m, k, v)
    /\ Book!IdleCall = IdleCall
    /\ Book!Matching <=> Matching
    /\ \A S : Book!Cardinality(S) = Cardinality(S)
<1>1. \A S : Book!Cardinality(S) = Cardinality(S)
  BY DEF Book!Cardinality, Cardinality
<1> QED
  BY <1>1 DEF Book!Opposite, Opposite, Book!Ahead, Ahead, Book!Crosses, Crosses,
     Book!Lesser, Lesser, Book!Without, Without, Book!Restrict, Restrict,
     Book!With, With, Book!IdleCall, IdleCall, Book!Matching, Matching

\* What rests under an id is the order of a live slot, and every live slot
\* rests under its id.
LEMMA RestingFacts ==
    ASSUME TypeOK, IndexOK
    PROVE  /\ DOMAIN RestingOrders = DOMAIN index
           /\ \A i \in DOMAIN index :
                 /\ index[i] \in Live
                 /\ order[index[i]].id = i
                 /\ RestingOrders[i].side = order[index[i]].side
                 /\ RestingOrders[i].price = order[index[i]].price
                 /\ RestingOrders[i].quantity = order[index[i]].quantity
           /\ \A s \in Live : order[s].id \in DOMAIN index /\ index[order[s].id] = s
<1>1. \A i \in DOMAIN index : index[i] \in Live /\ order[index[i]].id = i
  BY LiveFacts
<1>2. \A s \in Live : order[s].id \in DOMAIN index /\ index[order[s].id] = s
  BY DEF Live
<1> QED
  BY <1>1, <1>2 DEF RestingOrders

\* A level of the map shows that an order rests at its price.
LEMMA LevelHasOrder ==
    ASSUME TypeOK, IndexOK, QueuesFIFO, NEW side \in Side, NEW p \in DOMAIN levels[side]
    PROVE  \E j \in DOMAIN index : /\ index[j] = levels[side][p].head
                                   /\ RestingOrders[j].side = side
                                   /\ RestingOrders[j].price = p
<1> DEFINE h == levels[side][p].head
<1>1. h \in InLevel(side, p)
  BY DEF QueuesFIFO, EndsOK
<1>2. h \in Live /\ order[h].side = side /\ order[h].price = p
  BY <1>1 DEF InLevel
<1>3. order[h].id \in DOMAIN index /\ index[order[h].id] = h
  BY <1>2, RestingFacts
<1> QED
  BY <1>2, <1>3, RestingFacts

\* The level maps show what rests, as those of the list engine do: a level for each
\* price at which an order rests, and as its volume the sum of those orders.
LEMMA LevelVolume ==
    ASSUME IInv, VolumeOK, NEW side \in Side
    PROVE  /\ DOMAIN levels[side] = PricesOf(RestingOrders, side)
           /\ \A p \in DOMAIN levels[side] :
                 levels[side][p].total_volume = RestingSum(RestingOrders, side, p) % WordMod
<1>1. TypeOK /\ IndexOK /\ QueuesFIFO
  BY DEF IInv
<1>2. DOMAIN RestingOrders = DOMAIN index
  BY <1>1, RestingFacts
<1>3. ASSUME NEW p \in DOMAIN levels[side]
      PROVE  levels[side][p].total_volume = RestingSum(RestingOrders, side, p) % WordMod
  <2> DEFINE S == InLevel(side, p)
             f == QuantityOf(order)
             b == [s \in S |-> order[s].id]
             g == [i \in DOMAIN RestingOrders |-> RestingOrders[i].quantity]
  <2>1. /\ S \subseteq Slots /\ IsFiniteSet(S)
        /\ \A s \in S : f[s] = order[s].quantity /\ f[s] \in Int
    <3>1. S \subseteq Slots /\ order \in [Slots -> OrderRec]
      BY <1>1 DEF InLevel, Live, TypeOK
    <3> HIDE DEF S, f
    <3> QED
      BY <3>1, QuantityFacts DEF f
  <2>2. ASSUME NEW s \in S
        PROVE  /\ b[s] = order[s].id /\ b[s] \in DOMAIN index /\ index[b[s]] = s
               /\ b[s] \in AtPrice(RestingOrders, side, p) /\ g[b[s]] = f[s]
    <3>1. s \in Live /\ order[s].side = side /\ order[s].price = p
      BY DEF InLevel
    <3>2. PICK i : i = order[s].id
      OBVIOUS
    <3>3. i \in DOMAIN index /\ index[i] = s
      BY <1>1, <3>1, <3>2, RestingFacts
    <3>4. RestingOrders[i].side = side /\ RestingOrders[i].price = p
          /\ RestingOrders[i].quantity = order[s].quantity
      BY <1>1, <3>1, <3>3, RestingFacts
    <3>5. i \in AtPrice(RestingOrders, side, p)
      BY <1>2, <3>3, <3>4 DEF AtPrice
    <3>6. g[i] = order[s].quantity
      BY <1>2, <3>3, <3>4
    <3>7. b[s] = i /\ f[s] = order[s].quantity
      BY <2>1, <3>2
    <3> HIDE DEF b, f, g, S
    <3> QED
      BY <3>2, <3>3, <3>5, <3>6, <3>7
  <2>3. \A s, t \in S : b[s] = b[t] => s = t
    <3> HIDE DEF b, f, g, S
    <3> QED
      BY <2>2
  <2>4. {b[s] : s \in S} = AtPrice(RestingOrders, side, p)
    <3>1. ASSUME NEW i \in AtPrice(RestingOrders, side, p)
          PROVE  \E s \in S : b[s] = i
      <4>1. i \in DOMAIN index /\ RestingOrders[i].side = side /\ RestingOrders[i].price = p
        BY <1>2 DEF AtPrice
      <4>2. PICK s : s = index[i]
        OBVIOUS
      <4>3. s \in Live /\ order[s].id = i /\ order[s].side = side /\ order[s].price = p
        BY <1>1, <4>1, <4>2, RestingFacts
      <4>4. s \in S
        BY <4>3 DEF InLevel
      <4>5. b[s] = i
        BY <4>3, <4>4
      <4> QED
        BY <4>4, <4>5
    <3> HIDE DEF b, f, g, S
    <3> QED
      BY <2>2, <3>1
  <2> HIDE DEF f, b, g, S
  <2>5. SumFunctionOnSet(g, {b[s] : s \in S}) = SumFunctionOnSet(f, S)
    <3>1. \A s \in S : f[s] \in Int /\ g[b[s]] = f[s]
      BY <2>1, <2>2
    <3> QED
      BY <2>1, <2>3, <3>1, SumImage
  <2>6. levels[side][p].total_volume = SumFunctionOnSet(f, S) % WordMod
    BY DEF VolumeOK, f, S, QuantityOf
  <2> QED
    BY <2>4, <2>5, <2>6 DEF RestingSum, g
<1>4. ASSUME NEW p PROVE p \in DOMAIN levels[side] <=> p \in PricesOf(RestingOrders, side)
  <2>1. ASSUME p \in DOMAIN levels[side] PROVE p \in PricesOf(RestingOrders, side)
    <3>1. PICK j \in DOMAIN index : RestingOrders[j].side = side /\ RestingOrders[j].price = p
      BY <1>1, <2>1, LevelHasOrder
    <3> QED
      BY <1>2, <3>1 DEF PricesOf
  <2>2. ASSUME p \in PricesOf(RestingOrders, side) PROVE p \in DOMAIN levels[side]
    <3>1. PICK j \in DOMAIN index : RestingOrders[j].side = side /\ RestingOrders[j].price = p
      BY <1>2, <2>2 DEF PricesOf
    <3>2. order[index[j]].side = side /\ order[index[j]].price = p
      BY <1>1, <3>1, RestingFacts
    <3> QED
      BY <1>1, <3>1, <3>2 DEF IndexOK
  <2> QED
    BY <2>1, <2>2
<1> QED
  BY <1>3, <1>4

\* The slots in use are as many as the orders that rest.
LEMMA LiveCardinality ==
    ASSUME TypeOK, IndexOK
    PROVE  /\ IsFiniteSet(Live)
           /\ Cardinality(DOMAIN index) = Cardinality(Live)
           /\ Cardinality(Slots) = Capacity
           /\ IsFiniteSet(Slots)
<1>1. IsFiniteSet(Slots) /\ Cardinality(Slots) = Capacity
  <2>1. /\ IsFiniteSet(1..Capacity)
        /\ Cardinality(1..Capacity) = IF 1 > Capacity THEN 0 ELSE Capacity - 1 + 1
    BY OrderAssumption, FS_Interval
  <2> QED
    BY <2>1, OrderAssumption DEF Slots
<1>2. IsFiniteSet(Live)
  BY <1>1, FS_Subset DEF Live
<1>3. index \in [DOMAIN index -> Live]
  BY RestingFacts DEF TypeOK
<1>4. \A i, j \in DOMAIN index : index[i] = index[j] => i = j
  BY RestingFacts
<1>5. \A s \in Live : \E i \in DOMAIN index : index[i] = s
  BY RestingFacts
<1>6. index \in Injection(DOMAIN index, Live) /\ index \in Surjection(DOMAIN index, Live)
  BY <1>3, <1>4, <1>5 DEF Injection, Surjection, IsInjective
<1>7. Cardinality(DOMAIN index) = Cardinality(Live)
  BY <1>2, <1>6, FS_Injection
<1> QED
  BY <1>1, <1>2, <1>7

\* acquire fails exactly when as many orders rest as the pool has slots.
LEMMA PoolFull ==
    ASSUME TypeOK, IndexOK, FreeListOK
    PROVE  IF free_head = NULL THEN Cardinality(DOMAIN index) = Capacity
                               ELSE Cardinality(DOMAIN index) < Capacity
<1>1. PICK list \in [1..Cardinality(Free) -> Free] :
         IsFreeList(list, Cardinality(Free), Free, free_head, next)
  BY DEF FreeListOK
<1>2. Cardinality(Free) \in Nat
  BY FreeFinite, FS_CardinalityType
<1>3. Live \subseteq Slots /\ Free = Slots \ Live
  BY DEF Live, Free
<1>4. CASE free_head = NULL
  <2>1. Cardinality(Free) = 0
    <3>1. SUFFICES ASSUME Cardinality(Free) # 0 PROVE FALSE
      OBVIOUS
    <3>2. list[1] \in Free /\ free_head = list[1]
      BY <1>1, <1>2, <3>1 DEF IsFreeList
    <3> QED
      BY <1>3, <1>4, <3>2, OrderAssumption DEF Slots, NULL
  <2>2. Live = Slots
    BY <1>3, <2>1, FreeFinite, FS_EmptySet
  <2> QED
    BY <1>4, <2>2, LiveCardinality
<1>5. CASE free_head # NULL
  <2>1. Cardinality(Free) # 0
    BY <1>1, <1>5 DEF IsFreeList
  <2>2. Live # Slots
    BY <1>3, <2>1, FS_EmptySet
  <2>3. /\ Cardinality(Live) <= Cardinality(Slots)
        /\ Cardinality(Slots) # Cardinality(Live)
    BY <1>3, <2>2, LiveCardinality, FS_Subset
  <2>4. Cardinality(Live) \in Nat
    BY LiveCardinality, FS_CardinalityType
  <2> QED
    BY <1>5, <2>3, <2>4, LiveCardinality, OrderAssumption
<1> QED
  BY <1>4, <1>5

-----------------------------------------------------------------------------
(* The loop of match: who trades, and when it ends.                         *)

\* The head of the best level is the order that price-time priority names.
LEMMA HeadIsMaker ==
    ASSUME TypeOK, IndexOK, QueuesFIFO, call \in Call,
           NEW p \in DOMAIN levels[Opposite(call.side)],
           IsBegin(Opposite(call.side), p), Crosses(p),
           NEW o, o = Maker(p)
    PROVE  o \in Live /\ order[o].id \in DOMAIN index /\ Book!IsMaker(order[o].id)
<1> DEFINE opp == Opposite(call.side)
           i   == order[o].id
<1>1. call.side \in Side /\ opp \in Side
  BY SideFacts DEF Call
<1>2. o \in InLevel(opp, p)
  BY <1>1 DEF Maker, QueuesFIFO, EndsOK
<1>3. o \in Live /\ order[o].side = opp /\ order[o].price = p
  BY <1>2 DEF InLevel
<1>4. i \in DOMAIN index /\ index[i] = o /\ i \in Nat
  BY <1>3, RestingFacts, LiveFacts
<1>5. RestingOrders[i].side = opp /\ RestingOrders[i].price = p
  BY <1>3, <1>4, RestingFacts
<1>6. Book!Crosses(p)
  BY BookOperators
<1>7. ASSUME NEW j \in DOMAIN index \ {i}, RestingOrders[j].side = opp
      PROVE  Book!Before(i, j)
  <2> DEFINE t == index[j]
             q == RestingOrders[j].price
  <2>1. t \in Live /\ order[t].id = j /\ order[t].side = opp /\ order[t].price = q
    BY <1>7, RestingFacts
  <2>2. q \in DOMAIN levels[opp] /\ j \in Nat
    BY <2>1, LiveFacts
  <2>3. Ahead(opp, p, q)
    BY <2>2 DEF IsBegin
  <2>4. p = q => i < j
    <3>1. SUFFICES ASSUME p = q PROVE i < j
      OBVIOUS
    <3>2. t \in InLevel(opp, p)
      BY <2>1, <3>1 DEF InLevel
    <3>3. order[o].id <= order[t].id
      BY <1>1, <3>2 DEF Maker, QueuesFIFO, EndsOK
    <3> QED
      BY <1>4, <1>7, <2>1, <2>2, <3>3
  <2> QED
    BY <1>5, <2>3, <2>4 DEF Book!Before, Book!Ahead, Ahead
<1>8. DOMAIN RestingOrders = DOMAIN index
  BY RestingFacts
<1>9. Book!IsMaker(i)
  BY <1>5, <1>6, <1>7, <1>8, BookOperators DEF Book!IsMaker
<1> QED
  BY <1>3, <1>4, <1>9

\* The loop ends only when the book offers nobody to trade with.
LEMMA MatchOverRefines ==
    ASSUME TypeOK, IndexOK, QueuesFIFO, MatchOver
    PROVE  Book!MatchOver
<1> DEFINE opp == Opposite(call.side)
<1>1. call \in Call /\ call.side \in Side /\ opp \in Side
  BY SideFacts DEF TypeOK, Call
<1>2. Matching /\ Book!Matching
  BY BookOperators DEF MatchOver
<1>3. CASE call.qty = 0
  BY <1>2, <1>3 DEF Book!MatchOver
<1>4. CASE \A p \in DOMAIN levels[opp] : IsBegin(opp, p) => ~Crosses(p)
  <2>1. SUFFICES ASSUME NEW i \in DOMAIN index, Book!IsMaker(i) PROVE FALSE
    BY <1>2, RestingFacts DEF Book!MatchOver
  <2> DEFINE p == RestingOrders[i].price
  <2>2. RestingOrders[i].side = opp /\ Book!Crosses(p)
    BY <2>1, BookOperators DEF Book!IsMaker
  <2>3. p \in DOMAIN levels[opp] /\ p \in Prices
    BY <2>2, RestingFacts, LiveFacts
  <2>4. ASSUME NEW q \in DOMAIN levels[opp] PROVE Ahead(opp, p, q)
    <3>1. PICK j \in DOMAIN index : RestingOrders[j].side = opp /\ RestingOrders[j].price = q
      BY <1>1, LevelHasOrder
    <3>2. p \in Int /\ q \in Int
      BY <1>1, <2>3, OrderAssumption DEF TypeOK, Prices
    <3>3. CASE j = i
      BY <3>1, <3>2, <3>3 DEF Ahead
    <3>4. CASE j # i
      <4>1. Book!Before(i, j)
        BY <2>1, <2>2, <3>1, <3>4, RestingFacts DEF Book!IsMaker
      <4> QED
        BY <2>2, <3>1, <3>2, <4>1 DEF Book!Before, Book!Ahead, Ahead
    <3> QED
      BY <3>3, <3>4
  <2>5. IsBegin(opp, p)
    BY <2>3, <2>4 DEF IsBegin
  <2>6. Crosses(p)
    BY <2>2, BookOperators
  <2> QED
    BY <1>4, <2>3, <2>5, <2>6
<1> QED
  BY <1>3, <1>4 DEF MatchOver

-----------------------------------------------------------------------------
(* Every step of the engine is a step of the book, or leaves it alone.      *)

\* A book whose index and orders stay as they are stays as it is.
LEMMA SameResting ==
    ASSUME UNCHANGED <<order, index>>
    PROVE  RestingOrders' = RestingOrders
BY DEF RestingOrders

LEMMA BeginRefines ==
    ASSUME NEW side, NEW price, NEW is_market, NEW qty,
           Begin(side, price, is_market, qty)
    PROVE  Book!Begin(side, price, is_market, qty)
<1>1. RestingOrders' = RestingOrders
  BY SameResting DEF Begin, pool
<1> QED
  BY <1>1 DEF Begin, Book!Begin

\* What the two kinds of iteration have in common.
LEMMA RecordFillRefines ==
    ASSUME TypeOK, IndexOK, QueuesFIFO, NEW p \in Prices, NEW o \in Slots,
           RecordFill(p, o), NEW i, i = order[o].id, NEW q, q = FillQty(o)
    PROVE  /\ o \in Live
           /\ i \in DOMAIN index
           /\ index[i] = o
           /\ RestingOrders[i].quantity = order[o].quantity
           /\ q = Lesser(call.qty, RestingOrders[i].quantity)
           /\ Book!Matching /\ call.qty > 0 /\ Book!IsMaker(i)
           /\ out' = Append(out, [maker_id |-> i, taker_id |-> call.id,
                                  price |-> RestingOrders[i].price, quantity |-> q])
           /\ call' = [call EXCEPT !.qty = @ - q]
           /\ next_id' = next_id
<1>1. p \in DOMAIN levels[Opposite(call.side)] /\ call \in Call
  BY DEF RecordFill, IsBegin, TypeOK
<1>2. o \in Live /\ i \in DOMAIN index /\ Book!IsMaker(i)
  BY <1>1, HeadIsMaker DEF RecordFill
<1>3. index[i] = o
  BY <1>2, RestingFacts
<1>4. /\ RestingOrders[i].quantity = order[o].quantity
      /\ RestingOrders[i].price = order[o].price
  BY <1>2, <1>3, RestingFacts
<1>5. q = Lesser(call.qty, RestingOrders[i].quantity)
  BY <1>4 DEF FillQty
<1> QED
  BY <1>2, <1>3, <1>4, <1>5, BookOperators DEF RecordFill

\* An iteration that fills the maker trades with it and takes it from the book.
LEMMA FillMakerRefines ==
    ASSUME TypeOK, IndexOK, QueuesFIFO, NEW p \in Prices, NEW o \in Slots,
           FillMaker(p, o)
    PROVE  \E i \in DOMAIN RestingOrders : Book!Trade(i)
<1> DEFINE i == order[o].id
           q == FillQty(o)
<1>1. RecordFill(p, o) /\ q = order[o].quantity /\ index' = Without(index, i)
  BY DEF FillMaker, remove_and_release
<1>2. /\ o \in Live
      /\ i \in DOMAIN index
      /\ index[i] = o
      /\ RestingOrders[i].quantity = order[o].quantity
      /\ q = Lesser(call.qty, RestingOrders[i].quantity)
      /\ Book!Matching /\ call.qty > 0 /\ Book!IsMaker(i)
      /\ out' = Append(out, [maker_id |-> i, taker_id |-> call.id,
                             price |-> RestingOrders[i].price, quantity |-> q])
      /\ call' = [call EXCEPT !.qty = @ - q]
      /\ next_id' = next_id
  BY <1>1, RecordFillRefines
<1>3. \A j \in DOMAIN index \ {i} : order'[index[j]] = order[index[j]]
  BY <1>1, <1>2, FillWrites, RestingFacts, LiveFacts
<1>4. DOMAIN index' = DOMAIN index \ {i} /\ \A j \in DOMAIN index \ {i} : index'[j] = index[j]
  BY <1>1, WithoutFacts
<1>5. RestingOrders' = [j \in DOMAIN index \ {i} |-> RestingOrders[j]]
  BY <1>3, <1>4 DEF RestingOrders
<1>6. RestingOrders' = Without(RestingOrders, i)
  BY <1>5, RestingFacts DEF Without, Restrict
<1>7. Book!Trade(i)
  BY <1>1, <1>2, <1>6, BookOperators DEF Book!Trade
<1> QED
  BY <1>2, <1>7, RestingFacts

\* An iteration that fills the taker leaves the rest of the maker in its place.
LEMMA FillTakerRefines ==
    ASSUME TypeOK, IndexOK, QueuesFIFO, NEW p \in Prices, NEW o \in Slots,
           FillTaker(p, o)
    PROVE  \E i \in DOMAIN RestingOrders : Book!Trade(i)
<1> DEFINE i == order[o].id
           q == FillQty(o)
           R == [RestingOrders EXCEPT ![i].quantity = @ - q]
<1>1. RecordFill(p, o) /\ q # order[o].quantity /\ index' = index
  BY DEF FillTaker
<1>2. /\ o \in Live
      /\ i \in DOMAIN index
      /\ index[i] = o
      /\ RestingOrders[i].quantity = order[o].quantity
      /\ q = Lesser(call.qty, RestingOrders[i].quantity)
      /\ Book!Matching /\ call.qty > 0 /\ Book!IsMaker(i)
      /\ out' = Append(out, [maker_id |-> i, taker_id |-> call.id,
                             price |-> RestingOrders[i].price, quantity |-> q])
      /\ call' = [call EXCEPT !.qty = @ - q]
      /\ next_id' = next_id
  BY <1>1, RecordFillRefines
<1>3. \A j \in DOMAIN index \ {i} : order'[index[j]] = order[index[j]]
  BY <1>1, <1>2, FillWrites, RestingFacts, LiveFacts
<1>4. /\ order'[o].side = order[o].side
      /\ order'[o].price = order[o].price
      /\ order'[o].quantity = order[o].quantity - q
  BY <1>1, FillWrites DEF SameOrders
<1>5. RestingOrders' = R
  <2>1. /\ RestingOrders' = [j \in DOMAIN index |->
              [side |-> order'[index[j]].side, price |-> order'[index[j]].price,
               quantity |-> order'[index[j]].quantity]]
        /\ DOMAIN RestingOrders = DOMAIN index
    BY <1>1 DEF RestingOrders
  <2>2. R = [j \in DOMAIN index |->
               IF j = i THEN [RestingOrders[j] EXCEPT !.quantity = @ - q]
               ELSE RestingOrders[j]]
    BY <2>1
  <2>3. \A j \in DOMAIN index : RestingOrders[j] =
           [side |-> order[index[j]].side, price |-> order[index[j]].price,
            quantity |-> order[index[j]].quantity]
    BY DEF RestingOrders
  <2>4. ASSUME NEW j \in DOMAIN index PROVE RestingOrders'[j] = R[j]
    <3>1. CASE j = i
      <4>1. RestingOrders'[j] = [side |-> order[o].side, price |-> order[o].price,
                                 quantity |-> order[o].quantity - q]
        BY <1>2, <1>4, <2>1, <3>1
      <4>2. R[j] = [RestingOrders[i] EXCEPT !.quantity = @ - q]
        BY <2>2, <3>1
      <4>3. RestingOrders[i] = [side |-> order[o].side, price |-> order[o].price,
                                quantity |-> order[o].quantity]
        BY <1>2, <2>3
      <4> HIDE DEF R, q
      <4> QED
        BY <4>1, <4>2, <4>3
    <3>2. CASE j # i
      BY <1>3, <2>1, <2>2, <2>3, <3>2
    <3> QED
      BY <3>1, <3>2
  <2> QED
    BY <2>1, <2>2, <2>4
<1>6. Book!Trade(i)
  BY <1>1, <1>2, <1>5, BookOperators DEF Book!Trade
<1> QED
  BY <1>2, <1>6, RestingFacts

\* The remainder rests under the id of the submission.
LEMMA RestRefines ==
    ASSUME TypeOK, IndexOK, QueuesFIFO, FreeListOK, Rest
    PROVE  Book!Rest
<1> DEFINE o == free_head
<1>1. /\ DOMAIN index' = DOMAIN index \cup {call.id}
      /\ index'[call.id] = o
      /\ \A j \in DOMAIN index : index'[j] = index[j]
      /\ \A s \in Live : order'[s] = order[s]
  BY InLevelAfterRest
<1>2. order'[o] = Remainder
  BY RestFacts
<1>3. call.id \notin DOMAIN index
  BY DEF Rest, MatchOver, IndexOK
<1>4. RestingOrders' = With(RestingOrders, call.id, Book!Remainder)
  <2>1. RestingOrders'[call.id] = Book!Remainder
    BY <1>1, <1>2 DEF RestingOrders, Remainder, Book!Remainder
  <2>2. \A j \in DOMAIN index : RestingOrders'[j] = RestingOrders[j]
    BY <1>1, RestingFacts DEF RestingOrders
  <2>3. RestingOrders' = [j \in DOMAIN index \cup {call.id} |-> RestingOrders'[j]]
    BY <1>1 DEF RestingOrders
  <2>4. DOMAIN RestingOrders = DOMAIN index
    BY RestingFacts
  <2> QED
    BY <1>3, <2>1, <2>2, <2>3, <2>4 DEF With
<1>5. Cardinality(DOMAIN RestingOrders) < Capacity
  BY PoolFull, RestingFacts DEF Rest
<1> QED
  BY <1>4, <1>5, MatchOverRefines, BookOperators DEF Rest, HasRemainder, Book!Rest

\* An order is refused only when as many orders rest as the pool has slots.
LEMMA RestThrowsRefines ==
    ASSUME TypeOK, IndexOK, QueuesFIFO, FreeListOK, RestThrows
    PROVE  Book!Refuse
<1>1. RestingOrders' = RestingOrders
  BY SameResting DEF RestThrows, pool
<1>2. Cardinality(DOMAIN RestingOrders) = Capacity
  BY PoolFull, RestingFacts DEF RestThrows
<1> QED
  BY <1>1, <1>2, MatchOverRefines, BookOperators DEF RestThrows, HasRemainder, Book!Refuse

LEMMA ReturnRefines ==
    ASSUME TypeOK, IndexOK, QueuesFIFO, Return
    PROVE  Book!Return
<1>1. RestingOrders' = RestingOrders
  BY SameResting DEF Return, pool
<1>2. call.is_market \/ call.qty = 0
  BY OrderAssumption DEF Return, HasRemainder, TypeOK, Call, Qtys
<1> QED
  BY <1>1, <1>2, MatchOverRefines, BookOperators DEF Return, Book!Return

\* A cancel takes exactly the order of its id.
LEMMA CancelRefines ==
    ASSUME TypeOK, IndexOK, NEW id, cancel(id)
    PROVE  Book!cancel(id)
<1>1. order[index[id]].id = id /\ id \in DOMAIN index
  BY LiveFacts DEF cancel
<1>2. index' = Without(index, id) /\ order' = order
  BY <1>1 DEF cancel, remove_and_release
<1>3. DOMAIN index' = DOMAIN index \ {id} /\ \A j \in DOMAIN index \ {id} : index'[j] = index[j]
  BY <1>2, WithoutFacts
<1>4. RestingOrders' = [j \in DOMAIN index \ {id} |-> RestingOrders[j]]
  BY <1>2, <1>3 DEF RestingOrders
<1>5. RestingOrders' = Without(RestingOrders, id)
  BY <1>4, RestingFacts DEF Without, Restrict
<1> QED
  BY <1>5, BookOperators DEF cancel, Book!cancel

\* A cancel of an unknown id takes nothing.
LEMMA CancelMissRefines ==
    ASSUME NEW id, cancel_miss(id)
    PROVE  Book!cancel(id)
<1>1. RestingOrders' = RestingOrders
  BY SameResting DEF cancel_miss, vars
<1>2. id \notin DOMAIN RestingOrders
  BY DEF cancel_miss, RestingOrders
<1>3. RestingOrders = [j \in DOMAIN RestingOrders |-> RestingOrders[j]]
  BY DEF RestingOrders
<1>4. Without(RestingOrders, id) = RestingOrders
  BY <1>2, <1>3 DEF Without, Restrict
<1> QED
  BY <1>1, <1>4, BookOperators DEF cancel_miss, vars, Book!cancel

LEMMA InitRefines == Init => Book!Init
<1> SUFFICES ASSUME Init PROVE Book!Init
  OBVIOUS
<1>1. DOMAIN index = {}
  BY DEF Init, Empty
<1>2. RestingOrders = Book!Empty
  BY <1>1 DEF RestingOrders, Book!Empty
<1> QED
  BY <1>2, BookOperators DEF Init, Book!Init

LEMMA NextRefines == IInv /\ [Next]_vars => [Book!Next]_(Book!vars)
<1> SUFFICES ASSUME IInv, [Next]_vars PROVE [Book!Next]_(Book!vars)
  OBVIOUS
<1>1. TypeOK /\ IndexOK /\ QueuesFIFO /\ FreeListOK
  BY DEF IInv
<1>2. Side = Book!Side /\ Prices = Book!Prices /\ Qtys = Book!Qtys
  BY DEF Side, Book!Side, Prices, Book!Prices, Qtys, Book!Qtys
<1>3. ASSUME NEW side \in Side, NEW price \in Prices, NEW qty \in Qtys,
             submit_limit(side, price, qty)
      PROVE  Book!Next
  BY <1>2, <1>3, BeginRefines DEF submit_limit, Book!submit_limit, Book!Next
<1>4. ASSUME NEW side \in Side, NEW qty \in Qtys, submit_market(side, qty)
      PROVE  Book!Next
  BY <1>2, <1>4, BeginRefines DEF submit_market, Book!submit_market, Book!Next
<1>5. ASSUME NEW p \in Prices, NEW o \in Slots, FillMaker(p, o) \/ FillTaker(p, o)
      PROVE  Book!Next
  BY <1>1, <1>5, FillMakerRefines, FillTakerRefines DEF Book!Next
<1>6. ASSUME Rest \/ RestThrows \/ Return
      PROVE  Book!Next
  BY <1>1, <1>6, RestRefines, RestThrowsRefines, ReturnRefines DEF Book!Next
<1>7. ASSUME NEW id \in 0..MaxId, cancel(id) \/ cancel_miss(id)
      PROVE  Book!Next
  BY <1>1, <1>7, CancelRefines, CancelMissRefines DEF Book!Next
<1>8. ASSUME UNCHANGED vars
      PROVE  UNCHANGED Book!vars
  BY <1>8, SameResting DEF vars, Book!vars
<1> QED
  BY <1>3, <1>4, <1>5, <1>6, <1>7, <1>8 DEF Next

\* Pool, intrusive lists, level maps and index together behave as the set of
\* resting orders of LimitOrderBook: best price first, first in first out, the
\* remainder rests unless every slot is taken, a cancel takes one order
\* (matching_engine.cpp:6-66).  The fairness of ImplementsBook is left to TLC.
THEOREM EngineImplementsBook == Spec => Book!Spec
<1>1. Init => Book!Init
  BY InitRefines
<1>2. IInv /\ [Next]_vars => [Book!Next]_(Book!vars)
  BY NextRefines
<1> QED
  BY <1>1, <1>2, Invariance, PTL DEF Spec, Book!Spec

-----------------------------------------------------------------------------
(* The fills of a submission.                                               *)

\* What rests on the other side comes after every fill made: what makes
\* SweepInPriority inductive.  A maker that is left in part ends the sweep.
SweepAhead ==
    LET book == Opposite(call.side)
    IN  Matching =>
          \A n \in DOMAIN out : \A s \in Live : order[s].side = book =>
             /\ Ahead(book, out[n].price, order[s].price)
             /\ \/ call.qty = 0
                \/ out[n].price = order[s].price => out[n].maker_id < order[s].id

\* The fill of an iteration, and where it leaves the loop.
LEMMA FillInSweep ==
    ASSUME TypeOK, IndexOK, QueuesFIFO, SweepAhead, NEW p \in Prices, NEW o \in Slots,
           RecordFill(p, o),
           \A s \in Live' : s \in Live,
           o \in Live' => call'.qty = 0
    PROVE  (SweepInPriority => SweepInPriority') /\ SweepAhead'
<1> DEFINE book == Opposite(call.side)
           k    == Len(out) + 1
<1>1. /\ o \in Live /\ order[o].side = book /\ order[o].price = p
      /\ call.qty > 0 /\ Matching /\ Crosses(p) /\ IsBegin(book, p)
      /\ o = Maker(p) /\ book \in Side
  BY FillFacts DEF RecordFill
<1>2. /\ out' = Append(out, [maker_id |-> order[o].id, taker_id |-> call.id,
                             price |-> order[o].price, quantity |-> FillQty(o)])
      /\ call' = [call EXCEPT !.qty = @ - FillQty(o)]
      /\ call \in Call
      /\ out \in Seq(Fill)
  BY DEF RecordFill, TypeOK
<1>3. /\ call'.side = call.side /\ call'.price = call.price
      /\ call'.is_market = call.is_market
  BY <1>2 DEF Call
<1>4. SameOrders
  BY FillWrites
<1>5. /\ DOMAIN out' = DOMAIN out \cup {k}
      /\ DOMAIN out = 1..Len(out) /\ Len(out) \in Nat
      /\ \A n \in DOMAIN out : out'[n] = out[n]
      /\ out'[k].maker_id = order[o].id /\ out'[k].price = p
  BY <1>1, <1>2
<1>6. ASSUME NEW s \in Live, order[s].side = book
      PROVE  Ahead(book, p, order[s].price)
  BY <1>1, <1>6, LiveFacts DEF IsBegin
<1>7. ASSUME NEW s \in Live, order[s].side = book, order[s].price = p, s # o
      PROVE  order[o].id < order[s].id
  <2>1. s \in InLevel(book, p) /\ p \in DOMAIN levels[book]
    BY <1>1, <1>7 DEF InLevel, IsBegin
  <2>2. order[o].id <= order[s].id
    BY <1>1, <2>1 DEF Maker, QueuesFIFO, EndsOK
  <2> QED
    BY <1>1, <1>7, <2>2, LiveFacts
<1>8. ASSUME NEW n \in DOMAIN out, NEW s \in Live, order[s].side = book
      PROVE  /\ Ahead(book, out[n].price, order[s].price)
             /\ out[n].price = order[s].price => out[n].maker_id < order[s].id
  BY <1>1, <1>8, OrderAssumption DEF SweepAhead
<1>9. ASSUME SweepInPriority PROVE SweepInPriority'
  <2>1. \A n \in DOMAIN out' : call.is_market \/ Ahead(book, out'[n].price, call.price)
    BY <1>1, <1>5, <1>9 DEF SweepInPriority, Crosses
  <2>2. ASSUME NEW m \in DOMAIN out', NEW n \in DOMAIN out', m < n
        PROVE  /\ Ahead(book, out'[m].price, out'[n].price)
               /\ out'[m].price = out'[n].price => out'[m].maker_id < out'[n].maker_id
    <3>1. m \in DOMAIN out
      BY <1>5, <2>2
    <3>2. CASE n \in DOMAIN out
      BY <1>1, <1>5, <1>9, <2>2, <3>1, <3>2 DEF SweepInPriority
    <3>3. CASE n = k
      BY <1>1, <1>5, <1>8, <3>1, <3>3
    <3> QED
      BY <1>5, <3>2, <3>3
  <2> QED
    BY <1>3, <2>1, <2>2 DEF SweepInPriority, Ahead
<1>10. SweepAhead'
  <2>1. ASSUME NEW n \in DOMAIN out', NEW s \in Live', order'[s].side = book
        PROVE  /\ Ahead(book, out'[n].price, order'[s].price)
               /\ \/ call'.qty = 0
                  \/ out'[n].price = order'[s].price => out'[n].maker_id < order'[s].id
    <3>1. /\ s \in Live /\ s \in Slots
          /\ order'[s].side = order[s].side /\ order'[s].price = order[s].price
          /\ order'[s].id = order[s].id
      BY <1>4, <2>1 DEF Live, SameOrders
    <3>2. CASE n \in DOMAIN out
      BY <1>5, <1>8, <2>1, <3>1, <3>2
    <3>3. CASE n = k
      BY <1>5, <1>6, <1>7, <2>1, <3>1, <3>3
    <3> QED
      BY <1>5, <3>2, <3>3
  <2> QED
    BY <1>3, <2>1 DEF SweepAhead, Ahead
<1> QED
  BY <1>9, <1>10

\* Whoever begins or ends a submission leaves nothing to compare.
LEMMA NoSweep ==
    ASSUME out' = <<>> \/ ~Matching'
    PROVE  SweepInPriority' /\ SweepAhead'
BY DEF SweepInPriority, SweepAhead

LEMMA SweepInductive ==
    IInv /\ SweepInPriority /\ SweepAhead /\ [Next]_vars
       => SweepInPriority' /\ SweepAhead'
<1> SUFFICES ASSUME IInv, SweepInPriority, SweepAhead, [Next]_vars
             PROVE  SweepInPriority' /\ SweepAhead'
  OBVIOUS
<1>1. TypeOK /\ IndexOK /\ QueuesFIFO
  BY DEF IInv
<1>2. ASSUME NEW side, NEW price, NEW is_market, NEW qty,
             Begin(side, price, is_market, qty)
      PROVE  SweepInPriority' /\ SweepAhead'
  BY <1>2, NoSweep DEF Begin
<1>3. ASSUME NEW p \in Prices, NEW o \in Slots, FillMaker(p, o)
      PROVE  SweepInPriority' /\ SweepAhead'
  <2>1. RecordFill(p, o) /\ remove_and_release(o, FillQty(o))
    BY <1>3 DEF FillMaker
  <2>2. o \in Live /\ SameOrders
    BY <1>1, <2>1, FillFacts, FillWrites
  <2>3. Live' = Live \ {o}
    BY <1>1, <2>1, <2>2, InLevelAfterRemove
  <2> QED
    BY <1>1, <2>1, <2>3, FillInSweep
<1>4. ASSUME NEW p \in Prices, NEW o \in Slots, FillTaker(p, o)
      PROVE  SweepInPriority' /\ SweepAhead'
  <2>1. RecordFill(p, o) /\ order[o].quantity # FillQty(o) /\ index' = index
    BY <1>4 DEF FillTaker
  <2>2. Live' = Live
    BY <1>1, <2>1, FillWrites DEF Live, SameOrders
  <2>3. FillQty(o) = call.qty /\ call.qty \in Nat
    BY <1>1, <2>1, FillFacts DEF FillQty, Lesser, Qtys
  <2>4. call'.qty = 0
    BY <1>1, <2>1, <2>3 DEF RecordFill, TypeOK, Call
  <2> QED
    BY <1>1, <2>1, <2>2, <2>4, FillInSweep
<1>5. ASSUME Rest \/ RestThrows \/ Return
      PROVE  SweepInPriority' /\ SweepAhead'
  BY <1>5, NoSweep DEF Rest, RestThrows, Return, IdleCall, Matching
<1>6. ASSUME NEW id \in 0..MaxId, cancel(id)
      PROVE  SweepInPriority' /\ SweepAhead'
  BY <1>6, NoSweep DEF cancel, Matching
<1>7. ASSUME UNCHANGED vars
      PROVE  SweepInPriority' /\ SweepAhead'
  BY <1>7 DEF vars, SweepInPriority, SweepAhead, Matching, Live
<1> QED
  BY <1>2, <1>3, <1>4, <1>5, <1>6, <1>7
  DEF Next, submit_limit, submit_market, cancel_miss

\* Over a whole sweep, across levels that it empties and slots that it frees,
\* the fills go from the best price away from it, by age inside a price, and
\* never past the limit (matching_engine.cpp:10-40).
THEOREM SweepsFollowPriority == Spec => []SweepInPriority
<1>1. Init => SweepInPriority /\ SweepAhead
  BY DEF Init, SweepInPriority, SweepAhead, Matching, IdleCall
<1>2. IInv /\ SweepInPriority /\ SweepAhead /\ [Next]_vars
         => SweepInPriority' /\ SweepAhead'
  BY SweepInductive
<1> QED
  BY <1>1, <1>2, Invariance, PTL DEF Spec

-----------------------------------------------------------------------------
(* Why every call returns: it can always go on, and only so often.  That a  *)
(* call does go on is fairness, and left to TLC (CallReturns).              *)

\* A call whose loop is not over has a maker to trade with, with something left.
CallGoesOn ==
    Matching /\ ~MatchOver =>
       \E p \in Prices : /\ IsBegin(Opposite(call.side), p) /\ Crosses(p)
                         /\ Maker(p) \in Live
                         /\ call.qty > 0 /\ order[Maker(p)].quantity > 0

\* Each step of a call ends it or leaves it less to fill.
CallShrinks == [][Matching /\ Matching' => call'.qty \in Nat /\ call'.qty < call.qty]_vars

\* The loop of match never finds a level without an order, or an order without
\* quantity, that would keep it from going on (matching_engine.cpp:17-27).
THEOREM CallNeverStuck == Spec => []CallGoesOn
<1>1. IInv => CallGoesOn
  <2> SUFFICES ASSUME IInv, Matching, ~MatchOver
               PROVE  \E p \in Prices : /\ IsBegin(Opposite(call.side), p) /\ Crosses(p)
                                        /\ Maker(p) \in Live
                                        /\ call.qty > 0 /\ order[Maker(p)].quantity > 0
    BY DEF CallGoesOn
  <2>1. TypeOK /\ IndexOK /\ QueuesFIFO /\ call.side \in Side /\ call.qty \in Nat
    BY OrderAssumption DEF IInv, TypeOK, Call, Qtys
  <2>2. PICK p \in DOMAIN levels[Opposite(call.side)] :
           IsBegin(Opposite(call.side), p) /\ Crosses(p)
    BY DEF MatchOver
  <2>3. Opposite(call.side) \in Side /\ p \in Prices
    BY <2>1, SideFacts DEF TypeOK
  <2>4. Maker(p) \in Live
    BY <2>1, <2>2, <2>3 DEF QueuesFIFO, EndsOK, Maker, InLevel
  <2>5. order[Maker(p)].quantity > 0
    BY <2>1, <2>4, LiveFacts
  <2>6. call.qty > 0
    BY <2>1 DEF MatchOver
  <2> QED
    BY <2>2, <2>3, <2>4, <2>5, <2>6
<1> QED
  BY <1>1, Invariance, PTL

\* Every iteration of match fills something, so that a call is over after at most
\* as many iterations as the quantity it asked for (matching_engine.cpp:27-34).
THEOREM CallUsesUp == Spec => CallShrinks
<1>1. IInv /\ [Next]_vars => [Matching /\ Matching' => call'.qty \in Nat /\ call'.qty < call.qty]_vars
  <2> SUFFICES ASSUME IInv, Next, Matching, Matching'
               PROVE  call'.qty \in Nat /\ call'.qty < call.qty
    OBVIOUS
  <2>1. TypeOK /\ IndexOK /\ QueuesFIFO
    BY DEF IInv
  <2>2. ASSUME NEW p \in Prices, NEW o \in Slots, RecordFill(p, o)
        PROVE  call'.qty \in Nat /\ call'.qty < call.qty
    <3>1. PICK f : f = FillQty(o)
      OBVIOUS
    <3>2. f \in Nat /\ f > 0 /\ f <= call.qty /\ call.qty \in Qtys
      BY <2>1, <2>2, <3>1, FillFacts
    <3>3. call'.qty = call.qty - f
      BY <2>1, <2>2, <3>1 DEF RecordFill, TypeOK, Call
    <3>4. call.qty \in Nat
      BY <3>2, OrderAssumption DEF Qtys
    <3> QED
      BY <3>2, <3>3, <3>4
  <2>3. ~Rest /\ ~RestThrows /\ ~Return
    BY DEF Rest, RestThrows, Return, Matching, IdleCall
  <2>4. /\ \A side, price, is_market, qty : ~Begin(side, price, is_market, qty)
        /\ \A id : ~cancel(id) /\ ~cancel_miss(id)
    BY DEF Begin, cancel, cancel_miss, Matching
  <2> QED
    BY <2>2, <2>3, <2>4 DEF Next, submit_limit, submit_market, FillMaker, FillTaker
<1> QED
  BY <1>1, Invariance, PTL DEF Spec, CallShrinks
===============================================================================
