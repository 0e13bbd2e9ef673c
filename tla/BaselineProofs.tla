----------------------------- MODULE BaselineProofs -----------------------------
(***************************************************************************)
(* Proofs about BaselineEngine, the engine of lists: its side table, its   *)
(* lists and its volumes agree, and it implements LimitOrderBook, for      *)
(* every number of orders, prices and quantities.                          *)
(*                                                                         *)
(* The invariant ListInv is about one level at a time: its list is in      *)
(* arrival order, its volume is the sum of the list modulo the word, and   *)
(* every entry of the side table leads to its node.  Each operation        *)
(* changes one level (OneLevelKeeps), and each change is one of three:     *)
(* a node is erased, joins the end, or the first one shrinks.              *)
(***************************************************************************)
EXTENDS BaselineEngine, DataFacts

-----------------------------------------------------------------------------
(* The list engine: what is in its maps.                                    *)

ListNode == [id : Ids, quantity : 1..MaxQty]
ListLevel == [orders : Seq(ListNode), total_volume : Int]
IndexEntry == [side : Side, price : Prices]

Entry(side, p) == [side |-> side, price |-> p]

Quantities(orders) == [k \in DOMAIN orders |-> orders[k].quantity]

ListTypes ==
    /\ next_id \in 1..(MaxId + 1)
    /\ DOMAIN levels = Side
    /\ \A side \in Side : DOMAIN levels[side] \subseteq Prices
    /\ DOMAIN index \subseteq 1..(next_id - 1)
    /\ \A i \in DOMAIN index : index[i] \in IndexEntry
    /\ call \in Call
    /\ Matching => call.id = next_id - 1 /\ call.id \in Ids /\ call.id \notin DOMAIN index
    /\ Matching /\ MinPrice > 0 => (call.is_market <=> call.price = 0)

\* A level of side and price p, in a book with the side table ix.
LevelOK(lvl, side, p, ix) ==
    /\ lvl \in ListLevel
    /\ lvl.orders # <<>>
    /\ \A k \in DOMAIN lvl.orders :
          /\ lvl.orders[k].id \in DOMAIN ix
          /\ ix[lvl.orders[k].id] = [side |-> side, price |-> p]
          /\ \A l \in DOMAIN lvl.orders : k < l => lvl.orders[k].id < lvl.orders[l].id
    /\ lvl.total_volume = SumFunction(Quantities(lvl.orders)) % WordMod

ListsOK ==
    \A side \in Side : \A p \in DOMAIN levels[side] :
       LevelOK(levels[side][p], side, p, index)

Listed(lvl, id) == \E k \in DOMAIN lvl.orders : lvl.orders[k].id = id

\* Every entry of the side table has its node.
IndexedOK ==
    \A i \in DOMAIN index : /\ index[i].price \in DOMAIN levels[index[i].side]
                            /\ Listed(levels[index[i].side][index[i].price], i)

ListInv == ListTypes /\ ListsOK /\ IndexedOK

\* PutLevel erases an emptied level, stores any other, and leaves the rest.
LEMMA PutListFacts ==
    ASSUME DOMAIN levels = Side, NEW side \in Side, NEW p, NEW lvl,
           NEW L, L = PutLevel(side, p, lvl)
    PROVE  /\ DOMAIN L = Side
           /\ \A s \in Side \ {side} : L[s] = levels[s]
           /\ lvl.orders = <<>> => DOMAIN L[side] = DOMAIN levels[side] \ {p}
           /\ lvl.orders # <<>> => /\ DOMAIN L[side] = DOMAIN levels[side] \cup {p}
                                   /\ L[side][p] = lvl
           /\ \A q \in DOMAIN levels[side] \ {p} : L[side][q] = levels[side][q]
<1>1. /\ DOMAIN L = Side
      /\ \A s \in Side \ {side} : L[s] = levels[s]
      /\ L[side] = IF lvl.orders = <<>> THEN Without(levels[side], p)
                   ELSE With(levels[side], p, lvl)
  BY DEF PutLevel
<1>2. CASE lvl.orders = <<>>
  <2>1. L[side] = Without(levels[side], p)
    BY <1>1, <1>2
  <2>2. /\ DOMAIN L[side] = DOMAIN levels[side] \ {p}
        /\ \A x \in DOMAIN levels[side] \ {p} : L[side][x] = levels[side][x]
    BY <2>1 DEF Without, Restrict
  <2> QED
    BY <1>1, <1>2, <2>2
<1>3. CASE lvl.orders # <<>>
  <2>1. L[side] = With(levels[side], p, lvl)
    BY <1>1, <1>3
  <2>2. /\ DOMAIN L[side] = DOMAIN levels[side] \cup {p}
        /\ L[side][p] = lvl
        /\ \A x \in DOMAIN levels[side] \ {p} : L[side][x] = levels[side][x]
    BY <2>1 DEF With
  <2> QED
    BY <1>1, <1>3, <2>2
<1> QED
  BY <1>2, <1>3

\* Entries of other levels than the one of entry e stay as they are.
KeptElsewhere(e) ==
    \A i \in DOMAIN index : index[i] # e => i \in DOMAIN index' /\ index'[i] = index[i]

\* Each entry is one of that level, which lists it, or was there before.
IndexedAfter(lvl, e) ==
    \A i \in DOMAIN index' :
       \/ index'[i] = e /\ Listed(lvl, i)
       \/ i \in DOMAIN index /\ index'[i] = index[i] /\ index[i] # e

\* The orders of the level are those it lists, and the others are the same.
ShownAfter(lvl, side, p) ==
    \A i \in DOMAIN index' :
       RestingOrders'[i] =
          IF index'[i] = Entry(side, p)
          THEN [side |-> side, price |-> p, quantity |-> NodeQty(lvl, i)]
          ELSE RestingOrders[i]

\* One level changes, and with it the entries of its own orders only.
LEMMA OneLevelKeeps ==
    ASSUME ListInv, NEW side \in Side, NEW p \in Prices, NEW lvl,
           levels' = PutLevel(side, p, lvl),
           lvl.orders # <<>> => LevelOK(lvl, side, p, index'),
           KeptElsewhere(Entry(side, p)), IndexedAfter(lvl, Entry(side, p))
    PROVE  ListsOK' /\ IndexedOK' /\ ShownAfter(lvl, side, p)
<1>0. /\ \A i \in DOMAIN index :
            index[i] # [side |-> side, price |-> p] =>
               i \in DOMAIN index' /\ index'[i] = index[i]
      /\ \A i \in DOMAIN index' :
            \/ index'[i] = [side |-> side, price |-> p] /\ Listed(lvl, i)
            \/ /\ i \in DOMAIN index /\ index'[i] = index[i]
               /\ index[i] # [side |-> side, price |-> p]
  BY DEF KeptElsewhere, IndexedAfter, Entry
<1> DEFINE here == [side |-> side, price |-> p]
<1>1. /\ ListTypes /\ ListsOK /\ IndexedOK
      /\ DOMAIN levels = Side
  BY DEF ListInv, ListTypes
<1>2. /\ DOMAIN levels' = Side
      /\ \A s \in Side \ {side} : levels'[s] = levels[s]
      /\ lvl.orders = <<>> => DOMAIN levels'[side] = DOMAIN levels[side] \ {p}
      /\ lvl.orders # <<>> => /\ DOMAIN levels'[side] = DOMAIN levels[side] \cup {p}
                              /\ levels'[side][p] = lvl
      /\ \A q \in DOMAIN levels[side] \ {p} : levels'[side][q] = levels[side][q]
  BY <1>1, PutListFacts
<1>3. ASSUME NEW s \in Side, NEW q \in DOMAIN levels'[s]
      PROVE  LevelOK(levels'[s][q], s, q, index')
  <2>1. CASE s = side /\ q = p
    BY <1>2, <2>1
  <2>2. CASE s # side \/ q # p
    <3>1. q \in DOMAIN levels[s] /\ levels'[s][q] = levels[s][q]
      BY <1>2, <2>2
    <3>2. LevelOK(levels[s][q], s, q, index)
      BY <1>1, <3>1 DEF ListsOK
    <3>3. [side |-> s, price |-> q] # here
      BY <2>2
    <3> QED
      BY <1>0, <3>1, <3>2, <3>3 DEF LevelOK
  <2> QED
    BY <2>1, <2>2
<1>4. ASSUME NEW i \in DOMAIN index'
      PROVE  /\ index'[i].price \in DOMAIN levels'[index'[i].side]
             /\ Listed(levels'[index'[i].side][index'[i].price], i)
             /\ RestingOrders'[i] =
                   IF index'[i] = here
                   THEN [side |-> side, price |-> p, quantity |-> NodeQty(lvl, i)]
                   ELSE RestingOrders[i]
  <2>0. RestingOrders'[i] =
           [side |-> index'[i].side, price |-> index'[i].price,
            quantity |-> NodeQty(levels'[index'[i].side][index'[i].price], i)]
    BY DEF RestingOrders
  <2>1. CASE index'[i] = here /\ Listed(lvl, i)
    <3>1. lvl.orders # <<>>
      BY <2>1 DEF Listed
    <3>2. index'[i].side = side /\ index'[i].price = p
      BY <2>1
    <3>3. levels'[index'[i].side][index'[i].price] = lvl
      BY <1>2, <3>1, <3>2
    <3> QED
      BY <1>2, <2>0, <2>1, <3>1, <3>2, <3>3
  <2>2. CASE i \in DOMAIN index /\ index'[i] = index[i] /\ index[i] # here
    <3>1. /\ index[i].price \in DOMAIN levels[index[i].side]
          /\ Listed(levels[index[i].side][index[i].price], i)
      BY <1>1, <2>2 DEF IndexedOK
    <3>2. index[i] = [side |-> index[i].side, price |-> index[i].price] /\ index[i].side \in Side
      BY <1>1, <2>2 DEF ListTypes, IndexEntry
    <3>3. index[i].side # side \/ index[i].price # p
      BY <2>2, <3>2
    <3>4. /\ index[i].price \in DOMAIN levels'[index[i].side]
          /\ levels'[index[i].side][index[i].price] = levels[index[i].side][index[i].price]
      BY <1>2, <3>1, <3>2, <3>3
    <3>5. RestingOrders[i] =
             [side |-> index[i].side, price |-> index[i].price,
              quantity |-> NodeQty(levels[index[i].side][index[i].price], i)]
      BY <2>2 DEF RestingOrders
    <3> QED
      BY <2>0, <2>2, <3>1, <3>4, <3>5
  <2> QED
    BY <1>0, <2>1, <2>2
<1>5. ShownAfter(lvl, side, p)
  BY <1>4 DEF ShownAfter, Entry
<1> QED
  BY <1>3, <1>4, <1>5 DEF ListsOK, IndexedOK

\* What the types say of a level.
LEMMA LevelFacts ==
    ASSUME NEW lvl, NEW side, NEW p, NEW ix, LevelOK(lvl, side, p, ix)
    PROVE  /\ lvl = [orders |-> lvl.orders, total_volume |-> lvl.total_volume]
           /\ lvl.orders \in Seq(ListNode)
           /\ Len(lvl.orders) \in Nat \ {0}
           /\ DOMAIN lvl.orders = 1..Len(lvl.orders)
           /\ \A k \in 1..Len(lvl.orders) :
                 /\ lvl.orders[k] \in ListNode
                 /\ lvl.orders[k].id \in Int
                 /\ lvl.orders[k].quantity \in 1..MaxQty
                 /\ lvl.orders[k].quantity \in Int
<1> DEFINE s == lvl.orders
<1>1. lvl = [orders |-> s, total_volume |-> lvl.total_volume] /\ s \in Seq(ListNode) /\ s # <<>>
  BY DEF LevelOK, ListLevel
<1> HIDE DEF s
<1>2. /\ Len(s) \in Nat \ {0} /\ DOMAIN s = 1..Len(s)
      /\ \A k \in 1..Len(s) : s[k] \in ListNode
  BY <1>1
<1>3. \A e \in ListNode : e.id \in Int /\ e.quantity \in 1..MaxQty /\ e.quantity \in Int
  BY OrderAssumption DEF ListNode, Ids
<1> QED
  BY <1>1, <1>2, <1>3 DEF s

\* The node that an id in the side table refers to.
LEMMA NodeFacts ==
    ASSUME ListInv, NEW i \in DOMAIN index, NEW lvl,
           lvl = levels[index[i].side][index[i].price]
    PROVE  /\ index[i] = [side |-> index[i].side, price |-> index[i].price]
           /\ index[i].side \in Side
           /\ index[i].price \in DOMAIN levels[index[i].side]
           /\ LevelOK(lvl, index[i].side, index[i].price, index)
           /\ Node(lvl, i) \in 1..Len(lvl.orders)
           /\ lvl.orders[Node(lvl, i)].id = i
           /\ \A k \in 1..Len(lvl.orders) : lvl.orders[k].id = i => k = Node(lvl, i)
<1>1. /\ index[i] = [side |-> index[i].side, price |-> index[i].price]
      /\ index[i].side \in Side
  BY DEF ListInv, ListTypes, IndexEntry
<1>2. /\ index[i].price \in DOMAIN levels[index[i].side]
      /\ Listed(lvl, i)
  BY DEF ListInv, IndexedOK
<1>3. LevelOK(lvl, index[i].side, index[i].price, index)
  BY <1>1, <1>2 DEF ListInv, ListsOK
<1>4. Node(lvl, i) \in DOMAIN lvl.orders /\ lvl.orders[Node(lvl, i)].id = i
  BY <1>2 DEF Listed, Node
<1>5. /\ Len(lvl.orders) \in Nat /\ DOMAIN lvl.orders = 1..Len(lvl.orders)
      /\ \A k \in 1..Len(lvl.orders) : lvl.orders[k].id \in Int
  BY <1>3, LevelFacts
<1>6. ASSUME NEW k \in DOMAIN lvl.orders, NEW l \in DOMAIN lvl.orders,
             lvl.orders[k].id = lvl.orders[l].id
      PROVE  k = l
  <2>1. k \in Int /\ l \in Int /\ Len(lvl.orders) \in Nat
    BY <1>5
  <2>2. lvl.orders[k].id \in Int
    BY <1>5
  <2>3. /\ k < l => lvl.orders[k].id < lvl.orders[l].id
        /\ l < k => lvl.orders[l].id < lvl.orders[k].id
    BY <1>3 DEF LevelOK
  <2>4. ~(k < l) /\ ~(l < k)
    BY <1>6, <2>2, <2>3
  <2> QED
    BY <2>1, <2>4
<1> QED
  BY <1>1, <1>2, <1>3, <1>4, <1>5, <1>6

\* A node is found at its position.
LEMMA NodeAt ==
    ASSUME NEW lvl, NEW side, NEW p, NEW ix, LevelOK(lvl, side, p, ix),
           NEW k \in 1..Len(lvl.orders)
    PROVE  /\ Node(lvl, lvl.orders[k].id) = k
           /\ NodeQty(lvl, lvl.orders[k].id) = lvl.orders[k].quantity
<1> DEFINE i == lvl.orders[k].id
           n == Node(lvl, i)
<1>1. DOMAIN lvl.orders = 1..Len(lvl.orders) /\ Len(lvl.orders) \in Nat
  BY LevelFacts
<1>2. n \in 1..Len(lvl.orders) /\ lvl.orders[n].id = i
  BY <1>1 DEF Node
<1>3. i \in Int
  BY LevelFacts
<1>4. /\ k < n => lvl.orders[k].id < lvl.orders[n].id
      /\ n < k => lvl.orders[n].id < lvl.orders[k].id
  BY <1>1, <1>2 DEF LevelOK
<1> HIDE DEF n
<1>5. n = k
  BY <1>1, <1>2, <1>3, <1>4
<1> QED
  BY <1>5 DEF NodeQty, n

\* The quantities of a list are integers, and so is their sum.
LEMMA QuantitiesFacts ==
    ASSUME NEW s \in Seq(ListNode)
    PROVE  /\ Len(s) \in Nat /\ DOMAIN s = 1..Len(s)
           /\ DOMAIN Quantities(s) = 1..Len(s)
           /\ \A j \in 1..Len(s) : /\ s[j] \in ListNode
                                   /\ Quantities(s)[j] = s[j].quantity
                                   /\ s[j].quantity \in Int
           /\ SumFunction(Quantities(s)) \in Int
<1>1. Len(s) \in Nat /\ DOMAIN s = 1..Len(s) /\ \A j \in 1..Len(s) : s[j] \in ListNode
  OBVIOUS
<1>2. \A e \in ListNode : e.quantity \in Int
  BY OrderAssumption DEF ListNode
<1> DEFINE f == Quantities(s)
<1>3. DOMAIN f = 1..Len(s) /\ \A j \in 1..Len(s) : f[j] = s[j].quantity
  BY <1>1 DEF Quantities
<1> HIDE DEF f
<1>4. SumFunctionOnSet(f, 1..Len(s)) \in Int
  <2>1. IsFiniteSet(1..Len(s))
    BY <1>1, FS_Interval
  <2>2. \A j \in 1..Len(s) : f[j] \in Int
    BY <1>1, <1>2, <1>3
  <2> QED
    BY <2>1, <2>2, SumInt
<1>5. SumFunction(f) \in Int
  BY <1>3, <1>4 DEF SumFunction
<1> QED
  BY <1>1, <1>2, <1>3, <1>5 DEF f

\* erase: what is left, and what it sums to.
LEMMA EraseFacts ==
    ASSUME NEW s \in Seq(ListNode), NEW k \in 1..Len(s), NEW t, t = Erase(s, k)
    PROVE  /\ t \in Seq(ListNode)
           /\ DOMAIN t = 1..(Len(s) - 1)
           /\ \A j \in 1..(Len(s) - 1) : t[j] = IF j < k THEN s[j] ELSE s[j + 1]
           /\ SumFunction(Quantities(s)) =
                 SumFunction(Quantities(t)) + s[k].quantity
<1>1. Len(s) - 1 \in Nat /\ Len(s) \in Nat
  BY QuantitiesFacts
<1>2. /\ DOMAIN t = 1..(Len(s) - 1)
      /\ \A j \in 1..(Len(s) - 1) : t[j] = IF j < k THEN s[j] ELSE s[j + 1]
      /\ t = [j \in 1..(Len(s) - 1) |-> t[j]]
  BY DEF Erase
<1>3. \A j \in 1..(Len(s) - 1) : t[j] \in ListNode
  BY <1>2, QuantitiesFacts
<1>4. t \in [1..(Len(s) - 1) -> ListNode]
  BY <1>2, <1>3
<1>5. t \in Seq(ListNode) /\ Len(t) = Len(s) - 1
  BY <1>1, <1>4, SeqDef, LenProperties
<1> DEFINE f == Quantities(s)
           g == Quantities(t)
           n == Len(s)
<1>6. /\ DOMAIN f = 1..n /\ \A j \in 1..n : f[j] = s[j].quantity /\ f[j] \in Int
      /\ DOMAIN g = 1..(n - 1) /\ \A j \in 1..(n - 1) : g[j] = t[j].quantity
  <2>1. DOMAIN f = 1..n /\ \A j \in 1..n : f[j] = s[j].quantity /\ f[j] \in Int
    BY QuantitiesFacts
  <2>2. DOMAIN g = 1..(n - 1) /\ \A j \in 1..(n - 1) : g[j] = t[j].quantity
    BY <1>5, QuantitiesFacts
  <2> QED
    BY <2>1, <2>2
<1> HIDE DEF f, g
<1>7. \A j \in 1..(n - 1) : g[j] = IF j < k THEN f[j] ELSE f[j + 1]
  <2> SUFFICES ASSUME NEW j \in 1..(n - 1) PROVE g[j] = IF j < k THEN f[j] ELSE f[j + 1]
    OBVIOUS
  <2>1. j \in 1..n /\ j + 1 \in 1..n
    BY <1>1
  <2> QED
    BY <1>2, <1>6, <2>1
<1>8. SumFunctionOnSet(f, 1..n) = SumFunctionOnSet(g, 1..(n - 1)) + f[k]
  <2> HIDE DEF n
  <2>1. n \in Nat /\ k \in 1..n /\ \A j \in 1..n : f[j] \in Int
    BY <1>1, <1>6 DEF n
  <2> QED
    BY <1>7, <2>1, SumErased
<1>9. SumFunction(f) = SumFunction(g) + f[k]
  BY <1>6, <1>8 DEF SumFunction
<1> QED
  BY <1>2, <1>5, <1>6, <1>9 DEF f, g

\* The sum of a level modulo the word, less a quantity.
LEMMA WordLess ==
    ASSUME NEW a \in Int, NEW b \in Int, NEW c \in Int, a = c + b
    PROVE  ((a % WordMod) - b) % WordMod = c % WordMod
<1>1. WordMod \in Nat /\ WordMod > 0
  BY BaselineAssumption, OrderAssumption
<1>2. ((a % WordMod) + (-b)) % WordMod = (a + (-b)) % WordMod
  BY <1>1, ModAdd
<1>3. a + (-b) = c
  OBVIOUS
<1>4. (a % WordMod) + (-b) = (a % WordMod) - b
  BY <1>1
<1> QED
  BY <1>2, <1>3, <1>4

\* And more of it.
LEMMA WordMore ==
    ASSUME NEW a \in Int, NEW b \in Int, NEW c \in Int, c = a + b
    PROVE  ((a % WordMod) + b) % WordMod = c % WordMod
<1>1. WordMod \in Nat /\ WordMod > 0
  BY BaselineAssumption, OrderAssumption
<1> QED
  BY <1>1, ModAdd

\* A level from which one order was erased.
ErasedLevel(lvl, k) ==
    [orders |-> Erase(lvl.orders, k),
     total_volume |-> (lvl.total_volume - lvl.orders[k].quantity) % WordMod]

\* A list that loses one node and is not emptied is still a level of the table.
LEMMA ErasedOK ==
    ASSUME NEW lvl, NEW side, NEW p, NEW ix, LevelOK(lvl, side, p, ix),
           NEW k \in 1..Len(lvl.orders), NEW l2, l2 = ErasedLevel(lvl, k),
           NEW ix2, ix2 = Without(ix, lvl.orders[k].id)
    PROVE  /\ l2.orders # <<>> => LevelOK(l2, side, p, ix2)
           /\ \A i \in DOMAIN ix : i # lvl.orders[k].id /\ Listed(lvl, i) => Listed(l2, i)
           /\ l2.orders # <<>> => \A i \in DOMAIN ix :
                 i # lvl.orders[k].id /\ Listed(lvl, i) => NodeQty(l2, i) = NodeQty(lvl, i)
<1> DEFINE s == lvl.orders
           t == l2.orders
           n == Len(s)
           c == SumFunction(Quantities(t))
<1>1. /\ s \in Seq(ListNode) /\ n \in Nat \ {0} /\ DOMAIN s = 1..n
      /\ \A j \in 1..n : s[j].id \in Int /\ s[j].quantity \in Int
  BY LevelFacts
<1>2. t = Erase(s, k) /\ l2 = [orders |-> t, total_volume |-> l2.total_volume]
      /\ l2.total_volume = (lvl.total_volume - s[k].quantity) % WordMod
  BY DEF ErasedLevel
<1>3. /\ t \in Seq(ListNode)
      /\ DOMAIN t = 1..(n - 1)
      /\ \A j \in 1..(n - 1) : t[j] = IF j < k THEN s[j] ELSE s[j + 1]
      /\ SumFunction(Quantities(s)) = c + s[k].quantity
  <2> HIDE DEF s, t
  <2>1. /\ t \in Seq(ListNode)
        /\ DOMAIN t = 1..(Len(s) - 1)
        /\ \A j \in 1..(Len(s) - 1) : t[j] = IF j < k THEN s[j] ELSE s[j + 1]
        /\ SumFunction(Quantities(s)) = SumFunction(Quantities(t)) + s[k].quantity
    <3>1. k \in 1..Len(s)
      BY DEF s
    <3> QED
      BY <1>1, <1>2, <3>1, EraseFacts
  <2> QED
    BY <2>1
<1>4. c \in Int /\ SumFunction(Quantities(s)) \in Int
  BY <1>1, <1>3, QuantitiesFacts
<1>5. l2.total_volume = c % WordMod
  <2>1. lvl.total_volume = SumFunction(Quantities(s)) % WordMod
    BY DEF LevelOK
  <2>2. ((SumFunction(Quantities(s)) % WordMod) - s[k].quantity) % WordMod = c % WordMod
    <3> DEFINE a == SumFunction(Quantities(s))
               b == s[k].quantity
    <3>1. a \in Int /\ b \in Int /\ c \in Int /\ a = c + b
      BY <1>1, <1>3, <1>4
    <3> HIDE DEF a, b, c
    <3>2. ((a % WordMod) - b) % WordMod = c % WordMod
      BY <3>1, WordLess
    <3> QED
      BY <3>2 DEF a, b
  <2> QED
    BY <1>2, <2>1, <2>2
<1>6. l2 \in ListLevel
  <2>1. c % WordMod \in Int
    BY <1>4, BaselineAssumption, OrderAssumption
  <2> QED
    BY <1>2, <1>3, <1>5, <2>1 DEF ListLevel
\* The old position of what is now at position j.
<1> DEFINE at(j) == IF j < k THEN j ELSE j + 1
<1>7. ASSUME NEW j \in 1..(n - 1)
      PROVE  at(j) \in 1..n /\ at(j) # k /\ t[j] = s[at(j)]
  <2>1. k \in 1..n
    OBVIOUS
  <2>2. t[j] = s[at(j)]
    BY <1>3
  <2> HIDE DEF s, t, n, c
  <2>3. at(j) \in 1..n /\ at(j) # k
    BY <1>1, <2>1
  <2> QED
    BY <2>2, <2>3
<1>8. ASSUME NEW a \in 1..n, NEW b \in 1..n, a < b PROVE s[a].id < s[b].id
  <2>1. \A i \in DOMAIN s : \A l \in DOMAIN s : i < l => s[i].id < s[l].id
    BY DEF LevelOK
  <2> HIDE DEF s, n
  <2> QED
    BY <1>1, <1>8, <2>1
<1>9. ASSUME NEW a \in 1..n, a # k PROVE s[a].id # s[k].id
  <2>1. k \in 1..n
    OBVIOUS
  <2> HIDE DEF s, t, n, c
  <2>2. a < k \/ k < a
    BY <1>1, <1>9, <2>1
  <2>3. s[a].id \in Int /\ s[k].id \in Int
    BY <1>1, <2>1
  <2> QED
    BY <1>8, <2>1, <2>2, <2>3
<1>10. ASSUME NEW j \in 1..(n - 1)
       PROVE  /\ t[j].id \in DOMAIN ix2 /\ ix2[t[j].id] = [side |-> side, price |-> p]
              /\ \A m \in 1..(n - 1) : j < m => t[j].id < t[m].id
  <2>1. t[j].id # s[k].id
    BY <1>7, <1>9
  <2>2. t[j].id \in DOMAIN ix /\ ix[t[j].id] = [side |-> side, price |-> p]
    BY <1>1, <1>7 DEF LevelOK
  <2>3. t[j].id \in DOMAIN ix2 /\ ix2[t[j].id] = ix[t[j].id]
    BY <2>1, <2>2 DEF Without, Restrict
  <2>4. ASSUME NEW m \in 1..(n - 1), j < m PROVE t[j].id < t[m].id
    <3>1. at(j) \in 1..n /\ at(m) \in 1..n /\ t[j] = s[at(j)] /\ t[m] = s[at(m)]
      BY <1>7
    <3>2. at(j) < at(m)
      BY <1>1, <2>4
    <3> QED
      BY <1>8, <3>1, <3>2
  <2> QED
    BY <2>2, <2>3, <2>4
<1>11. t # <<>> => LevelOK(l2, side, p, ix2)
  BY <1>3, <1>5, <1>6, <1>10 DEF LevelOK
<1>12. ASSUME NEW i \in DOMAIN ix, i # s[k].id, Listed(lvl, i)
       PROVE  /\ Listed(l2, i)
              /\ t # <<>> => NodeQty(l2, i) = NodeQty(lvl, i)
  <2>1. PICK a \in 1..n : s[a].id = i
    BY <1>1, <1>12 DEF Listed
  <2> DEFINE j == IF a < k THEN a ELSE a - 1
  <2>2. j \in 1..(n - 1) /\ at(j) = a
    BY <1>1, <1>12, <2>1
  <2>3. t[j] = s[a] /\ j \in DOMAIN t
    BY <1>3, <1>7, <2>2
  <2>4. Listed(l2, i)
    BY <2>1, <2>3 DEF Listed
  <2>5. NodeQty(lvl, i) = s[a].quantity
    BY <2>1, NodeAt
  <2>6. ASSUME t # <<>> PROVE NodeQty(l2, i) = t[j].quantity
    <3>1. LevelOK(l2, side, p, ix2)
      BY <1>11, <2>6
    <3>2. j \in 1..Len(l2.orders)
      BY <2>3, <3>1, LevelFacts
    <3> HIDE DEF j
    <3>3. NodeQty(l2, l2.orders[j].id) = l2.orders[j].quantity
      BY <3>1, <3>2, NodeAt
    <3> QED
      BY <2>1, <2>3, <3>3
  <2> QED
    BY <2>3, <2>4, <2>5, <2>6
<1> QED
  BY <1>11, <1>12

\* An order leaves its list, and the book.
LEMMA EraseKeeps ==
    ASSUME ListInv, NEW side \in Side, NEW p \in DOMAIN levels[side],
           NEW lvl, lvl = levels[side][p], NEW k \in 1..Len(lvl.orders),
           NEW l2, l2 = ErasedLevel(lvl, k), NEW id, id = lvl.orders[k].id,
           levels' = PutLevel(side, p, l2), index' = Without(index, id)
    PROVE  /\ ListsOK' /\ IndexedOK'
           /\ DOMAIN index' = DOMAIN index \ {id}
           /\ \A i \in DOMAIN index' : index'[i] = index[i]
           /\ \A i \in DOMAIN index' : RestingOrders'[i] = RestingOrders[i]
<1> DEFINE here == [side |-> side, price |-> p]
<1>1. LevelOK(lvl, side, p, index) /\ p \in Prices
  BY DEF ListInv, ListsOK, ListTypes
<1>2. DOMAIN lvl.orders = 1..Len(lvl.orders)
  BY <1>1, LevelFacts
<1>3. /\ DOMAIN index' = DOMAIN index \ {id}
      /\ \A i \in DOMAIN index' : index'[i] = index[i]
  BY DEF Without, Restrict
<1>4. index[id] = here /\ id \in DOMAIN index
  BY <1>1, <1>2 DEF LevelOK
<1>5. PICK ix2 : ix2 = index'
  OBVIOUS
<1>6. PICK ix : ix = index
  OBVIOUS
<1>7. /\ l2.orders # <<>> => LevelOK(l2, side, p, ix2)
      /\ \A i \in DOMAIN ix : i # id /\ Listed(lvl, i) => Listed(l2, i)
      /\ l2.orders # <<>> => \A i \in DOMAIN ix :
            i # id /\ Listed(lvl, i) => NodeQty(l2, i) = NodeQty(lvl, i)
  <2>1. LevelOK(lvl, side, p, ix) /\ ix2 = Without(ix, id)
    BY <1>1, <1>5, <1>6
  <2> QED
    BY <2>1, ErasedOK
<1>8. \A i \in DOMAIN index : index[i] = here => Listed(lvl, i)
  BY DEF ListInv, IndexedOK
<1>e. here = Entry(side, p)
  BY DEF Entry
<1>9. KeptElsewhere(Entry(side, p))
  BY <1>3, <1>4, <1>e DEF KeptElsewhere
<1>10. IndexedAfter(l2, Entry(side, p))
  BY <1>3, <1>6, <1>7, <1>8, <1>e DEF IndexedAfter
<1>11. /\ ListsOK' /\ IndexedOK'
       /\ \A i \in DOMAIN index' :
             RestingOrders'[i] =
                IF index'[i] = here
                THEN [side |-> side, price |-> p, quantity |-> NodeQty(l2, i)]
                ELSE RestingOrders[i]
  <2>1. l2.orders # <<>> => LevelOK(l2, side, p, index')
    BY <1>5, <1>7
  <2>2. ListsOK' /\ IndexedOK' /\ ShownAfter(l2, side, p)
    BY <1>1, <1>9, <1>10, <2>1, OneLevelKeeps
  <2> QED
    BY <1>e, <2>2 DEF ShownAfter
<1>12. ASSUME NEW i \in DOMAIN index' PROVE RestingOrders'[i] = RestingOrders[i]
  <2>1. CASE index'[i] = here
    <3>1. i \in DOMAIN index /\ i # id /\ index[i] = here /\ Listed(lvl, i) /\ Listed(l2, i)
      BY <1>3, <1>6, <1>7, <1>8, <2>1
    <3>2. NodeQty(l2, i) = NodeQty(lvl, i)
      BY <1>6, <1>7, <3>1 DEF Listed
    <3>3. RestingOrders[i] = [side |-> side, price |-> p, quantity |-> NodeQty(lvl, i)]
      BY <3>1 DEF RestingOrders
    <3> QED
      BY <1>11, <2>1, <3>2, <3>3
  <2>2. CASE index'[i] # here
    BY <1>11, <2>2
  <2> QED
    BY <2>1, <2>2
<1> QED
  BY <1>3, <1>11, <1>12

\* A book in which one order less rests.
LEMMA FewerResting ==
    ASSUME NEW id, index' = Without(index, id),
           \A i \in DOMAIN index' : RestingOrders'[i] = RestingOrders[i]
    PROVE  RestingOrders' = Without(RestingOrders, id)
<1>1. DOMAIN index' = DOMAIN index \ {id}
  BY DEF Without, Restrict
<1>2. RestingOrders' = [i \in DOMAIN index' |-> RestingOrders[i]]
  BY DEF RestingOrders
<1>3. DOMAIN RestingOrders = DOMAIN index
  BY DEF RestingOrders
<1> QED
  BY <1>1, <1>2, <1>3 DEF Without, Restrict

-----------------------------------------------------------------------------
(* The operations on a level.                                               *)

\* Erasing the front order is popping it.
LEMMA PopFront ==
    ASSUME NEW lvl, NEW side, NEW p, NEW ix, LevelOK(lvl, side, p, ix),
           NEW q, q = Head(lvl.orders).quantity
    PROVE  Consumed(lvl, q) = ErasedLevel(lvl, 1)
<1> DEFINE s == lvl.orders
<1>1. /\ lvl = [orders |-> s, total_volume |-> lvl.total_volume]
      /\ s \in Seq(ListNode) /\ Len(s) \in Nat \ {0}
  BY LevelFacts
<1>2. Head(s) = s[1]
  OBVIOUS
<1>3. Tail(s) = Erase(s, 1)
  <2> HIDE DEF s
  <2>1. /\ Tail(s) \in Seq(ListNode) /\ Len(Tail(s)) = Len(s) - 1
        /\ \A j \in 1..(Len(s) - 1) : Tail(s)[j] = s[j + 1]
    BY <1>1
  <2>2. Tail(s) = [j \in 1..(Len(s) - 1) |-> s[j + 1]]
    <3> DEFINE t == Tail(s)
    <3>1. t \in Seq(ListNode) /\ Len(t) = Len(s) - 1
      BY <2>1
    <3> HIDE DEF t
    <3>2. t = [j \in 1..Len(t) |-> t[j]]
      BY <3>1, LenProperties
    <3>3. \A j \in 1..(Len(s) - 1) : t[j] = s[j + 1]
      BY <2>1 DEF t
    <3>4. t = [j \in 1..(Len(s) - 1) |-> s[j + 1]]
      BY <3>1, <3>2, <3>3
    <3> QED
      BY <3>4 DEF t
  <2>3. Erase(s, 1) = [j \in 1..(Len(s) - 1) |-> s[j + 1]]
    BY <1>1 DEF Erase
  <2> QED
    BY <2>2, <2>3
<1>4. Consumed(lvl, q) = [orders |-> Tail(s), total_volume |-> (lvl.total_volume - q) % WordMod]
  <2> DEFINE v == (lvl.total_volume - q) % WordMod
  <2>1. SubVolume(lvl, q) = [lvl EXCEPT !.total_volume = v]
    BY DEF SubVolume
  <2> HIDE DEF v
  <2>2. SubVolume(lvl, q) = [orders |-> s, total_volume |-> v]
    BY <1>1, <2>1
  <2>3. Consumed(lvl, q) = [SubVolume(lvl, q) EXCEPT !.orders = Tail(@)]
    BY <1>2 DEF Consumed
  <2> DEFINE u == Tail(s)
             w == SubVolume(lvl, q)
  <2> HIDE DEF s
  <2>4. w = [orders |-> s, total_volume |-> v] /\ w.orders = s
    BY <2>2
  <2>5. Consumed(lvl, q) = [w EXCEPT !.orders = u]
    BY <2>3, <2>4
  <2> HIDE DEF u, w
  <2>6. Consumed(lvl, q) = [orders |-> u, total_volume |-> v]
    BY <2>4, <2>5
  <2> QED
    BY <2>6 DEF u, v
<1> QED
  BY <1>2, <1>3, <1>4 DEF ErasedLevel

\* Erasing the node of an id, as cancel does it.
LEMMA EraseNode ==
    ASSUME NEW lvl, NEW side, NEW p, NEW ix, LevelOK(lvl, side, p, ix), NEW id
    PROVE  [SubVolume(lvl, NodeQty(lvl, id)) EXCEPT !.orders = Erase(@, Node(lvl, id))]
              = ErasedLevel(lvl, Node(lvl, id))
<1> DEFINE s == lvl.orders
           v == (lvl.total_volume - NodeQty(lvl, id)) % WordMod
<1>1. lvl = [orders |-> s, total_volume |-> lvl.total_volume]
  BY LevelFacts
<1>2. SubVolume(lvl, NodeQty(lvl, id)) = [lvl EXCEPT !.total_volume = v]
  BY DEF SubVolume
<1>3. ErasedLevel(lvl, Node(lvl, id)) = [orders |-> Erase(s, Node(lvl, id)), total_volume |-> v]
  BY DEF ErasedLevel, NodeQty
<1> HIDE DEF v
<1>4. SubVolume(lvl, NodeQty(lvl, id)) = [orders |-> s, total_volume |-> v]
  BY <1>1, <1>2
<1> QED
  BY <1>3, <1>4

\* A list from whose front order q units were taken.
FrontTaken(s, q) == [s EXCEPT ![1].quantity = @ - q]

\* What a fill of the front node leaves of a list.
LEMMA FrontFacts ==
    ASSUME NEW s \in Seq(ListNode), Len(s) > 0, NEW q \in Int, q >= 0, q < s[1].quantity,
           NEW t, t = FrontTaken(s, q)
    PROVE  /\ t \in Seq(ListNode) /\ t # <<>>
           /\ DOMAIN t = 1..Len(s)
           /\ \A j \in 1..Len(s) : t[j].id = s[j].id
           /\ \A j \in 2..Len(s) : t[j] = s[j]
           /\ t[1].quantity = s[1].quantity - q
           /\ SumFunction(Quantities(s)) = SumFunction(Quantities(t)) + q
<1> DEFINE n == Len(s)
           r == s[1].quantity - q
           e == [s[1] EXCEPT !.quantity = r]
<1>1. /\ n \in Nat /\ n > 0 /\ DOMAIN s = 1..n
      /\ \A j \in 1..n : s[j] \in ListNode /\ s[j].quantity \in Int
  BY QuantitiesFacts
<1>2. 1 \in 1..n /\ s[1] \in ListNode
  BY <1>1
<1>3. r \in 1..MaxQty
  <2>1. s[1].quantity \in 1..MaxQty
    BY <1>2 DEF ListNode
  <2> QED
    BY <2>1, OrderAssumption
<1>4. t = [s EXCEPT ![1] = e]
  BY DEF FrontTaken
<1> HIDE DEF r
<1>5. e \in ListNode /\ e.id = s[1].id /\ e.quantity = r
  BY <1>2, <1>3 DEF ListNode
<1> HIDE DEF e
<1>6. t \in Seq(ListNode) /\ Len(t) = n /\ DOMAIN t = 1..n /\ t[1] = e
      /\ \A j \in 2..n : t[j] = s[j]
  BY <1>1, <1>2, <1>4, <1>5
<1>7. \A j \in 1..n : j = 1 \/ j \in 2..n
  BY <1>1
<1> DEFINE f == Quantities(s)
           g == Quantities(t)
<1>8. /\ DOMAIN f = 1..n /\ \A j \in 1..n : f[j] = s[j].quantity /\ f[j] \in Int
      /\ DOMAIN g = 1..n /\ \A j \in 1..n : g[j] = t[j].quantity /\ g[j] \in Int
      /\ SumFunction(g) \in Int
  BY <1>6, QuantitiesFacts
<1> HIDE DEF f, g
<1>9. /\ SumFunctionOnSet(f, 1..n) \in Int
      /\ SumFunctionOnSet(g, 1..n) = SumFunctionOnSet(f, 1..n) + (g[1] - f[1])
  <2>1. \A j \in 2..n : g[j] = f[j]
    BY <1>6, <1>7, <1>8
  <2>2. n \in Nat /\ n > 0 /\ \A j \in 1..n : f[j] \in Int /\ g[j] \in Int
    BY <1>1, <1>8
  <2> HIDE DEF n
  <2> QED
    BY <2>1, <2>2, SumFirst
<1>10. g[1] - f[1] = -q
  BY <1>2, <1>5, <1>6, <1>8 DEF r
<1>11. SumFunction(f) = SumFunction(g) + q
  BY <1>8, <1>9, <1>10 DEF SumFunction
<1>12. \A j \in 1..n : t[j].id = s[j].id
  BY <1>5, <1>6, <1>7
<1>13. t # <<>>
  BY <1>1, <1>6
<1> QED
  BY <1>5, <1>6, <1>11, <1>12, <1>13 DEF f, g, r

\* The nodes of lvl are in l2, the first with q less.
FrontLess(lvl, l2, q, ix) ==
    \A i \in DOMAIN ix : Listed(lvl, i) =>
       /\ Listed(l2, i)
       /\ NodeQty(l2, i) = IF i = lvl.orders[1].id THEN lvl.orders[1].quantity - q
                           ELSE NodeQty(lvl, i)

\* A front order filled in part stays in its place.
LEMMA FrontConsumed ==
    ASSUME NEW lvl, NEW side, NEW p, NEW ix, LevelOK(lvl, side, p, ix),
           NEW q \in Int, q >= 0, q < lvl.orders[1].quantity,
           NEW l2, l2 = Consumed(lvl, q)
    PROVE  LevelOK(l2, side, p, ix) /\ FrontLess(lvl, l2, q, ix)
<1> DEFINE s == lvl.orders
           t == FrontTaken(s, q)
           c == SumFunction(Quantities(t))
           n == Len(s)
<1>1. /\ lvl = [orders |-> s, total_volume |-> lvl.total_volume]
      /\ s \in Seq(ListNode) /\ n \in Nat \ {0} /\ DOMAIN s = 1..n
  BY LevelFacts
<1>2. Head(s) = s[1] /\ s[1].quantity \in Int
  BY <1>1, LevelFacts
<1>3. /\ t \in Seq(ListNode) /\ t # <<>>
      /\ DOMAIN t = 1..n
      /\ \A j \in 1..n : t[j].id = s[j].id
      /\ \A j \in 2..n : t[j] = s[j]
      /\ t[1].quantity = s[1].quantity - q
      /\ SumFunction(Quantities(s)) = c + q
  <2> HIDE DEF s, t
  <2>1. q < s[1].quantity /\ Len(s) > 0
    BY <1>1 DEF s
  <2>2. /\ t \in Seq(ListNode) /\ t # <<>>
        /\ DOMAIN t = 1..Len(s)
        /\ \A j \in 1..Len(s) : t[j].id = s[j].id
        /\ \A j \in 2..Len(s) : t[j] = s[j]
        /\ t[1].quantity = s[1].quantity - q
        /\ SumFunction(Quantities(s)) = SumFunction(Quantities(t)) + q
    <3>1. t = FrontTaken(s, q)
      BY DEF t
    <3> QED
      BY <1>1, <2>1, <3>1, FrontFacts
  <2> QED
    BY <2>2
<1>4. c \in Int /\ SumFunction(Quantities(s)) \in Int
  <2> HIDE DEF s, t
  <2> QED
    BY <1>1, <1>3, QuantitiesFacts
<1>5. l2 = [orders |-> t, total_volume |-> (lvl.total_volume - q) % WordMod]
  <2> DEFINE v == (lvl.total_volume - q) % WordMod
  <2>1. SubVolume(lvl, q) = [lvl EXCEPT !.total_volume = v]
    BY DEF SubVolume
  <2> HIDE DEF v
  <2>2. SubVolume(lvl, q) = [orders |-> s, total_volume |-> v]
    BY <1>1, <2>1
  <2>3. Consumed(lvl, q) = [SubVolume(lvl, q) EXCEPT !.orders[1].quantity = @ - q]
    BY <1>2 DEF Consumed
  <2> QED
    BY <2>2, <2>3 DEF v, FrontTaken
<1>6. (lvl.total_volume - q) % WordMod = c % WordMod
  <2> DEFINE a == SumFunction(Quantities(s))
  <2>1. a \in Int /\ c \in Int /\ a = c + q /\ lvl.total_volume = a % WordMod
    BY <1>3, <1>4 DEF LevelOK
  <2> HIDE DEF a, c
  <2> QED
    BY <2>1, WordLess
<1> HIDE DEF t
<1>7. l2.orders = t /\ l2.total_volume = c % WordMod /\ l2 \in ListLevel
  <2>1. c % WordMod \in Int
    BY <1>4, BaselineAssumption, OrderAssumption
  <2>2. l2 = [orders |-> t, total_volume |-> c % WordMod]
    BY <1>5, <1>6
  <2> HIDE DEF c
  <2> QED
    BY <1>3, <2>1, <2>2 DEF ListLevel
<1>8. LevelOK(l2, side, p, ix)
  <2>1. \A k \in 1..n : /\ s[k].id \in DOMAIN ix
                        /\ ix[s[k].id] = [side |-> side, price |-> p]
                        /\ \A l \in 1..n : k < l => s[k].id < s[l].id
    BY <1>1 DEF LevelOK
  <2> HIDE DEF s
  <2> QED
    BY <1>3, <1>7, <2>1 DEF LevelOK
<1>9. ASSUME NEW i \in DOMAIN ix, Listed(lvl, i)
      PROVE  /\ Listed(l2, i)
             /\ NodeQty(l2, i) = IF i = s[1].id THEN s[1].quantity - q
                                 ELSE NodeQty(lvl, i)
  <2>1. PICK a \in 1..n : s[a].id = i
    BY <1>1, <1>9 DEF Listed
  <2>2. NodeQty(lvl, i) = s[a].quantity
    BY <2>1, NodeAt
  <2>3. a \in 1..Len(l2.orders)
    BY <1>3, <1>7, <1>8, LevelFacts
  <2>4. NodeQty(l2, i) = t[a].quantity
    <3>1. l2.orders[a].id = i /\ l2.orders[a].quantity = t[a].quantity
      BY <1>3, <1>7, <2>1
    <3>2. NodeQty(l2, l2.orders[a].id) = l2.orders[a].quantity
      BY <1>8, <2>3, NodeAt
    <3> QED
      BY <3>1, <3>2
  <2>5. Listed(l2, i)
    BY <1>3, <1>7, <2>1 DEF Listed
  <2>6. CASE a = 1
    BY <1>3, <2>1, <2>4, <2>5, <2>6
  <2>7. CASE a # 1
    <3>1. a \in 2..n /\ 1 \in 1..n
      BY <1>1, <2>7
    <3>2. s[1].id < s[a].id /\ s[1].id \in Int
      <4>1. s[1].id < s[a].id
        BY <1>1, <2>7, <3>1 DEF LevelOK
      <4>2. s[1].id \in Int
        BY <3>1, LevelFacts
      <4> QED
        BY <4>1, <4>2
    <3> QED
      BY <1>3, <2>1, <2>2, <2>4, <2>5, <3>1, <3>2
  <2> QED
    BY <2>6, <2>7
<1> QED
  BY <1>8, <1>9 DEF FrontLess

-----------------------------------------------------------------------------
(* The list engine: every step keeps its maps in order.                     *)

\* The types, when a level changes and no id enters or leaves but as given.
LEMMA ListTypesKept ==
    ASSUME ListTypes, NEW side \in Side, NEW p \in Prices, NEW lvl,
           levels' = PutLevel(side, p, lvl)
    PROVE  DOMAIN levels' = Side /\ \A s \in Side : DOMAIN levels'[s] \subseteq Prices
<1>1. /\ DOMAIN levels' = Side
      /\ \A s \in Side \ {side} : levels'[s] = levels[s]
      /\ lvl.orders = <<>> => DOMAIN levels'[side] = DOMAIN levels[side] \ {p}
      /\ lvl.orders # <<>> => DOMAIN levels'[side] = DOMAIN levels[side] \cup {p}
  BY PutListFacts DEF ListTypes
<1> QED
  BY <1>1 DEF ListTypes

\* Nothing in the book changes when a submission begins.
LEMMA BeginListKeeps ==
    ASSUME ListInv, NEW side \in Side, NEW price \in Prices, NEW is_market \in BOOLEAN,
           NEW qty \in Qtys, MinPrice > 0 => (is_market <=> price = 0),
           Begin(side, price, is_market, qty)
    PROVE  ListInv'
<1>1. ListTypes /\ ListsOK /\ IndexedOK
  BY DEF ListInv
<1>2. /\ next_id <= MaxId /\ next_id' = next_id + 1
      /\ call' = [pc |-> "match", side |-> side, id |-> next_id, price |-> price,
                  is_market |-> is_market, qty |-> qty]
      /\ UNCHANGED <<levels, index>>
  BY DEF Begin
<1>3. ListsOK' /\ IndexedOK'
  BY <1>1, <1>2 DEF ListsOK, IndexedOK
<1>4. /\ next_id \in Nat /\ next_id >= 1 /\ MaxId \in Nat
      /\ DOMAIN index \subseteq 1..(next_id - 1)
  BY <1>1, OrderAssumption DEF ListTypes
<1>5. /\ next_id' \in 1..(MaxId + 1) /\ next_id \in 0..MaxId /\ next_id \in Ids
      /\ next_id' - 1 = next_id
      /\ DOMAIN index' \subseteq 1..(next_id' - 1) /\ next_id \notin DOMAIN index'
  BY <1>2, <1>4 DEF Ids
<1>6. call' \in Call
  BY <1>2, <1>5 DEF Call
<1>7. ListTypes'
  BY <1>1, <1>2, <1>5, <1>6 DEF ListTypes, Matching
<1> QED
  BY <1>3, <1>7 DEF ListInv

\* The first node of a level, which is the one that match reads.
LEMMA FirstNode ==
    ASSUME NEW lvl, NEW side, NEW p, NEW ix, LevelOK(lvl, side, p, ix)
    PROVE  /\ 1 \in 1..Len(lvl.orders)
           /\ Head(lvl.orders) = lvl.orders[1]
           /\ lvl.orders[1].id \in DOMAIN ix
           /\ ix[lvl.orders[1].id] = Entry(side, p)
           /\ lvl.orders[1].quantity \in Nat /\ lvl.orders[1].quantity > 0
<1> DEFINE s == lvl.orders
<1>1. /\ s \in Seq(ListNode) /\ Len(s) \in Nat \ {0} /\ DOMAIN s = 1..Len(s)
      /\ \A k \in 1..Len(s) : s[k].quantity \in 1..MaxQty
  BY LevelFacts
<1>2. \A k \in DOMAIN s : s[k].id \in DOMAIN ix /\ ix[s[k].id] = Entry(side, p)
  BY DEF LevelOK, Entry
<1> HIDE DEF s
<1>3. 1 \in 1..Len(s) /\ Head(s) = s[1]
  BY <1>1
<1>4. s[1].quantity \in 1..MaxQty
  BY <1>1, <1>3
<1>5. s[1].quantity \in Nat /\ s[1].quantity > 0
  BY <1>4, OrderAssumption
<1> QED
  BY <1>1, <1>2, <1>3, <1>5 DEF s

\* An iteration of do_match takes actual from the first order of lvl, at p.
Consuming(side, p, lvl, actual) ==
    /\ side \in Side /\ p \in DOMAIN levels[side]
    /\ LevelOK(lvl, side, p, index)
    /\ 1 \in 1..Len(lvl.orders)
    /\ Head(lvl.orders) = lvl.orders[1]
    /\ lvl.orders[1].id \in DOMAIN index
    /\ index[lvl.orders[1].id] = Entry(side, p)
    /\ actual \in Int /\ actual >= 0
    /\ actual = lvl.orders[1].quantity \/ actual < lvl.orders[1].quantity
    /\ actual <= call.qty /\ call.qty \in Nat /\ call.qty <= MaxQty
    /\ levels' = PutLevel(side, p, Consumed(lvl, actual))
    /\ index' = IF lvl.orders[1].quantity = actual
                THEN Without(index, lvl.orders[1].id) ELSE index

\* What an iteration of do_match takes from the front of the best level.
LEMMA ConsumeFacts ==
    ASSUME ListInv, NEW p \in Prices, consume_best(p),
           NEW side, side = Opposite(call.side), NEW lvl, lvl = levels[side][p],
           NEW actual, actual = Lesser(call.qty, lvl.orders[1].quantity)
    PROVE  Consuming(side, p, lvl, actual)
<1>1. call.side \in Side /\ call.qty \in Nat /\ call.qty <= MaxQty
  BY OrderAssumption DEF ListInv, ListTypes, Call, Qtys
<1>2. side \in Side /\ p \in DOMAIN levels[side]
  BY <1>1 DEF Side, Opposite, consume_best, IsBegin
<1>3. LevelOK(lvl, side, p, index)
  BY <1>2 DEF ListInv, ListsOK
<1>4. PICK ix : ix = index
  OBVIOUS
<1>5. /\ 1 \in 1..Len(lvl.orders)
      /\ Head(lvl.orders) = lvl.orders[1]
      /\ lvl.orders[1].id \in DOMAIN ix
      /\ ix[lvl.orders[1].id] = Entry(side, p)
      /\ lvl.orders[1].quantity \in Nat /\ lvl.orders[1].quantity > 0
  <2>1. LevelOK(lvl, side, p, ix)
    BY <1>3, <1>4
  <2> QED
    BY ONLY <2>1, FirstNode
<1>7. PICK q \in Nat : q = lvl.orders[1].quantity
  BY <1>5
<1>8. /\ actual \in Int /\ actual >= 0
      /\ actual = q \/ actual < q
      /\ actual <= call.qty
  BY <1>1, <1>7 DEF Lesser
<1>9. /\ levels' = PutLevel(side, p, Consumed(lvl, actual))
      /\ index' = IF lvl.orders[1].quantity = actual
                  THEN Without(index, lvl.orders[1].id) ELSE index
  BY <1>5 DEF consume_best
<1> QED
  BY <1>1, <1>2, <1>3, <1>4, <1>5, <1>7, <1>8, <1>9 DEF Consuming

\* The table after an order at the front loses some of its quantity.
Reduced(i, q) == [RestingOrders EXCEPT ![i].quantity = @ - q]

\* What that iteration makes of the book: order i gave actual.
Taken(lvl, i, actual) ==
    /\ ListsOK' /\ IndexedOK'
    /\ DOMAIN index' \subseteq DOMAIN index
    /\ \A j \in DOMAIN index' : index'[j] = index[j]
    /\ RestingOrders[i].quantity = lvl.orders[1].quantity
    /\ IF actual = lvl.orders[1].quantity
       THEN RestingOrders' = Without(RestingOrders, i)
       ELSE RestingOrders' = Reduced(i, actual)

\* An iteration that fills the maker takes its order from the book; any other
\* lowers its quantity.
LEMMA ConsumeListKeeps ==
    ASSUME ListInv, NEW p \in Prices, consume_best(p), NEW side, side = Opposite(call.side),
           NEW lvl, lvl = levels[side][p], NEW i, i = lvl.orders[1].id,
           NEW actual, actual = Lesser(call.qty, lvl.orders[1].quantity)
    PROVE  Taken(lvl, i, actual)
<1>0. Consuming(side, p, lvl, actual)
  BY ConsumeFacts
<1>1. /\ side \in Side /\ p \in DOMAIN levels[side]
      /\ LevelOK(lvl, side, p, index)
      /\ 1 \in 1..Len(lvl.orders)
      /\ Head(lvl.orders) = lvl.orders[1]
      /\ i \in DOMAIN index
      /\ index[i] = Entry(side, p)
      /\ actual \in Int /\ actual >= 0
      /\ actual = lvl.orders[1].quantity \/ actual < lvl.orders[1].quantity
      /\ levels' = PutLevel(side, p, Consumed(lvl, actual))
      /\ index' = IF lvl.orders[1].quantity = actual
                  THEN Without(index, lvl.orders[1].id) ELSE index
  BY <1>0 DEF Consuming
<1>2. PICK ix : ix = index
  OBVIOUS
<1>a. /\ side \in Side /\ p \in DOMAIN levels[side] /\ i \in DOMAIN index
      /\ index[i] = [side |-> side, price |-> p]
  BY <1>1 DEF Entry
<1>b. 1 \in 1..Len(lvl.orders) /\ Head(lvl.orders) = lvl.orders[1]
  BY <1>1
<1>c. /\ actual \in Int /\ actual >= 0
      /\ actual = lvl.orders[1].quantity \/ actual < lvl.orders[1].quantity
  BY <1>1
<1>d. /\ levels' = PutLevel(side, p, Consumed(lvl, actual))
      /\ index' = IF lvl.orders[1].quantity = actual THEN Without(index, i) ELSE index
  BY <1>1
<1>3. LevelOK(lvl, side, p, ix)
  BY <1>1, <1>2
<1>4. RestingOrders[i] = [side |-> side, price |-> p, quantity |-> lvl.orders[1].quantity]
  <2>1. NodeQty(lvl, i) = lvl.orders[1].quantity
    BY <1>b, <1>3, NodeAt
  <2>2. levels[index[i].side][index[i].price] = lvl
    BY <1>a
  <2>3. RestingOrders[i] =
           [side |-> index[i].side, price |-> index[i].price,
            quantity |-> NodeQty(levels[index[i].side][index[i].price], i)]
    BY <1>a DEF RestingOrders
  <2>4. index[i].side = side /\ index[i].price = p
    BY <1>a
  <2> QED
    BY <2>1, <2>2, <2>3, <2>4
<1>5. CASE actual = lvl.orders[1].quantity
  <2>1. Consumed(lvl, actual) = ErasedLevel(lvl, 1)
    BY <1>b, <1>3, <1>5, PopFront
  <2>2. PICK k \in 1..Len(lvl.orders) : k = 1
    BY <1>b
  <2>3. PICK l2 : l2 = ErasedLevel(lvl, k)
    OBVIOUS
  <2>a. levels' = PutLevel(side, p, l2) /\ index' = Without(index, i)
    BY <1>d, <1>5, <2>1, <2>2, <2>3
  <2>b. i = lvl.orders[k].id
    BY <2>2
  <2>4. /\ ListsOK' /\ IndexedOK'
        /\ DOMAIN index' = DOMAIN index \ {i}
        /\ \A j \in DOMAIN index' : index'[j] = index[j]
        /\ RestingOrders' = Without(RestingOrders, i)
    <3>1. ListsOK' /\ IndexedOK'
      BY <1>a, <2>a, <2>b, <2>3, EraseKeeps
    <3>2. \A j \in DOMAIN index' : RestingOrders'[j] = RestingOrders[j]
      BY <1>a, <2>a, <2>b, <2>3, EraseKeeps
    <3>3. RestingOrders' = Without(RestingOrders, i)
      BY <2>a, <3>2, FewerResting
    <3> QED
      BY <2>a, <3>1, <3>3 DEF Without, Restrict
  <2>5. RestingOrders[i].quantity = lvl.orders[1].quantity
    BY <1>4
  <2> QED
    BY <1>5, <2>4, <2>5 DEF Taken
<1>6. CASE actual < lvl.orders[1].quantity
  <2>1. PICK l2 : l2 = Consumed(lvl, actual)
    OBVIOUS
  <2>2. /\ LevelOK(l2, side, p, ix)
        /\ \A j \in DOMAIN ix : Listed(lvl, j) =>
              /\ Listed(l2, j)
              /\ NodeQty(l2, j) = IF j = lvl.orders[1].id
                                  THEN lvl.orders[1].quantity - actual
                                  ELSE NodeQty(lvl, j)
    <3>1. PICK q \in Int : q = actual
      BY <1>c
    <3>2. q >= 0 /\ q < lvl.orders[1].quantity /\ l2 = Consumed(lvl, q)
      BY <1>c, <1>6, <2>1, <3>1
    <3>3. LevelOK(l2, side, p, ix) /\ FrontLess(lvl, l2, q, ix)
      BY <1>3, <3>2, FrontConsumed
    <3> QED
      BY <3>1, <3>3 DEF FrontLess
  <2>3. actual # lvl.orders[1].quantity
    <3>1. lvl.orders[1].quantity \in Nat
      BY <1>3, FirstNode
    <3>2. PICK q \in Nat, r \in Int : q = lvl.orders[1].quantity /\ r = actual
      BY <1>c, <3>1
    <3>3. r < q
      BY <1>6, <3>2
    <3>4. r # q
      BY <3>3
    <3> QED
      BY ONLY <3>2, <3>4
  <2>4. index' = index /\ levels' = PutLevel(side, p, l2)
    BY <1>d, <2>1, <2>3
  <2> DEFINE here == [side |-> side, price |-> p]
  <2>5. \A j \in DOMAIN index : index[j] = here => Listed(lvl, j)
    BY DEF ListInv, IndexedOK
  <2>6. /\ ListsOK' /\ IndexedOK'
        /\ \A j \in DOMAIN index' :
              RestingOrders'[j] =
                 IF index'[j] = here
                 THEN [side |-> side, price |-> p, quantity |-> NodeQty(l2, j)]
                 ELSE RestingOrders[j]
    <3>1. LevelOK(l2, side, p, index') /\ p \in Prices
      BY <1>2, <2>2, <2>4
    <3>e. here = Entry(side, p)
      BY DEF Entry
    <3>2. IndexedAfter(l2, Entry(side, p))
      BY <1>2, <2>2, <2>4, <2>5, <3>e DEF IndexedAfter
    <3>3. KeptElsewhere(Entry(side, p))
      BY <2>4 DEF KeptElsewhere
    <3>4. ListsOK' /\ IndexedOK' /\ ShownAfter(l2, side, p)
      BY <1>a, <2>4, <3>1, <3>2, <3>3, OneLevelKeeps
    <3> QED
      BY <3>e, <3>4 DEF ShownAfter
  <2>7. ASSUME NEW j \in DOMAIN index
        PROVE  RestingOrders'[j] =
                  IF j = i THEN [side |-> side, price |-> p,
                                 quantity |-> lvl.orders[1].quantity - actual]
                  ELSE RestingOrders[j]
    <3>1. CASE index[j] = here
      <4>1. Listed(lvl, j) /\ j \in DOMAIN ix
        BY <1>2, <2>5, <3>1
      <4>2. NodeQty(l2, j) = IF j = i THEN lvl.orders[1].quantity - actual
                             ELSE NodeQty(lvl, j)
        BY <2>2, <4>1
      <4>3. RestingOrders'[j] = [side |-> side, price |-> p, quantity |-> NodeQty(l2, j)]
        BY <2>4, <2>6, <3>1
      <4>4. RestingOrders[j] = [side |-> side, price |-> p, quantity |-> NodeQty(lvl, j)]
        BY <3>1 DEF RestingOrders
      <4> QED
        BY <4>2, <4>3, <4>4
    <3>2. CASE index[j] # here
      BY <1>a, <2>4, <2>6, <3>2
    <3> QED
      BY <3>1, <3>2
  <2>8. /\ DOMAIN RestingOrders = DOMAIN index /\ DOMAIN RestingOrders' = DOMAIN index
        /\ RestingOrders' = [j \in DOMAIN index |-> RestingOrders'[j]]
    BY <2>4 DEF RestingOrders
  <2>9. RestingOrders' = [RestingOrders EXCEPT ![i].quantity = @ - actual]
    <3> DEFINE q == lvl.orders[1].quantity - actual
               e == [side |-> side, price |-> p, quantity |-> q]
    <3>1. [RestingOrders[i] EXCEPT !.quantity = @ - actual] = e
      <4>1. PICK r : r = RestingOrders[i]
        OBVIOUS
      <4>2. r = [side |-> side, price |-> p, quantity |-> lvl.orders[1].quantity]
        BY <1>4, <4>1
      <4>3. r.quantity - actual = q
        BY <4>2
      <4> HIDE DEF q
      <4>4. [r EXCEPT !.quantity = q] = [side |-> side, price |-> p, quantity |-> q]
        BY <4>2
      <4>5. [r EXCEPT !.quantity = @ - actual] = [r EXCEPT !.quantity = q]
        BY <4>3
      <4> QED
        BY <4>1, <4>4, <4>5
    <3> HIDE DEF e
    <3>2. [RestingOrders EXCEPT ![i].quantity = @ - actual]
             = [RestingOrders EXCEPT ![i] = e]
      BY <3>1
    <3>3. [RestingOrders EXCEPT ![i] = e]
             = [j \in DOMAIN index |-> IF j = i THEN e ELSE RestingOrders[j]]
      BY <2>8
    <3>4. \A j \in DOMAIN index :
             RestingOrders'[j] = IF j = i THEN e ELSE RestingOrders[j]
      BY <2>7 DEF e
    <3> QED
      BY <2>8, <3>2, <3>3, <3>4
  <2>10. RestingOrders[i].quantity = lvl.orders[1].quantity
    BY <1>4
  <2> QED
    <3>1. RestingOrders' = Reduced(i, actual)
      BY <2>9 DEF Reduced
    <3> QED
      BY <2>3, <2>4, <2>6, <2>10, <3>1 DEF Taken
<1> QED
  BY <1>c, <1>5, <1>6

\* The level on which add_order puts an order.
AddedLevel(lvl, id, q) ==
    [AddVolume(lvl, q) EXCEPT !.orders = Append(@, [id |-> id, quantity |-> q])]

\* A list that an order joined sums to as much more.
LEMMA QuantitiesAppended ==
    ASSUME NEW s \in Seq(ListNode), NEW e \in ListNode
    PROVE  SumFunction(Quantities(Append(s, e))) = SumFunction(Quantities(s)) + e.quantity
<1> DEFINE n == Len(s)
           t == Append(s, e)
           f == Quantities(s)
           g == Quantities(t)
<1>1. /\ n \in Nat /\ t \in Seq(ListNode) /\ Len(t) = n + 1
      /\ \A j \in 1..n : t[j] = s[j]
      /\ t[n + 1] = e
  OBVIOUS
<1>2. /\ DOMAIN f = 1..n /\ \A j \in 1..n : f[j] = s[j].quantity
  BY QuantitiesFacts
<1> HIDE DEF t
<1>3. /\ DOMAIN g = 1..(n + 1)
      /\ \A j \in 1..(n + 1) : g[j] = t[j].quantity /\ g[j] \in Int
  BY <1>1, QuantitiesFacts
<1> HIDE DEF f, g, n
<1>4. \A j \in 1..n : f[j] = g[j]
  BY <1>1, <1>2, <1>3
<1>5. SumFunctionOnSet(g, 1..(n + 1)) = SumFunctionOnSet(f, 1..n) + g[n + 1]
  <2>1. \A j \in 1..(n + 1) : g[j] \in Int
    BY <1>3
  <2> QED
    BY <1>1, <1>4, <2>1, SumExtended
<1>6. g[n + 1] = e.quantity
  BY <1>1, <1>3
<1> QED
  BY <1>2, <1>3, <1>5, <1>6 DEF SumFunction, f, g, t

\* The newest order joins a level, which becomes l2, and the side table.
Joins(lvl, l2, side, p, ix, ix2, id, q) ==
    /\ lvl = NewLevel \/ LevelOK(lvl, side, p, ix)
    /\ id \in Ids /\ q \in 1..MaxQty
    /\ \A i \in DOMAIN ix : i \in Int /\ i < id
    /\ l2 = AddedLevel(lvl, id, q)
    /\ ix2 = With(ix, id, Entry(side, p))

\* A list stays a level of the table when an order is appended to it.
LEMMA AddedOK ==
    ASSUME NEW lvl, NEW l2, NEW side, NEW p, NEW ix, NEW ix2, NEW id, NEW q,
           Joins(lvl, l2, side, p, ix, ix2, id, q)
    PROVE  /\ LevelOK(l2, side, p, ix2)
           /\ Listed(l2, id)
           /\ NodeQty(l2, id) = q
           /\ \A i \in DOMAIN ix : Listed(lvl, i) =>
                 Listed(l2, i) /\ NodeQty(l2, i) = NodeQty(lvl, i)
<1> DEFINE s == lvl.orders
           e == [id |-> id, quantity |-> q]
           t == Append(s, e)
           n == Len(s)
           a == SumFunction(Quantities(s))
           c == SumFunction(Quantities(t))
<1>0. /\ lvl = NewLevel \/ LevelOK(lvl, side, p, ix)
      /\ id \in Ids /\ q \in 1..MaxQty
      /\ \A i \in DOMAIN ix : i \in Int /\ i < id
      /\ l2 = AddedLevel(lvl, id, q)
      /\ ix2 = With(ix, id, Entry(side, p))
  BY DEF Joins
<1>1. e \in ListNode /\ e.id = id /\ e.quantity = q /\ q \in Int /\ id \in Int
  BY <1>0, OrderAssumption DEF ListNode, Ids
<1>2. WordMod \in Nat /\ WordMod > 0
  BY BaselineAssumption, OrderAssumption
<1>3. /\ s \in Seq(ListNode)
      /\ lvl = [orders |-> s, total_volume |-> lvl.total_volume]
      /\ lvl.total_volume = a % WordMod
  <2>1. CASE lvl = NewLevel
    <3>1. s = <<>> /\ lvl = [orders |-> s, total_volume |-> 0]
      BY <2>1 DEF NewLevel
    <3>2. s \in Seq(ListNode) /\ DOMAIN s = {}
      BY <3>1
    <3>3. a = 0
      <4> DEFINE f == Quantities(s)
      <4>1. DOMAIN f = {} /\ IsFiniteSet({})
        BY <3>2, FS_EmptySet DEF Quantities
      <4> HIDE DEF f
      <4>2. SumFunctionOnSet(f, {}) = 0
        BY <4>1, SumPick
      <4> QED
        BY <4>1, <4>2 DEF SumFunction, f
    <3>4. 0 % WordMod = 0
      BY <1>2
    <3> HIDE DEF a, s
    <3> QED
      BY <3>1, <3>2, <3>3, <3>4
  <2>2. CASE LevelOK(lvl, side, p, ix)
    BY <2>2, LevelFacts DEF LevelOK
  <2> QED
    BY <1>0, <2>1, <2>2
<1>4. \A j \in 1..n : /\ s[j].id \in DOMAIN ix /\ s[j].id \in Int
                      /\ ix[s[j].id] = [side |-> side, price |-> p]
                      /\ s[j].id < id
                      /\ \A k \in 1..n : j < k => s[j].id < s[k].id
  <2>1. CASE lvl = NewLevel
    BY <2>1 DEF NewLevel
  <2>2. CASE LevelOK(lvl, side, p, ix)
    <3>1. DOMAIN s = 1..n
      BY <2>2, LevelFacts
    <3> QED
      BY <1>0, <2>2, <3>1 DEF LevelOK
  <2> QED
    BY <1>0, <2>1, <2>2
<1> HIDE DEF e
<1>5. /\ n \in Nat /\ t \in Seq(ListNode) /\ Len(t) = n + 1 /\ DOMAIN t = 1..(n + 1)
      /\ \A j \in 1..n : t[j] = s[j]
      /\ t[n + 1] = e
      /\ t # <<>>
  <2> HIDE DEF s
  <2> QED
    BY <1>1, <1>3
<1>6. a \in Int /\ c \in Int /\ c = a + q
  <2> HIDE DEF s
  <2>1. c = a + e.quantity
    BY <1>1, <1>3, QuantitiesAppended
  <2>2. a \in Int
    BY <1>3, QuantitiesFacts
  <2> HIDE DEF a, c
  <2> QED
    BY <1>1, <2>1, <2>2
<1>7. ((a % WordMod) + q) % WordMod = c % WordMod
  <2> HIDE DEF a, c
  <2> QED
    BY <1>1, <1>6, WordMore
<1>8. l2 = [orders |-> t, total_volume |-> c % WordMod]
  <2> DEFINE v == (lvl.total_volume + q) % WordMod
             w == AddVolume(lvl, q)
  <2>1. w = [lvl EXCEPT !.total_volume = v]
    BY DEF AddVolume
  <2>2. v = c % WordMod
    BY <1>3, <1>7
  <2>3. l2 = [w EXCEPT !.orders = Append(w.orders, e)]
    BY <1>0 DEF AddedLevel, e
  <2> HIDE DEF v, w, c, s
  <2>4. w = [orders |-> s, total_volume |-> v] /\ w.orders = s
    BY <1>3, <2>1
  <2>5. l2 = [w EXCEPT !.orders = t]
    BY <2>3, <2>4
  <2> HIDE DEF t
  <2>6. l2 = [orders |-> t, total_volume |-> v]
    BY <2>4, <2>5
  <2> QED
    BY <2>2, <2>6
<1>9. l2.orders = t /\ l2.total_volume = c % WordMod /\ l2 \in ListLevel
  <2>1. c % WordMod \in Int
    BY <1>2, <1>6
  <2> HIDE DEF c, t
  <2> QED
    BY <1>5, <1>8, <2>1 DEF ListLevel
<1>10. /\ id \in DOMAIN ix2 /\ ix2[id] = [side |-> side, price |-> p]
       /\ \A i \in DOMAIN ix : i \in DOMAIN ix2 /\ ix2[i] = ix[i]
  <2>1. id \notin DOMAIN ix
    BY <1>0, <1>1
  <2> QED
    BY <1>0, <2>1 DEF With, Entry
<1> HIDE DEF t, s
<1>11. LevelOK(l2, side, p, ix2)
  <2>1. \A j \in 1..(n + 1) : j \in 1..n \/ j = n + 1
    BY <1>5
  <2>2. ASSUME NEW j \in 1..(n + 1)
        PROVE  /\ t[j].id \in DOMAIN ix2 /\ ix2[t[j].id] = [side |-> side, price |-> p]
               /\ \A k \in 1..(n + 1) : j < k => t[j].id < t[k].id
    <3>1. CASE j = n + 1
      <4>1. t[j].id = id
        BY <1>1, <1>5, <3>1
      <4>2. \A k \in 1..(n + 1) : ~(j < k)
        BY <1>5, <3>1
      <4> QED
        BY <1>10, <4>1, <4>2
    <3>2. CASE j \in 1..n
      <4>1. t[j] = s[j]
        BY <1>5, <3>2
      <4>2. s[j].id \in DOMAIN ix /\ ix[s[j].id] = [side |-> side, price |-> p]
        BY <1>4, <3>2
      <4>3. ASSUME NEW k \in 1..(n + 1), j < k PROVE t[j].id < t[k].id
        <5>1. CASE k = n + 1
          BY <1>1, <1>4, <1>5, <3>2, <4>1, <5>1
        <5>2. CASE k \in 1..n
          BY <1>4, <1>5, <3>2, <4>1, <4>3, <5>2
        <5> QED
          BY <2>1, <5>1, <5>2
      <4> QED
        BY <1>10, <4>1, <4>2, <4>3
    <3> QED
      BY <2>1, <3>1, <3>2
  <2> HIDE DEF n
  <2> QED
    BY <1>5, <1>9, <2>2 DEF LevelOK
<1>12. 1..(n + 1) = 1..Len(l2.orders) /\ n + 1 \in 1..(n + 1)
  BY <1>5, <1>9
<1>13. Listed(l2, id) /\ NodeQty(l2, id) = q
  <2> DEFINE m == n + 1
  <2>1. m \in 1..Len(l2.orders) /\ l2.orders[m] = e
    BY <1>5, <1>9, <1>12
  <2> HIDE DEF m
  <2>2. NodeQty(l2, l2.orders[m].id) = l2.orders[m].quantity
    BY <1>11, <2>1, NodeAt
  <2>3. m \in DOMAIN l2.orders
    BY <1>5, <1>9, <1>12, <2>1
  <2> QED
    BY <1>1, <2>1, <2>2, <2>3 DEF Listed
<1>14. ASSUME NEW i \in DOMAIN ix, Listed(lvl, i)
       PROVE  Listed(l2, i) /\ NodeQty(l2, i) = NodeQty(lvl, i)
  <2>1. PICK j \in 1..n : s[j].id = i
    BY <1>3, <1>14 DEF Listed, s
  <2>2. l2.orders[j] = s[j] /\ j \in 1..Len(l2.orders) /\ j \in DOMAIN l2.orders
    BY <1>5, <1>9, <1>12
  <2>3. LevelOK(lvl, side, p, ix)
    <3>1. lvl # NewLevel
      BY <2>1 DEF NewLevel, s
    <3> QED
      BY <1>0, <3>1
  <2>4. NodeQty(lvl, i) = s[j].quantity
    BY <2>1, <2>3, NodeAt DEF s
  <2>5. NodeQty(l2, l2.orders[j].id) = l2.orders[j].quantity
    BY <1>11, <2>2, NodeAt
  <2> QED
    BY <2>1, <2>2, <2>4, <2>5 DEF Listed
<1> QED
  BY <1>11, <1>13, <1>14

LEMMA ConsumeTypesKeep ==
    ASSUME ListInv, NEW p \in Prices, consume_best(p), NEW side, side = Opposite(call.side),
           NEW lvl, lvl = levels[side][p],
           NEW actual, actual = Lesser(call.qty, lvl.orders[1].quantity),
           DOMAIN index' \subseteq DOMAIN index,
           \A j \in DOMAIN index' : index'[j] = index[j]
    PROVE  ListTypes'
<1>0. Consuming(side, p, lvl, actual)
  BY ConsumeFacts
<1>1. /\ side \in Side /\ p \in DOMAIN levels[side]
      /\ LevelOK(lvl, side, p, index)
      /\ 1 \in 1..Len(lvl.orders)
      /\ Head(lvl.orders) = lvl.orders[1]
      /\ actual \in Int /\ actual >= 0
      /\ actual <= call.qty /\ call.qty \in Nat /\ call.qty <= MaxQty
      /\ levels' = PutLevel(side, p, Consumed(lvl, actual))
  BY <1>0 DEF Consuming
<1>2. DOMAIN levels' = Side /\ \A s \in Side : DOMAIN levels'[s] \subseteq Prices
  BY <1>1, ListTypesKept DEF ListInv
<1> DEFINE r == call.qty - actual
<1>3. r \in Qtys
  <2>1. PICK c \in Nat : c = call.qty /\ c <= MaxQty
    BY <1>1
  <2>2. actual \in Int /\ actual >= 0 /\ actual <= c
    BY <1>1, <2>1
  <2>3. c - actual \in 0..MaxQty
    BY <2>1, <2>2, OrderAssumption
  <2> QED
    BY <2>1, <2>3 DEF Qtys
<1>4. next_id' = next_id /\ call' = [call EXCEPT !.qty = r]
  <2>1. /\ next_id' = next_id
        /\ call' = [call EXCEPT !.qty = @ - Lesser(call.qty, Head(lvl.orders).quantity)]
    BY DEF consume_best
  <2> QED
    BY <1>1, <2>1
<1> HIDE DEF r
<1>5. call' \in Call /\ \A f \in {"pc", "id", "is_market", "price"} : call'[f] = call[f]
  BY <1>3, <1>4 DEF ListInv, ListTypes, Call
<1> QED
  BY <1>2, <1>4, <1>5 DEF ListInv, ListTypes, Matching

LEMMA ConsumeKeeps == ASSUME ListInv, NEW p \in Prices, consume_best(p) PROVE ListInv'
<1>1. PICK side, lvl : side = Opposite(call.side) /\ lvl = levels[side][p]
  OBVIOUS
<1>2. PICK i, actual : i = lvl.orders[1].id /\ actual = Lesser(call.qty, lvl.orders[1].quantity)
  OBVIOUS
<1>a. Taken(lvl, i, actual)
  BY <1>1, <1>2, ConsumeListKeeps
<1>3. ListsOK' /\ IndexedOK' /\ DOMAIN index' \subseteq DOMAIN index
      /\ \A j \in DOMAIN index' : index'[j] = index[j]
  BY <1>a DEF Taken
<1>4. ListTypes'
  BY <1>1, <1>2, <1>3, ConsumeTypesKeep
<1> QED
  BY <1>3, <1>4 DEF ListInv

\* The remainder joins the end of its level, under the newest id.
LEMMA AddFacts ==
    ASSUME ListInv, add_order
    PROVE  /\ ListInv'
           /\ call.id \notin DOMAIN index
           /\ RestingOrders' = With(RestingOrders, call.id,
                 [side |-> call.side, price |-> call.price, quantity |-> call.qty])
<1>1. PICK side, p, lvl : side = call.side /\ p = call.price /\ lvl = LevelAt(side, p)
  OBVIOUS
<1>2. /\ Matching /\ call.qty > 0 /\ call' = IdleCall /\ next_id' = next_id
      /\ levels' = PutLevel(side, p, AddedLevel(lvl, call.id, call.qty))
      /\ index' = With(index, call.id, [side |-> side, price |-> p])
  BY <1>1 DEF add_order, MatchOver, HasRemainder, AddedLevel
<1>3. /\ call.id \in Ids /\ call.id = next_id - 1 /\ call.id \notin DOMAIN index
      /\ side \in Side /\ p \in Prices /\ call.qty \in 1..MaxQty
      /\ next_id \in Int /\ DOMAIN index \subseteq 1..(next_id - 1)
  BY <1>1, <1>2, OrderAssumption DEF ListInv, ListTypes, Call, Qtys
<1>4. PICK id \in Ids : id = call.id
  BY <1>3
<1>5. PICK q \in 1..MaxQty : q = call.qty
  BY <1>3
<1>6. PICK ix : ix = index
  OBVIOUS
<1>7. PICK ix2 : ix2 = index'
  OBVIOUS
<1>8. PICK l2 : l2 = AddedLevel(lvl, id, q)
  OBVIOUS
<1> DEFINE here == [side |-> side, price |-> p]
<1>9. lvl = NewLevel \/ LevelOK(lvl, side, p, ix)
  BY <1>1, <1>3, <1>6 DEF LevelAt, ListInv, ListsOK
<1>10. \A i \in DOMAIN ix : i \in Int /\ i < id
  BY <1>3, <1>4, <1>6
<1>11. /\ LevelOK(l2, side, p, ix2)
       /\ Listed(l2, id)
       /\ NodeQty(l2, id) = q
       /\ \A i \in DOMAIN ix : Listed(lvl, i) =>
             Listed(l2, i) /\ NodeQty(l2, i) = NodeQty(lvl, i)
  <2>0. ix2 = With(ix, id, Entry(side, p))
    BY <1>2, <1>4, <1>6, <1>7 DEF Entry
  <2>1. Joins(lvl, l2, side, p, ix, ix2, id, q)
    BY <1>8, <1>9, <1>10, <2>0 DEF Joins
  <2>2. LevelOK(l2, side, p, ix2)
    BY <2>1, AddedOK
  <2>3. Listed(l2, id)
    BY <2>1, AddedOK
  <2>5. NodeQty(l2, id) = q
    BY <2>1, AddedOK
  <2>4. ASSUME NEW i \in DOMAIN ix, Listed(lvl, i)
        PROVE  Listed(l2, i) /\ NodeQty(l2, i) = NodeQty(lvl, i)
    BY <2>1, <2>4, AddedOK
  <2> QED
    BY <2>2, <2>3, <2>4, <2>5
<1>12. /\ DOMAIN index' = DOMAIN index \cup {id}
       /\ index'[id] = here
       /\ \A i \in DOMAIN index : index'[i] = index[i]
  BY <1>2, <1>3, <1>4 DEF With
<1>13. ASSUME NEW i \in DOMAIN index, index[i] = here
       PROVE  Listed(lvl, i) /\ lvl = levels[index[i].side][index[i].price]
  <2>1. index[i].side = side /\ index[i].price = p
    BY <1>13
  <2>2. p \in DOMAIN levels[side] /\ Listed(levels[side][p], i)
    BY <2>1 DEF ListInv, IndexedOK
  <2> QED
    BY <1>1, <2>1, <2>2 DEF LevelAt
<1>14. levels' = PutLevel(side, p, l2)
  BY <1>2, <1>4, <1>5, <1>8
<1>15. /\ ListsOK' /\ IndexedOK'
       /\ \A i \in DOMAIN index' :
             RestingOrders'[i] =
                IF index'[i] = here
                THEN [side |-> side, price |-> p, quantity |-> NodeQty(l2, i)]
                ELSE RestingOrders[i]
  <2>1. LevelOK(l2, side, p, index')
    BY <1>7, <1>11
  <2>e. here = Entry(side, p)
    BY DEF Entry
  <2>2. KeptElsewhere(Entry(side, p))
    BY <1>12, <2>e DEF KeptElsewhere
  <2>3. IndexedAfter(l2, Entry(side, p))
    BY <1>6, <1>11, <1>12, <1>13, <2>e DEF IndexedAfter
  <2>4. ListsOK' /\ IndexedOK' /\ ShownAfter(l2, side, p)
    BY <1>3, <1>14, <2>1, <2>2, <2>3, OneLevelKeeps
  <2> QED
    BY <2>e, <2>4 DEF ShownAfter
<1>16. ListTypes'
  <2>1. DOMAIN levels' = Side /\ \A s \in Side : DOMAIN levels'[s] \subseteq Prices
    BY <1>3, <1>14, ListTypesKept DEF ListInv
  <2>2. \A i \in DOMAIN index' : index'[i] \in IndexEntry
    BY <1>3, <1>12 DEF ListInv, ListTypes, IndexEntry
  <2>3. DOMAIN index' \subseteq 1..(next_id' - 1)
    BY <1>2, <1>3, <1>4, <1>12 DEF Ids
  <2>4. call' \in Call /\ ~Matching'
    BY <1>2, OrderAssumption DEF IdleCall, Call, Matching, Side, Prices, Qtys
  <2> QED
    BY <1>2, <2>1, <2>2, <2>3, <2>4 DEF ListInv, ListTypes
<1>17. ASSUME NEW i \in DOMAIN index PROVE RestingOrders'[i] = RestingOrders[i]
  <2>1. CASE index[i] = here
    <3>1. NodeQty(l2, i) = NodeQty(lvl, i)
      BY <1>6, <1>11, <1>13, <2>1
    <3>2. RestingOrders[i] = [side |-> side, price |-> p, quantity |-> NodeQty(lvl, i)]
      <4>1. lvl = levels[index[i].side][index[i].price] /\ index[i].side = side
            /\ index[i].price = p
        BY <1>13, <2>1
      <4> QED
        BY <4>1 DEF RestingOrders
    <3> QED
      BY <1>12, <1>15, <2>1, <3>1, <3>2
  <2>2. CASE index[i] # here
    BY <1>12, <1>15, <2>2
  <2> QED
    BY <2>1, <2>2
<1>18. RestingOrders'[id] = [side |-> side, price |-> p, quantity |-> q]
  BY <1>11, <1>12, <1>15
<1>19. RestingOrders' = With(RestingOrders, id, [side |-> side, price |-> p, quantity |-> q])
  <2> DEFINE e == [side |-> side, price |-> p, quantity |-> q]
  <2>1. RestingOrders' = [i \in DOMAIN index \cup {id} |-> RestingOrders'[i]]
    BY <1>12 DEF RestingOrders
  <2>2. DOMAIN RestingOrders = DOMAIN index
    BY DEF RestingOrders
  <2>3. \A i \in DOMAIN index \cup {id} :
           RestingOrders'[i] = IF i = id THEN e ELSE RestingOrders[i]
    BY <1>17, <1>18
  <2> HIDE DEF e
  <2>4. RestingOrders' = With(RestingOrders, id, e)
    BY <2>1, <2>2, <2>3 DEF With
  <2> QED
    BY <2>4 DEF e
<1> QED
  BY <1>1, <1>3, <1>4, <1>5, <1>15, <1>16, <1>19 DEF ListInv

\* A cancel takes the order of its id from its list and from the side table.
LEMMA CancelFacts ==
    ASSUME ListInv, NEW id, cancel(id)
    PROVE  ListInv' /\ RestingOrders' = Without(RestingOrders, id)
<1>1. /\ call.pc = "idle" /\ id \in DOMAIN index
      /\ index' = Without(index, id) /\ UNCHANGED <<next_id, call>>
  BY DEF cancel
<1>2. PICK side, p, lvl : /\ side = index[id].side /\ p = index[id].price
                          /\ lvl = levels[index[id].side][index[id].price]
  OBVIOUS
<1>3. /\ index[id] = [side |-> side, price |-> p]
      /\ side \in Side
      /\ p \in DOMAIN levels[side]
      /\ LevelOK(lvl, side, p, index)
      /\ Node(lvl, id) \in 1..Len(lvl.orders)
      /\ lvl.orders[Node(lvl, id)].id = id
  BY <1>1, <1>2, NodeFacts
<1>4. PICK k \in 1..Len(lvl.orders) : k = Node(lvl, id)
  BY <1>3
<1>5. PICK l2 : l2 = ErasedLevel(lvl, k)
  OBVIOUS
<1>6. levels' = PutLevel(side, p, l2)
  <2>1. levels' = PutLevel(side, p, [SubVolume(lvl, NodeQty(lvl, id)) EXCEPT
                                       !.orders = Erase(@, Node(lvl, id))])
    BY <1>2 DEF cancel
  <2>2. PICK ix : ix = index
    OBVIOUS
  <2>3. LevelOK(lvl, side, p, ix)
    BY <1>3, <2>2
  <2>4. [SubVolume(lvl, NodeQty(lvl, id)) EXCEPT !.orders = Erase(@, Node(lvl, id))] = l2
    BY <1>4, <1>5, <2>3, EraseNode
  <2> QED
    BY <2>1, <2>4
<1>7. lvl = levels[side][p] /\ id = lvl.orders[k].id /\ p \in Prices
  BY <1>2, <1>3, <1>4 DEF ListInv, ListTypes
<1>8. ListsOK' /\ IndexedOK'
  BY <1>1, <1>3, <1>5, <1>6, <1>7, EraseKeeps
<1>9. \A i \in DOMAIN index' : RestingOrders'[i] = RestingOrders[i]
  BY <1>1, <1>3, <1>5, <1>6, <1>7, EraseKeeps
<1>10. DOMAIN index' \subseteq DOMAIN index /\ \A i \in DOMAIN index' : index'[i] = index[i]
  BY <1>1 DEF Without, Restrict
<1>11. DOMAIN levels' = Side /\ \A s \in Side : DOMAIN levels'[s] \subseteq Prices
  BY <1>3, <1>6, <1>7, ListTypesKept DEF ListInv
<1>12. ListTypes'
  BY <1>1, <1>10, <1>11 DEF ListInv, ListTypes, Matching
<1>13. RestingOrders' = Without(RestingOrders, id)
  BY <1>1, <1>9, FewerResting
<1> QED
  BY <1>8, <1>12, <1>13 DEF ListInv

LEMMA ReturnListKeeps == ListInv /\ Return => ListInv'
<1> SUFFICES ASSUME ListInv, Return PROVE ListInv'
  OBVIOUS
<1>1. call' = IdleCall /\ UNCHANGED <<next_id, levels, index>>
  BY DEF Return
<1>2. call' \in Call /\ ~Matching'
  BY <1>1, OrderAssumption DEF IdleCall, Call, Matching, Side, Prices, Qtys
<1> QED
  BY <1>1, <1>2 DEF ListInv, ListTypes, ListsOK, IndexedOK

LEMMA ListInit == Init => ListInv
<1> SUFFICES ASSUME Init PROVE ListInv
  OBVIOUS
<1>1. /\ next_id = 1 /\ levels = [side \in Side |-> Empty] /\ DOMAIN index = {}
      /\ call = IdleCall
  BY DEF Init, Empty
<1>2. call \in Call /\ ~Matching
  BY <1>1, OrderAssumption DEF IdleCall, Call, Matching, Side, Prices, Qtys
<1>3. \A side \in Side : DOMAIN levels[side] = {}
  BY <1>1 DEF Empty
<1>4. next_id \in 1..(MaxId + 1)
  BY <1>1, OrderAssumption
<1> QED
  BY <1>1, <1>2, <1>3, <1>4 DEF ListInv, ListTypes, ListsOK, IndexedOK

LEMMA ListInductive == ListInv /\ [Next]_vars => ListInv'
<1> SUFFICES ASSUME ListInv, [Next]_vars PROVE ListInv'
  OBVIOUS
<1>1. MinPrice \in Nat /\ MinPrice..MaxPrice \subseteq Prices
  BY BaselineAssumption, OrderAssumption DEF Prices
<1>2. ASSUME NEW side \in Side, NEW price \in MinPrice..MaxPrice, NEW qty \in Qtys,
             submit_limit(side, price, qty)
      PROVE  ListInv'
  <2>1. MinPrice > 0 => (FALSE <=> price = 0)
    BY <1>1, OrderAssumption
  <2> QED
    BY <1>1, <1>2, <2>1, BeginListKeeps DEF submit_limit
<1>3. ASSUME NEW side \in Side, NEW qty \in Qtys, submit_market(side, qty)
      PROVE  ListInv'
  <2>1. 0 \in Prices
    BY OrderAssumption DEF Prices
  <2> QED
    BY <1>3, <2>1, BeginListKeeps DEF submit_market
<1>4. ASSUME NEW p \in Prices, consume_best(p) PROVE ListInv'
  BY <1>4, ConsumeKeeps
<1>5. ASSUME add_order PROVE ListInv'
  BY <1>5, AddFacts
<1>6. ASSUME Return PROVE ListInv'
  BY <1>6, ReturnListKeeps
<1>7. ASSUME NEW id \in 0..MaxId, cancel(id) PROVE ListInv'
  BY <1>7, CancelFacts
<1>8. ASSUME UNCHANGED vars PROVE ListInv'
  BY <1>8 DEF vars, ListInv, ListTypes, ListsOK, IndexedOK, Matching
<1> QED
  BY <1>2, <1>3, <1>4, <1>5, <1>6, <1>7, <1>8 DEF Next, cancel_miss

LEMMA ListInvariant == Spec => []ListInv
<1> QED
  BY ListInit, ListInductive, PTL DEF Spec

\* The side table and the lists of the baseline hold the same orders, in
\* arrival order, and total_volume, kept by addition and subtraction modulo
\* the word, is the sum of its list (baseline_book.cpp:6-86).
THEOREM BaselineBookCorrect == Spec => []BookOK
<1>1. ASSUME ListInv PROVE BookOK
  <2>1. ListTypes /\ ListsOK /\ IndexedOK
    BY <1>1 DEF ListInv
  <2>2. ASSUME NEW side \in Side, NEW p \in DOMAIN levels[side]
        PROVE  /\ levels[side][p].orders # <<>>
               /\ levels[side][p].total_volume =
                     SumFunction(Quantities(levels[side][p].orders)) % WordMod
               /\ DOMAIN levels[side][p].orders = 1..Len(levels[side][p].orders)
               /\ \A k \in DOMAIN levels[side][p].orders :
                    /\ levels[side][p].orders[k].id \in DOMAIN index
                    /\ index[levels[side][p].orders[k].id] = [side |-> side, price |-> p]
                    /\ levels[side][p].orders[k].quantity \in 1..MaxQty
                    /\ \A l \in DOMAIN levels[side][p].orders :
                          k < l => levels[side][p].orders[k].id < levels[side][p].orders[l].id
    <3>1. PICK lvl, ix : lvl = levels[side][p] /\ ix = index
      OBVIOUS
    <3>2. LevelOK(lvl, side, p, ix)
      BY <2>1, <3>1 DEF ListsOK
    <3>3. /\ DOMAIN lvl.orders = 1..Len(lvl.orders)
          /\ \A k \in 1..Len(lvl.orders) : lvl.orders[k].quantity \in 1..MaxQty
      BY <3>2, LevelFacts
    <3> QED
      BY <3>1, <3>2, <3>3 DEF LevelOK
  <2>3. ASSUME NEW i
        PROVE  i \in DOMAIN index <=>
                  \E side \in Side : \E p \in DOMAIN levels[side] :
                     \E n \in NodesOf(side, p) : i = n.id
    <3>1. ASSUME i \in DOMAIN index
          PROVE  \E side \in Side : \E p \in DOMAIN levels[side] :
                    \E n \in NodesOf(side, p) : i = n.id
      <4>1. index[i].side \in Side /\ index[i].price \in DOMAIN levels[index[i].side]
            /\ Listed(levels[index[i].side][index[i].price], i)
        BY <2>1, <3>1 DEF ListTypes, IndexEntry, IndexedOK
      <4> QED
        BY <4>1 DEF Listed, NodesOf, Range
    <3>2. ASSUME NEW side \in Side, NEW p \in DOMAIN levels[side],
                 NEW n \in NodesOf(side, p), i = n.id
          PROVE  i \in DOMAIN index
      <4>1. PICK k \in DOMAIN levels[side][p].orders : n = levels[side][p].orders[k]
        BY DEF NodesOf, Range
      <4> QED
        BY <2>2, <3>2, <4>1
    <3> QED
      BY <3>1, <3>2
  <2>4. DOMAIN index = UNION {UNION {{n.id : n \in NodesOf(side, p)} :
                                     p \in DOMAIN levels[side]} : side \in Side}
    <3> DEFINE At(side) == UNION {{n.id : n \in NodesOf(side, p)} : p \in DOMAIN levels[side]}
               All == UNION {At(side) : side \in Side}
    <3>1. ASSUME NEW i, NEW side
          PROVE  i \in At(side) <=>
                    \E p \in DOMAIN levels[side] : \E n \in NodesOf(side, p) : i = n.id
      OBVIOUS
    <3> HIDE DEF At
    <3>2. ASSUME NEW i
          PROVE  i \in All <=> \E side \in Side : i \in At(side)
      OBVIOUS
    <3> HIDE DEF All
    <3>3. \A i : i \in DOMAIN index <=> i \in All
      BY <2>3, <3>1, <3>2
    <3>4. DOMAIN index = All
      BY <3>3
    <3> QED
      BY <3>4 DEF All, At
  <2>5. ASSUME NEW side \in Side, NEW p \in DOMAIN levels[side]
        PROVE  LET orders == levels[side][p].orders
               IN  /\ orders # <<>>
                   /\ \A k \in DOMAIN orders :
                         /\ index[orders[k].id] = [side |-> side, price |-> p]
                         /\ orders[k].quantity \in 1..MaxQty
                         /\ \A l \in DOMAIN orders : k < l => orders[k].id < orders[l].id
                   /\ levels[side][p].total_volume =
                         SumFunction([k \in DOMAIN orders |-> orders[k].quantity]) % WordMod
    BY <2>2 DEF Quantities
  <2> QED
    BY <2>4, <2>5 DEF BookOK
<1> QED
  BY <1>1, ListInvariant, PTL

\* What the levels show is what rests: a level for each price at which an order
\* rests, and as its volume the sum of those orders.
LEMMA ListVolume ==
    ASSUME ListInv, NEW side \in Side
    PROVE  /\ DOMAIN levels[side] = PricesOf(RestingOrders, side)
           /\ \A p \in DOMAIN levels[side] :
                 levels[side][p].total_volume = RestingSum(RestingOrders, side, p) % WordMod
<1>1. DOMAIN RestingOrders = DOMAIN index
  BY DEF RestingOrders
<1>2. ASSUME NEW p \in DOMAIN levels[side]
      PROVE  /\ p \in PricesOf(RestingOrders, side)
             /\ levels[side][p].total_volume = RestingSum(RestingOrders, side, p) % WordMod
  <2>1. PICK lvl, ix : lvl = levels[side][p] /\ ix = index
    OBVIOUS
  <2>2. LevelOK(lvl, side, p, ix)
    BY <2>1 DEF ListInv, ListsOK
  <2> DEFINE f == Quantities(lvl.orders)
             b == [k \in DOMAIN lvl.orders |-> lvl.orders[k].id]
             g == [i \in DOMAIN index |-> RestingOrders[i].quantity]
             S == DOMAIN lvl.orders
  <2>3. /\ S = 1..Len(lvl.orders) /\ Len(lvl.orders) \in Nat \ {0}
        /\ \A k \in S : lvl.orders[k].id \in Int /\ lvl.orders[k].quantity \in Int
        /\ IsFiniteSet(S)
    <3>1. /\ S = 1..Len(lvl.orders) /\ Len(lvl.orders) \in Nat \ {0}
          /\ \A k \in 1..Len(lvl.orders) : lvl.orders[k].id \in Int /\ lvl.orders[k].quantity \in Int
      BY <2>2, LevelFacts
    <3>2. IsFiniteSet(1..Len(lvl.orders))
      BY <3>1, FS_Interval
    <3> HIDE DEF S
    <3> QED
      BY <3>1, <3>2
  <2>4. ASSUME NEW k \in S
        PROVE  /\ b[k] \in DOMAIN index /\ index[b[k]] = [side |-> side, price |-> p]
               /\ f[k] \in Int /\ g[b[k]] = f[k]
    <3>1. b[k] \in DOMAIN index /\ index[b[k]] = [side |-> side, price |-> p]
      BY <2>1, <2>2 DEF LevelOK
    <3>2. NodeQty(lvl, b[k]) = lvl.orders[k].quantity
      <4>1. b[k] = lvl.orders[k].id /\ k \in 1..Len(lvl.orders)
        BY <2>3
      <4>2. NodeQty(lvl, lvl.orders[k].id) = lvl.orders[k].quantity
        BY <2>2, <4>1, NodeAt
      <4> QED
        BY <4>1, <4>2
    <3>3. g[b[k]] = NodeQty(lvl, b[k])
      <4>1. PICK i : i = b[k]
        OBVIOUS
      <4>2. i \in DOMAIN index /\ index[i].side = side /\ index[i].price = p
        <5>1. i \in DOMAIN index /\ index[i] = [side |-> side, price |-> p]
          BY <3>1, <4>1
        <5> QED
          BY <5>1
      <4>3. RestingOrders[i].quantity = NodeQty(lvl, i)
        BY <2>1, <4>2 DEF RestingOrders
      <4>4. g[i] = RestingOrders[i].quantity
        BY <4>2
      <4> QED
        BY <4>1, <4>3, <4>4
    <3> QED
      BY <2>3, <3>1, <3>2, <3>3 DEF Quantities
  <2>5. \A k, l \in S : b[k] = b[l] => k = l
    BY <2>2, <2>3 DEF LevelOK
  <2>6. {b[k] : k \in S} = AtPrice(RestingOrders, side, p)
    <3>1. ASSUME NEW i \in AtPrice(RestingOrders, side, p)
          PROVE  \E k \in S : b[k] = i
      <4>1. i \in DOMAIN index /\ index[i].side = side /\ index[i].price = p
        BY <1>1 DEF AtPrice, RestingOrders
      <4>2. Listed(lvl, i)
        BY <2>1, <4>1 DEF ListInv, IndexedOK
      <4> QED
        BY <4>2 DEF Listed
    <3>2. ASSUME NEW k \in S
          PROVE  b[k] \in AtPrice(RestingOrders, side, p)
      <4>1. PICK i : i = b[k]
        OBVIOUS
      <4>2. i \in DOMAIN index /\ index[i].side = side /\ index[i].price = p
        <5>1. i \in DOMAIN index /\ index[i] = [side |-> side, price |-> p]
          BY <2>4, <3>2, <4>1
        <5> QED
          BY <5>1
      <4>3. RestingOrders[i].side = side /\ RestingOrders[i].price = p
        BY <4>2 DEF RestingOrders
      <4> QED
        BY <1>1, <4>1, <4>2, <4>3 DEF AtPrice
    <3> HIDE DEF b, S
    <3> QED
      BY <3>1, <3>2
  <2>7. p \in PricesOf(RestingOrders, side)
    <3>1. 1 \in S
      BY <2>3
    <3>2. b[1] \in AtPrice(RestingOrders, side, p)
      BY <2>6, <3>1
    <3> QED
      BY <3>2 DEF PricesOf, AtPrice
  <2> HIDE DEF f, b, g, S
  <2>8. SumFunctionOnSet(g, {b[k] : k \in S}) = SumFunctionOnSet(f, S)
    <3>1. /\ IsFiniteSet(S) /\ \A k, l \in S : b[k] = b[l] => k = l
          /\ \A k \in S : f[k] \in Int /\ g[b[k]] = f[k]
      BY <2>3, <2>4, <2>5
    <3> QED
      BY ONLY <3>1, SumImage
  <2>9. lvl.total_volume = SumFunctionOnSet(f, S) % WordMod
    BY <2>2 DEF LevelOK, SumFunction, f, S, Quantities
  <2>10. RestingSum(RestingOrders, side, p) = SumFunctionOnSet(g, AtPrice(RestingOrders, side, p))
    BY <1>1 DEF RestingSum, g
  <2> QED
    BY <2>1, <2>6, <2>7, <2>8, <2>9, <2>10
<1>3. ASSUME NEW p \in PricesOf(RestingOrders, side)
      PROVE  p \in DOMAIN levels[side]
  BY <1>1, <1>3 DEF PricesOf, RestingOrders, ListInv, IndexedOK
<1> QED
  BY <1>2, <1>3

-----------------------------------------------------------------------------
(* The list engine is a limit order book.                                   *)

\* The operators that both engines share are those of the abstract book.
LEMMA ListBookOperators ==
    /\ \A side : Book!Opposite(side) = Opposite(side)
    /\ \A side, p, q : Book!Ahead(side, p, q) <=> Ahead(side, p, q)
    /\ \A a, b : Book!Lesser(a, b) = Lesser(a, b)
    /\ \A m, k : Book!Without(m, k) = Without(m, k)
    /\ \A m, k, v : Book!With(m, k, v) = With(m, k, v)
    /\ Book!IdleCall = IdleCall
    /\ Book!Matching <=> Matching
    /\ \A S : Book!Cardinality(S) = Cardinality(S)
<1>1. \A S : Book!Cardinality(S) = Cardinality(S)
  BY DEF Book!Cardinality, Cardinality
<1> QED
  BY <1>1 DEF Book!Opposite, Opposite, Book!Ahead, Ahead,
     Book!Lesser, Lesser, Book!Without, Without, Book!Restrict, Restrict,
     Book!With, With, Book!IdleCall, IdleCall, Book!Matching, Matching

\* do_match takes a price of 0 for a market order.  That makes no difference
\* when the price is a market order's, or the limit of a seller, who sells at 0
\* to anyone.
Priced ==
    Matching => /\ call.is_market => call.price = 0
                /\ call.price = 0 => call.is_market \/ call.side = "Sell"

\* do_match's test of the price is the book's test of the flag.
LEMMA CrossesAgree ==
    ASSUME Priced, ListInv, Matching, NEW p \in Prices
    PROVE  Book!Crosses(p) <=> Crosses(p)
<1>1. /\ call.is_market => call.price = 0
      /\ call.price = 0 => call.is_market \/ Opposite(call.side) = "Buy"
  BY DEF Priced, Opposite
<1>2. p >= 0
  BY OrderAssumption DEF Prices
<1>3. call.price = 0 /\ Opposite(call.side) = "Buy" => Ahead(Opposite(call.side), p, call.price)
  BY <1>2 DEF Ahead
<1> QED
  BY <1>1, <1>3, ListBookOperators DEF Book!Crosses, Crosses

\* What rests under an id of the side table.
LEMMA ListedResting ==
    ASSUME ListInv, NEW i \in DOMAIN index
    PROVE  /\ i \in Nat
           /\ RestingOrders[i].side = index[i].side
           /\ RestingOrders[i].price = index[i].price
           /\ index[i].side \in Side
           /\ index[i].price \in DOMAIN levels[index[i].side]
           /\ index[i].price \in Prices
<1>1. DOMAIN index \subseteq 1..(next_id - 1) /\ next_id \in 1..(MaxId + 1)
  BY DEF ListInv, ListTypes
<1>2. i \in Nat
  BY <1>1, OrderAssumption
<1>3. index[i].side \in Side /\ index[i].price \in DOMAIN levels[index[i].side]
      /\ index[i].price \in Prices
  BY DEF ListInv, ListTypes, IndexEntry, IndexedOK
<1> QED
  BY <1>2, <1>3 DEF RestingOrders

\* The front of the best level is the order that price-time priority names.
LEMMA FrontIsMaker ==
    ASSUME Priced, ListInv, Matching, NEW side, side = Opposite(call.side),
           NEW p \in Prices, IsBegin(side, p), Crosses(p),
           NEW lvl, lvl = levels[side][p], NEW i, i = lvl.orders[1].id
    PROVE  i \in DOMAIN index /\ Book!IsMaker(i)
<1>1. call.side \in Side /\ side \in Side /\ p \in DOMAIN levels[side]
  BY DEF ListInv, ListTypes, Call, Side, Opposite, IsBegin
<1>2. PICK ix : ix = index
  OBVIOUS
<1>3. LevelOK(lvl, side, p, ix)
  BY <1>1, <1>2 DEF ListInv, ListsOK
<1>4. /\ Len(lvl.orders) \in Nat \ {0} /\ DOMAIN lvl.orders = 1..Len(lvl.orders)
      /\ \A k \in 1..Len(lvl.orders) : lvl.orders[k].id \in Int
  BY <1>3, LevelFacts
<1>5. i \in DOMAIN index /\ index[i].side = side /\ index[i].price = p /\ i \in Int
  <2>1. 1 \in DOMAIN lvl.orders
    BY <1>4
  <2>2. i \in DOMAIN index /\ index[i] = [side |-> side, price |-> p]
    BY <1>2, <1>3, <2>1 DEF LevelOK
  <2> QED
    BY <1>4, <2>1, <2>2
<1>6. RestingOrders[i].side = side /\ RestingOrders[i].price = p
  BY <1>5, ListedResting
<1>7. ASSUME NEW j \in DOMAIN index \ {i}, RestingOrders[j].side = side
      PROVE  Book!Before(i, j)
  <2> DEFINE q == RestingOrders[j].price
  <2>1. /\ index[j].side = side /\ index[j].price = q
        /\ q \in DOMAIN levels[side] /\ q \in Prices
    BY <1>7, ListedResting
  <2>2. Ahead(side, p, q)
    BY <2>1 DEF IsBegin
  <2>3. p = q => i < j
    <3>1. SUFFICES ASSUME p = q PROVE i < j
      OBVIOUS
    <3>2. Listed(lvl, j)
      BY <2>1, <3>1 DEF ListInv, IndexedOK
    <3>3. PICK k \in 1..Len(lvl.orders) : lvl.orders[k].id = j
      BY <1>4, <3>2 DEF Listed
    <3>4. k # 1 /\ 1 < k
      BY <1>4, <1>7, <3>3
    <3>5. 1 \in DOMAIN lvl.orders /\ k \in DOMAIN lvl.orders
      BY <1>4, <3>3
    <3>6. lvl.orders[1].id < lvl.orders[k].id
      BY <1>3, <3>4, <3>5 DEF LevelOK
    <3> QED
      BY <1>2, <3>3, <3>6
  <2> QED
    BY <1>6, <2>2, <2>3, ListBookOperators DEF Book!Before
<1>8. DOMAIN RestingOrders = DOMAIN index
  BY DEF RestingOrders
<1>9. Book!Crosses(p)
  BY CrossesAgree
<1>10. Book!IsMaker(i)
  BY <1>6, <1>7, <1>8, <1>9, ListBookOperators DEF Book!IsMaker
<1> QED
  BY <1>5, <1>10

\* do_match ends only when the book offers nobody to trade with.
LEMMA ListMatchOver ==
    ASSUME Priced, ListInv, MatchOver
    PROVE  Book!MatchOver
<1> DEFINE opp == Opposite(call.side)
<1>1. call.side \in Side /\ opp \in Side /\ Matching /\ Book!Matching
  BY ListBookOperators DEF ListInv, ListTypes, Call, Side, Opposite, MatchOver
<1>2. CASE call.qty = 0
  BY <1>1, <1>2 DEF Book!MatchOver
<1>3. CASE \A p \in DOMAIN levels[opp] : IsBegin(opp, p) => ~Crosses(p)
  <2>1. SUFFICES ASSUME NEW i \in DOMAIN index, Book!IsMaker(i) PROVE FALSE
    BY <1>1 DEF Book!MatchOver, RestingOrders
  <2> DEFINE p == RestingOrders[i].price
  <2>2. RestingOrders[i].side = opp /\ Book!Crosses(p)
    BY <2>1, ListBookOperators DEF Book!IsMaker
  <2>3. p \in DOMAIN levels[opp] /\ p \in Prices
    BY <2>2, ListedResting
  <2>4. ASSUME NEW q \in DOMAIN levels[opp] PROVE Ahead(opp, p, q)
    <3>1. PICK lvl : lvl = levels[opp][q]
      OBVIOUS
    <3>2. PICK ix : ix = index
      OBVIOUS
    <3>3. LevelOK(lvl, opp, q, ix)
      BY <1>1, <3>1, <3>2 DEF ListInv, ListsOK
    <3>4. 1 \in DOMAIN lvl.orders
      BY <3>3, LevelFacts
    <3>5. PICK j \in DOMAIN index : index[j].side = opp /\ index[j].price = q
      <4>1. lvl.orders[1].id \in DOMAIN index
            /\ index[lvl.orders[1].id] = [side |-> opp, price |-> q]
        BY <3>2, <3>3, <3>4 DEF LevelOK
      <4> QED
        BY <4>1
    <3>6. RestingOrders[j].side = opp /\ RestingOrders[j].price = q
      BY <3>5, ListedResting
    <3>7. p \in Int /\ q \in Int
      BY <1>1, <2>3, OrderAssumption DEF ListInv, ListTypes, Prices
    <3>8. CASE j = i
      BY <3>6, <3>7, <3>8 DEF Ahead
    <3>9. CASE j # i
      <4>1. DOMAIN RestingOrders = DOMAIN index
        BY DEF RestingOrders
      <4>2. Book!Before(i, j)
        BY <2>1, <2>2, <3>6, <3>9, <4>1 DEF Book!IsMaker
      <4> QED
        BY <2>2, <3>6, <3>7, <4>2, ListBookOperators DEF Book!Before, Ahead
    <3> QED
      BY <3>8, <3>9
  <2>5. IsBegin(opp, p)
    BY <2>3, <2>4 DEF IsBegin
  <2>6. Crosses(p)
    BY <1>1, <2>2, <2>3, CrossesAgree
  <2> QED
    BY <1>3, <2>3, <2>5, <2>6
<1> QED
  BY <1>2, <1>3 DEF MatchOver

\* Every iteration of do_match is a trade of the book.
LEMMA ConsumeRefines ==
    ASSUME Priced, ListInv, NEW p \in Prices, consume_best(p)
    PROVE  \E i \in DOMAIN RestingOrders : Book!Trade(i)
<1>1. PICK side, lvl : side = Opposite(call.side) /\ lvl = levels[side][p]
  OBVIOUS
<1>2. PICK i, actual : i = lvl.orders[1].id /\ actual = Lesser(call.qty, lvl.orders[1].quantity)
  OBVIOUS
<1>3. Matching /\ call.qty > 0 /\ IsBegin(side, p) /\ Crosses(p) /\ next_id' = next_id
  BY <1>1 DEF consume_best
<1>4. i \in DOMAIN index /\ Book!IsMaker(i)
  BY <1>1, <1>2, <1>3, FrontIsMaker
<1>c. Consuming(side, p, lvl, actual)
  BY <1>1, <1>2, ConsumeFacts
<1>5. Head(lvl.orders) = lvl.orders[1]
  BY <1>c DEF Consuming
<1>a. Taken(lvl, i, actual)
  BY <1>1, <1>2, ConsumeListKeeps
<1>6. RestingOrders[i].quantity = lvl.orders[1].quantity
  BY <1>a DEF Taken
<1>7. IF actual = lvl.orders[1].quantity
      THEN RestingOrders' = Without(RestingOrders, i)
      ELSE RestingOrders' = Reduced(i, actual)
  BY <1>a DEF Taken
<1>8. RestingOrders[i].price = p
  <2>1. RestingOrders[i].price = index[i].price
    BY <1>4, ListedResting
  <2>2. index[lvl.orders[1].id] = Entry(side, p)
    BY <1>c DEF Consuming
  <2> QED
    BY <1>2, <2>1, <2>2 DEF Entry
<1>9. actual = Lesser(call.qty, RestingOrders[i].quantity)
  BY <1>2, <1>6
<1>10. /\ out' = Append(out, [maker_id |-> i, taker_id |-> call.id,
                              price |-> RestingOrders[i].price, quantity |-> actual])
       /\ call' = [call EXCEPT !.qty = @ - actual]
  BY <1>1, <1>2, <1>5, <1>8 DEF consume_best
<1>11. RestingOrders' = IF actual = RestingOrders[i].quantity
                        THEN Without(RestingOrders, i)
                        ELSE [RestingOrders EXCEPT ![i].quantity = @ - actual]
  BY <1>6, <1>7 DEF Reduced
<1>12. Book!Trade(i)
  BY <1>3, <1>4, <1>9, <1>10, <1>11, ListBookOperators DEF Book!Trade
<1>13. DOMAIN RestingOrders = DOMAIN index
  BY DEF RestingOrders
<1> QED
  BY <1>4, <1>12, <1>13

LEMMA SameListBook == ASSUME UNCHANGED <<levels, index>> PROVE RestingOrders' = RestingOrders
BY DEF RestingOrders

\* Without a pool there is a place for every remainder.
LEMMA AddRefines == ASSUME Priced, ListInv, add_order PROVE Book!Rest
<1>1. /\ MatchOver /\ ~call.is_market /\ call.qty > 0 /\ call' = IdleCall
      /\ UNCHANGED <<next_id, out>>
  BY DEF add_order, HasRemainder
<1>2. RestingOrders' = With(RestingOrders, call.id, Book!Remainder)
  BY AddFacts DEF Book!Remainder
<1>3. Cardinality(DOMAIN RestingOrders) < MaxId
  <2>1. /\ call.id \in Ids /\ call.id = next_id - 1 /\ call.id \notin DOMAIN index
        /\ next_id \in Int /\ DOMAIN index \subseteq 1..(next_id - 1)
    BY <1>1, OrderAssumption DEF ListInv, ListTypes, MatchOver
  <2>2. DOMAIN index \subseteq Ids \ {call.id}
    BY <2>1, OrderAssumption DEF Ids
  <2>3. IsFiniteSet(Ids) /\ Cardinality(Ids) = MaxId
    <3>1. /\ IsFiniteSet(1..MaxId)
          /\ Cardinality(1..MaxId) = IF 1 > MaxId THEN 0 ELSE MaxId - 1 + 1
      BY OrderAssumption, FS_Interval
    <3> QED
      BY <3>1, OrderAssumption DEF Ids
  <2>4. IsFiniteSet(Ids \ {call.id}) /\ Cardinality(Ids \ {call.id}) = MaxId - 1
    BY <2>1, <2>3, FS_RemoveElement
  <2>5. Cardinality(DOMAIN index) <= MaxId - 1 /\ Cardinality(DOMAIN index) \in Nat
    BY <2>2, <2>4, FS_Subset, FS_CardinalityType
  <2>6. DOMAIN RestingOrders = DOMAIN index
    BY DEF RestingOrders
  <2> QED
    BY <2>5, <2>6, OrderAssumption
<1> QED
  BY <1>1, <1>2, <1>3, ListMatchOver, ListBookOperators DEF Book!Rest

\* A submission ends where the abstract one may end.
LEMMA ListReturnRefines == ASSUME Priced, ListInv, Return PROVE Book!Return
<1>1. RestingOrders' = RestingOrders
  BY SameListBook DEF Return
<1>2. call.is_market \/ call.qty = 0
  BY OrderAssumption DEF Return, HasRemainder, ListInv, ListTypes, Call, Qtys
<1> QED
  BY <1>1, <1>2, ListMatchOver, ListBookOperators DEF Return, Book!Return

LEMMA ListCancelRefines ==
    ASSUME ListInv, NEW id, cancel(id) \/ cancel_miss(id)
    PROVE  Book!cancel(id)
<1>1. CASE cancel(id)
  <2>1. RestingOrders' = Without(RestingOrders, id)
    BY <1>1, CancelFacts
  <2> QED
    BY <1>1, <2>1, ListBookOperators DEF cancel, Book!cancel
<1>2. CASE cancel_miss(id)
  <2>1. RestingOrders' = RestingOrders
    BY <1>2, SameListBook DEF cancel_miss, vars
  <2>2. Without(RestingOrders, id) = RestingOrders
    BY <1>2 DEF cancel_miss, RestingOrders, Without, Restrict
  <2> QED
    BY <1>2, <2>1, <2>2, ListBookOperators DEF cancel_miss, vars, Book!cancel
<1> QED
  BY <1>1, <1>2

LEMMA ListInitRefines == Init => Book!Init
<1> SUFFICES ASSUME Init PROVE Book!Init
  OBVIOUS
<1>1. DOMAIN index = {}
  BY DEF Init, Empty
<1>2. RestingOrders = Book!Empty
  BY <1>1 DEF RestingOrders, Book!Empty
<1> QED
  BY <1>2, ListBookOperators DEF Init, Book!Init

LEMMA ListNextRefines ==
    Priced /\ ListInv /\ [Next]_vars => [Book!Next]_(Book!vars)
<1> SUFFICES ASSUME Priced, ListInv, [Next]_vars PROVE [Book!Next]_(Book!vars)
  OBVIOUS
<1>1. Side = Book!Side /\ Prices = Book!Prices /\ Qtys = Book!Qtys
      /\ MinPrice..MaxPrice \subseteq Prices
  BY BaselineAssumption, OrderAssumption
     DEF Side, Book!Side, Prices, Book!Prices, Qtys, Book!Qtys
<1>2. ASSUME NEW side, NEW price, NEW is_market, NEW qty, Begin(side, price, is_market, qty)
      PROVE  Book!Begin(side, price, is_market, qty)
  <2>1. RestingOrders' = RestingOrders
    BY <1>2, SameListBook DEF Begin
  <2> QED
    BY <1>2, <2>1 DEF Begin, Book!Begin
<1>3. ASSUME NEW side \in Side, NEW price \in MinPrice..MaxPrice, NEW qty \in Qtys,
             submit_limit(side, price, qty)
      PROVE  Book!Next
  BY <1>1, <1>2, <1>3 DEF submit_limit, Book!submit_limit, Book!Next
<1>4. ASSUME NEW side \in Side, NEW qty \in Qtys, submit_market(side, qty)
      PROVE  Book!Next
  BY <1>1, <1>2, <1>4 DEF submit_market, Book!submit_market, Book!Next
<1>5. ASSUME NEW p \in Prices, consume_best(p) PROVE Book!Next
  BY <1>5, ConsumeRefines DEF Book!Next
<1>6. ASSUME add_order \/ Return PROVE Book!Next
  BY <1>6, AddRefines, ListReturnRefines DEF Book!Next
<1>7. ASSUME NEW id \in 0..MaxId, cancel(id) \/ cancel_miss(id) PROVE Book!Next
  BY <1>7, ListCancelRefines DEF Book!Next
<1>8. ASSUME UNCHANGED vars PROVE UNCHANGED Book!vars
  BY <1>8, SameListBook DEF vars, Book!vars
<1> QED
  BY <1>3, <1>4, <1>5, <1>6, <1>7, <1>8 DEF Next

\* Submitted at prices above 0 only, limit orders make the list engine the same
\* limit order book that the optimized engine is shown to be, so the benchmark
\* compares like with like (baseline_book.hpp, "Provides the same public
\* interface as MatchingEngine for fair comparison").  A limit order at price 0
\* would be matched as a market order: the hypothesis is needed.
THEOREM BaselineImplementsBook == ASSUME MinPrice > 0 PROVE Spec => Book!Spec
<1>1. Init => Book!Init
  BY ListInitRefines
<1>2. ListInv => Priced
  BY DEF ListInv, ListTypes, Priced
<1>3. Priced /\ ListInv /\ [Next]_vars => [Book!Next]_(Book!vars)
  BY ListNextRefines
<1> QED
  BY <1>1, <1>2, <1>3, ListInvariant, PTL DEF Spec, Book!Spec

===============================================================================
