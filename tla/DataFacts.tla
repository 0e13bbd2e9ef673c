------------------------------- MODULE DataFacts -------------------------------
(***************************************************************************)
(* What the proofs need about data that is of no particular program:       *)
(* least elements, sequences whose entries are of no particular set, sums  *)
(* of a function over a finite set, and arithmetic modulo a word.          *)
(*                                                                         *)
(* A sum of the community modules is a recursive function, so TLAPS knows  *)
(* nothing of it until a function that satisfies the recursion is shown to *)
(* exist.  Induction is by a least counterexample: the one that            *)
(* NaturalsInduction and WellFoundedInduction state of an operator cannot  *)
(* be instantiated.                                                        *)
(***************************************************************************)
EXTENDS Integers, Sequences, FiniteSets, Functions, SequenceTheorems,
        FiniteSetTheorems, WellFoundedInduction, NaturalsInduction, TLAPS

-----------------------------------------------------------------------------
(* Least elements and finite sets.                                          *)

\* A nonempty set of naturals has a least element.
LEMMA LeastNatural ==
    ASSUME NEW T, T \subseteq Nat, T # {}
    PROVE  \E x \in T : \A y \in T : x <= y
<1> DEFINE R == {ss \in Nat \X Nat : ss[1] < ss[2]}
<1>1. IsWellFoundedOn(R, Nat)
  BY NatLessThanWellFounded DEF OpToRel
<1> HIDE DEF R
<1>2. PICK x \in T : \A y \in T : ~(<<y, x>> \in R)
  BY <1>1, WFMin
<1>3. \A y \in T : ~(y < x)
  BY <1>2 DEF R
<1> QED
  BY <1>3

\* The subsets of a finite set, by size.
LEMMA SubsetFacts ==
    ASSUME NEW S, IsFiniteSet(S)
    PROVE  /\ Cardinality(S) \in Nat
           /\ \A s \in SUBSET S :
                 /\ IsFiniteSet(s)
                 /\ Cardinality(s) \in Nat
                 /\ Cardinality(s) <= Cardinality(S)
                 /\ s = {} <=> Cardinality(s) = 0
                 /\ \A x \in s : Cardinality(s \ {x}) = Cardinality(s) - 1
<1> SUFFICES ASSUME NEW s \in SUBSET S
             PROVE  /\ IsFiniteSet(s)
                    /\ Cardinality(s) \in Nat
                    /\ Cardinality(s) <= Cardinality(S)
                    /\ s = {} <=> Cardinality(s) = 0
                    /\ \A x \in s : Cardinality(s \ {x}) = Cardinality(s) - 1
  BY FS_CardinalityType
<1>1. IsFiniteSet(s) /\ Cardinality(s) <= Cardinality(S)
  BY FS_Subset
<1>2. Cardinality(s) \in Nat /\ (s = {} <=> Cardinality(s) = 0)
  BY <1>1, FS_CardinalityType, FS_EmptySet
<1>3. \A x \in s : Cardinality(s \ {x}) = Cardinality(s) - 1
  BY <1>1, FS_RemoveElement
<1> QED
  BY <1>1, <1>2, <1>3

\* Among some subsets of a finite set, one is least: less by any element it is
\* not one of them.
LEMMA MinimalSubset ==
    ASSUME NEW S, IsFiniteSet(S), NEW B, B \subseteq SUBSET S, B # {}
    PROVE  \E s \in B : \A x \in s : s \ {x} \notin B
<1> DEFINE Sizes == {Cardinality(s) : s \in B}
<1>1. Sizes \subseteq Nat /\ Sizes # {}
  BY SubsetFacts
<1>2. PICK n \in Sizes : \A k \in Sizes : n <= k
  BY <1>1, LeastNatural
<1>3. PICK s \in B : n = Cardinality(s)
  BY <1>2
<1>4. \A t \in B : n <= Cardinality(t)
  BY <1>2
<1>5. \A x \in s : Cardinality(s \ {x}) = n - 1 /\ n \in Nat
  BY <1>3, SubsetFacts
<1> HIDE DEF Sizes
<1>6. \A x \in s : s \ {x} \notin B
  BY <1>4, <1>5
<1> QED
  BY <1>6

-----------------------------------------------------------------------------
(* Sequences.                                                                *)

\* A sequence, whatever its entries are.
IsSeq(s) == s \in Seq({s[k] : k \in DOMAIN s})

\* Sequences of any elements are functions on 1..Len.
LEMMA SeqFacts ==
    ASSUME NEW s, IsSeq(s)
    PROVE  Len(s) \in Nat /\ DOMAIN s = 1..Len(s)
BY LenProperties DEF IsSeq

\* A function on 1..n is a sequence.
LEMMA FunctionIsSeq ==
    ASSUME NEW n \in Nat, NEW f, f = [k \in 1..n |-> f[k]]
    PROVE  IsSeq(f)
<1>1. f \in [1..n -> {f[k] : k \in DOMAIN f}]
  OBVIOUS
<1> QED
  BY <1>1, SeqDef DEF IsSeq

\* A sequence after an append.
LEMMA AppendFacts ==
    ASSUME NEW s, IsSeq(s), NEW e
    PROVE  /\ IsSeq(Append(s, e))
           /\ DOMAIN Append(s, e) = DOMAIN s \cup {Len(s) + 1}
           /\ \A k \in DOMAIN s : Append(s, e)[k] = s[k]
           /\ Append(s, e)[Len(s) + 1] = e
<1> DEFINE t == Append(s, e)
<1> DEFINE S == {s[k] : k \in DOMAIN s} \cup {e}
<1>1. s \in Seq(S) /\ e \in S
  BY SeqMonotonic DEF IsSeq
<1> HIDE DEF S
<1>2. /\ t \in Seq(S)
      /\ Len(t) = Len(s) + 1
      /\ \A k \in 1..Len(s) : t[k] = s[k]
      /\ t[Len(s) + 1] = e
  BY <1>1
<1> HIDE DEF t
<1>3. Len(s) \in Nat /\ DOMAIN s = 1..Len(s)
  BY SeqFacts
<1>4. DOMAIN t = 1..Len(t) /\ t = [k \in 1..Len(t) |-> t[k]] /\ Len(t) \in Nat
  BY <1>2, LenProperties
<1>5. IsSeq(t)
  BY <1>4, FunctionIsSeq
<1>6. DOMAIN t = DOMAIN s \cup {Len(s) + 1}
  BY <1>2, <1>3, <1>4
<1> QED
  BY <1>2, <1>3, <1>5, <1>6 DEF t

LEMMA ConcatFacts ==
    ASSUME NEW s, NEW r, IsSeq(s), IsSeq(r), NEW t, t = s \o r
    PROVE  /\ IsSeq(t)
           /\ \A k \in DOMAIN s : k \in DOMAIN t /\ t[k] = s[k]
           /\ \A k \in DOMAIN t \ DOMAIN s :
                 k - Len(s) \in DOMAIN r /\ t[k] = r[k - Len(s)]
<1> DEFINE S == {s[k] : k \in DOMAIN s} \cup {r[k] : k \in DOMAIN r}
<1>1. s \in Seq(S) /\ r \in Seq(S)
  BY SeqMonotonic DEF IsSeq
<1> HIDE DEF S
<1>2. /\ t \in Seq(S)
      /\ Len(t) = Len(s) + Len(r)
      /\ \A k \in 1..(Len(s) + Len(r)) :
            t[k] = IF k <= Len(s) THEN s[k] ELSE r[k - Len(s)]
  BY <1>1, ConcatProperties
<1>3. /\ Len(s) \in Nat /\ DOMAIN s = 1..Len(s)
      /\ Len(r) \in Nat /\ DOMAIN r = 1..Len(r)
  BY SeqFacts
<1>4. DOMAIN t = 1..Len(t) /\ t = [k \in 1..Len(t) |-> t[k]] /\ Len(t) \in Nat
  BY <1>2, LenProperties
<1>5. IsSeq(t)
  BY <1>4, FunctionIsSeq
<1>6. ASSUME NEW k \in DOMAIN s PROVE k \in DOMAIN t /\ t[k] = s[k]
  BY <1>2, <1>3, <1>4
<1>7. ASSUME NEW k \in DOMAIN t \ DOMAIN s
      PROVE  k - Len(s) \in DOMAIN r /\ t[k] = r[k - Len(s)]
  BY <1>2, <1>3, <1>4
<1> QED
  BY <1>5, <1>6, <1>7

\* The second part of a concatenation follows the first.
LEMMA ConcatTail ==
    ASSUME NEW s, NEW r, IsSeq(s), IsSeq(r), NEW t, t = s \o r
    PROVE  \A j \in DOMAIN r :
              Len(s) + j \in DOMAIN t \ DOMAIN s /\ t[Len(s) + j] = r[j]
<1> DEFINE S == {s[k] : k \in DOMAIN s} \cup {r[k] : k \in DOMAIN r}
<1>1. s \in Seq(S) /\ r \in Seq(S)
  BY SeqMonotonic DEF IsSeq
<1>2. /\ Len(s) \in Nat /\ DOMAIN s = 1..Len(s)
      /\ Len(r) \in Nat /\ DOMAIN r = 1..Len(r)
  BY SeqFacts
<1>3. /\ Len(s \o r) = Len(s) + Len(r)
      /\ \A k \in 1..(Len(s) + Len(r)) :
            (s \o r)[k] = IF k <= Len(s) THEN s[k] ELSE r[k - Len(s)]
  BY <1>1, ConcatProperties
<1>4. IsSeq(t)
  BY ConcatFacts
<1> HIDE DEF S
<1>5. DOMAIN t = 1..(Len(s) + Len(r))
  BY <1>3, <1>4, SeqFacts
<1> QED
  BY <1>2, <1>3, <1>5

\* A nonempty set of positions has a greatest one.
LEMMA GreatestPosition ==
    ASSUME NEW n \in Nat, NEW T, T \subseteq 1..n, T # {}
    PROVE  \E k \in T : \A j \in T : j <= k
<1> DEFINE D == {n - k : k \in T}
           R == {ss \in Nat \X Nat : ss[1] < ss[2]}
<1>1. IsWellFoundedOn(R, Nat)
  BY NatLessThanWellFounded DEF OpToRel
<1>2. D \subseteq Nat /\ D # {}
  <2>1. \A k \in T : n - k \in Nat
    OBVIOUS
  <2>2. PICK k \in T : TRUE
    OBVIOUS
  <2>3. n - k \in D
    OBVIOUS
  <2> QED
    BY <2>1, <2>3
<1> HIDE DEF R, D
<1>3. PICK d \in D : \A e \in D : ~(<<e, d>> \in R)
  BY <1>1, <1>2, WFMin
<1>4. \A e \in D : ~(e < d)
  BY <1>2, <1>3 DEF R
<1>5. PICK k \in T : d = n - k
  BY DEF D
<1>6. ASSUME NEW j \in T PROVE j <= k
  <2>1. n - j \in D
    BY DEF D
  <2> QED
    BY <1>4, <1>5, <2>1
<1> QED
  BY <1>6

-----------------------------------------------------------------------------
(* Sums over finite sets.                                                    *)

\* The element that a sum takes first out of a set.
Pick(s) == CHOOSE x \in s : TRUE

\* One unfolding of the sum of f over s, g giving the sums over smaller sets.
SumStep(f, s, g) == IF s = {} THEN 0 ELSE f[Pick(s)] + g[s \ {Pick(s)}]

\* It is one of them.
LEMMA PickFacts == ASSUME NEW s, s # {} PROVE Pick(s) \in s
BY DEF Pick

\* The recursion by which the community module defines a sum has a solution:
\* sums over the subsets of growing size, each from those before it.
LEMMA SumIterExists ==
    ASSUME NEW f, NEW S, IsFiniteSet(S)
    PROVE  \E g : g = [s \in SUBSET S |-> SumStep(f, s, g)]
<1> DEFINE Sub(n) == {s \in SUBSET S : Cardinality(s) <= n}
           Good(n) == \E g : g = [s \in Sub(n) |-> SumStep(f, s, g)]
<1>1. Good(0)
  <2> DEFINE g == [s \in Sub(0) |-> 0]
  <2>1. \A s \in Sub(0) : s = {}
    BY SubsetFacts
  <2>2. \A s \in Sub(0) : SumStep(f, s, g) = 0
    BY <2>1 DEF SumStep
  <2>3. g = [s \in Sub(0) |-> SumStep(f, s, g)]
    BY <2>2
  <2> QED
    BY <2>3
<1>2. ASSUME NEW n \in Nat, Good(n) PROVE Good(n + 1)
  <2>1. PICK g : g = [s \in Sub(n) |-> SumStep(f, s, g)]
    BY <1>2
  <2> DEFINE h == [s \in Sub(n + 1) |-> SumStep(f, s, g)]
  <2>2. \A s \in Sub(n) : s \in Sub(n + 1)
    BY SubsetFacts
  <2>3. \A s \in Sub(n) : h[s] = g[s]
    BY <2>1, <2>2
  <2>4. \A s \in Sub(n + 1) : s # {} => s \ {Pick(s)} \in Sub(n)
    BY SubsetFacts, PickFacts
  <2>5. \A s \in Sub(n + 1) : SumStep(f, s, h) = SumStep(f, s, g)
    <3> HIDE DEF h, Sub
    <3> QED
      BY <2>3, <2>4 DEF SumStep
  <2>6. h = [s \in Sub(n + 1) |-> SumStep(f, s, h)]
    BY <2>5
  <2> QED
    BY <2>6
<1> HIDE DEF Good
<1>3. \A n \in Nat : Good(n)
  <2> SUFFICES ASSUME NEW m \in Nat, ~Good(m) PROVE FALSE
    OBVIOUS
  <2> DEFINE Bad == {n \in Nat : ~Good(n)}
  <2>1. PICK n \in Bad : \A k \in Bad : n <= k
    BY LeastNatural
  <2>2. n # 0 /\ n - 1 \in Nat /\ ~(n - 1 \in Bad)
    BY <1>1, <2>1
  <2>3. Good((n - 1) + 1)
    BY <1>2, <2>2
  <2> QED
    BY <2>1, <2>3
<1>4. Good(Cardinality(S))
  BY <1>3, SubsetFacts
<1>5. Sub(Cardinality(S)) = SUBSET S
  BY SubsetFacts
<1> QED
  BY <1>4, <1>5 DEF Good

\* So the sum is the value of such a solution.
LEMMA SumUnfold ==
    ASSUME NEW f, NEW S, IsFiniteSet(S)
    PROVE  \E g : /\ g = [s \in SUBSET S |-> SumStep(f, s, g)]
                  /\ SumFunctionOnSet(f, S) = g[S]
<1> DEFINE g == CHOOSE g : g = [s \in SUBSET S |-> SumStep(f, s, g)]
<1>1. g = [s \in SUBSET S |-> SumStep(f, s, g)]
  BY SumIterExists
<1>2. SumFunctionOnSet(f, S) = g[S]
  BY DEF SumFunctionOnSet, FoldFunctionOnSet, MapThenFoldSet, Pick, SumStep
<1> QED
  BY <1>1, <1>2

\* The sum of a nonempty set is that of the element picked and of the others.
LEMMA SumPick ==
    ASSUME NEW f, NEW S, IsFiniteSet(S)
    PROVE  SumFunctionOnSet(f, S) =
              IF S = {} THEN 0 ELSE f[Pick(S)] + SumFunctionOnSet(f, S \ {Pick(S)})
<1>1. PICK g : /\ g = [s \in SUBSET S |-> SumStep(f, s, g)]
               /\ SumFunctionOnSet(f, S) = g[S]
  BY SumUnfold
<1>2. CASE S = {}
  BY <1>1, <1>2 DEF SumStep
<1>3. CASE S # {}
  <2> DEFINE R == S \ {Pick(S)}
  <2>1. R \subseteq S /\ IsFiniteSet(R) /\ Pick(S) \in S
    BY <1>3, FS_Subset, PickFacts
  <2>2. PICK h : /\ h = [s \in SUBSET R |-> SumStep(f, s, h)]
                 /\ SumFunctionOnSet(f, R) = h[R]
    BY <2>1, SumUnfold
  <2>3. \A s \in SUBSET R : g[s] = h[s]
    <3> DEFINE Bad == {s \in SUBSET R : g[s] # h[s]}
    <3> SUFFICES ASSUME Bad # {} PROVE FALSE
      OBVIOUS
    <3>1. PICK s \in Bad : \A x \in s : s \ {x} \notin Bad
      <4>1. Bad \subseteq SUBSET R /\ IsFiniteSet(R)
        BY <2>1
      <4> HIDE DEF Bad, R
      <4> QED
        BY <4>1, MinimalSubset
    <3>2. g[s] = SumStep(f, s, g) /\ h[s] = SumStep(f, s, h)
      BY <1>1, <2>1, <2>2
    <3>3. s # {} => g[s \ {Pick(s)}] = h[s \ {Pick(s)}]
      BY <3>1, PickFacts
    <3> QED
      BY <3>2, <3>3 DEF SumStep
  <2>4. g[S] = f[Pick(S)] + g[R]
    BY <1>1, <1>3 DEF SumStep
  <2> QED
    BY <1>1, <1>3, <2>2, <2>3, <2>4
<1> QED
  BY <1>2, <1>3

\* A sum of integers is an integer.
LEMMA SumInt ==
    ASSUME NEW f, NEW S, IsFiniteSet(S), \A x \in S : f[x] \in Int
    PROVE  SumFunctionOnSet(f, S) \in Int
<1> DEFINE Sum(s) == SumFunctionOnSet(f, s)
           Bad == {s \in SUBSET S : Sum(s) \notin Int}
<1> SUFFICES ASSUME Bad # {} PROVE FALSE
  OBVIOUS
<1>1. PICK s \in Bad : \A x \in s : s \ {x} \notin Bad
  BY MinimalSubset
<1>2. Sum(s) = IF s = {} THEN 0 ELSE f[Pick(s)] + Sum(s \ {Pick(s)})
  BY SubsetFacts, SumPick
<1>3. s # {} => Pick(s) \in s /\ Sum(s \ {Pick(s)}) \in Int
  BY <1>1, PickFacts
<1> QED
  BY <1>2, <1>3

\* Any element, not only the one picked, can be taken out first.
LEMMA SumAdd ==
    ASSUME NEW f, NEW S, IsFiniteSet(S), \A x \in S : f[x] \in Int, NEW x \in S
    PROVE  SumFunctionOnSet(f, S) = f[x] + SumFunctionOnSet(f, S \ {x})
<1> DEFINE Sum(s) == SumFunctionOnSet(f, s)
           Wrong(s) == \E y \in s : Sum(s) # f[y] + Sum(s \ {y})
           Bad == {s \in SUBSET S : Wrong(s)}
<1> SUFFICES ASSUME Bad # {} PROVE FALSE
  OBVIOUS
<1>1. PICK s \in Bad : \A y \in s : s \ {y} \notin Bad
  BY MinimalSubset
<1>2. PICK y \in s : Sum(s) # f[y] + Sum(s \ {y})
  OBVIOUS
<1> DEFINE z == Pick(s)
           R == s \ {z}
           Q == R \ {y}
<1>3. z \in s
  BY PickFacts
<1>4. \A t \in SUBSET S : IsFiniteSet(t) /\ Sum(t) \in Int
  BY SubsetFacts, SumInt
<1>5. Sum(s) = f[z] + Sum(R)
  BY <1>4, SumPick
<1>6. z # y
  BY <1>2, <1>5
<1>7. y \in R /\ z \in s \ {y} /\ (s \ {y}) \ {z} = Q
  BY <1>3, <1>6
<1>8. ~Wrong(R) /\ ~Wrong(s \ {y})
  BY <1>1, <1>3
<1>9. Sum(R) = f[y] + Sum(Q)
  BY <1>7, <1>8
<1>10. Sum(s \ {y}) = f[z] + Sum(Q)
  BY <1>7, <1>8
<1>11. Sum(Q) \in Int /\ f[y] \in Int /\ f[z] \in Int
  BY <1>3, <1>4
<1> HIDE DEF Sum, z
<1> QED
  BY <1>2, <1>5, <1>9, <1>10, <1>11

\* Functions equal on a set have the same sum over it.
LEMMA SumSame ==
    ASSUME NEW f, NEW g, NEW S, IsFiniteSet(S),
           \A x \in S : f[x] = g[x]
    PROVE  SumFunctionOnSet(f, S) = SumFunctionOnSet(g, S)
<1> DEFINE F(s) == SumFunctionOnSet(f, s)
           G(s) == SumFunctionOnSet(g, s)
           Bad == {s \in SUBSET S : F(s) # G(s)}
<1> SUFFICES ASSUME Bad # {} PROVE FALSE
  OBVIOUS
<1>1. PICK s \in Bad : \A x \in s : s \ {x} \notin Bad
  BY MinimalSubset
<1>2. /\ F(s) = IF s = {} THEN 0 ELSE f[Pick(s)] + F(s \ {Pick(s)})
      /\ G(s) = IF s = {} THEN 0 ELSE g[Pick(s)] + G(s \ {Pick(s)})
  BY SubsetFacts, SumPick
<1>3. s # {} => Pick(s) \in s /\ F(s \ {Pick(s)}) = G(s \ {Pick(s)})
  BY <1>1, PickFacts
<1> QED
  BY <1>2, <1>3

\* A sum of naturals is a natural.
LEMMA SumNat ==
    ASSUME NEW f, NEW S, IsFiniteSet(S), \A x \in S : f[x] \in Nat
    PROVE  SumFunctionOnSet(f, S) \in Nat
<1> DEFINE Sum(s) == SumFunctionOnSet(f, s)
           Bad == {s \in SUBSET S : Sum(s) \notin Nat}
<1> SUFFICES ASSUME Bad # {} PROVE FALSE
  OBVIOUS
<1>1. PICK s \in Bad : \A x \in s : s \ {x} \notin Bad
  BY MinimalSubset
<1>2. Sum(s) = IF s = {} THEN 0 ELSE f[Pick(s)] + Sum(s \ {Pick(s)})
  BY SubsetFacts, SumPick
<1>3. s # {} => Pick(s) \in s /\ Sum(s \ {Pick(s)}) \in Nat
  BY <1>1, PickFacts
<1> QED
  BY <1>2, <1>3

\* A sum of zeros is zero.
LEMMA SumZero ==
    ASSUME NEW f, NEW S, IsFiniteSet(S), \A x \in S : f[x] = 0
    PROVE  SumFunctionOnSet(f, S) = 0
<1> DEFINE Sum(s) == SumFunctionOnSet(f, s)
           Bad == {s \in SUBSET S : Sum(s) # 0}
<1> SUFFICES ASSUME Bad # {} PROVE FALSE
  OBVIOUS
<1>1. PICK s \in Bad : \A x \in s : s \ {x} \notin Bad
  BY MinimalSubset
<1>2. Sum(s) = IF s = {} THEN 0 ELSE f[Pick(s)] + Sum(s \ {Pick(s)})
  BY SubsetFacts, SumPick
<1>3. s # {} => Pick(s) \in s /\ Sum(s \ {Pick(s)}) = 0
  BY <1>1, PickFacts
<1> QED
  BY <1>2, <1>3

\* Functions that differ at one element of a set only, and their sums over it.
LEMMA SumChanged ==
    ASSUME NEW f, NEW g, NEW S, IsFiniteSet(S), NEW x \in S,
           \A y \in S : f[y] \in Int /\ g[y] \in Int,
           \A y \in S \ {x} : f[y] = g[y]
    PROVE  SumFunctionOnSet(g, S) = (SumFunctionOnSet(f, S) - f[x]) + g[x]
<1> DEFINE T == S \ {x}
           F == SumFunctionOnSet(f, T)
           G == SumFunctionOnSet(g, T)
<1>1. IsFiniteSet(T)
  BY FS_Subset
<1>2. F \in Int /\ F = G
  BY <1>1, SumInt, SumSame
<1>3. /\ SumFunctionOnSet(f, S) = f[x] + F
      /\ SumFunctionOnSet(g, S) = g[x] + G
  BY SumAdd
<1> HIDE DEF F, G
<1> QED
  BY <1>2, <1>3

\* A sum may be taken over other names of its elements.
LEMMA SumImage ==
    ASSUME NEW S, IsFiniteSet(S), NEW f, NEW g, NEW b,
           \A x \in S : f[x] \in Int /\ g[b[x]] = f[x],
           \A x, y \in S : b[x] = b[y] => x = y
    PROVE  SumFunctionOnSet(g, {b[x] : x \in S}) = SumFunctionOnSet(f, S)
<1> DEFINE Im(s) == {b[x] : x \in s}
           F(s) == SumFunctionOnSet(f, s)
           G(s) == SumFunctionOnSet(g, Im(s))
           Bad == {s \in SUBSET S : G(s) # F(s)}
<1> SUFFICES ASSUME Bad # {} PROVE FALSE
  OBVIOUS
<1>1. PICK s \in Bad : \A x \in s : s \ {x} \notin Bad
  BY MinimalSubset
<1>2. s \in SUBSET S /\ IsFiniteSet(s) /\ IsFiniteSet(Im(s))
  <2>1. s \in SUBSET S /\ IsFiniteSet(s)
    BY SubsetFacts
  <2>2. IsFiniteSet(Im(s))
    <3> DEFINE h == [x \in s |-> b[x]]
    <3>1. h \in [s -> Im(s)] /\ \A v \in Im(s) : \E x \in s : h[x] = v
      OBVIOUS
    <3> HIDE DEF h, Im
    <3>2. h \in Surjection(s, Im(s))
      BY <3>1 DEF Surjection
    <3> QED
      BY <2>1, <3>2, FS_Surjection
  <2> QED
    BY <2>1, <2>2
<1>3. CASE s = {}
  <2>1. Im(s) = {} /\ IsFiniteSet({})
    BY <1>3, FS_EmptySet
  <2> QED
    BY <1>1, <1>3, <2>1, SumPick
<1>4. CASE s # {}
  <2>1. PICK x \in s : TRUE
    BY <1>4
  <2>2. F(s) = f[x] + F(s \ {x})
    BY <1>2, <2>1, SumAdd
  <2>3. b[x] \in Im(s) /\ Im(s) \ {b[x]} = Im(s \ {x})
    BY <1>2, <2>1
  <2>4. \A v \in Im(s) : g[v] \in Int
    BY <1>2
  <2>5. G(s) = g[b[x]] + G(s \ {x})
    <3> HIDE DEF Im
    <3> QED
      BY <1>2, <2>3, <2>4, SumAdd
  <2>6. G(s \ {x}) = F(s \ {x}) /\ g[b[x]] = f[x]
    BY <1>1, <1>2, <2>1
  <2> QED
    BY <1>1, <2>2, <2>5, <2>6
<1> QED
  BY <1>3, <1>4

\* A function that another extends by one place has a sum less by that value.
LEMMA SumExtended ==
    ASSUME NEW n \in Nat, NEW f, NEW g,
           \A k \in 1..n : f[k] = g[k], \A k \in 1..(n + 1) : g[k] \in Int
    PROVE  /\ SumFunctionOnSet(f, 1..n) \in Int
           /\ SumFunctionOnSet(g, 1..(n + 1)) = SumFunctionOnSet(f, 1..n) + g[n + 1]
<1>1. IsFiniteSet(1..n) /\ IsFiniteSet(1..(n + 1))
  BY FS_Interval
<1>2. n + 1 \in 1..(n + 1) /\ (1..(n + 1)) \ {n + 1} = 1..n
  OBVIOUS
<1>3. SumFunctionOnSet(g, 1..(n + 1)) = g[n + 1] + SumFunctionOnSet(g, 1..n)
  BY <1>1, <1>2, SumAdd
<1>4. SumFunctionOnSet(g, 1..n) = SumFunctionOnSet(f, 1..n)
  BY <1>1, SumSame
<1>5. SumFunctionOnSet(f, 1..n) \in Int
  <2>1. \A k \in 1..n : f[k] \in Int
    OBVIOUS
  <2> QED
    BY <1>1, <2>1, SumInt
<1> QED
  BY <1>3, <1>4, <1>5

\* A sequence of values from which the one at place k is taken sums to as much less.
LEMMA SumErased ==
    ASSUME NEW n \in Nat, NEW k \in 1..n, NEW f, NEW g,
           \A j \in 1..n : f[j] \in Int,
           \A j \in 1..(n - 1) : g[j] = IF j < k THEN f[j] ELSE f[j + 1]
    PROVE  /\ SumFunctionOnSet(g, 1..(n - 1)) \in Int
           /\ SumFunctionOnSet(f, 1..n) = SumFunctionOnSet(g, 1..(n - 1)) + f[k]
<1> DEFINE F(m) == SumFunctionOnSet(f, 1..m)
           G(m) == SumFunctionOnSet(g, 1..m)
           Bad == {m \in k..n : F(m) # G(m - 1) + f[k]}
<1>1. \A j \in 1..(n - 1) : g[j] \in Int
  <2>1. \A j \in 1..(n - 1) : j \in 1..n /\ j + 1 \in 1..n
    OBVIOUS
  <2> QED
    BY <2>1
<1>2. ASSUME NEW m \in Nat, m + 1 <= n - 1 PROVE G(m + 1) = G(m) + g[m + 1] /\ G(m) \in Int
  <2>1. \A j \in 1..(m + 1) : g[j] \in Int
    BY <1>1, <1>2
  <2> QED
    BY <2>1, SumExtended
<1>3. ASSUME NEW m \in Nat, m + 1 <= n PROVE F(m + 1) = F(m) + f[m + 1] /\ F(m) \in Int
  <2>1. \A j \in 1..(m + 1) : f[j] \in Int
    BY <1>3
  <2> QED
    BY <2>1, SumExtended
<1>4. F(k) = G(k - 1) + f[k]
  <2>1. /\ k - 1 \in Nat /\ \A j \in 1..(k - 1) : g[j] = f[j]
        /\ \A j \in 1..((k - 1) + 1) : f[j] \in Int
    OBVIOUS
  <2>2. SumFunctionOnSet(f, 1..((k - 1) + 1)) = SumFunctionOnSet(g, 1..(k - 1)) + f[(k - 1) + 1]
    BY <2>1, SumExtended
  <2>3. (k - 1) + 1 = k
    OBVIOUS
  <2> QED
    BY <2>2, <2>3
<1>5. G(n - 1) \in Int
  <2>1. IsFiniteSet(1..(n - 1))
    BY FS_Interval
  <2> QED
    BY <1>1, <2>1, SumInt
<1>6. Bad = {}
  <2> SUFFICES ASSUME Bad # {} PROVE FALSE
    OBVIOUS
  <2>1. Bad \subseteq Nat
    OBVIOUS
  <2>2. PICK m \in Bad : \A l \in Bad : m <= l
    <3> HIDE DEF Bad
    <3> QED
      BY <2>1, LeastNatural
  <2>3. m \in k..n /\ m \in Nat /\ F(m) # G(m - 1) + f[k]
    BY <2>2
  <2>4. m # k
    BY <1>4, <2>3
  <2>5. /\ m - 1 \in Nat /\ (m - 1) + 1 = m /\ m - 1 \in k..n
        /\ (m - 2) \in Nat /\ (m - 2) + 1 = m - 1 /\ m - 1 <= n - 1
    BY <2>3, <2>4
  <2>6. F(m - 1) = G((m - 1) - 1) + f[k]
    <3>1. m - 1 \notin Bad
      <4> HIDE DEF Bad
      <4> QED
        BY <2>2, <2>3
    <3> QED
      BY <2>5, <3>1
  <2>7. F((m - 1) + 1) = F(m - 1) + f[(m - 1) + 1]
    BY <1>3, <2>3, <2>5
  <2>8. G((m - 2) + 1) = G(m - 2) + g[(m - 2) + 1] /\ G(m - 2) \in Int
    BY <1>2, <2>5
  <2>9. g[m - 1] = f[m] /\ f[m] \in Int /\ f[k] \in Int
    BY <2>3, <2>5
  <2> HIDE DEF F, G
  <2>10. F(m) = F(m - 1) + f[m]
    BY <2>5, <2>7
  <2>11. G(m - 1) = G(m - 2) + f[m]
    BY <2>5, <2>8, <2>9
  <2>12. (m - 1) - 1 = m - 2
    BY <2>3
  <2>13. F(m) = G(m - 1) + f[k]
    BY <2>6, <2>8, <2>9, <2>10, <2>11, <2>12
  <2> QED
    BY <2>3, <2>13
<1>7. F(n) = G(n - 1) + f[k]
  <2>1. n \in k..n /\ n \notin Bad
    BY <1>6
  <2> HIDE DEF F, G
  <2> QED
    BY <2>1
<1> QED
  BY <1>5, <1>7

\* A sequence of values of which the first one changes.
LEMMA SumFirst ==
    ASSUME NEW n \in Nat, n > 0, NEW f, NEW g,
           \A j \in 1..n : f[j] \in Int /\ g[j] \in Int,
           \A j \in 2..n : g[j] = f[j]
    PROVE  /\ SumFunctionOnSet(f, 1..n) \in Int
           /\ SumFunctionOnSet(g, 1..n) = SumFunctionOnSet(f, 1..n) + (g[1] - f[1])
<1>1. /\ IsFiniteSet(1..n) /\ IsFiniteSet(2..n)
      /\ \A j \in 2..n : j \in 1..n
  BY FS_Interval
<1>2. /\ SumFunctionOnSet(f, 1..n) = f[1] + SumFunctionOnSet(f, 2..n)
      /\ SumFunctionOnSet(g, 1..n) = g[1] + SumFunctionOnSet(g, 2..n)
  <2>1. 1 \in 1..n /\ (1..n) \ {1} = 2..n
    OBVIOUS
  <2>2. PICK S, one : S = 1..n /\ one = 1
    OBVIOUS
  <2>3. IsFiniteSet(S) /\ one \in S /\ \A j \in S : f[j] \in Int /\ g[j] \in Int
    BY <1>1, <2>1, <2>2
  <2>4. SumFunctionOnSet(f, S) = f[one] + SumFunctionOnSet(f, S \ {one})
    BY ONLY <2>3, SumAdd
  <2>5. SumFunctionOnSet(g, S) = g[one] + SumFunctionOnSet(g, S \ {one})
    BY ONLY <2>3, SumAdd
  <2> QED
    BY <2>1, <2>2, <2>4, <2>5
<1>3. SumFunctionOnSet(g, 2..n) = SumFunctionOnSet(f, 2..n)
  BY <1>1, SumSame
<1>4. SumFunctionOnSet(f, 2..n) \in Int
  BY <1>1, SumInt
<1> QED
  BY <1>1, <1>2, <1>3, <1>4

\* The sum of a sequence that grows.
LEMMA SumOfSequence ==
    /\ SumFunction(<<>>) = 0
    /\ \A s \in Seq(Int), v \in Int :
          /\ SumFunction(s) \in Int
          /\ SumFunction(Append(s, v)) = SumFunction(s) + v
<1>1. SumFunction(<<>>) = 0
  <2> DEFINE e == <<>>
  <2>1. DOMAIN e = {} /\ IsFiniteSet({})
    BY FS_EmptySet
  <2> HIDE DEF e
  <2>2. SumFunctionOnSet(e, {}) = 0
    BY <2>1, SumPick
  <2> QED
    BY <2>1, <2>2 DEF SumFunction, e
<1>2. ASSUME NEW s \in Seq(Int), NEW v \in Int
      PROVE  /\ SumFunction(s) \in Int
             /\ SumFunction(Append(s, v)) = SumFunction(s) + v
  <2> DEFINE t == Append(s, v)
             n == Len(s)
  <2>1. /\ n \in Nat /\ DOMAIN s = 1..n /\ DOMAIN t = 1..(n + 1)
        /\ \A k \in 1..n : s[k] = t[k] /\ t[k] \in Int
        /\ t[n + 1] = v
    OBVIOUS
  <2> HIDE DEF t, n
  <2>2. \A k \in 1..(n + 1) : t[k] \in Int
    BY <2>1
  <2>3. /\ SumFunctionOnSet(s, 1..n) \in Int
        /\ SumFunctionOnSet(t, 1..(n + 1)) = SumFunctionOnSet(s, 1..n) + t[n + 1]
    BY <2>1, <2>2, SumExtended
  <2> QED
    BY <2>1, <2>3 DEF SumFunction, t
<1> QED
  BY <1>1, <1>2

-----------------------------------------------------------------------------
(* What rests at a price, in a map from ids to orders.                       *)

AtPrice(resting, side, p) ==
    {i \in DOMAIN resting : resting[i].side = side /\ resting[i].price = p}

PricesOf(resting, side) == {resting[i].price : i \in {j \in DOMAIN resting :
                                                       resting[j].side = side}}

RestingSum(resting, side, p) ==
    SumFunctionOnSet([i \in DOMAIN resting |-> resting[i].quantity],
                     AtPrice(resting, side, p))

-----------------------------------------------------------------------------
(* A finite set in the order of a key.                                      *)

\* Some element of a finite set has the greatest key.
LEMMA GreatestKey ==
    ASSUME NEW S, IsFiniteSet(S), S # {}, NEW key, \A x \in S : key[x] \in Int
    PROVE  \E x \in S : \A y \in S : key[y] <= key[x]
<1> DEFINE Good(s) == \E x \in s : \A y \in s : key[y] <= key[x]
           Bad == {s \in SUBSET S : s # {} /\ ~Good(s)}
<1> SUFFICES ASSUME Bad # {} PROVE FALSE
  OBVIOUS
<1>1. Bad \subseteq SUBSET S
  OBVIOUS
<1>2. PICK s \in Bad : \A x \in s : s \ {x} \notin Bad
  <2> HIDE DEF Bad
  <2> QED
    BY <1>1, MinimalSubset
<1>3. PICK x \in s : TRUE
  BY <1>2
<1>4. key[x] \in Int /\ s \subseteq S /\ ~Good(s)
  BY <1>2, <1>3
<1>5. CASE s \ {x} = {}
  <2>1. \A y \in s : y = x
    BY <1>5
  <2> QED
    BY <1>3, <1>4, <2>1
<1>6. CASE s \ {x} # {}
  <2>1. Good(s \ {x})
    BY <1>2, <1>3, <1>4, <1>6
  <2>2. PICK z \in s \ {x} : \A y \in s \ {x} : key[y] <= key[z]
    BY <2>1
  <2>3. key[z] \in Int /\ \A y \in s : key[y] \in Int
    BY <1>4, <2>2
  <2>4. CASE key[z] <= key[x]
    <3>1. \A y \in s : key[y] <= key[x]
      BY <1>4, <2>2, <2>3, <2>4
    <3> QED
      BY <1>3, <1>4, <3>1
  <2>5. CASE ~(key[z] <= key[x])
    <3>1. \A y \in s : key[y] <= key[z]
      BY <1>4, <2>2, <2>3, <2>5
    <3> QED
      BY <1>4, <2>2, <3>1
  <2> QED
    BY <2>4, <2>5
<1> QED
  BY <1>5, <1>6

\* The first n entries of e are the elements of S by increasing key.
SortedBy(e, n, S, key) ==
    /\ \A k \in 1..n : e[k] \in S
    /\ \A x \in S : \E k \in 1..n : e[k] = x
    /\ \A j, k \in 1..n : j < k => key[e[j]] < key[e[k]]

\* A finite set whose elements have different keys can be sorted by them.
LEMMA SortedExists ==
    ASSUME NEW S, IsFiniteSet(S), NEW key, \A x \in S : key[x] \in Int,
           \A x, y \in S : key[x] = key[y] => x = y
    PROVE  \E e \in [1..Cardinality(S) -> S] : SortedBy(e, Cardinality(S), S, key)
<1> DEFINE Good(s) == \E e \in [1..Cardinality(s) -> s] : SortedBy(e, Cardinality(s), s, key)
           Bad == {s \in SUBSET S : ~Good(s)}
<1> SUFFICES ASSUME Bad # {} PROVE FALSE
  OBVIOUS
<1>1. Bad \subseteq SUBSET S
  OBVIOUS
<1>2. PICK s \in Bad : \A x \in s : s \ {x} \notin Bad
  <2> HIDE DEF Bad
  <2> QED
    BY <1>1, MinimalSubset
<1>3. s \subseteq S /\ ~Good(s)
  BY <1>2
<1>4. CASE s = {}
  <2>1. Cardinality(s) = 0
    BY <1>4, FS_EmptySet
  <2> DEFINE e == [k \in 1..0 |-> 0]
  <2>2. e \in [1..0 -> s]
    OBVIOUS
  <2>3. SortedBy(e, 0, s, key)
    BY <1>4 DEF SortedBy
  <2> QED
    BY <1>3, <2>1, <2>2, <2>3
<1>5. CASE s # {}
  <2>1. IsFiniteSet(s)
    BY <1>3, FS_Subset
  <2>2. PICK x \in s : \A y \in s : key[y] <= key[x]
    BY <1>3, <1>5, <2>1, GreatestKey
  <2>3. PICK r : r = s \ {x}
    OBVIOUS
  <2>4. PICK n : n = Cardinality(r)
    OBVIOUS
  <2>5. n \in Nat /\ Cardinality(s) = n + 1
    <3>1. IsFiniteSet(r) /\ x \notin r /\ s = r \cup {x}
      BY <2>1, <2>2, <2>3, FS_Subset
    <3> QED
      BY <2>4, <3>1, FS_CardinalityType, FS_AddElement
  <2>6. PICK e \in [1..n -> r] : SortedBy(e, n, r, key)
    <3>1. Good(r)
      BY <1>2, <1>3, <2>2, <2>3
    <3> QED
      BY <2>4, <3>1
  <2>7. \A k \in 1..n : e[k] \in r
    OBVIOUS
  <2> DEFINE f == [k \in 1..(n + 1) |-> IF k <= n THEN e[k] ELSE x]
  <2>8. /\ f[n + 1] = x
        /\ \A k \in 1..n : f[k] = e[k]
        /\ \A k \in 1..(n + 1) : k \in 1..n \/ k = n + 1
        /\ 1..n \subseteq 1..(n + 1) /\ n + 1 \in 1..(n + 1)
    BY <2>5
  <2>9. f \in [1..(n + 1) -> s]
    BY <2>2, <2>3, <2>5, <2>7
  <2> HIDE DEF f
  <2>10. \A k \in 1..(n + 1) : f[k] \in s
    BY <2>9
  <2>11. \A y \in s : \E k \in 1..(n + 1) : f[k] = y
    BY <2>3, <2>6, <2>8 DEF SortedBy
  <2>12. ASSUME NEW j \in 1..(n + 1), NEW k \in 1..(n + 1), j < k
         PROVE  key[f[j]] < key[f[k]]
    <3>1. j \in 1..n
      BY <2>5, <2>12
    <3>2. CASE k \in 1..n
      BY <2>6, <2>8, <2>12, <3>1, <3>2 DEF SortedBy
    <3>3. CASE k = n + 1
      <4>1. f[j] = e[j] /\ f[k] = x /\ e[j] \in s /\ e[j] # x
        BY <2>3, <2>7, <2>8, <3>1, <3>3
      <4>2. key[e[j]] <= key[x] /\ key[e[j]] # key[x] /\ key[e[j]] \in Int /\ key[x] \in Int
        BY <1>3, <2>2, <4>1
      <4> QED
        BY <4>1, <4>2
    <3> QED
      BY <2>8, <3>2, <3>3
  <2>13. SortedBy(f, n + 1, s, key)
    BY <2>10, <2>11, <2>12 DEF SortedBy
  <2> QED
    BY <1>3, <2>5, <2>9, <2>13
<1> QED
  BY <1>4, <1>5

\* As many elements come up to the entry n of a sorted set as n says.
LEMMA SortedRank ==
    ASSUME NEW N \in Nat, NEW S, NEW key, NEW e, SortedBy(e, N, S, key),
           \A x \in S : key[x] \in Int, NEW n \in 1..N
    PROVE  Cardinality({x \in S : key[x] <= key[e[n]]}) = n
<1> DEFINE T == {x \in S : key[x] <= key[e[n]]}
           f == [k \in 1..n |-> e[k]]
<1>1. \A k \in 1..n : k \in 1..N /\ f[k] = e[k]
  OBVIOUS
<1>2. \A k \in 1..N : e[k] \in S /\ key[e[k]] \in Int
  BY DEF SortedBy
<1>3. \A k \in 1..n : f[k] \in T
  <2> SUFFICES ASSUME NEW k \in 1..n PROVE f[k] \in T
    OBVIOUS
  <2>1. key[e[k]] \in Int /\ key[e[n]] \in Int /\ e[k] \in S /\ f[k] = e[k] /\ k \in 1..N
    BY <1>1, <1>2
  <2>2. key[e[k]] <= key[e[n]]
    <3>1. CASE k = n
      BY <2>1, <3>1
    <3>2. CASE k < n
      <4>1. key[e[k]] < key[e[n]]
        BY <2>1, <3>2 DEF SortedBy
      <4> QED
        BY <2>1, <4>1
    <3> QED
      BY <3>1, <3>2
  <2> QED
    BY <2>1, <2>2
<1>4. \A x \in T : \E k \in 1..n : f[k] = x
  <2> SUFFICES ASSUME NEW x \in T PROVE \E k \in 1..n : f[k] = x
    OBVIOUS
  <2>1. PICK k \in 1..N : e[k] = x
    BY DEF SortedBy
  <2>2. key[e[k]] <= key[e[n]] /\ key[e[k]] \in Int /\ key[e[n]] \in Int
    BY <1>2, <2>1
  <2>3. CASE n < k
    <3>1. key[e[n]] < key[e[k]]
      BY <2>3 DEF SortedBy
    <3> QED
      BY <2>2, <3>1
  <2>4. CASE k <= n
    BY <1>1, <2>1, <2>4
  <2> QED
    BY <2>3, <2>4
<1>5. \A j, k \in 1..n : j # k => f[j] # f[k]
  <2> SUFFICES ASSUME NEW j \in 1..n, NEW k \in 1..n, j < k, f[j] = f[k] PROVE FALSE
    OBVIOUS
  <2>1. key[e[j]] < key[e[k]] /\ e[j] = e[k] /\ key[e[j]] \in Int
    BY <1>1, <1>2 DEF SortedBy
  <2> QED
    BY <2>1
<1>6. f \in Bijection(1..n, T)
  <2>1. f \in [1..n -> T]
    BY <1>3
  <2> HIDE DEF f, T
  <2> QED
    BY <1>4, <1>5, <2>1 DEF Bijection, Injection, Surjection, IsInjective
<1>7. n \in Int /\ 1 \in Int /\ ~(1 > n) /\ n - 1 + 1 = n
  OBVIOUS
<1>8. IsFiniteSet(1..n) /\ Cardinality(1..n) = n
  BY <1>7, FS_Interval
<1> HIDE DEF f, T
<1>9. Cardinality(T) = n
  BY <1>6, <1>8, FS_Bijection DEF ExistsBijection
<1> QED
  BY <1>9 DEF T

\* The sizes of disjoint parts of a finite set add up to the size of their union.
LEMMA SumOfSizes ==
    ASSUME NEW D, IsFiniteSet(D), NEW part, NEW f,
           \A x \in D : IsFiniteSet(part[x]) /\ f[x] = Cardinality(part[x]),
           \A x, y \in D : x # y => part[x] \cap part[y] = {}
    PROVE  SumFunctionOnSet(f, D) = Cardinality(UNION {part[x] : x \in D})
<1> DEFINE U(s) == UNION {part[x] : x \in s}
           Good(s) == IsFiniteSet(U(s)) /\ SumFunctionOnSet(f, s) = Cardinality(U(s))
           Bad == {s \in SUBSET D : ~Good(s)}
<1> SUFFICES ASSUME Bad # {} PROVE FALSE
  OBVIOUS
<1>1. Bad \subseteq SUBSET D
  OBVIOUS
<1>2. PICK s \in Bad : \A x \in s : s \ {x} \notin Bad
  <2> HIDE DEF Bad
  <2> QED
    BY <1>1, MinimalSubset
<1>3. s \subseteq D /\ ~Good(s)
  BY <1>2
<1>4. IsFiniteSet(s)
  BY <1>3, FS_Subset
<1>5. CASE s = {}
  <2>1. SumFunctionOnSet(f, {}) = 0
    BY FS_EmptySet, SumPick
  <2>2. U({}) = {}
    OBVIOUS
  <2> HIDE DEF U
  <2> QED
    BY <1>3, <1>5, <2>1, <2>2, FS_EmptySet
<1>6. CASE s # {}
  <2>1. PICK x \in s : TRUE
    BY <1>6
  <2>2. PICK r : r = s \ {x}
    OBVIOUS
  <2>3. Good(r)
    BY <1>2, <1>3, <2>1, <2>2
  <2>4. U(s) = U(r) \cup part[x] /\ U(r) \cap part[x] = {}
    <3>1. \A y \in r : part[y] \cap part[x] = {}
      BY <1>3, <2>1, <2>2
    <3> QED
      BY <2>1, <2>2, <3>1
  <2>5. \A y \in s : f[y] \in Int
    BY <1>3, FS_CardinalityType
  <2>6. SumFunctionOnSet(f, s) = f[x] + SumFunctionOnSet(f, r)
    BY <1>4, <2>1, <2>2, <2>5, SumAdd
  <2>7. IsFiniteSet(part[x]) /\ f[x] = Cardinality(part[x]) /\ f[x] \in Int
    BY <1>3, <2>1, <2>5
  <2> HIDE DEF U
  <2>8. /\ IsFiniteSet(U(s))
        /\ Cardinality(U(s)) = Cardinality(U(r)) + Cardinality(part[x]) - Cardinality({})
    BY <2>3, <2>4, <2>7, FS_Union
  <2>9. Cardinality({}) = 0 /\ Cardinality(U(r)) \in Int
    BY <2>3, FS_EmptySet, FS_CardinalityType
  <2> QED
    BY <1>3, <2>3, <2>6, <2>7, <2>8, <2>9
<1> QED
  BY <1>5, <1>6

-----------------------------------------------------------------------------
(* Words.                                                                    *)

\* Quotient and remainder are unique.
LEMMA QuotientUnique ==
    ASSUME NEW w \in Nat, w > 0, NEW k \in Int, NEW l \in Int,
           NEW r \in 0..(w - 1), NEW t \in 0..(w - 1), w * k + r = w * l + t
    PROVE  r = t
<1>1. w * (k - l) = t - r
  OBVIOUS
<1>2. CASE k - l >= 1
  <2>1. w * (k - l) >= w
    BY <1>2
  <2> QED
    BY <1>1, <2>1
<1>3. CASE k - l <= -1
  <2>1. w * (k - l) <= -w
    BY <1>3
  <2> QED
    BY <1>1, <2>1
<1> QED
  BY <1>1, <1>2, <1>3

\* A multiple of the modulus changes no remainder.
LEMMA ModShift ==
    ASSUME NEW w \in Nat, w > 0, NEW b \in Int, NEW k \in Int, NEW a, a = b + w * k
    PROVE  a % w = b % w
<1> DEFINE da == a \div w
           ra == a % w
           db == b \div w
           rb == b % w
<1>1. a = w * da + ra /\ ra \in 0..(w - 1) /\ da \in Int
  OBVIOUS
<1>2. b = w * db + rb /\ rb \in 0..(w - 1) /\ db \in Int
  OBVIOUS
<1> HIDE DEF da, ra, db, rb
<1>3. w * (db + k) = w * db + w * k /\ w * db \in Int /\ w * k \in Int /\ w * da \in Int
  BY <1>1, <1>2
<1>4. w * da + ra = w * (db + k) + rb
  <2> DEFINE x == w * da
             y == w * db
             z == w * k
             u == w * (db + k)
  <2>1. /\ x \in Int /\ y \in Int /\ z \in Int /\ u = y + z
        /\ a = b + z /\ a = x + ra /\ b = y + rb /\ ra \in Int /\ rb \in Int
    BY <1>1, <1>2, <1>3
  <2> HIDE DEF x, y, z, u
  <2>2. x + ra = u + rb
    BY <2>1
  <2> QED
    BY <2>2 DEF x, u
<1>5. ra = rb
  <2> DEFINE l == db + k
  <2>1. l \in Int /\ w * da + ra = w * l + rb
    BY <1>2, <1>4
  <2> HIDE DEF l
  <2> QED
    BY <1>1, <1>2, <2>1, QuotientUnique
<1> QED
  BY <1>5 DEF ra, rb

\* A word reduced before an addition, or only after it, is the same word.
LEMMA ModAdd ==
    ASSUME NEW a \in Int, NEW b \in Int, NEW w \in Nat, w > 0
    PROVE  ((a % w) + b) % w = (a + b) % w
<1> DEFINE d == a \div w
           r == a % w
<1>1. a = w * d + r /\ r \in Int /\ d \in Int
  OBVIOUS
<1> HIDE DEF d, r
<1>2. a + b = (r + b) + w * d
  <2> DEFINE x == w * d
  <2>1. a = x + r /\ x \in Int /\ r \in Int
    BY <1>1
  <2> HIDE DEF x
  <2>2. a + b = (r + b) + x
    BY <2>1
  <2> QED
    BY <2>2 DEF x
<1>3. (a + b) % w = (r + b) % w
  <2> DEFINE s == a + b
             t == r + b
  <2>1. t \in Int /\ s = t + w * d
    BY <1>1, <1>2
  <2> HIDE DEF s, t
  <2>2. s % w = t % w
    BY <1>1, <2>1, ModShift
  <2> QED
    BY <2>2 DEF s, t
<1> QED
  BY <1>3 DEF r

===============================================================================
