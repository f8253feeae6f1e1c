------------------------------- MODULE Sums -------------------------------
(***************************************************************************)
(* Lemmas about numbers and finite sums, for the proofs about documents    *)
(* and about what KRA is sent.  The library's sums are folds; nothing here *)
(* is about this system.                                                   *)
(***************************************************************************)
EXTENDS Integers, FiniteSets, FiniteSetsExt, Functions, FiniteSetTheorems, WellFoundedInduction, TLAPS

-----------------------------------------------------------------------------
(* Numbers: what induction over them comes down to, in sets.               *)

\* A set of numbers that is not empty has a least one.
LEMMA LeastNumber ==
  ASSUME NEW T \in SUBSET Nat, T # {}
  PROVE  \E x \in T : \A y \in T : x =< y
<1> DEFINE R == OpToRel(<, Nat)
<1>1. IsWellFoundedOn(R, Nat)
  BY NatLessThanWellFounded
<1>2. \A x, y \in T : y < x => <<y, x>> \in R
  BY DEF OpToRel
<1> HIDE DEF R
<1>3. PICK x \in T : \A y \in T : ~(<<y, x>> \in R)
  BY <1>1, WFMin
<1>4. ASSUME NEW y \in T PROVE x =< y
  <2>1. ~(y < x)
    BY <1>2, <1>3
  <2>2. x \in Nat /\ y \in Nat
    OBVIOUS
  <2> QED
    BY <2>1, <2>2
<1> QED
  BY <1>4

\* A set of numbers that has 0 and with every number the next has them all.
LEMMA AllNumbers ==
  ASSUME NEW P \in SUBSET Nat, 0 \in P, \A k \in Nat : k \in P => k + 1 \in P
  PROVE  P = Nat
<1> SUFFICES ASSUME Nat \ P # {} PROVE FALSE
  OBVIOUS
<1>1. PICK m \in Nat \ P : \A y \in Nat \ P : m =< y
  BY LeastNumber
<1>2. m # 0 /\ m \in Nat
  OBVIOUS
<1>3. m - 1 \in Nat /\ (m - 1) + 1 = m
  BY <1>2
<1>4. m - 1 \in P
  BY <1>1, <1>2, <1>3
<1> QED
  BY <1>1, <1>3, <1>4

\* A bounded set of numbers that is not empty has a greatest one.
LEMMA MaxOf ==
  ASSUME NEW n \in Nat, NEW S \in SUBSET (1 .. n), S # {}
  PROVE  Max(S) \in S /\ \A x \in S : x =< Max(S)
<1> DEFINE T == {k \in Nat : \A x \in S : x =< k}
<1>1. n \in T
  OBVIOUS
<1>2. PICK m \in T : \A k \in T : m =< k
  <2> HIDE DEF T
  <2>1. T \in SUBSET Nat /\ T # {}
    BY <1>1 DEF T
  <2> QED
    BY <2>1, LeastNumber
<1>3. m \in S
  <2> SUFFICES ASSUME m \notin S PROVE FALSE
    OBVIOUS
  <2>1. m \in Nat
    OBVIOUS
  <2>2. \A x \in S : x \in Nat /\ x =< m /\ x # m
    BY <1>2
  <2>3. PICK z \in S : TRUE
    OBVIOUS
  <2>4. m > 0
    BY <2>1, <2>2, <2>3
  <2>5. m - 1 \in T
    BY <2>1, <2>2, <2>4
  <2> HIDE DEF T
  <2> QED
    BY <1>2, <2>1, <2>5
<1>4. \E x \in S : \A y \in S : x >= y
  BY <1>2, <1>3
<1>5. Max(S) \in S /\ \A y \in S : Max(S) >= y
  BY <1>4 DEF Max
<1> QED
  BY <1>5

-----------------------------------------------------------------------------
(* Sums over sets, as MapThenSumSet computes them: by taking one element   *)
(* after the other, whichever CHOOSE picks.                                *)

\* it is the recursive function behind the sum of g over S.
SumsUp(g, S, it) ==
    it = [s \in SUBSET S |-> IF s = {} THEN 0 ELSE LET x == CHOOSE x \in s : TRUE IN g[x] + it[s \ {x}]]

Total(g, S) == LET it == CHOOSE it : SumsUp(g, S, it) IN it[S]

\* The element CHOOSE picks, and what is left of the set.
First(s) == CHOOSE x \in s : TRUE

Rest(s) == s \ {First(s)}

\* Taking an element out of a finite set.
LEMMA Smaller ==
  ASSUME NEW S, IsFiniteSet(S), NEW s \in SUBSET S, NEW x \in s
  PROVE  /\ s \ {x} \in SUBSET S /\ Cardinality(s) \in Nat /\ Cardinality(s \ {x}) \in Nat
         /\ Cardinality(s \ {x}) = Cardinality(s) - 1
<1>1. IsFiniteSet(s)
  BY FS_Subset
<1>2. IsFiniteSet(s \ {x}) /\ Cardinality(s \ {x}) = Cardinality(s) - 1
  BY <1>1, FS_RemoveElement
<1> QED
  BY <1>1, <1>2, FS_CardinalityType

\* A set of no elements is empty, and others have a first.
LEMMA FirstIn ==
  ASSUME NEW S, IsFiniteSet(S), NEW s \in SUBSET S
  PROVE  /\ Cardinality(s) \in Nat /\ (Cardinality(s) = 0 <=> s = {})
         /\ s # {} => First(s) \in s
<1>1. IsFiniteSet(s)
  BY FS_Subset
<1>2. Cardinality(s) \in Nat /\ (Cardinality(s) = 0 <=> s = {})
  BY <1>1, FS_CardinalityType, FS_EmptySet
<1>3. s # {} => First(s) \in s
  BY DEF First
<1> QED
  BY <1>2, <1>3

\* There is such a function for every finite set.
LEMMA SumExists ==
  ASSUME NEW S, IsFiniteSet(S), NEW g
  PROVE  \E it : SumsUp(g, S, it)
<1> DEFINE Step(f, s) == IF s = {} THEN 0 ELSE g[First(s)] + f[Rest(s)]
           UpTo(n, f) == \A s \in SUBSET S : Cardinality(s) =< n => f[s] = Step(f, s)
           P == {n \in Nat : \E f : UpTo(n, f)}
<1>1. 0 \in P
  <2> DEFINE f == [s \in SUBSET S |-> 0]
  <2>1. ASSUME NEW s \in SUBSET S, Cardinality(s) =< 0 PROVE f[s] = Step(f, s)
    <3>1. s = {}
      BY <2>1, FirstIn
    <3> QED
      BY <3>1
  <2>2. UpTo(0, f)
    BY <2>1
  <2> QED
    BY <2>2
<1>2. ASSUME NEW n \in Nat, n \in P PROVE n + 1 \in P
  <2>1. PICK f : UpTo(n, f)
    BY <1>2
  <2> DEFINE h == [s \in SUBSET S |-> Step(f, s)]
  <2>2. \A s \in SUBSET S : h[s] = Step(f, s)
    OBVIOUS
  <2> HIDE DEF h
  <2>3. ASSUME NEW s \in SUBSET S, Cardinality(s) =< n + 1 PROVE h[s] = Step(h, s)
    <3>1. CASE s = {}
      BY <2>2, <3>1
    <3>2. CASE s # {}
      <4>1. First(s) \in s
        BY <3>2, FirstIn
      <4>2. Rest(s) \in SUBSET S /\ Cardinality(Rest(s)) =< n
        BY <2>3, <4>1, Smaller DEF Rest
      <4>3. h[Rest(s)] = f[Rest(s)]
        BY <2>1, <2>2, <4>2
      <4> QED
        BY <2>2, <3>2, <4>3
    <3> QED
      BY <3>1, <3>2
  <2>4. UpTo(n + 1, h)
    BY <2>3
  <2> QED
    BY <2>4
<1>3. P = Nat
  <2>1. P \in SUBSET Nat
    OBVIOUS
  <2> HIDE DEF P
  <2> QED
    BY <1>1, <1>2, <2>1, AllNumbers
<1>4. Cardinality(S) \in Nat
  BY FS_CardinalityType
<1>5. PICK f : UpTo(Cardinality(S), f)
  BY <1>3, <1>4
<1>6. \A s \in SUBSET S : f[s] = Step(f, s)
  <2>1. ASSUME NEW s \in SUBSET S PROVE Cardinality(s) =< Cardinality(S)
    BY FS_Subset
  <2> QED
    BY <1>5, <2>1
<1> DEFINE it == [s \in SUBSET S |-> f[s]]
<1>7. ASSUME NEW s \in SUBSET S PROVE it[s] = Step(it, s)
  <2>1. Rest(s) \in SUBSET S
    BY DEF Rest
  <2> QED
    BY <1>6, <2>1
<1>8. it = [s \in SUBSET S |-> it[s]]
  OBVIOUS
<1> HIDE DEF it
<1>9. it = [s \in SUBSET S |-> Step(it, s)]
  BY <1>7, <1>8
<1>10. SumsUp(g, S, it)
  BY <1>9 DEF SumsUp, First, Rest
<1> QED
  BY <1>10

\* What the function is at each set.
LEMMA SumIs ==
  ASSUME NEW S, NEW g, NEW it, SumsUp(g, S, it), NEW s \in SUBSET S
  PROVE  it[s] = IF s = {} THEN 0 ELSE g[First(s)] + it[Rest(s)]
BY DEF SumsUp, First, Rest

\* The order does not matter: any element may be taken out first.
LEMMA SumAnyOrder ==
  ASSUME NEW S, IsFiniteSet(S), NEW g, \A x \in S : g[x] \in Int, NEW it, SumsUp(g, S, it)
  PROVE  \A s \in SUBSET S : it[s] \in Int /\ \A x \in s : it[s] = g[x] + it[s \ {x}]
<1> DEFINE Good(s) == it[s] \in Int /\ \A x \in s : it[s] = g[x] + it[s \ {x}]
           P == {n \in Nat : \A s \in SUBSET S : Cardinality(s) =< n => Good(s)}
<1>1. 0 \in P
  <2> SUFFICES ASSUME NEW s \in SUBSET S, Cardinality(s) =< 0 PROVE Good(s)
    OBVIOUS
  <2>1. s = {}
    BY FirstIn
  <2>2. it[s] = 0
    BY <2>1, SumIs
  <2> QED
    BY <2>1, <2>2
<1>2. ASSUME NEW n \in Nat, n \in P PROVE n + 1 \in P
  <2> SUFFICES ASSUME NEW s \in SUBSET S, Cardinality(s) =< n + 1 PROVE Good(s)
    OBVIOUS
  <2>1. \A t \in SUBSET S : Cardinality(t) =< n => Good(t)
    BY <1>2
  <2>2. CASE s = {}
    BY <2>2, SumIs
  <2>3. CASE s # {}
    <3>1. PICK y : y = First(s)
      OBVIOUS
    <3>2. y \in s /\ y \in S /\ g[y] \in Int
      BY <2>3, <3>1, FirstIn
    <3>3. it[s] = g[y] + it[s \ {y}]
      BY <2>3, <3>1, SumIs DEF Rest
    <3>4. Good(s \ {y})
      <4>1. s \ {y} \in SUBSET S /\ Cardinality(s \ {y}) =< n
        BY <3>2, Smaller
      <4> QED
        BY <2>1, <4>1
    <3>5. it[s] \in Int
      BY <3>2, <3>3, <3>4
    <3>6. ASSUME NEW x \in s, x # y PROVE it[s] = g[x] + it[s \ {x}]
      <4>1. s \ {x} \in SUBSET S /\ Cardinality(s \ {x}) =< n
        BY Smaller
      <4>2. Good(s \ {x})
        BY <2>1, <4>1
      <4>3. y \in s \ {x} /\ x \in s \ {y} /\ (s \ {x}) \ {y} = (s \ {y}) \ {x}
        BY <3>2, <3>6
      <4>4. PICK w : w = it[(s \ {x}) \ {y}]
        OBVIOUS
      <4>5. it[s \ {y}] = g[x] + w
        BY <3>4, <4>3, <4>4
      <4>6. it[s \ {x}] = g[y] + w
        BY <4>2, <4>3, <4>4
      <4>7. g[x] \in Int /\ g[y] \in Int
        BY <3>2
      <4>8. w \in Int
        <5>1. (s \ {x}) \ {y} \in SUBSET S /\ Cardinality((s \ {x}) \ {y}) =< n
          BY <4>1, <4>3, Smaller
        <5> QED
          BY <2>1, <4>4, <5>1
      <4> QED
        BY <3>3, <4>5, <4>6, <4>7, <4>8
    <3> QED
      BY <3>3, <3>5, <3>6
  <2> QED
    BY <2>2, <2>3
<1>3. P = Nat
  <2>1. P \in SUBSET Nat
    OBVIOUS
  <2> HIDE DEF P
  <2> QED
    BY <1>1, <1>2, <2>1, AllNumbers
<1>4. ASSUME NEW s \in SUBSET S PROVE Good(s)
  <2>1. Cardinality(s) \in Nat
    BY FirstIn
  <2> QED
    BY <1>3, <2>1
<1> QED
  BY <1>4

\* Sums of the same numbers are the same, whatever else there is to add.
LEMMA SumsAgree ==
  ASSUME NEW S, NEW T, NEW g, NEW h, NEW it, NEW jt, SumsUp(g, S, it), SumsUp(h, T, jt),
         NEW D, IsFiniteSet(D), D \subseteq S, D \subseteq T, \A x \in D : g[x] = h[x]
  PROVE  it[D] = jt[D]
<1> DEFINE P == {n \in Nat : \A s \in SUBSET D : Cardinality(s) =< n => it[s] = jt[s]}
<1>0. \A s \in SUBSET D : s \in SUBSET S /\ s \in SUBSET T
  OBVIOUS
<1>1. 0 \in P
  <2> SUFFICES ASSUME NEW s \in SUBSET D, Cardinality(s) =< 0 PROVE it[s] = jt[s]
    OBVIOUS
  <2>1. s = {}
    BY FirstIn
  <2> QED
    BY <1>0, <2>1, SumIs
<1>2. ASSUME NEW n \in Nat, n \in P PROVE n + 1 \in P
  <2> SUFFICES ASSUME NEW s \in SUBSET D, Cardinality(s) =< n + 1 PROVE it[s] = jt[s]
    OBVIOUS
  <2>1. CASE s = {}
    BY <1>0, <2>1, SumIs
  <2>2. CASE s # {}
    <3>1. First(s) \in s
      BY <2>2, FirstIn
    <3>2. Rest(s) \in SUBSET D /\ Cardinality(Rest(s)) =< n
      BY <3>1, Smaller DEF Rest
    <3>3. it[Rest(s)] = jt[Rest(s)]
      BY <1>2, <3>2
    <3>4. g[First(s)] = h[First(s)]
      BY <3>1
    <3>5. it[s] = g[First(s)] + it[Rest(s)] /\ jt[s] = h[First(s)] + jt[Rest(s)]
      BY <1>0, <2>2, SumIs
    <3> QED
      BY <3>3, <3>4, <3>5
  <2> QED
    BY <2>1, <2>2
<1>3. P = Nat
  <2>1. P \in SUBSET Nat
    OBVIOUS
  <2> HIDE DEF P
  <2> QED
    BY <1>1, <1>2, <2>1, AllNumbers
<1>4. D \in SUBSET D /\ Cardinality(D) \in Nat
  BY FS_CardinalityType
<1> QED
  BY <1>3, <1>4

\* The function a sum is computed with.
LEMMA TotalIs ==
  ASSUME NEW S, IsFiniteSet(S), NEW g
  PROVE  \E it : SumsUp(g, S, it) /\ Total(g, S) = it[S]
BY SumExists DEF Total

\* A sum depends on the numbers it adds.
LEMMA TotalSame ==
  ASSUME NEW S, IsFiniteSet(S), NEW g, NEW h, \A x \in S : g[x] = h[x]
  PROVE  Total(g, S) = Total(h, S)
<1>1. PICK it : SumsUp(g, S, it) /\ Total(g, S) = it[S]
  BY TotalIs
<1>2. PICK jt : SumsUp(h, S, jt) /\ Total(h, S) = jt[S]
  BY TotalIs
<1> QED
  BY <1>1, <1>2, SumsAgree

\* A sum with nothing to add, and one with a number more.
LEMMA TotalAdds ==
  ASSUME NEW S, IsFiniteSet(S), NEW x, x \notin S, NEW g, \A y \in S \cup {x} : g[y] \in Int
  PROVE  /\ Total(g, {}) = 0 /\ Total(g, S) \in Int
         /\ Total(g, S \cup {x}) = Total(g, S) + g[x]
<1>1. PICK it : SumsUp(g, S, it) /\ Total(g, S) = it[S]
  BY TotalIs
<1>2. PICK T : T = S \cup {x}
  OBVIOUS
<1>3. IsFiniteSet(T) /\ IsFiniteSet({})
  BY <1>2, FS_AddElement, FS_EmptySet
<1>4. PICK jt : SumsUp(g, T, jt) /\ Total(g, T) = jt[T]
  BY <1>3, TotalIs
<1>5. PICK kt : SumsUp(g, {}, kt) /\ Total(g, {}) = kt[{}]
  BY <1>3, TotalIs
<1>6. kt[{}] = 0
  BY <1>5, SumIs
<1>7. it[S] \in Int
  BY <1>1, SumAnyOrder
<1>8. jt[T] = g[x] + jt[T \ {x}]
  <2>1. x \in T /\ T \in SUBSET T /\ \A y \in T : g[y] \in Int
    BY <1>2
  <2> QED
    BY <1>3, <1>4, <2>1, SumAnyOrder
<1>9. T \ {x} = S
  BY <1>2
<1>10. jt[S] = it[S]
  BY <1>1, <1>2, <1>4, SumsAgree
<1>11. Total(g, T) = g[x] + Total(g, S)
  BY <1>1, <1>4, <1>8, <1>9, <1>10
<1>12. g[x] \in Int /\ Total(g, S) \in Int
  BY <1>1, <1>7
<1> QED
  BY <1>2, <1>5, <1>6, <1>11, <1>12

\* The sum over two sets that have nothing in common.
LEMMA TotalUnion ==
  ASSUME NEW A, IsFiniteSet(A), NEW B, IsFiniteSet(B), A \cap B = {},
         NEW g, \A y \in A \cup B : g[y] \in Int
  PROVE  Total(g, A \cup B) = Total(g, A) + Total(g, B)
<1> DEFINE Fine(s) == Total(g, A \cup s) = Total(g, A) + Total(g, s)
           P == {n \in Nat : \A s \in SUBSET B : Cardinality(s) =< n => Fine(s)}
<1>0. Total(g, {}) = 0 /\ \A s \in SUBSET (A \cup B) : Total(g, s) \in Int
  <2>1. ASSUME NEW s \in SUBSET (A \cup B) PROVE Total(g, {}) = 0 /\ Total(g, s) \in Int
    <3>1. IsFiniteSet(s)
      BY FS_Union, FS_Subset
    <3>2. PICK it : SumsUp(g, s, it) /\ Total(g, s) = it[s]
      BY <3>1, TotalIs
    <3>3. it[s] \in Int
      BY <3>1, <3>2, SumAnyOrder
    <3>4. PICK kt : SumsUp(g, {}, kt) /\ Total(g, {}) = kt[{}]
      BY FS_EmptySet, TotalIs
    <3>5. kt[{}] = 0
      BY <3>4, SumIs
    <3> QED
      BY <3>2, <3>3, <3>4, <3>5
  <2>2. {} \in SUBSET (A \cup B)
    OBVIOUS
  <2> QED
    BY <2>1, <2>2
<1>1. 0 \in P
  <2> SUFFICES ASSUME NEW s \in SUBSET B, Cardinality(s) =< 0 PROVE Fine(s)
    OBVIOUS
  <2>1. s = {} /\ A \cup s = A
    BY FirstIn
  <2>2. Total(g, A) \in Int
    BY <1>0
  <2> QED
    BY <1>0, <2>1, <2>2
<1>2. ASSUME NEW n \in Nat, n \in P PROVE n + 1 \in P
  <2> SUFFICES ASSUME NEW s \in SUBSET B, Cardinality(s) =< n + 1, s # {} PROVE Fine(s)
    <3>1. ASSUME NEW s \in SUBSET B, s = {} PROVE Fine(s)
      <4>1. A \cup s = A /\ Total(g, A) \in Int
        BY <1>0, <3>1
      <4> QED
        BY <1>0, <3>1, <4>1
    <3> QED
      BY <3>1
  <2>1. PICK x : x \in s
    OBVIOUS
  <2>2. PICK t : t = s \ {x}
    OBVIOUS
  <2>3. /\ t \in SUBSET B /\ Cardinality(t) =< n
        /\ x \notin t /\ s = t \cup {x} /\ x \notin A \cup t /\ A \cup s = (A \cup t) \cup {x}
    BY <2>1, <2>2, Smaller
  <2>4. Fine(t)
    BY <1>2, <2>3
  <2>5. IsFiniteSet(t) /\ IsFiniteSet(A \cup t)
    BY <2>3, FS_Subset, FS_Union
  <2>6. \A y \in s : g[y] \in Int
    OBVIOUS
  <2>7. Total(g, t \cup {x}) = Total(g, t) + g[x]
    <3>1. \A y \in t \cup {x} : g[y] \in Int
      BY <2>3, <2>6
    <3> QED
      BY <2>3, <2>5, <3>1, TotalAdds
  <2>8. Total(g, (A \cup t) \cup {x}) = Total(g, A \cup t) + g[x]
    <3>1. \A y \in (A \cup t) \cup {x} : g[y] \in Int
      BY <2>3
    <3> QED
      BY <2>3, <2>5, <3>1, TotalAdds
  <2>9. Total(g, A) \in Int /\ Total(g, t) \in Int /\ g[x] \in Int
    BY <1>0, <2>1, <2>3, <2>6
  <2>10. Total(g, s) = Total(g, t) + g[x]
    BY <2>3, <2>7
  <2>11. Total(g, A \cup s) = Total(g, A \cup t) + g[x]
    BY <2>3, <2>8
  <2> QED
    BY <2>4, <2>9, <2>10, <2>11
<1>3. P = Nat
  <2>1. P \in SUBSET Nat
    OBVIOUS
  <2> HIDE DEF P
  <2> QED
    BY <1>1, <1>2, <2>1, AllNumbers
<1>4. B \in SUBSET B /\ Cardinality(B) \in Nat
  BY FS_CardinalityType
<1> QED
  BY <1>3, <1>4

-----------------------------------------------------------------------------
(* Sums of numbers that hang together.                                     *)

\* A set of subsets that has the empty one, and with every subset those with
\* one element more, has the whole set.
LEMMA AllSubsets ==
  ASSUME NEW S, IsFiniteSet(S), NEW P \in SUBSET SUBSET S, {} \in P,
         \A s \in SUBSET S, x \in S : x \notin s /\ s \in P => s \cup {x} \in P
  PROVE  S \in P
<1> DEFINE N == {n \in Nat : \A s \in SUBSET S : Cardinality(s) =< n => s \in P}
<1>1. 0 \in N
  <2> SUFFICES ASSUME NEW s \in SUBSET S, Cardinality(s) =< 0 PROVE s \in P
    OBVIOUS
  <2>1. s = {}
    BY FirstIn
  <2> QED
    BY <2>1
<1>2. ASSUME NEW n \in Nat, n \in N PROVE n + 1 \in N
  <2> SUFFICES ASSUME NEW s \in SUBSET S, Cardinality(s) =< n + 1 PROVE s \in P
    OBVIOUS
  <2> SUFFICES ASSUME s # {} PROVE s \in P
    OBVIOUS
  <2>1. First(s) \in s
    BY FirstIn
  <2>2. Rest(s) \in SUBSET S /\ Cardinality(Rest(s)) =< n
    BY <2>1, Smaller DEF Rest
  <2>3. Rest(s) \in P
    BY <1>2, <2>2
  <2>4. First(s) \notin Rest(s) /\ Rest(s) \cup {First(s)} = s
    BY <2>1 DEF Rest
  <2> QED
    BY <2>1, <2>2, <2>3, <2>4
<1>3. N = Nat
  <2>1. N \in SUBSET Nat
    OBVIOUS
  <2> HIDE DEF N
  <2> QED
    BY <1>1, <1>2, <2>1, AllNumbers
<1>4. S \in SUBSET S /\ Cardinality(S) \in Nat
  BY FS_CardinalityType
<1> QED
  BY <1>3, <1>4

\* A sum over a part of the numbers, and over one of them more.
LEMMA TotalSteps ==
  ASSUME NEW S, IsFiniteSet(S), NEW g, \A x \in S : g[x] \in Int
  PROVE  /\ Total(g, {}) = 0
         /\ \A s \in SUBSET S : /\ Total(g, s) \in Int
                                /\ \A x \in S : x \notin s => Total(g, s \cup {x}) = Total(g, s) + g[x]
<1>1. Total(g, {}) = 0
  <2>1. PICK it : SumsUp(g, {}, it) /\ Total(g, {}) = it[{}]
    BY FS_EmptySet, TotalIs
  <2> QED
    BY <2>1, SumIs
<1>2. ASSUME NEW s \in SUBSET S
      PROVE  /\ Total(g, s) \in Int
             /\ \A x \in S : x \notin s => Total(g, s \cup {x}) = Total(g, s) + g[x]
  <2>1. IsFiniteSet(s)
    BY FS_Subset
  <2>2. PICK it : SumsUp(g, s, it) /\ Total(g, s) = it[s]
    BY <2>1, TotalIs
  <2>3. it[s] \in Int
    BY <2>1, <2>2, SumAnyOrder
  <2>4. ASSUME NEW x \in S, x \notin s PROVE Total(g, s \cup {x}) = Total(g, s) + g[x]
    BY <2>1, <2>4, TotalAdds
  <2> QED
    BY <2>2, <2>3, <2>4
<1> QED
  BY <1>1, <1>2

\* The sum of differences is the difference of the sums.
LEMMA TotalMinus ==
  ASSUME NEW S, IsFiniteSet(S), NEW g, NEW h, NEW d,
         \A x \in S : g[x] \in Int /\ h[x] \in Int /\ d[x] = g[x] - h[x]
  PROVE  Total(d, S) = Total(g, S) - Total(h, S)
<1> DEFINE P == {s \in SUBSET S : Total(d, s) = Total(g, s) - Total(h, s)}
<1>0. \A x \in S : d[x] \in Int
  OBVIOUS
<1>1. {} \in P
  BY <1>0, TotalSteps
<1>2. ASSUME NEW s \in SUBSET S, NEW x \in S, x \notin s, s \in P PROVE s \cup {x} \in P
  <2>1. /\ Total(d, s \cup {x}) = Total(d, s) + d[x]
        /\ Total(g, s \cup {x}) = Total(g, s) + g[x]
        /\ Total(h, s \cup {x}) = Total(h, s) + h[x]
    BY <1>0, <1>2, TotalSteps
  <2>2. Total(d, s) \in Int /\ Total(g, s) \in Int /\ Total(h, s) \in Int
    BY <1>0, TotalSteps
  <2>3. d[x] = g[x] - h[x] /\ g[x] \in Int /\ h[x] \in Int /\ d[x] \in Int
    BY <1>0
  <2>4. Total(d, s) = Total(g, s) - Total(h, s)
    BY <1>2
  <2>5. Total(d, s \cup {x}) = Total(g, s \cup {x}) - Total(h, s \cup {x})
    BY <2>1, <2>2, <2>3, <2>4
  <2> QED
    BY <2>5
<1>3. P \in SUBSET SUBSET S
  OBVIOUS
<1>4. S \in P
  <2> HIDE DEF P
  <2> QED
    BY <1>1, <1>2, <1>3, AllSubsets
<1> QED
  BY <1>4

\* The sum of what is taken off is what is taken off.
LEMMA TotalNegated ==
  ASSUME NEW S, IsFiniteSet(S), NEW g, NEW d, \A x \in S : g[x] \in Int /\ d[x] = -g[x]
  PROVE  Total(d, S) = -Total(g, S)
<1>1. PICK zero : zero = [x \in S |-> 0]
  OBVIOUS
<1>2. \A x \in S : zero[x] = g[x] - g[x] /\ zero[x] \in Int /\ d[x] = zero[x] - g[x]
  BY <1>1
<1>3. Total(zero, S) = Total(g, S) - Total(g, S)
  BY <1>2, TotalMinus
<1>4. Total(d, S) = Total(zero, S) - Total(g, S)
  BY <1>2, TotalMinus
<1>5. Total(g, S) \in Int
  BY TotalSteps
<1> QED
  BY <1>3, <1>4, <1>5

\* Numbers that are not negative add up to one that is not.
LEMMA TotalNat ==
  ASSUME NEW S, IsFiniteSet(S), NEW g, \A x \in S : g[x] \in Nat
  PROVE  Total(g, S) \in Nat
<1> DEFINE P == {s \in SUBSET S : Total(g, s) \in Nat}
<1>0. \A x \in S : g[x] \in Int
  OBVIOUS
<1>1. {} \in P
  BY <1>0, TotalSteps
<1>2. ASSUME NEW s \in SUBSET S, NEW x \in S, x \notin s, s \in P PROVE s \cup {x} \in P
  <2>1. Total(g, s \cup {x}) = Total(g, s) + g[x]
    BY <1>0, <1>2, TotalSteps
  <2>2. Total(g, s) \in Nat /\ g[x] \in Nat
    BY <1>2
  <2>3. Total(g, s \cup {x}) \in Nat
    BY <2>1, <2>2
  <2> QED
    BY <2>3
<1>3. P \in SUBSET SUBSET S
  OBVIOUS
<1>4. S \in P
  <2> HIDE DEF P
  <2> QED
    BY <1>1, <1>2, <1>3, AllSubsets
<1> QED
  BY <1>4

\* h is the numbers of g gathered by group: one of C for each of S.
Grouped(g, S, h, C, group) ==
  /\ IsFiniteSet(S) /\ \A x \in S : g[x] \in Int
  /\ IsFiniteSet(C) /\ \A x \in S : group[x] \in C
  /\ \A c \in C : h[c] = Total(g, {x \in S : group[x] = c})

\* Numbers may be added group by group.
LEMMA TotalGrouped ==
  ASSUME NEW g, NEW S, NEW h, NEW C, NEW group, Grouped(g, S, h, C, group)
  PROVE  Total(h, C) = Total(g, S)
<1> USE DEF Grouped
<1> DEFINE In(D) == {x \in S : group[x] \in D}
           P == {D \in SUBSET C : Total(h, D) = Total(g, In(D))}
<1>0. \A c \in C : h[c] \in Int
  <2> SUFFICES ASSUME NEW c \in C PROVE h[c] \in Int
    OBVIOUS
  <2>1. PICK B \in SUBSET S : B = {x \in S : group[x] = c}
    OBVIOUS
  <2>2. Total(g, B) \in Int
    BY TotalSteps
  <2> QED
    BY <2>1, <2>2
<1>1. {} \in P
  <2>1. In({}) = {}
    OBVIOUS
  <2>2. Total(h, {}) = 0 /\ Total(g, {}) = 0
    BY <1>0, TotalSteps
  <2> QED
    BY <2>1, <2>2
<1>2. ASSUME NEW D \in SUBSET C, NEW c \in C, c \notin D, D \in P PROVE D \cup {c} \in P
  <2>1. PICK A : A = In(D)
    OBVIOUS
  <2>2. PICK B : B = {x \in S : group[x] = c}
    OBVIOUS
  <2>3. In(D \cup {c}) = A \cup B /\ A \cap B = {} /\ A \in SUBSET S /\ B \in SUBSET S
    BY <1>2, <2>1, <2>2
  <2>4. IsFiniteSet(A) /\ IsFiniteSet(B)
    BY <2>3, FS_Subset
  <2>5. \A y \in A \cup B : g[y] \in Int
    BY <2>3
  <2>6. Total(g, A \cup B) = Total(g, A) + Total(g, B)
    BY <2>3, <2>4, <2>5, TotalUnion
  <2>7. Total(h, D \cup {c}) = Total(h, D) + h[c]
    BY <1>0, <1>2, TotalSteps
  <2>8. Total(h, D) = Total(g, A) /\ h[c] = Total(g, B)
    BY <1>2, <2>1, <2>2
  <2>9. Total(h, D \cup {c}) = Total(g, In(D \cup {c}))
    BY <2>3, <2>6, <2>7, <2>8
  <2> QED
    BY <2>9
<1>3. P \in SUBSET SUBSET C
  OBVIOUS
<1>4. C \in P
  <2> HIDE DEF P
  <2> QED
    BY <1>1, <1>2, <1>3, AllSubsets
<1>5. In(C) = S
  OBVIOUS
<1> QED
  BY <1>4, <1>5

\* SumFunction of the library is such a sum.
LEMMA SumFunctionIs ==
  ASSUME NEW g
  PROVE  SumFunction(g) = Total(g, DOMAIN g)
BY DEF SumFunction, SumFunctionOnSet, FoldFunctionOnSet, MapThenFoldSet, Total, SumsUp
=============================================================================
