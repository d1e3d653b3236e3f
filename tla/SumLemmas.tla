----------------------------- MODULE SumLemmas -----------------------------
(***************************************************************************)
(* Sums over finite sets and sequences, for every finite set: the costs of *)
(* the traces of a run, of the records of an evaluation and of the calls   *)
(* of a provider.  The sums of the community modules are recursive         *)
(* functions on the subsets of a finite set; induction on them is the      *)
(* principle of the minimal counterexample.                                *)
(***************************************************************************)
EXTENDS FiniteSetsExt, SequencesExt, FiniteSetTheorems, TLAPS

\* The element that a sum takes next.
NextOf(s) == CHOOSE x \in s : TRUE

\* The sum of the values of v over S.
SumOver(v, S) == MapThenSumSet(LAMBDA i : v[i], S)

\* g is the function that the definition of SumOver(v, S) recurs on.
Sums(v, S, g) ==
    g = [s \in SUBSET S |->
            IF s = {} THEN 0
            ELSE v[CHOOSE x \in s : TRUE] + g[s \ {CHOOSE x \in s : TRUE}]]

-----------------------------------------------------------------------------
\* Induction over the subsets of a finite set: a nonempty set of them has a
\* minimal member.
LEMMA MinimalSubset ==
    ASSUME NEW S, IsFiniteSet(S), NEW X, X \subseteq SUBSET S, X # {}
    PROVE  \E T \in X : \A U \in X : U \subseteq T => U = T
  <1>1. IsWellFoundedOn(StrictSubsetOrdering(S), FiniteSubsetsOf(S))
    BY FS_StrictSubsetOrderingWellFounded
  <1>2. X \subseteq FiniteSubsetsOf(S)
    BY FS_Subset DEF FiniteSubsetsOf
  <1>3. PICK T \in X : \A U \in X : ~(<<U, T>> \in StrictSubsetOrdering(S))
    BY <1>1, <1>2, WFMin
  <1> QED
    BY <1>3 DEF StrictSubsetOrdering

\* What the recursion says of one set.
LEMMA SumsStep ==
    ASSUME NEW v, NEW S, NEW g, Sums(v, S, g)
    PROVE  /\ g[{}] = 0
           /\ \A s \in SUBSET S : s # {} =>
                 NextOf(s) \in s /\ g[s] = v[NextOf(s)] + g[s \ {NextOf(s)}]
  <1>1. g[{}] = 0
    BY DEF Sums
  <1>2. ASSUME NEW s \in SUBSET S, s # {}
        PROVE  NextOf(s) \in s /\ g[s] = v[NextOf(s)] + g[s \ {NextOf(s)}]
    BY <1>2 DEF Sums, NextOf
  <1> QED
    BY <1>1, <1>2

\* Two recursions agree where both are defined.
LEMMA SumsAgree ==
    ASSUME NEW v, NEW S, IsFiniteSet(S), NEW g, Sums(v, S, g), NEW T, NEW h, Sums(v, T, h),
           NEW u, u \subseteq S, u \subseteq T
    PROVE  g[u] = h[u]
  <1> DEFINE X == {s \in SUBSET S : s \subseteq T /\ g[s] # h[s]}
  <1> SUFFICES ASSUME X # {} PROVE FALSE
    OBVIOUS
  <1>1. PICK s \in X : \A r \in X : r \subseteq s => r = s
    <2>1. X \subseteq SUBSET S
      OBVIOUS
    <2> HIDE DEF X
    <2> QED
      BY <2>1, MinimalSubset
  <1>2. s # {}
    BY <1>1, SumsStep
  <1>3. /\ NextOf(s) \in s
        /\ g[s] = v[NextOf(s)] + g[s \ {NextOf(s)}]
        /\ h[s] = v[NextOf(s)] + h[s \ {NextOf(s)}]
    BY <1>1, <1>2, SumsStep
  <1>4. g[s \ {NextOf(s)}] = h[s \ {NextOf(s)}]
    BY <1>1, <1>3
  <1> QED
    BY <1>1, <1>3, <1>4

\* There is such a recursion on every finite set.
LEMMA SumsExist ==
    ASSUME NEW v, NEW S, IsFiniteSet(S)
    PROVE  \E g : Sums(v, S, g)
  <1> DEFINE X == {s \in SUBSET S : ~ \E g : Sums(v, s, g)}
  <1> SUFFICES ASSUME X # {} PROVE FALSE
    OBVIOUS
  <1>1. PICK T \in X : \A r \in X : r \subseteq T => r = T
    <2>1. X \subseteq SUBSET S
      OBVIOUS
    <2> HIDE DEF X
    <2> QED
      BY <2>1, MinimalSubset
  <1> DEFINE G(s) == CHOOSE g : Sums(v, s, g)
             h == [s \in SUBSET T |->
                      IF s = {} THEN 0 ELSE v[NextOf(s)] + G(s \ {NextOf(s)})[s \ {NextOf(s)}]]
  <1>2. \A s \in SUBSET T : s # T => Sums(v, s, G(s)) /\ IsFiniteSet(s)
    BY <1>1, FS_Subset
  <1>3. \A s \in SUBSET T : s # {} => NextOf(s) \in s
    BY DEF NextOf
  <1>4. ASSUME NEW s \in SUBSET T, s # T
        PROVE  h[s] = G(s)[s]
    <2>0. Sums(v, s, G(s)) /\ IsFiniteSet(s)
      BY <1>2, <1>4
    <2> HIDE DEF G
    <2>1. CASE s = {}
      BY <2>0, <2>1, SumsStep
    <2>2. CASE s # {}
      <3> DEFINE r == s \ {NextOf(s)}
      <3>1. r \in SUBSET T /\ r # T /\ r \subseteq s
        BY <1>3, <1>4, <2>2
      <3>2. Sums(v, r, G(r)) /\ IsFiniteSet(r)
        BY <1>2, <3>1
      <3>3. G(s)[s] = v[NextOf(s)] + G(s)[r]
        BY <2>0, <2>2, SumsStep
      <3>4. G(s)[r] = G(r)[r]
        BY <2>0, <3>1, <3>2, SumsAgree
      <3> QED
        BY <2>2, <3>3, <3>4
    <2> QED
      BY <2>1, <2>2
  <1>5. \A s \in SUBSET T : s # {} => h[s] = v[NextOf(s)] + h[s \ {NextOf(s)}]
    <2> TAKE s \in SUBSET T
    <2> HAVE s # {}
    <2> HIDE DEF G
    <2>1. s \ {NextOf(s)} \in SUBSET T /\ s \ {NextOf(s)} # T
      BY <1>3
    <2>2. h[s \ {NextOf(s)}] = G(s \ {NextOf(s)})[s \ {NextOf(s)}]
      BY <1>4, <2>1
    <2> QED
      BY <2>2
  <1>6. h[{}] = 0
    OBVIOUS
  <1>7. h = [s \in SUBSET T |-> h[s]]
    OBVIOUS
  <1> HIDE DEF h
  <1>8. Sums(v, T, h)
    BY <1>5, <1>6, <1>7 DEF Sums, NextOf
  <1> QED
    BY <1>1, <1>8

\* The sum is the value of such a recursion, and so of each.
LEMMA SumUnfolds ==
    ASSUME NEW v, NEW S, NEW g, Sums(v, S, g)
    PROVE  \E h : Sums(v, S, h) /\ SumOver(v, S) = h[S]
  BY DEF Sums, SumOver, MapThenSumSet, MapThenFoldSet

LEMMA SumIsRecursion ==
    ASSUME NEW v, NEW S, IsFiniteSet(S), NEW g, NEW T, Sums(v, T, g), S \subseteq T
    PROVE  SumOver(v, S) = g[S]
  <1>1. PICK k : Sums(v, S, k)
    BY SumsExist
  <1>2. PICK h : Sums(v, S, h) /\ SumOver(v, S) = h[S]
    BY <1>1, SumUnfolds
  <1>3. h[S] = g[S]
    <2>1. Sums(v, S, h)
      BY <1>2
    <2>2. \A u : u \subseteq S /\ u \subseteq T => h[u] = g[u]
      BY <2>1, SumsAgree
    <2> QED
      BY <2>2
  <1> QED
    BY <1>2, <1>3

-----------------------------------------------------------------------------
\* The sum of nothing, and the sum as the chosen value and the sum of the rest.
LEMMA SumOfNone == \A v : SumOver(v, {}) = 0
  <1> TAKE v
  <1>1. IsFiniteSet({})
    BY FS_EmptySet
  <1>2. PICK g : Sums(v, {}, g)
    BY <1>1, SumsExist
  <1> QED
    BY <1>1, <1>2, SumIsRecursion, SumsStep

LEMMA SumOfChosen ==
    ASSUME NEW v, NEW S, IsFiniteSet(S), S # {}
    PROVE  /\ NextOf(S) \in S
           /\ SumOver(v, S) = v[NextOf(S)] + SumOver(v, S \ {NextOf(S)})
  <1>1. PICK g : Sums(v, S, g)
    BY SumsExist
  <1>2. IsFiniteSet(S \ {NextOf(S)})
    BY FS_Subset
  <1>3. SumOver(v, S) = g[S] /\ SumOver(v, S \ {NextOf(S)}) = g[S \ {NextOf(S)}]
    BY <1>1, <1>2, SumIsRecursion
  <1> QED
    BY <1>1, <1>3, SumsStep

\* Sums of natural numbers are natural numbers, and depend only on the values.
LEMMA SumIsNat ==
    ASSUME NEW v, NEW S, IsFiniteSet(S), \A i \in S : v[i] \in Nat
    PROVE  SumOver(v, S) \in Nat
  <1> DEFINE X == {s \in SUBSET S : SumOver(v, s) \notin Nat}
  <1> SUFFICES ASSUME X # {} PROVE FALSE
    OBVIOUS
  <1>1. PICK s \in X : \A r \in X : r \subseteq s => r = s
    <2>1. X \subseteq SUBSET S
      OBVIOUS
    <2> HIDE DEF X
    <2> QED
      BY <2>1, MinimalSubset
  <1>2. s # {} /\ IsFiniteSet(s)
    BY <1>1, SumOfNone, FS_Subset
  <1>3. /\ NextOf(s) \in s
        /\ SumOver(v, s) = v[NextOf(s)] + SumOver(v, s \ {NextOf(s)})
    BY <1>2, SumOfChosen
  <1>4. SumOver(v, s \ {NextOf(s)}) \in Nat
    BY <1>1, <1>3
  <1>5. v[NextOf(s)] \in Nat
    BY <1>1, <1>3
  <1> QED
    BY <1>1, <1>3, <1>4, <1>5

LEMMA SumsOfSame ==
    ASSUME NEW v, NEW w, NEW S, IsFiniteSet(S), \A i \in S : v[i] = w[i]
    PROVE  SumOver(v, S) = SumOver(w, S)
  <1> DEFINE X == {s \in SUBSET S : SumOver(v, s) # SumOver(w, s)}
  <1> SUFFICES ASSUME X # {} PROVE FALSE
    OBVIOUS
  <1>1. PICK s \in X : \A r \in X : r \subseteq s => r = s
    <2>1. X \subseteq SUBSET S
      OBVIOUS
    <2> HIDE DEF X
    <2> QED
      BY <2>1, MinimalSubset
  <1>2. s # {} /\ IsFiniteSet(s)
    BY <1>1, SumOfNone, FS_Subset
  <1>3. /\ NextOf(s) \in s
        /\ SumOver(v, s) = v[NextOf(s)] + SumOver(v, s \ {NextOf(s)})
        /\ SumOver(w, s) = w[NextOf(s)] + SumOver(w, s \ {NextOf(s)})
    BY <1>2, SumOfChosen
  <1>4. SumOver(v, s \ {NextOf(s)}) = SumOver(w, s \ {NextOf(s)})
    BY <1>1, <1>3
  <1>5. v[NextOf(s)] = w[NextOf(s)]
    BY <1>1, <1>3
  <1> QED
    BY <1>1, <1>3, <1>4, <1>5

\* Any value may be taken out of the sum, not only the chosen one.
LEMMA SumWithout ==
    ASSUME NEW v, NEW S, IsFiniteSet(S), \A i \in S : v[i] \in Nat, NEW a \in S
    PROVE  SumOver(v, S) = v[a] + SumOver(v, S \ {a})
  <1> DEFINE Holds(s) == \A x \in s : SumOver(v, s) = v[x] + SumOver(v, s \ {x})
             X == {s \in SUBSET S : ~Holds(s)}
  <1> SUFFICES ASSUME X # {} PROVE FALSE
    OBVIOUS
  <1>1. PICK s \in X : \A r \in X : r \subseteq s => r = s
    <2>1. X \subseteq SUBSET S
      OBVIOUS
    <2> HIDE DEF X
    <2> QED
      BY <2>1, MinimalSubset
  <1>2. PICK x \in s : SumOver(v, s) # v[x] + SumOver(v, s \ {x})
    BY <1>1
  <1> DEFINE c == NextOf(s)
             rest == (s \ {c}) \ {x}
  <1>3. IsFiniteSet(s) /\ IsFiniteSet(rest)
    BY <1>1, FS_Subset
  <1>4. c \in s /\ SumOver(v, s) = v[c] + SumOver(v, s \ {c})
    BY <1>2, <1>3, SumOfChosen
  <1>5. x # c
    BY <1>2, <1>4
  <1>6. Holds(s \ {c}) /\ Holds(s \ {x})
    BY <1>1, <1>2, <1>4
  <1>7. rest = (s \ {x}) \ {c}
    OBVIOUS
  <1>8. SumOver(v, s \ {c}) = v[x] + SumOver(v, rest)
    BY <1>2, <1>5, <1>6
  <1>9. SumOver(v, s \ {x}) = v[c] + SumOver(v, rest)
    BY <1>4, <1>5, <1>6, <1>7
  <1>10. v[x] \in Nat /\ v[c] \in Nat /\ SumOver(v, rest) \in Nat
    BY <1>1, <1>2, <1>3, <1>4, SumIsNat
  <1> HIDE DEF c, rest
  <1> QED
    BY <1>2, <1>4, <1>8, <1>9, <1>10

-----------------------------------------------------------------------------
(***************************************************************************)
(* Sums along a sequence.                                                  *)
(***************************************************************************)
\* A sequence of numbers with one more adds it to the sum.
LEMMA SumOfAppend ==
    ASSUME NEW n \in Nat, NEW v, NEW w,
           \A i \in 1..(n + 1) : w[i] \in Nat,
           \A i \in 1..n : v[i] = w[i]
    PROVE  /\ SumOver(w, 1..(n + 1)) = w[n + 1] + SumOver(v, 1..n)
           /\ SumOver(v, 1..n) \in Nat
  <1>1. IsFiniteSet(1..n) /\ IsFiniteSet(1..(n + 1))
    BY FS_Interval
  <1>2. (1..(n + 1)) \ {n + 1} = 1..n /\ n + 1 \in 1..(n + 1)
    OBVIOUS
  <1>3. SumOver(w, 1..(n + 1)) = w[n + 1] + SumOver(w, (1..(n + 1)) \ {n + 1})
    BY <1>1, <1>2, SumWithout
  <1>4. SumOver(v, 1..n) = SumOver(w, 1..n)
    BY <1>1, SumsOfSame
  <1>5. SumOver(v, 1..n) \in Nat
    BY <1>1, SumIsNat
  <1> QED
    BY <1>2, <1>3, <1>4, <1>5

\* The costs of a sequence of records, and the fold that adds them up.
CostsOf(rs) == [i \in DOMAIN rs |-> rs[i].cost]

CostFold(rs) == FoldSeq(LAMBDA t, sum : t.cost + sum, 0, rs)

FoldRecursion(rs, g) ==
    g = [s \in SUBSET DOMAIN rs |->
            IF s = {} THEN 0
            ELSE rs[CHOOSE x \in s : TRUE].cost + g[s \ {CHOOSE x \in s : TRUE}]]

LEMMA FoldUnfolds ==
    ASSUME NEW rs, NEW g, FoldRecursion(rs, g)
    PROVE  \E h : FoldRecursion(rs, h) /\ CostFold(rs) = h[DOMAIN rs]
  BY DEF FoldRecursion, CostFold, FoldSeq, FoldFunction, FoldFunctionOnSet, MapThenFoldSet

LEMMA FoldRecursionIsSums ==
    ASSUME NEW rs, NEW g
    PROVE  FoldRecursion(rs, g) <=> Sums(CostsOf(rs), DOMAIN rs, g)
  <1>1. \A s \in SUBSET DOMAIN rs : s # {} =>
           rs[CHOOSE x \in s : TRUE].cost = CostsOf(rs)[CHOOSE x \in s : TRUE]
    BY DEF CostsOf
  <1>2. [s \in SUBSET DOMAIN rs |->
            IF s = {} THEN 0
            ELSE rs[CHOOSE x \in s : TRUE].cost + g[s \ {CHOOSE x \in s : TRUE}]]
        = [s \in SUBSET DOMAIN rs |->
            IF s = {} THEN 0
            ELSE CostsOf(rs)[CHOOSE x \in s : TRUE] + g[s \ {CHOOSE x \in s : TRUE}]]
    BY <1>1
  <1> QED
    BY <1>2 DEF FoldRecursion, Sums

LEMMA CostFoldIsSum ==
    ASSUME NEW rs, IsFiniteSet(DOMAIN rs)
    PROVE  CostFold(rs) = SumOver(CostsOf(rs), DOMAIN rs)
  <1>1. PICK g : Sums(CostsOf(rs), DOMAIN rs, g)
    BY SumsExist
  <1>2. PICK h : FoldRecursion(rs, h) /\ CostFold(rs) = h[DOMAIN rs]
    BY <1>1, FoldRecursionIsSums, FoldUnfolds
  <1> QED
    BY <1>2, FoldRecursionIsSums, SumIsRecursion

\* The fold of a sequence that grows by one record grows by its cost.
LEMMA CostFoldGrows ==
    ASSUME NEW T, \A r \in T : r.cost \in Nat, NEW rs \in Seq(T), NEW t \in T
    PROVE  /\ CostFold(Append(rs, t)) = CostFold(rs) + t.cost
           /\ CostFold(rs) \in Nat
  <1>1. /\ Len(rs) \in Nat /\ DOMAIN rs = 1..Len(rs)
        /\ DOMAIN Append(rs, t) = 1..(Len(rs) + 1)
    OBVIOUS
  <1>2. IsFiniteSet(DOMAIN rs) /\ IsFiniteSet(DOMAIN Append(rs, t))
    BY <1>1, FS_Interval
  <1>3. \A i \in 1..(Len(rs) + 1) : Append(rs, t)[i] \in T
    OBVIOUS
  <1>4. \A i \in 1..Len(rs) : Append(rs, t)[i] = rs[i]
    OBVIOUS
  <1>5. Append(rs, t)[Len(rs) + 1] = t
    OBVIOUS
  <1>6. \A i \in 1..(Len(rs) + 1) : CostsOf(Append(rs, t))[i] \in Nat
    BY <1>1, <1>3 DEF CostsOf
  <1>7. \A i \in 1..Len(rs) : CostsOf(rs)[i] = CostsOf(Append(rs, t))[i]
    BY <1>1, <1>4 DEF CostsOf
  <1>8. CostsOf(Append(rs, t))[Len(rs) + 1] = t.cost
    BY <1>1, <1>5 DEF CostsOf
  <1>9. /\ SumOver(CostsOf(Append(rs, t)), 1..(Len(rs) + 1))
             = CostsOf(Append(rs, t))[Len(rs) + 1] + SumOver(CostsOf(rs), 1..Len(rs))
        /\ SumOver(CostsOf(rs), 1..Len(rs)) \in Nat
    BY <1>1, <1>6, <1>7, SumOfAppend
  <1>10. CostFold(Append(rs, t)) = t.cost + CostFold(rs) /\ CostFold(rs) \in Nat
    BY <1>1, <1>2, <1>8, <1>9, CostFoldIsSum
  <1>11. t.cost \in Nat
    OBVIOUS
  <1> QED
    BY <1>10, <1>11

LEMMA CostFoldOfNone == CostFold(<<>>) = 0
  <1>1. DOMAIN <<>> = {} /\ IsFiniteSet({})
    BY FS_EmptySet
  <1> QED
    BY <1>1, CostFoldIsSum, SumOfNone

\* The same for a sum of the costs of the records.
CostSum(rs) == MapThenSumSet(LAMBDA i : rs[i].cost, DOMAIN rs)

LEMMA CostSumUnfolds ==
    ASSUME NEW rs, NEW g, FoldRecursion(rs, g)
    PROVE  \E h : FoldRecursion(rs, h) /\ CostSum(rs) = h[DOMAIN rs]
  BY DEF FoldRecursion, CostSum, MapThenSumSet, MapThenFoldSet

LEMMA CostSumIsSum ==
    ASSUME NEW rs, IsFiniteSet(DOMAIN rs)
    PROVE  CostSum(rs) = SumOver(CostsOf(rs), DOMAIN rs)
  <1>1. PICK g : Sums(CostsOf(rs), DOMAIN rs, g)
    BY SumsExist
  <1>2. PICK h : FoldRecursion(rs, h) /\ CostSum(rs) = h[DOMAIN rs]
    BY <1>1, FoldRecursionIsSums, CostSumUnfolds
  <1> QED
    BY <1>2, FoldRecursionIsSums, SumIsRecursion
=============================================================================
