------------------------------ MODULE FoldTheory ------------------------------
(***************************************************************************)
(* Folds over finite sets (MapThenFoldSet of the community modules, which   *)
(* every sum and every fold over a sequence is an instance of) satisfy the *)
(* equation they are defined by.  The operators are constants, so that an  *)
(* instance of this module has these facts for its own operators; each     *)
(* takes a parameter, because an instance cannot have one.                 *)
(*                                                                         *)
(* A fold over a sequence (FoldLeft) is what a loop computes: the fold     *)
(* over its positions that takes the last one out first.                   *)
(***************************************************************************)
EXTENDS Folds, FiniteSetTheorems, TLAPS

CONSTANTS op(_, _, _), base(_), val(_, _), pick(_, _)

Fold(p, S) ==
    MapThenFoldSet(LAMBDA x, y : op(p, x, y), base(p), LAMBDA i : val(p, i),
                   LAMBDA s : pick(p, s), S)

Picks(p, S) == \A s \in SUBSET S : s # {} => pick(p, s) \in s

\* one step of the recursion, when g has the results for smaller sets
Step(p, g, s) ==
    IF s = {} THEN base(p) ELSE op(p, val(p, pick(p, s)), g[s \ {pick(p, s)}])

Small(S, n) == {s \in SUBSET S : Cardinality(s) <= n}

Solves(p, g, D) == g = [s \in D |-> Step(p, g, s)]

-----------------------------------------------------------------------------

\* Induction over the natural numbers, for sets.
LEMMA NatSetInduction ==
    ASSUME NEW T \in SUBSET Nat, 0 \in T, \A n \in T : n + 1 \in T
    PROVE  T = Nat
  <1> DEFINE R == OpToRel(<, Nat)
             C == Nat \ T
  <1>1. \A x, y \in Nat : y < x => <<y, x>> \in R
    BY SMT DEF OpToRel
  <1>2. IsWellFoundedOn(R, Nat)
    BY NatLessThanWellFounded
  <1> HIDE DEF R
  <1> SUFFICES ASSUME C # {} PROVE FALSE
    OBVIOUS
  <1>3. PICK x \in C : \A y \in C : ~ (<<y, x>> \in R)
    <2>1. C \subseteq Nat
      OBVIOUS
    <2> HIDE DEF C
    <2> QED
      BY <1>2, <2>1, WFMin, Zenon
  <1>4. x \in Nat /\ x # 0
    OBVIOUS
  <1>5. x - 1 \in Nat /\ x - 1 < x /\ (x - 1) + 1 = x
    BY <1>4, SMT
  <1>6. x - 1 \in C
    BY <1>5
  <1> QED
    BY <1>1, <1>3, <1>4, <1>5, <1>6

\* Smaller subsets of a finite set have a smaller cardinality.
LEMMA SmallStep ==
    ASSUME NEW S, IsFiniteSet(S), NEW n \in Nat, NEW s \in Small(S, n + 1), NEW x \in s
    PROVE  s \ {x} \in Small(S, n)
  <1>1. IsFiniteSet(s)
    BY FS_Subset DEF Small
  <1>2. Cardinality(s) \in Nat /\ Cardinality(s \ {x}) = Cardinality(s) - 1
    BY <1>1, FS_CardinalityType, FS_RemoveElement
  <1>3. Cardinality(s \ {x}) <= n
    BY <1>2, SMT DEF Small
  <1> QED
    BY <1>3 DEF Small

LEMMA SmallSubset ==
    ASSUME NEW S, IsFiniteSet(S), NEW n \in Nat, NEW s \in Small(S, n)
    PROVE  s \in Small(S, n + 1)
  <1>1. Cardinality(s) \in Nat
    BY FS_Subset, FS_CardinalityType DEF Small
  <1> QED
    BY <1>1, SMT DEF Small

\* The recursion has a solution on the subsets of up to n elements.
LEMMA SolutionExists ==
    ASSUME NEW p, NEW S, IsFiniteSet(S), Picks(p, S)
    PROVE  \A n \in Nat : \E g : Solves(p, g, Small(S, n))
  <1> DEFINE T == {n \in Nat : \E g : Solves(p, g, Small(S, n))}
  <1>1. 0 \in T
    <2> DEFINE g == [s \in Small(S, 0) |-> base(p)]
    <2>1. \A s \in Small(S, 0) : s = {}
      <3> SUFFICES ASSUME NEW s \in Small(S, 0) PROVE s = {}
        OBVIOUS
      <3>1. IsFiniteSet(s) /\ Cardinality(s) <= 0
        BY FS_Subset DEF Small
      <3>2. Cardinality(s) = 0
        BY <3>1, FS_CardinalityType, SMT
      <3> QED
        BY <3>1, <3>2, FS_EmptySet
    <2>2. Solves(p, g, Small(S, 0))
      BY <2>1 DEF Solves, Step
    <2> QED
      BY <2>2
  <1>2. ASSUME NEW n \in T PROVE n + 1 \in T
    <2>1. n \in Nat /\ n + 1 \in Nat
      OBVIOUS
    <2>2. PICK g : Solves(p, g, Small(S, n))
      OBVIOUS
    <2> DEFINE h == [s \in Small(S, n + 1) |-> IF s \in Small(S, n) THEN g[s] ELSE Step(p, g, s)]
    <2>3. \A s \in Small(S, n) : h[s] = g[s] /\ g[s] = Step(p, g, s)
      <3>1. \A s \in Small(S, n) : s \in Small(S, n + 1)
        BY <2>1, SmallSubset
      <3> QED
        BY <2>2, <3>1 DEF Solves
    <2>4. \A s \in Small(S, n + 1) : Step(p, h, s) = Step(p, g, s)
      <3> HIDE DEF h
      <3> SUFFICES ASSUME NEW s \in Small(S, n + 1) PROVE Step(p, h, s) = Step(p, g, s)
        OBVIOUS
      <3>1. s = {} \/ pick(p, s) \in s
        BY DEF Picks, Small
      <3>2. s = {} \/ s \ {pick(p, s)} \in Small(S, n)
        BY <2>1, <3>1, SmallStep
      <3> QED
        BY <2>3, <3>2 DEF Step
    <2>5. \A s \in Small(S, n + 1) : h[s] = Step(p, h, s)
      BY <2>3, <2>4
    <2>6. Solves(p, h, Small(S, n + 1))
      BY <2>5 DEF Solves
    <2> QED
      BY <2>1, <2>6
  <1>3. T = Nat
    <2>1. T \in SUBSET Nat
      OBVIOUS
    <2> HIDE DEF T
    <2> QED
      BY <1>1, <1>2, <2>1, NatSetInduction
  <1> QED
    BY <1>3

\* Two solutions agree on the sets both are defined for.
LEMMA SolutionUnique ==
    ASSUME NEW p, NEW S, IsFiniteSet(S), Picks(p, S), NEW R, R \subseteq S,
           NEW g, NEW h, Solves(p, g, SUBSET S), Solves(p, h, SUBSET R)
    PROVE  g[R] = h[R]
  <1> DEFINE T == {n \in Nat : \A s \in Small(R, n) : g[s] = h[s]}
  <1>1. IsFiniteSet(R)
    BY FS_Subset
  <1>2. \A s \in SUBSET R : g[s] = Step(p, g, s) /\ h[s] = Step(p, h, s)
    BY DEF Solves
  <1>3. 0 \in T
    <2> SUFFICES ASSUME NEW s \in Small(R, 0) PROVE g[s] = h[s]
      OBVIOUS
    <2>1. s \in SUBSET R /\ IsFiniteSet(s) /\ Cardinality(s) <= 0
      BY <1>1, FS_Subset DEF Small
    <2>2. Cardinality(s) = 0
      BY <2>1, FS_CardinalityType, SMT
    <2>3. s = {}
      BY <2>1, <2>2, FS_EmptySet
    <2> QED
      BY <1>2, <2>1, <2>3 DEF Step
  <1>4. ASSUME NEW n \in T PROVE n + 1 \in T
    <2>1. n \in Nat /\ n + 1 \in Nat
      OBVIOUS
    <2> SUFFICES ASSUME NEW s \in Small(R, n + 1) PROVE g[s] = h[s]
      BY <2>1
    <2>2. s \in SUBSET R
      BY DEF Small
    <2>3. CASE s = {}
      BY <1>2, <2>2, <2>3 DEF Step
    <2>4. CASE s # {}
      <3>1. pick(p, s) \in s
        BY <2>2, <2>4 DEF Picks
      <3>2. s \ {pick(p, s)} \in Small(R, n)
        BY <1>1, <2>1, <3>1, SmallStep
      <3>3. g[s \ {pick(p, s)}] = h[s \ {pick(p, s)}]
        BY <3>2
      <3> QED
        BY <1>2, <2>2, <2>4, <3>3 DEF Step
    <2> QED
      BY <2>3, <2>4
  <1>5. T = Nat
    <2>1. T \in SUBSET Nat
      OBVIOUS
    <2> HIDE DEF T
    <2> QED
      BY <1>3, <1>4, <2>1, NatSetInduction
  <1>6. Cardinality(R) \in Nat /\ R \in Small(R, Cardinality(R))
    BY <1>1, FS_CardinalityType, SMT DEF Small
  <1> QED
    BY <1>5, <1>6

\* The fold is the value of a solution.
LEMMA FoldSolves ==
    ASSUME NEW p, NEW S, IsFiniteSet(S), Picks(p, S)
    PROVE  \E g : Solves(p, g, SUBSET S) /\ Fold(p, S) = g[S]
  <1>1. Cardinality(S) \in Nat
    BY FS_CardinalityType
  <1>2. Small(S, Cardinality(S)) = SUBSET S
    BY FS_Subset DEF Small
  <1>3. \E g : Solves(p, g, SUBSET S)
    <2>1. \E g : Solves(p, g, Small(S, Cardinality(S)))
      BY <1>1, SolutionExists
    <2> QED
      BY <1>2, <2>1
  <1> DEFINE iter == CHOOSE g : Solves(p, g, SUBSET S)
  <1>4. Solves(p, iter, SUBSET S)
    BY <1>3
  <1>5. Fold(p, S) = iter[S]
    BY DEF Fold, MapThenFoldSet, Solves, Step
  <1> QED
    BY <1>4, <1>5

-----------------------------------------------------------------------------

\* The recursion a fold is defined by, for every finite set.
LEMMA FoldUnfolds ==
    \A p, S : IsFiniteSet(S) /\ Picks(p, S) =>
        Fold(p, S) = IF S = {} THEN base(p)
                     ELSE op(p, val(p, pick(p, S)), Fold(p, S \ {pick(p, S)}))
  <1> SUFFICES ASSUME NEW p, NEW S, IsFiniteSet(S), Picks(p, S)
               PROVE  Fold(p, S) = IF S = {} THEN base(p)
                         ELSE op(p, val(p, pick(p, S)), Fold(p, S \ {pick(p, S)}))
    OBVIOUS
  <1>1. PICK g : Solves(p, g, SUBSET S) /\ Fold(p, S) = g[S]
    BY FoldSolves
  <1>2. g[S] = Step(p, g, S)
    BY <1>1 DEF Solves
  <1> DEFINE R == S \ {pick(p, S)}
  <1>3. IsFiniteSet(R) /\ Picks(p, R) /\ R \in SUBSET S
    BY FS_Subset DEF Picks
  <1> HIDE DEF R
  <1>4. Fold(p, R) = g[R]
    <2>1. PICK h : Solves(p, h, SUBSET R) /\ Fold(p, R) = h[R]
      BY <1>3, FoldSolves
    <2>2. g[R] = h[R]
      BY <1>1, <1>3, <2>1, SolutionUnique
    <2> QED
      BY <2>1, <2>2
  <1> QED
    BY <1>1, <1>2, <1>4 DEF R, Step

-----------------------------------------------------------------------------
(* Loops *)

\* the positions of a sequence are taken from its end
InOrder == \A p, S : pick(p, S) = CHOOSE x \in S : \A y \in S : x >= y

\* r has the intermediate results, n rounds of them
Runs(p, n, r) ==
    /\ r[0] = base(p)
    /\ \A k \in 1..n : r[k] = op(p, val(p, k), r[k - 1])
    /\ Fold(p, 1..n) = r[n]

\* The largest number of an initial segment.
LEMMA LargestOfSegment ==
    ASSUME InOrder, NEW p, NEW n \in Nat \ {0}
    PROVE  pick(p, 1..n) = n
  <1>1. n \in 1..n /\ \A y \in 1..n : n >= y
    BY SMT
  <1>2. \A x \in 1..n : (\A y \in 1..n : x >= y) => x = n
    BY SMT
  <1>3. pick(p, 1..n) = CHOOSE x \in 1..n : \A y \in 1..n : x >= y
    BY DEF InOrder
  <1> QED
    BY <1>1, <1>2, <1>3

\* A set of positions has a largest one.
LEMMA LargestExists ==
    ASSUME NEW n \in Nat, NEW S \in SUBSET (1..n), S # {}
    PROVE  \E x \in S : \A y \in S : x >= y
  <1> DEFINE T == {k \in Nat : \A A \in SUBSET (1..k) : A # {} => \E x \in A : \A y \in A : x >= y}
  <1>1. 0 \in T
    <2>1. 1..0 = {}
      BY SMT
    <2> QED
      BY <2>1
  <1>2. ASSUME NEW k \in T PROVE k + 1 \in T
    <2>1. k \in Nat /\ k + 1 \in Nat
      OBVIOUS
    <2> SUFFICES ASSUME NEW A \in SUBSET (1..(k + 1)), A # {}
                 PROVE  \E x \in A : \A y \in A : x >= y
      BY <2>1
    <2>2. CASE k + 1 \in A
      <3>1. \A y \in A : k + 1 >= y
        BY <2>1, SMT
      <3> QED
        BY <2>2, <3>1
    <2>3. CASE k + 1 \notin A
      <3>1. A \in SUBSET (1..k)
        BY <2>1, <2>3, SMT
      <3> QED
        BY <3>1
    <2> QED
      BY <2>2, <2>3
  <1>3. T = Nat
    <2>1. T \in SUBSET Nat
      OBVIOUS
    <2> HIDE DEF T
    <2> QED
      BY <1>1, <1>2, <2>1, NatSetInduction
  <1> QED
    BY <1>3

\* The fold over an initial segment.
LEMMA SegmentUnfolds ==
    ASSUME InOrder, NEW p, NEW n \in Nat
    PROVE  Fold(p, 1..n) = IF n = 0 THEN base(p)
                           ELSE op(p, val(p, n), Fold(p, 1..(n - 1)))
  <1>1. IsFiniteSet(1..n)
    BY FS_Interval, 1 \in Int
  <1>2. Picks(p, 1..n)
    <2> SUFFICES ASSUME NEW S \in SUBSET (1..n), S # {} PROVE pick(p, S) \in S
      BY DEF Picks
    <2>1. pick(p, S) = CHOOSE x \in S : \A y \in S : x >= y
      BY DEF InOrder
    <2> QED
      BY <2>1, LargestExists
  <1> DEFINE m == pick(p, 1..n)
  <1>3. Fold(p, 1..n) = IF 1..n = {} THEN base(p)
            ELSE op(p, val(p, m), Fold(p, (1..n) \ {m}))
    BY <1>1, <1>2, FoldUnfolds
  <1>4. CASE n = 0
    BY <1>3, <1>4
  <1>5. CASE n # 0
    <2>1. m = n
      BY <1>5, LargestOfSegment
    <2>2. 1..n # {} /\ (1..n) \ {n} = 1..(n - 1)
      BY <1>5, SMT
    <2> HIDE DEF m
    <2> QED
      BY <1>3, <1>5, <2>1, <2>2
  <1> QED
    BY <1>4, <1>5

\* The intermediate results of a loop.
LEMMA LoopRuns ==
    ASSUME InOrder, NEW p, NEW n \in Nat
    PROVE  \E r : Runs(p, n, r)
  <1> DEFINE r == [k \in Nat |-> Fold(p, 1..k)]
  <1>1. \A k \in Nat : Fold(p, 1..k) = IF k = 0 THEN base(p)
                             ELSE op(p, val(p, k), Fold(p, 1..(k - 1)))
    BY SegmentUnfolds
  <1>2. r[0] = base(p)
    BY <1>1
  <1>3. \A k \in 1..n : r[k] = op(p, val(p, k), r[k - 1])
    <2> SUFFICES ASSUME NEW k \in 1..n PROVE r[k] = op(p, val(p, k), r[k - 1])
      OBVIOUS
    <2>1. k \in Nat /\ k - 1 \in Nat /\ k # 0
      BY SMT
    <2> QED
      BY <1>1, <2>1
  <1>4. Fold(p, 1..n) = r[n]
    OBVIOUS
  <1> HIDE DEF r
  <1> QED
    BY <1>2, <1>3, <1>4 DEF Runs

\* What holds at the start and is kept by each round holds at the end; I has
\* the pairs of a number of rounds and the result after them.
LEMMA LoopKeeps ==
    ASSUME InOrder, NEW p, NEW n \in Nat, NEW I,
           <<0, base(p)>> \in I,
           \A k \in 1..n : \A a : <<k - 1, a>> \in I => <<k, op(p, val(p, k), a)>> \in I
    PROVE  <<n, Fold(p, 1..n)>> \in I
  <1>1. PICK r : Runs(p, n, r)
    BY LoopRuns
  <1> DEFINE T == {k \in Nat : k <= n => <<k, r[k]>> \in I}
  <1>2. 0 \in T
    BY <1>1 DEF Runs
  <1>3. ASSUME NEW k \in T PROVE k + 1 \in T
    <2>1. k \in Nat /\ k + 1 \in Nat /\ (k + 1) - 1 = k
      OBVIOUS
    <2> SUFFICES ASSUME k + 1 <= n PROVE <<k + 1, r[k + 1]>> \in I
      BY <2>1
    <2>2. k + 1 \in 1..n /\ <<k, r[k]>> \in I
      BY <2>1
    <2> HIDE DEF T
    <2>3. r[k + 1] = op(p, val(p, k + 1), r[k])
      BY <1>1, <2>1, <2>2 DEF Runs
    <2>4. <<k + 1, op(p, val(p, k + 1), r[k])>> \in I
      BY <2>1, <2>2
    <2> QED
      BY <2>3, <2>4
  <1>4. T = Nat
    <2>1. T \in SUBSET Nat
      OBVIOUS
    <2> HIDE DEF T
    <2> QED
      BY <1>2, <1>3, <2>1, NatSetInduction
  <1> QED
    BY <1>1, <1>4 DEF Runs

\* A loop whose first n rounds are those of another and which has one more.
THEOREM LoopAppend ==
    ASSUME InOrder, NEW p, NEW z, NEW n \in Nat, base(z) = base(p),
           \A k \in 1..n : \A a : op(z, val(z, k), a) = op(p, val(p, k), a)
    PROVE  Fold(z, 1..(n + 1)) = op(z, val(z, n + 1), Fold(p, 1..n))
  <1>1. PICK r : Runs(p, n, r)
    BY LoopRuns
  <1>2. n + 1 \in Nat
    OBVIOUS
  <1>3. PICK y : Runs(z, n + 1, y)
    BY <1>2, LoopRuns
  <1> DEFINE T == {k \in Nat : k <= n => r[k] = y[k]}
  <1>4. 0 \in T
    BY <1>1, <1>3 DEF Runs
  <1>5. ASSUME NEW k \in T PROVE k + 1 \in T
    <2>1. k \in Nat /\ k + 1 \in Nat /\ (k + 1) - 1 = k
      OBVIOUS
    <2> SUFFICES ASSUME k + 1 <= n PROVE r[k + 1] = y[k + 1]
      BY <2>1
    <2>2. k + 1 \in 1..n /\ k + 1 \in 1..(n + 1) /\ r[k] = y[k]
      BY <2>1
    <2> HIDE DEF T
    <2>3. r[k + 1] = op(p, val(p, k + 1), r[k]) /\ y[k + 1] = op(z, val(z, k + 1), y[k])
      BY <1>1, <1>3, <2>1, <2>2 DEF Runs
    <2>4. op(z, val(z, k + 1), y[k]) = op(p, val(p, k + 1), y[k])
      BY <2>2
    <2> QED
      BY <2>2, <2>3, <2>4
  <1>6. T = Nat
    <2>1. T \in SUBSET Nat
      OBVIOUS
    <2> HIDE DEF T
    <2> QED
      BY <1>4, <1>5, <2>1, NatSetInduction
  <1>7. r[n] = y[n]
    BY <1>6
  <1>8. n + 1 \in 1..(n + 1) /\ (n + 1) - 1 = n
    OBVIOUS
  <1>9. y[n + 1] = op(z, val(z, n + 1), y[n])
    BY <1>3, <1>8 DEF Runs
  <1> QED
    BY <1>1, <1>3, <1>7, <1>9 DEF Runs

=============================================================================
