------------------------------ MODULE HubLemmas ------------------------------
(***************************************************************************)
(* Lemmas about what the hub's handlers compute, for all values: sums of   *)
(* amounts, the loops over payments, claims, slashings and redelegations,  *)
(* and the redelegations of set_validators.                                *)
(***************************************************************************)
EXTENDS LsdHub, SupplyLemmas, FiniteSetTheorems

-----------------------------------------------------------------------------
(* Sums of functions over finite sets, by induction on the set *)

Plus(p, x, y) == x + y
Zero(p) == 0
ValueOf(p, i) == p[i]
AnyOf(p, s) == CHOOSE x \in s : TRUE

Sums == INSTANCE FoldTheory WITH op <- Plus, base <- Zero, val <- ValueOf, pick <- AnyOf

Ints(f, S) == \A x \in S : f[x] \in Int
Nats(f, S) == \A x \in S : f[x] \in Nat

-----------------------------------------------------------------------------

\* Induction over the subsets of a finite set: what holds of a set when it
\* holds of the set without any one of its elements holds of all of them.
LEMMA SetInduction ==
    ASSUME NEW S, IsFiniteSet(S), NEW T \in SUBSET SUBSET S,
           \A A \in SUBSET S : (\A x \in A : A \ {x} \in T) => A \in T
    PROVE  \A A \in SUBSET S : A \in T
  <1> DEFINE N == {n \in Nat : \A A \in SUBSET S : Cardinality(A) <= n => A \in T}
  <1>1. \A A \in SUBSET S : IsFiniteSet(A) /\ Cardinality(A) \in Nat
    BY FS_Subset, FS_CardinalityType
  <1>2. 0 \in N
    <2> SUFFICES ASSUME NEW A \in SUBSET S, Cardinality(A) <= 0 PROVE A \in T
      OBVIOUS
    <2>1. Cardinality(A) = 0
      BY <1>1, SMT
    <2>2. A = {}
      BY <1>1, <2>1, FS_EmptySet
    <2> QED
      BY <2>2
  <1>3. ASSUME NEW n \in N PROVE n + 1 \in N
    <2>1. n \in Nat /\ n + 1 \in Nat
      OBVIOUS
    <2> SUFFICES ASSUME NEW A \in SUBSET S, Cardinality(A) <= n + 1, NEW x \in A
                 PROVE  A \ {x} \in T
      BY <2>1
    <2>2. Cardinality(A \ {x}) = Cardinality(A) - 1
      BY <1>1, FS_RemoveElement
    <2>3. Cardinality(A \ {x}) <= n
      BY <1>1, <2>1, <2>2, SMT
    <2> QED
      BY <2>3
  <1>4. N = Nat
    <2>1. N \in SUBSET Nat
      OBVIOUS
    <2> HIDE DEF N
    <2> QED
      BY <1>2, <1>3, <2>1, Sums!NatSetInduction
  <1>5. \A A \in SUBSET S : Cardinality(A) \in N => A \in T
    BY <1>1
  <1> HIDE DEF N
  <1> QED
    BY <1>1, <1>4, <1>5

\* A sum is a fold.
LEMMA SumIsFold == \A f, S : SumFunctionOnSet(f, S) = Sums!Fold(f, S)
  BY DEF SumFunctionOnSet, FoldFunctionOnSet, MapThenFoldSet, Sums!Fold, Sums!MapThenFoldSet,
         Plus, Zero, ValueOf, AnyOf

\* The instance has a name of its own for a library operator.
LEMMA SameFinite == \A S : Sums!IsFiniteSet(S) <=> IsFiniteSet(S)
  BY DEF Sums!IsFiniteSet, IsFiniteSet

\* The sum over the empty set, and over any other one: some element and the rest.
LEMMA SumUnfolds ==
    ASSUME NEW f, NEW S, IsFiniteSet(S)
    PROVE  /\ S = {} => SumFunctionOnSet(f, S) = 0
           /\ S # {} => \E x \in S : SumFunctionOnSet(f, S) = f[x] + SumFunctionOnSet(f, S \ {x})
  <1>1. Sums!Picks(f, S)
    BY DEF Sums!Picks, AnyOf
  <1>2. Sums!Fold(f, S) = IF S = {} THEN Zero(f)
            ELSE Plus(f, ValueOf(f, AnyOf(f, S)), Sums!Fold(f, S \ {AnyOf(f, S)}))
    BY <1>1, SameFinite, Sums!FoldUnfolds
  <1>3. S # {} => AnyOf(f, S) \in S
    BY DEF AnyOf
  <1> QED
    BY <1>2, <1>3, SumIsFold DEF Plus, Zero, ValueOf

LEMMA SumEmpty == \A f : SumFunctionOnSet(f, {}) = 0
  BY SumUnfolds, FS_EmptySet

\* Sums of integers are integers.
LEMMA SumInt ==
    ASSUME NEW f, NEW S, IsFiniteSet(S), Ints(f, S)
    PROVE  SumFunctionOnSet(f, S) \in Int
  <1> DEFINE T == {A \in SUBSET S : SumFunctionOnSet(f, A) \in Int}
  <1>1. ASSUME NEW A \in SUBSET S, \A x \in A : A \ {x} \in T PROVE A \in T
    <2>1. IsFiniteSet(A)
      BY FS_Subset
    <2>2. CASE A = {}
      BY <2>2, SumEmpty
    <2>3. CASE A # {}
      <3>1. PICK x \in A : SumFunctionOnSet(f, A) = f[x] + SumFunctionOnSet(f, A \ {x})
        BY <2>1, <2>3, SumUnfolds
      <3>2. f[x] \in Int /\ SumFunctionOnSet(f, A \ {x}) \in Int
        BY <1>1 DEF Ints
      <3> QED
        BY <3>1, <3>2
    <2> QED
      BY <2>2, <2>3
  <1>2. T \in SUBSET SUBSET S
    OBVIOUS
  <1> HIDE DEF T
  <1>3. S \in T
    BY <1>1, <1>2, SetInduction
  <1> QED
    BY <1>3 DEF T

\* Any element can be taken first.
LEMMA SumRemove ==
    ASSUME NEW f, NEW S, IsFiniteSet(S), Ints(f, S), NEW x \in S
    PROVE  SumFunctionOnSet(f, S) = f[x] + SumFunctionOnSet(f, S \ {x})
  <1> DEFINE T == {A \in SUBSET S : \A y \in A :
                       SumFunctionOnSet(f, A) = f[y] + SumFunctionOnSet(f, A \ {y})}
  <1>1. ASSUME NEW A \in SUBSET S, \A y \in A : A \ {y} \in T PROVE A \in T
    <2> SUFFICES ASSUME NEW y \in A
                 PROVE  SumFunctionOnSet(f, A) = f[y] + SumFunctionOnSet(f, A \ {y})
      OBVIOUS
    <2>1. IsFiniteSet(A)
      BY FS_Subset
    <2>2. PICK z \in A : SumFunctionOnSet(f, A) = f[z] + SumFunctionOnSet(f, A \ {z})
      BY <2>1, SumUnfolds
    <2>3. CASE y = z
      BY <2>2, <2>3
    <2>4. CASE y # z
      <3> DEFINE B == (A \ {z}) \ {y}
      <3>1. B = (A \ {y}) \ {z} /\ B \in SUBSET S
        OBVIOUS
      <3>2. SumFunctionOnSet(f, A \ {z}) = f[y] + SumFunctionOnSet(f, B)
        BY <1>1, <2>4
      <3>3. SumFunctionOnSet(f, A \ {y}) = f[z] + SumFunctionOnSet(f, B)
        BY <1>1, <2>4, <3>1
      <3>4. SumFunctionOnSet(f, B) \in Int
        <4>1. IsFiniteSet(B) /\ Ints(f, B)
          BY <3>1, FS_Subset DEF Ints
        <4> QED
          BY <4>1, SumInt
      <3>5. f[y] \in Int /\ f[z] \in Int
        BY DEF Ints
      <3> HIDE DEF B
      <3> QED
        BY <2>2, <3>2, <3>3, <3>4, <3>5
    <2> QED
      BY <2>3, <2>4
  <1>2. T \in SUBSET SUBSET S
    OBVIOUS
  <1> HIDE DEF T
  <1>3. S \in T
    BY <1>1, <1>2, SetInduction
  <1> QED
    BY <1>3 DEF T

\* Adding an element that was not there.
LEMMA SumAdd ==
    ASSUME NEW f, NEW S, IsFiniteSet(S), NEW x, x \notin S, Ints(f, S), f[x] \in Int
    PROVE  SumFunctionOnSet(f, S \cup {x}) = f[x] + SumFunctionOnSet(f, S)
  <1> DEFINE A == S \cup {x}
  <1>1. IsFiniteSet(A) /\ Ints(f, A) /\ A \ {x} = S /\ x \in A
    BY FS_AddElement DEF Ints
  <1> HIDE DEF A
  <1>2. SumFunctionOnSet(f, A) = f[x] + SumFunctionOnSet(f, A \ {x})
    BY <1>1, SumRemove
  <1> QED
    BY <1>1, <1>2 DEF A

\* Induction adding elements one at a time, with what it gives for sums.
LEMMA SetGrows ==
    ASSUME NEW S, IsFiniteSet(S), NEW T \in SUBSET SUBSET S, {} \in T,
           \A A \in T : \A x \in S \ A : A \cup {x} \in T
    PROVE  S \in T
  <1>1. ASSUME NEW A \in SUBSET S, \A x \in A : A \ {x} \in T PROVE A \in T
    <2>1. CASE A = {}
      BY <2>1
    <2>2. CASE A # {}
      <3>1. PICK x \in A : TRUE
        BY <2>2
      <3>2. A \ {x} \in T /\ x \in S \ (A \ {x}) /\ A = (A \ {x}) \cup {x}
        BY <1>1
      <3> QED
        BY <3>2
    <2> QED
      BY <2>1, <2>2
  <1> QED
    BY <1>1, SetInduction

\* Sums of natural numbers are natural numbers.
LEMMA SumNat ==
    ASSUME NEW f, NEW S, IsFiniteSet(S), Nats(f, S)
    PROVE  SumFunctionOnSet(f, S) \in Nat
  <1> DEFINE T == {A \in SUBSET S : SumFunctionOnSet(f, A) \in Nat}
  <1>1. {} \in T
    BY SumEmpty
  <1>2. ASSUME NEW A \in T, NEW x \in S \ A PROVE A \cup {x} \in T
    <2>1. SumFunctionOnSet(f, A \cup {x}) = f[x] + SumFunctionOnSet(f, A)
      BY FS_Subset, SumAdd, f[x] \in Int DEF Ints, Nats
    <2> QED
      BY <2>1 DEF Nats
  <1>3. T \in SUBSET SUBSET S
    OBVIOUS
  <1> HIDE DEF T
  <1>4. S \in T
    BY <1>1, <1>2, <1>3, SetGrows
  <1> QED
    BY <1>4 DEF T

\* A sum depends on nothing but the values added.
LEMMA SumSame ==
    ASSUME NEW f, NEW g, NEW S, IsFiniteSet(S), Ints(f, S), \A x \in S : f[x] = g[x]
    PROVE  SumFunctionOnSet(f, S) = SumFunctionOnSet(g, S)
  <1> DEFINE T == {A \in SUBSET S : SumFunctionOnSet(f, A) = SumFunctionOnSet(g, A)}
  <1>1. {} \in T
    BY SumEmpty
  <1>2. ASSUME NEW A \in T, NEW x \in S \ A PROVE A \cup {x} \in T
    <2>1. IsFiniteSet(A) /\ Ints(f, A) /\ Ints(g, A) /\ f[x] \in Int /\ g[x] \in Int
      BY FS_Subset DEF Ints
    <2>2. SumFunctionOnSet(f, A \cup {x}) = f[x] + SumFunctionOnSet(f, A)
          /\ SumFunctionOnSet(g, A \cup {x}) = g[x] + SumFunctionOnSet(g, A)
      BY <2>1, SumAdd
    <2> QED
      BY <2>2
  <1>3. T \in SUBSET SUBSET S
    OBVIOUS
  <1> HIDE DEF T
  <1>4. S \in T
    BY <1>1, <1>2, <1>3, SetGrows
  <1> QED
    BY <1>4 DEF T

\* The sum of the sums of two functions.
LEMMA SumPlus ==
    ASSUME NEW f, NEW g, NEW h, NEW S, IsFiniteSet(S), Ints(f, S), Ints(g, S),
           \A x \in S : h[x] = f[x] + g[x]
    PROVE  SumFunctionOnSet(h, S) = SumFunctionOnSet(f, S) + SumFunctionOnSet(g, S)
  <1> DEFINE T == {A \in SUBSET S :
                     SumFunctionOnSet(h, A) = SumFunctionOnSet(f, A) + SumFunctionOnSet(g, A)}
  <1>1. {} \in T
    BY SumEmpty
  <1>2. ASSUME NEW A \in T, NEW x \in S \ A PROVE A \cup {x} \in T
    <2>1. /\ IsFiniteSet(A) /\ Ints(f, A) /\ Ints(g, A) /\ Ints(h, A)
          /\ f[x] \in Int /\ g[x] \in Int /\ h[x] \in Int
      BY FS_Subset DEF Ints
    <2>2. SumFunctionOnSet(f, A \cup {x}) = f[x] + SumFunctionOnSet(f, A)
          /\ SumFunctionOnSet(g, A \cup {x}) = g[x] + SumFunctionOnSet(g, A)
          /\ SumFunctionOnSet(h, A \cup {x}) = h[x] + SumFunctionOnSet(h, A)
      BY <2>1, SumAdd
    <2>3. SumFunctionOnSet(f, A) \in Int /\ SumFunctionOnSet(g, A) \in Int
      BY <2>1, SumInt
    <2> QED
      BY <2>1, <2>2, <2>3
  <1>3. T \in SUBSET SUBSET S
    OBVIOUS
  <1> HIDE DEF T
  <1>4. S \in T
    BY <1>1, <1>2, <1>3, SetGrows
  <1> QED
    BY <1>4 DEF T

\* A sum over a set, from a part of it and the rest.
LEMMA SumSplit ==
    ASSUME NEW f, NEW S, IsFiniteSet(S), Ints(f, S), NEW R \in SUBSET S
    PROVE  SumFunctionOnSet(f, S) = SumFunctionOnSet(f, R) + SumFunctionOnSet(f, S \ R)
  <1> DEFINE D == S \ R
             T == {A \in SUBSET D :
                     SumFunctionOnSet(f, R \cup A) = SumFunctionOnSet(f, R) + SumFunctionOnSet(f, A)}
  <1>0. IsFiniteSet(D) /\ IsFiniteSet(R) /\ Ints(f, R) /\ Ints(f, D)
    BY FS_Subset DEF Ints
  <1>1. {} \in T
    <2>1. R \cup {} = R /\ SumFunctionOnSet(f, R) \in Int
      BY <1>0, SumInt
    <2> QED
      BY <2>1, SumEmpty
  <1>2. ASSUME NEW A \in T, NEW x \in D \ A PROVE A \cup {x} \in T
    <2> DEFINE B == R \cup A
    <2>1. /\ IsFiniteSet(A) /\ Ints(f, A) /\ f[x] \in Int
          /\ IsFiniteSet(B) /\ Ints(f, B) /\ x \notin B
      BY <1>0, FS_Subset DEF Ints
    <2>2. SumFunctionOnSet(f, A \cup {x}) = f[x] + SumFunctionOnSet(f, A)
      BY <2>1, SumAdd
    <2>3. SumFunctionOnSet(f, B \cup {x}) = f[x] + SumFunctionOnSet(f, B)
      <3> HIDE DEF B
      <3> QED
        BY <2>1, SumAdd
    <2>4. SumFunctionOnSet(f, A) \in Int /\ SumFunctionOnSet(f, R) \in Int
      BY <1>0, <2>1, SumInt
    <2>5. B \cup {x} = R \cup (A \cup {x})
      OBVIOUS
    <2>6. SumFunctionOnSet(f, R \cup (A \cup {x}))
              = SumFunctionOnSet(f, R) + SumFunctionOnSet(f, A \cup {x})
      <3>1. SumFunctionOnSet(f, B) = SumFunctionOnSet(f, R) + SumFunctionOnSet(f, A)
        OBVIOUS
      <3>2. SumFunctionOnSet(f, R \cup (A \cup {x})) = SumFunctionOnSet(f, B \cup {x})
        BY <2>5
      <3>3. f[x] \in Int
        BY <2>1
      <3> HIDE DEF B, T
      <3> QED
        BY <2>2, <2>3, <2>4, <3>1, <3>2, <3>3
    <2> QED
      BY <2>6
  <1>3. T \in SUBSET SUBSET D
    OBVIOUS
  <1> HIDE DEF T
  <1>4. D \in T
    <2> HIDE DEF D
    <2> QED
      BY <1>0, <1>1, <1>2, <1>3, SetGrows
  <1>5. R \cup D = S
    OBVIOUS
  <1> QED
    BY <1>4, <1>5 DEF T

\* Zeros do not matter.
LEMMA SumZeros ==
    ASSUME NEW f, NEW S, IsFiniteSet(S), Ints(f, S), NEW R \in SUBSET S,
           \A x \in S \ R : f[x] = 0
    PROVE  SumFunctionOnSet(f, S) = SumFunctionOnSet(f, R)
  <1> DEFINE D == S \ R
             T == {A \in SUBSET D : SumFunctionOnSet(f, A) = 0}
  <1>0. IsFiniteSet(D) /\ IsFiniteSet(R) /\ Ints(f, R) /\ Ints(f, D)
    BY FS_Subset DEF Ints
  <1>1. {} \in T
    BY SumEmpty
  <1>2. ASSUME NEW A \in T, NEW x \in D \ A PROVE A \cup {x} \in T
    <2>1. IsFiniteSet(A) /\ Ints(f, A) /\ f[x] = 0
      BY <1>0, FS_Subset DEF Ints
    <2>2. SumFunctionOnSet(f, A \cup {x}) = f[x] + SumFunctionOnSet(f, A)
      BY <2>1, SumAdd
    <2> QED
      BY <2>1, <2>2
  <1>3. T \in SUBSET SUBSET D
    OBVIOUS
  <1> HIDE DEF T
  <1>4. D \in T
    <2> HIDE DEF D
    <2> QED
      BY <1>0, <1>1, <1>2, <1>3, SetGrows
  <1>5. SumFunctionOnSet(f, S) = SumFunctionOnSet(f, R) + SumFunctionOnSet(f, D)
    BY SumSplit
  <1>6. SumFunctionOnSet(f, R) \in Int
    BY <1>0, SumInt
  <1>7. SumFunctionOnSet(f, D) = 0
    BY <1>4 DEF T
  <1> HIDE DEF D
  <1> QED
    BY <1>5, <1>6, <1>7

\* A sum of natural numbers is at least each of them.
LEMMA SumAtLeast ==
    ASSUME NEW f, NEW S, IsFiniteSet(S), Nats(f, S), NEW x \in S
    PROVE  f[x] <= SumFunctionOnSet(f, S)
  <1>1. SumFunctionOnSet(f, S) = f[x] + SumFunctionOnSet(f, S \ {x})
    BY SumRemove DEF Ints, Nats
  <1>2. IsFiniteSet(S \ {x}) /\ Nats(f, S \ {x})
    BY FS_Subset DEF Nats
  <1>3. SumFunctionOnSet(f, S \ {x}) \in Nat
    BY <1>2, SumNat
  <1> QED
    BY <1>1, <1>3 DEF Nats

\* Smaller summands have a smaller sum.
LEMMA SumMonotone ==
    ASSUME NEW f, NEW g, NEW S, IsFiniteSet(S), Ints(f, S), Ints(g, S),
           \A x \in S : f[x] <= g[x]
    PROVE  SumFunctionOnSet(f, S) <= SumFunctionOnSet(g, S)
  <1> DEFINE h == [x \in S |-> g[x] - f[x]]
  <1>1. Nats(h, S) /\ Ints(h, S) /\ \A x \in S : g[x] = f[x] + h[x]
    BY DEF Nats, Ints
  <1> HIDE DEF h
  <1>2. SumFunctionOnSet(g, S) = SumFunctionOnSet(f, S) + SumFunctionOnSet(h, S)
    BY <1>1, SumPlus
  <1>3. SumFunctionOnSet(h, S) \in Nat /\ SumFunctionOnSet(f, S) \in Int
    BY <1>1, SumInt, SumNat
  <1> QED
    BY <1>2, <1>3

\* The values may be added in the order of other indices.
LEMMA SumReindex ==
    ASSUME NEW f, NEW g, NEW S, IsFiniteSet(S), NEW b, Ints(f, S),
           \A x, y \in S : b[x] = b[y] => x = y,
           \A x \in S : f[x] = g[b[x]]
    PROVE  SumFunctionOnSet(f, S) = SumFunctionOnSet(g, {b[x] : x \in S})
  <1> DEFINE Image(A) == {b[x] : x \in A}
             T == {A \in SUBSET S : /\ IsFiniteSet(Image(A))
                                    /\ SumFunctionOnSet(f, A) = SumFunctionOnSet(g, Image(A))}
  <1>1. {} \in T
    <2>1. Image({}) = {}
      OBVIOUS
    <2> HIDE DEF Image
    <2> QED
      BY <2>1, SumEmpty, FS_EmptySet
  <1>2. ASSUME NEW A \in T, NEW x \in S \ A PROVE A \cup {x} \in T
    <2>1. Image(A \cup {x}) = Image(A) \cup {b[x]} /\ b[x] \notin Image(A)
      OBVIOUS
    <2>2. \A z \in Image(A) : g[z] \in Int
      BY DEF Ints
    <2>3. IsFiniteSet(A) /\ Ints(f, A) /\ f[x] \in Int /\ g[b[x]] = f[x] /\ IsFiniteSet(Image(A))
      BY FS_Subset DEF Ints
    <2>4. SumFunctionOnSet(f, A) = SumFunctionOnSet(g, Image(A))
      OBVIOUS
    <2>5. A \cup {x} \in SUBSET S
      OBVIOUS
    <2> HIDE DEF Image
    <2>6. SumFunctionOnSet(f, A \cup {x}) = f[x] + SumFunctionOnSet(f, A)
      BY <2>3, SumAdd
    <2>7. SumFunctionOnSet(g, Image(A) \cup {b[x]}) = g[b[x]] + SumFunctionOnSet(g, Image(A))
      BY <2>1, <2>2, <2>3, SumAdd DEF Ints
    <2>8. IsFiniteSet(Image(A) \cup {b[x]})
      BY <2>3, FS_AddElement
    <2> QED
      BY <2>1, <2>3, <2>4, <2>5, <2>6, <2>7, <2>8
  <1>3. T \in SUBSET SUBSET S
    OBVIOUS
  <1> HIDE DEF T
  <1>4. S \in T
    BY <1>1, <1>2, <1>3, SetGrows
  <1> QED
    BY <1>4 DEF T

-----------------------------------------------------------------------------

\* The sum of a function that was changed at one place.
LEMMA SumExcept ==
    ASSUME NEW f, NEW S, IsFiniteSet(S), DOMAIN f = S, Ints(f, S), NEW x \in S, NEW y \in Int
    PROVE  SumFunction([f EXCEPT ![x] = y]) = SumFunction(f) - f[x] + y
  <1> DEFINE g == [f EXCEPT ![x] = y]
             R == S \ {x}
  <1>1. IsFiniteSet(R) /\ Ints(f, R) /\ \A z \in R : f[z] = g[z]
    BY FS_Subset DEF Ints
  <1>2. Ints(g, S) /\ g[x] = y /\ DOMAIN g = S
    BY DEF Ints
  <1> HIDE DEF g
  <1>3. SumFunctionOnSet(f, R) = SumFunctionOnSet(g, R)
    <2> HIDE DEF R
    <2> QED
      BY <1>1, SumSame
  <1>4. SumFunctionOnSet(f, S) = f[x] + SumFunctionOnSet(f, R)
    BY SumRemove
  <1>5. SumFunctionOnSet(g, S) = g[x] + SumFunctionOnSet(g, R)
    BY <1>2, SumRemove
  <1>6. SumFunctionOnSet(f, R) \in Int /\ f[x] \in Int
    BY <1>1, SumInt DEF Ints
  <1>7. SumFunction(g) = SumFunctionOnSet(g, S) /\ SumFunction(f) = SumFunctionOnSet(f, S)
    BY <1>2 DEF SumFunction, SumFunctionOnSet
  <1> HIDE DEF R
  <1>8. SumFunction(g) = SumFunction(f) - f[x] + y
    BY <1>2, <1>3, <1>4, <1>5, <1>6, <1>7
  <1> QED
    BY <1>8 DEF g

-----------------------------------------------------------------------------
(* Loops: p has what the loop body reads and the sequence *)

ElementOf(p, i) == p[2][i]
LastOf(p, s) == CHOOSE x \in s : \A y \in s : x >= y

-----------------------------------------------------------------------------
(* Amounts by validator, and unbondings *)

IsAmounts(f) == DOMAIN f \subseteq Validators /\ f \in [DOMAIN f -> Nat]

IsPending(p) ==
    /\ IsFiniteSet(DOMAIN p)
    /\ \A t \in DOMAIN p : t \in Nat /\ IsAmounts(p[t])

Before(p, time) == Restrict(p, {t \in DOMAIN p : t <= time})
After(p, time) == Restrict(p, {t \in DOMAIN p : t > time})

SumsOf(p) == [t \in DOMAIN p |-> SumFunction(p[t])]

\* The assumptions about the constants, one by one.
LEMMA Constants ==
    /\ DecimalOne \in Nat \ {0}
    /\ Commission \in 0..DecimalOne
    /\ IsValset(InitialValset)
    /\ EpochPeriod \in Nat \ {0} /\ UnbondPeriod \in Nat \ {0}
    /\ MaxConcurrentUnbondings \in Nat \ {0}
    /\ IsFiniteSet(Users) /\ IsFiniteSet(Validators)
    /\ \A valset \in Valsets : IsValset(valset)
    /\ Deposits \subseteq Nat \ {0} /\ UnbondAmounts \subseteq Nat \ {0}
    /\ Rewards \subseteq Nat \ {0} /\ SlashKeeps \subseteq 0..DecimalOne
    /\ SafetyMargin \in Nat /\ SlashingThreshold \in 0..DecimalOne
    /\ MaxTime \in Nat /\ MaxTokens \in Nat /\ MaxSlashes \in Nat /\ MaxSlashings \in Nat
  <1>1. DecimalOne \in Nat \ {0} /\ Commission \in 0..(DecimalOne \div 2)
    BY DecimalOneAssumption, HubAssumption
  <1>2. DecimalOne \div 2 <= DecimalOne /\ DecimalOne \div 2 \in Nat
    BY <1>1, SMT
  <1>3. Commission \in 0..DecimalOne
    BY <1>1, <1>2, SMT
  <1> QED
    BY <1>1, <1>3, HubAssumption, InputAssumption

\* The sum of amounts by validator.
LEMMA AmountsSum ==
    ASSUME NEW f, IsAmounts(f)
    PROVE  /\ IsFiniteSet(DOMAIN f) /\ Ints(f, DOMAIN f)
           /\ SumFunction(f) = SumFunctionOnSet(f, DOMAIN f)
           /\ SumFunction(f) \in Nat
  <1>1. IsFiniteSet(DOMAIN f) /\ Ints(f, DOMAIN f)
    BY Constants, FS_Subset DEF IsAmounts, Ints, Nats
  <1>2. SumFunction(f) = SumFunctionOnSet(f, DOMAIN f)
    BY DEF SumFunction, SumFunctionOnSet
  <1>3. Nats(f, DOMAIN f)
    BY DEF IsAmounts, Nats
  <1> QED
    BY <1>1, <1>2, <1>3, SumNat

\* It may as well be taken over all validators.
LEMMA SumOverValidators ==
    ASSUME NEW f, IsAmounts(f)
    PROVE  SumFunction(f) = SumFunctionOnSet([v \in Validators |-> AmountAt(f, v)], Validators)
  <1> DEFINE g == [v \in Validators |-> AmountAt(f, v)]
             D == DOMAIN f
  <1>1. D \in SUBSET Validators /\ (\A v \in D : g[v] = f[v]) /\ (\A v \in Validators \ D : g[v] = 0)
    BY DEF IsAmounts, AmountAt
  <1>2. Ints(g, Validators)
    BY DEF IsAmounts, AmountAt, Nats, Ints
  <1>3. IsFiniteSet(D) /\ Ints(f, D) /\ SumFunction(f) = SumFunctionOnSet(f, D)
    BY AmountsSum
  <1> HIDE DEF g, D
  <1>4. SumFunctionOnSet(g, Validators) = SumFunctionOnSet(g, D)
    BY <1>1, <1>2, Constants, SumZeros
  <1>5. SumFunctionOnSet(f, D) = SumFunctionOnSet(g, D)
    BY <1>1, <1>3, SumSame
  <1> QED
    BY <1>3, <1>4, <1>5 DEF g

\* Amounts that agree at every validator have the same sum.
LEMMA SameAmounts ==
    ASSUME NEW f, NEW g, IsAmounts(f), IsAmounts(g),
           \A v \in Validators : AmountAt(f, v) = AmountAt(g, v)
    PROVE  SumFunction(f) = SumFunction(g)
  <1>1. [v \in Validators |-> AmountAt(f, v)] = [v \in Validators |-> AmountAt(g, v)]
    OBVIOUS
  <1> QED
    BY <1>1, SumOverValidators

\* Amounts added at every validator add up.
LEMMA AddAmounts ==
    ASSUME NEW f, NEW g, NEW h, IsAmounts(f), IsAmounts(g), IsAmounts(h),
           \A v \in Validators : AmountAt(h, v) = AmountAt(f, v) + AmountAt(g, v)
    PROVE  SumFunction(h) = SumFunction(f) + SumFunction(g)
  <1> DEFINE Ext(x) == [v \in Validators |-> AmountAt(x, v)]
  <1>1. Ints(Ext(f), Validators) /\ Ints(Ext(g), Validators)
    BY DEF IsAmounts, AmountAt, Nats, Ints
  <1>2. \A v \in Validators : Ext(h)[v] = Ext(f)[v] + Ext(g)[v]
    OBVIOUS
  <1>3. SumFunction(f) = SumFunctionOnSet(Ext(f), Validators)
        /\ SumFunction(g) = SumFunctionOnSet(Ext(g), Validators)
        /\ SumFunction(h) = SumFunctionOnSet(Ext(h), Validators)
    BY SumOverValidators
  <1> HIDE DEF Ext
  <1>4. SumFunctionOnSet(Ext(h), Validators)
            = SumFunctionOnSet(Ext(f), Validators) + SumFunctionOnSet(Ext(g), Validators)
    BY <1>1, <1>2, Constants, SumPlus
  <1> QED
    BY <1>3, <1>4

\* Dropping the zeros changes no amount.
LEMMA NonZeroAmounts ==
    ASSUME NEW f, IsAmounts(f)
    PROVE  /\ IsAmounts(NonZero(f))
           /\ \A v \in Validators : AmountAt(NonZero(f), v) = AmountAt(f, v)
           /\ SumFunction(NonZero(f)) = SumFunction(f)
  <1>1. IsAmounts(NonZero(f)) /\ \A v \in Validators : AmountAt(NonZero(f), v) = AmountAt(f, v)
    BY DEF IsAmounts, NonZero, AmountAt, Nats
  <1> QED
    BY <1>1, SameAmounts

-----------------------------------------------------------------------------

\* The amounts of an unbonding.
LEMMA PendingSums ==
    ASSUME NEW p, IsPending(p)
    PROVE  /\ Nats(SumsOf(p), DOMAIN p) /\ Ints(SumsOf(p), DOMAIN p)
           /\ Total(p) = SumFunctionOnSet(SumsOf(p), DOMAIN p)
           /\ Total(p) \in Nat
  <1>1. \A t \in DOMAIN p : SumsOf(p)[t] \in Nat
    BY AmountsSum DEF IsPending, SumsOf
  <1>2. Nats(SumsOf(p), DOMAIN p) /\ Ints(SumsOf(p), DOMAIN p)
    BY <1>1 DEF Nats, Ints
  <1>3. Total(p) = SumFunctionOnSet(SumsOf(p), DOMAIN p)
    BY DEF Total, SumsOf, SumFunction, SumFunctionOnSet
  <1> QED
    BY <1>2, <1>3, SumNat DEF IsPending

\* A part of them.
LEMMA PartOfPending ==
    ASSUME NEW p, IsPending(p), NEW R \in SUBSET DOMAIN p
    PROVE  /\ IsPending(Restrict(p, R)) /\ DOMAIN Restrict(p, R) = R
           /\ Total(Restrict(p, R)) = SumFunctionOnSet(SumsOf(p), R)
           /\ Total(Restrict(p, R)) \in Nat
  <1> DEFINE q == Restrict(p, R)
  <1>1. DOMAIN q = R /\ \A t \in R : q[t] = p[t]
    BY DEF Restrict
  <1>2. IsFiniteSet(R)
    BY FS_Subset DEF IsPending
  <1>3. IsPending(q)
    <2> HIDE DEF q
    <2> QED
      BY <1>1, <1>2 DEF IsPending
  <1>4. \A t \in R : SumsOf(q)[t] = SumsOf(p)[t]
    BY <1>1 DEF SumsOf
  <1> HIDE DEF q
  <1>5. SumFunctionOnSet(SumsOf(q), R) = SumFunctionOnSet(SumsOf(p), R)
    BY <1>1, <1>2, <1>3, <1>4, PendingSums, SumSame
  <1>6. Total(q) = SumFunctionOnSet(SumsOf(q), R) /\ Total(q) \in Nat
    BY <1>1, <1>3, PendingSums
  <1> QED
    BY <1>1, <1>3, <1>5, <1>6 DEF q

\* Those before a time and those after it are all.
LEMMA TotalSplits ==
    ASSUME NEW p, IsPending(p), NEW time \in Nat
    PROVE  /\ IsPending(Before(p, time)) /\ IsPending(After(p, time))
           /\ Total(Before(p, time)) \in Nat /\ Total(After(p, time)) \in Nat
           /\ Total(p) = Total(Before(p, time)) + Total(After(p, time))
  <1> DEFINE B == {t \in DOMAIN p : t <= time}
             A == {t \in DOMAIN p : t > time}
  <1>1. B \in SUBSET DOMAIN p /\ A \in SUBSET DOMAIN p /\ A = DOMAIN p \ B
    BY DEF IsPending
  <1>2. Before(p, time) = Restrict(p, B) /\ After(p, time) = Restrict(p, A)
    BY DEF Before, After
  <1> HIDE DEF A, B
  <1>3. SumFunctionOnSet(SumsOf(p), DOMAIN p)
            = SumFunctionOnSet(SumsOf(p), B) + SumFunctionOnSet(SumsOf(p), A)
    BY <1>1, PendingSums, SumSplit DEF IsPending
  <1> QED
    BY <1>1, <1>2, <1>3, PartOfPending, PendingSums

\* What is left after cleaning has not expired.
LEMMA AfterIsAfter ==
    ASSUME NEW p, IsPending(p), NEW time \in Nat
    PROVE  /\ After(After(p, time), time) = After(p, time)
           /\ DOMAIN Before(After(p, time), time) = {}
           /\ Total(Before(After(p, time), time)) = 0
           /\ DOMAIN After(p, time) \subseteq DOMAIN p
  <1>1. After(After(p, time), time) = After(p, time)
    BY DEF After, Restrict
  <1>2. DOMAIN Before(After(p, time), time) = {}
    BY SMT DEF Before, After, Restrict, IsPending
  <1>3. DOMAIN After(p, time) \subseteq DOMAIN p
    BY DEF After, Restrict
  <1> DEFINE q == Before(After(p, time), time)
  <1>4. Total(q) = SumFunctionOnSet(SumsOf(q), DOMAIN q)
    BY DEF Total, SumsOf, SumFunction, SumFunctionOnSet
  <1> HIDE DEF q
  <1>5. Total(q) = 0
    BY <1>2, <1>4, SumEmpty DEF q
  <1> QED
    BY <1>1, <1>2, <1>3, <1>5 DEF q

\* As time goes on, what expires next is what had not expired.
LEMMA ExpiresLater ==
    ASSUME NEW p, IsPending(p), NEW time \in Nat, NEW later \in Nat, time <= later
    PROVE  /\ Total(Before(p, later)) = Total(Before(p, time)) + Total(Before(After(p, time), later))
           /\ After(p, later) = After(After(p, time), later)
           /\ Total(Before(After(p, time), later)) \in Nat
  <1> DEFINE B == {t \in DOMAIN p : t <= time}
             L == {t \in DOMAIN p : t <= later}
  <1>1. B \in SUBSET DOMAIN p /\ L \in SUBSET DOMAIN p /\ B \subseteq L
    BY DEF IsPending
  <1>2. IsFiniteSet(L) /\ Ints(SumsOf(p), L)
    BY <1>1, FS_Subset, PendingSums DEF IsPending, Ints
  <1>3. Before(p, time) = Restrict(p, B) /\ Before(p, later) = Restrict(p, L)
    BY DEF Before
  <1>4. Before(After(p, time), later) = Restrict(p, L \ B)
    BY SMT DEF Before, After, Restrict, IsPending
  <1>5. After(p, later) = After(After(p, time), later)
    BY SMT DEF After, Restrict, IsPending
  <1> HIDE DEF B, L
  <1>6. SumFunctionOnSet(SumsOf(p), L)
            = SumFunctionOnSet(SumsOf(p), B) + SumFunctionOnSet(SumsOf(p), L \ B)
    BY <1>1, <1>2, SumSplit
  <1>7. L \ B \in SUBSET DOMAIN p
    BY <1>1
  <1> QED
    BY <1>1, <1>3, <1>4, <1>5, <1>6, <1>7, PartOfPending

\* A new unbonding, with an expiry time of its own.
LEMMA NewPending ==
    ASSUME NEW p, IsPending(p), NEW k, k \in Nat, k \notin DOMAIN p, NEW f, IsAmounts(f)
    PROVE  /\ IsPending(Entered(p, k, f)) /\ DOMAIN Entered(p, k, f) = DOMAIN p \cup {k}
           /\ Total(Entered(p, k, f)) = Total(p) + SumFunction(f)
  <1> DEFINE q == Entered(p, k, f)
  <1>1. DOMAIN q = DOMAIN p \cup {k} /\ q[k] = f /\ \A t \in DOMAIN p : q[t] = p[t]
    BY DEF Entered
  <1> HIDE DEF q
  <1>3. IsPending(q)
    BY <1>1, FS_AddElement DEF IsPending
  <1>4. \A t \in DOMAIN p : SumsOf(p)[t] = SumsOf(q)[t]
    BY <1>1 DEF SumsOf
  <1>5. SumsOf(q)[k] = SumFunction(f)
    BY <1>1 DEF SumsOf
  <1>6. SumFunctionOnSet(SumsOf(p), DOMAIN p) = SumFunctionOnSet(SumsOf(q), DOMAIN p)
    BY <1>4, PendingSums, SumSame DEF IsPending
  <1>7. SumFunctionOnSet(SumsOf(q), DOMAIN p \cup {k})
            = SumsOf(q)[k] + SumFunctionOnSet(SumsOf(q), DOMAIN p)
    <2>1. Ints(SumsOf(q), DOMAIN p) /\ SumsOf(q)[k] \in Int
      BY <1>1, <1>3, PendingSums DEF Ints
    <2> QED
      BY <2>1, SumAdd DEF IsPending
  <1>8. Total(q) = SumFunctionOnSet(SumsOf(q), DOMAIN q)
        /\ Total(p) = SumFunctionOnSet(SumsOf(p), DOMAIN p)
    BY <1>3, PendingSums
  <1>9. SumFunction(f) \in Nat /\ Total(p) \in Nat
    BY AmountsSum, PendingSums
  <1>10. Total(q) = Total(p) + SumFunction(f)
    BY <1>1, <1>5, <1>6, <1>7, <1>8, <1>9
  <1> QED
    BY <1>1, <1>3, <1>10 DEF q

\* It comes after every time before its own.
LEMMA NewPendingAfter ==
    ASSUME NEW p, IsPending(p), NEW k, k \in Nat, NEW f, NEW time, time \in Nat, time < k
    PROVE  After(Entered(p, k, f), time) = Entered(After(p, time), k, f)
  BY SMT DEF After, Restrict, Entered, IsPending

LEMMA NewPendingBefore ==
    ASSUME NEW p, IsPending(p), NEW k, k \in Nat, NEW f, NEW time, time \in Nat, time < k
    PROVE  Before(Entered(p, k, f), time) = Before(p, time)
  BY SMT DEF Before, Restrict, Entered, IsPending

\* Unbondings with the same expiry times.
LEMMA LesserPending ==
    ASSUME NEW p, IsPending(p), NEW q, DOMAIN q = DOMAIN p,
           \A t \in DOMAIN p : IsAmounts(q[t]) /\ DOMAIN q[t] = DOMAIN p[t]
    PROVE  /\ IsPending(q)
           /\ (\A t \in DOMAIN p : \A v \in DOMAIN p[t] : q[t][v] = p[t][v]) => Total(q) = Total(p)
           /\ (\A t \in DOMAIN p : \A v \in DOMAIN p[t] : q[t][v] <= p[t][v]) => Total(q) <= Total(p)
  <1>1. IsPending(q)
    BY DEF IsPending
  <1>2. ASSUME \A t \in DOMAIN p : \A v \in DOMAIN p[t] : q[t][v] = p[t][v]
        PROVE  Total(q) = Total(p)
    <2>1. \A t \in DOMAIN p : SumFunction(q[t]) = SumFunction(p[t])
      BY <1>2, SameAmounts DEF IsPending, AmountAt
    <2>2. \A t \in DOMAIN p : SumsOf(p)[t] = SumsOf(q)[t]
      BY <2>1 DEF SumsOf
    <2>3. SumFunctionOnSet(SumsOf(p), DOMAIN p) = SumFunctionOnSet(SumsOf(q), DOMAIN p)
      BY <2>2, PendingSums, SumSame DEF IsPending
    <2> QED
      BY <1>1, <2>3, PendingSums
  <1>3. ASSUME \A t \in DOMAIN p : \A v \in DOMAIN p[t] : q[t][v] <= p[t][v]
        PROVE  Total(q) <= Total(p)
    <2>1. \A t \in DOMAIN p : SumFunction(q[t]) <= SumFunction(p[t])
      <3> SUFFICES ASSUME NEW t \in DOMAIN p PROVE SumFunction(q[t]) <= SumFunction(p[t])
        OBVIOUS
      <3>1. IsAmounts(q[t]) /\ IsAmounts(p[t]) /\ DOMAIN q[t] = DOMAIN p[t]
        BY DEF IsPending
      <3> QED
        BY <1>3, <3>1, AmountsSum, SumMonotone
    <2>2. \A t \in DOMAIN p : SumsOf(q)[t] <= SumsOf(p)[t]
      BY <2>1 DEF SumsOf
    <2>3. SumFunctionOnSet(SumsOf(q), DOMAIN p) <= SumFunctionOnSet(SumsOf(p), DOMAIN p)
      BY <1>1, <2>2, PendingSums, SumMonotone DEF IsPending
    <2> QED
      BY <1>1, <2>3, PendingSums
  <1> QED
    BY <1>1, <1>2, <1>3

\* Less at every time and validator is less before a time and after it.
LEMMA LesserParts ==
    ASSUME NEW p, IsPending(p), NEW q, DOMAIN q = DOMAIN p,
           \A t \in DOMAIN p : IsAmounts(q[t]) /\ DOMAIN q[t] = DOMAIN p[t],
           \A t \in DOMAIN p : \A v \in DOMAIN p[t] : q[t][v] <= p[t][v],
           NEW time \in Nat
    PROVE  /\ Total(Before(q, time)) <= Total(Before(p, time))
           /\ Total(After(q, time)) <= Total(After(p, time))
  <1>1. ASSUME NEW R \in SUBSET DOMAIN p
        PROVE  Total(Restrict(q, R)) <= Total(Restrict(p, R))
    <2> DEFINE a == Restrict(p, R)
               b == Restrict(q, R)
    <2>1. /\ DOMAIN a = R /\ DOMAIN b = R /\ \A t \in R : a[t] = p[t] /\ b[t] = q[t]
      BY DEF Restrict
    <2>2. IsPending(a)
      BY PartOfPending
    <2> HIDE DEF a, b
    <2>3. \A t \in DOMAIN a : IsAmounts(b[t]) /\ DOMAIN b[t] = DOMAIN a[t]
      BY <2>1
    <2>4. \A t \in DOMAIN a : \A v \in DOMAIN a[t] : b[t][v] <= a[t][v]
      BY <2>1
    <2>5. Total(b) <= Total(a)
      BY <2>1, <2>2, <2>3, <2>4, LesserPending
    <2> QED
      BY <2>5 DEF a, b
  <1>2. /\ {t \in DOMAIN p : t <= time} \in SUBSET DOMAIN p
        /\ {t \in DOMAIN p : t > time} \in SUBSET DOMAIN p
    OBVIOUS
  <1> QED
    BY <1>1, <1>2 DEF Before, After

-----------------------------------------------------------------------------
(* Payments and rewards *)

\* What IsValset says of the stored list: positions and validators.
LEMMA ListedValidators ==
    ASSUME IsValset(stake_info)
    PROVE  /\ DOMAIN stake_info = 1..Len(stake_info) /\ Len(stake_info) \in Nat
           /\ IsFiniteSet(DOMAIN stake_info)
           /\ \A i \in DOMAIN stake_info : /\ stake_info[i].validator \in Validators
                                           /\ stake_info[i].weight \in 0..DecimalOne
           /\ \A i, j \in DOMAIN stake_info :
                stake_info[i].validator = stake_info[j].validator => i = j
  <1>1. DOMAIN stake_info = 1..Len(stake_info) /\ Len(stake_info) \in Nat
    BY DEF IsValset
  <1>2. IsFiniteSet(DOMAIN stake_info)
    BY <1>1, FS_Interval, 1 \in Int
  <1>3. \A i \in DOMAIN stake_info :
           stake_info[i] \in [validator : Validators, weight : 0..DecimalOne]
    <2> DEFINE R == [validator : Validators, weight : 0..DecimalOne]
    <2>1. stake_info \in Seq(R)
      BY DEF IsValset
    <2> HIDE DEF R
    <2>2. \A i \in DOMAIN stake_info : stake_info[i] \in R
      BY <2>1
    <2> QED
      BY <2>2 DEF R
  <1>4. \A i \in DOMAIN stake_info : /\ stake_info[i].validator \in Validators
                                     /\ stake_info[i].weight \in 0..DecimalOne
    BY <1>3
  <1>5. \A i, j \in DOMAIN stake_info :
                stake_info[i].validator = stake_info[j].validator => i = j
    BY DEF IsValset
  <1> QED
    BY <1>1, <1>2, <1>4, <1>5

\* Payments by position are payments by validator.
LEMMA PaymentsByValidator ==
    ASSUME IsValset(stake_info), NEW pay, pay \in [DOMAIN stake_info -> Nat]
    PROVE  /\ IsAmounts(ByValidator(pay))
           /\ \A i \in DOMAIN stake_info :
                AmountAt(ByValidator(pay), stake_info[i].validator) = pay[i]
           /\ \A v \in DOMAIN ByValidator(pay) :
                \E i \in DOMAIN stake_info : v = stake_info[i].validator
           /\ SumFunction(ByValidator(pay)) = SumFunction(pay)
  <1> DEFINE D == DOMAIN stake_info
             b == [i \in D |-> stake_info[i].validator]
             g == [v \in {stake_info[i].validator : i \in D} |->
                     pay[CHOOSE i \in D : stake_info[i].validator = v]]
  <1>1. \A i \in D : g[stake_info[i].validator] = pay[i]
    BY ListedValidators
  <1>2. IsAmounts(g)
    <2>1. DOMAIN g \subseteq Validators
      BY ListedValidators
    <2>2. \A v \in DOMAIN g : g[v] \in Nat
      BY <1>1
    <2> QED
      BY <2>1, <2>2 DEF IsAmounts
  <1>3. ByValidator(pay) = NonZero(g)
    BY DEF ByValidator
  <1>4. \A i \in D : stake_info[i].validator \in Validators /\ AmountAt(g, stake_info[i].validator) = pay[i]
    BY <1>1, ListedValidators DEF AmountAt
  <1>5. \A v \in DOMAIN NonZero(g) : \E i \in D : v = stake_info[i].validator
    BY DEF NonZero
  <1>6. DOMAIN g = {b[i] : i \in D}
    OBVIOUS
  <1>7. \A i \in D : pay[i] = g[b[i]]
    BY <1>1
  <1>8. \A i, j \in D : b[i] = b[j] => i = j
    BY ListedValidators
  <1> HIDE DEF g, b
  <1>9. SumFunctionOnSet(pay, D) = SumFunctionOnSet(g, DOMAIN g)
    <2>1. IsFiniteSet(D) /\ Ints(pay, D)
      BY ListedValidators DEF Ints
    <2> HIDE DEF D
    <2> QED
      BY <1>6, <1>7, <1>8, <2>1, SumReindex
  <1>10. SumFunction(pay) = SumFunctionOnSet(pay, D)
    BY DEF SumFunction, SumFunctionOnSet
  <1> QED
    BY <1>2, <1>3, <1>4, <1>5, <1>9, <1>10, AmountsSum, NonZeroAmounts

\* The parts by weight.
LEMMA PayParts ==
    ASSUME IsValset(stake_info), NEW amount \in Nat
    PROVE  /\ Pay(amount) \in [DOMAIN stake_info -> Nat]
           /\ SumFunction(Pay(amount)) \in Nat
           /\ Remainder(amount) = amount - SumFunction(Pay(amount))
           /\ Ints(Pay(amount), DOMAIN stake_info)
  <1>1. \A i \in DOMAIN stake_info : MulFloor(amount, stake_info[i].weight) \in Nat
    <2> SUFFICES ASSUME NEW i \in DOMAIN stake_info
                 PROVE  MulFloor(amount, stake_info[i].weight) \in Nat
      OBVIOUS
    <2>1. stake_info[i].weight \in Nat
      BY ListedValidators, Constants, SMT
    <2> QED
      BY <2>1, MulFloorType
  <1>2. Pay(amount) \in [DOMAIN stake_info -> Nat]
    BY <1>1 DEF Pay
  <1>3. Nats(Pay(amount), DOMAIN stake_info) /\ Ints(Pay(amount), DOMAIN stake_info)
    BY <1>2 DEF Nats, Ints
  <1>4. SumFunction(Pay(amount)) = SumFunctionOnSet(Pay(amount), DOMAIN stake_info)
    BY <1>2 DEF SumFunction, SumFunctionOnSet
  <1> QED
    BY <1>2, <1>3, <1>4, ListedValidators, SumNat DEF Remainder

\* What is delegated is all of the surplus.
LEMMA DelegatedSurplus ==
    ASSUME IsValset(stake_info), stake_info # <<>>, Surplus \in Nat, Remainder(Surplus) >= 0
    PROVE  /\ DelegatePayments \in [DOMAIN stake_info -> Nat]
           /\ SumFunction(DelegatePayments) = Surplus
  <1> DEFINE p == Pay(Surplus)
             R == Remainder(Surplus)
             D == DOMAIN stake_info
  <1>1. /\ p \in [D -> Nat] /\ SumFunction(p) \in Nat /\ R = Surplus - SumFunction(p)
        /\ Ints(p, D)
    BY PayParts
  <1>2. 1 \in D /\ IsFiniteSet(D)
    BY ListedValidators DEF IsValset
  <1>3. DelegatePayments = [p EXCEPT ![1] = p[1] + R]
    BY DEF DelegatePayments
  <1>4. R >= 0
    OBVIOUS
  <1> HIDE DEF p, R, D
  <1>5. p[1] \in Nat /\ R \in Int /\ R \in Nat /\ p[1] + R \in Int /\ DOMAIN p = D
    BY <1>1, <1>2, <1>4
  <1>6. SumFunction([p EXCEPT ![1] = p[1] + R]) = SumFunction(p) - p[1] + (p[1] + R)
    BY <1>1, <1>2, <1>5, SumExcept
  <1>7. [p EXCEPT ![1] = p[1] + R] \in [D -> Nat]
    BY <1>1, <1>2, <1>5
  <1>8. SumFunction(p) - p[1] + (p[1] + R) = Surplus
    BY <1>1, <1>5
  <1>9. DelegatePayments \in [D -> Nat] /\ SumFunction(DelegatePayments) = Surplus
    BY <1>3, <1>6, <1>7, <1>8, Zenon
  <1> QED
    BY <1>9 DEF D

\* The loop of UndelegatePayments: what an undelegation still has to find.
UndelegateRound(p, i, acc) ==
    LET spare == bonded[stake_info[i].validator] - acc.pay[i]
        extra == IF spare < acc.remainder THEN spare ELSE acc.remainder
    IN  [pay |-> [acc.pay EXCEPT ![i] = @ + extra], remainder |-> acc.remainder - extra]

UndelegateStart(p) == [pay |-> Pay(Missing), remainder |-> Remainder(Missing)]

UndelegateLoop == INSTANCE FoldTheory WITH
    op <- UndelegateRound, base <- UndelegateStart, val <- ElementOf, pick <- LastOf

LEMMA UndelegateIsLoop ==
    LET s == [i \in DOMAIN stake_info |-> i]
    IN  /\ UndelegateLoop!InOrder
        /\ UndelegatePayments = UndelegateLoop!Fold(<<0, s>>, DOMAIN s).pay
  <1> DEFINE Loop(s) == FoldLeft(LAMBDA acc, i : UndelegateRound(0, i, acc), UndelegateStart(0), s)
  <1>1. \A s : Loop(s) = UndelegateLoop!Fold(<<0, s>>, DOMAIN s)
    BY DEF FoldLeft, MapThenFoldSet, Max, UndelegateLoop!Fold, UndelegateLoop!MapThenFoldSet,
           UndelegateRound, UndelegateStart, ElementOf, LastOf
  <1>2. UndelegatePayments = Loop([i \in DOMAIN stake_info |-> i]).pay
    BY DEF UndelegatePayments, UndelegateRound, UndelegateStart
  <1>3. UndelegateLoop!InOrder
    BY DEF UndelegateLoop!InOrder, LastOf
  <1> HIDE DEF Loop
  <1> QED
    BY <1>1, <1>2, <1>3

\* It never undelegates more than is missing, nor more than a validator has, and
\* it finds all that is missing unless every listed validator gives all it has.
LEMMA UndelegatedMissing ==
    ASSUME IsValset(stake_info), IsAmounts(bonded), Missing \in Nat, UndelegationFits
    PROVE  /\ UndelegatePayments \in [DOMAIN stake_info -> Nat]
           /\ SumFunction(UndelegatePayments) <= Missing
           /\ \A i \in DOMAIN stake_info :
                /\ stake_info[i].validator \in DOMAIN bonded
                /\ UndelegatePayments[i] <= bonded[stake_info[i].validator]
           /\ \/ SumFunction(UndelegatePayments) = Missing
              \/ \A i \in DOMAIN stake_info :
                   UndelegatePayments[i] = bonded[stake_info[i].validator]
  <1> DEFINE D == DOMAIN stake_info
             n == Len(stake_info)
             s == [i \in D |-> i]
             p == <<0, s>>
             Stake(i) == bonded[stake_info[i].validator]
             Good(acc) == /\ acc.pay \in [D -> Nat] /\ acc.remainder \in Nat
                          /\ SumFunction(acc.pay) + acc.remainder = Missing
                          /\ \A i \in D : acc.pay[i] <= Stake(i)
             Full(k, acc) == acc.remainder # 0 => \A i \in 1..k : acc.pay[i] = Stake(i)
             I == {x \in (0..n) \X [pay : [D -> Nat], remainder : Nat] :
                     Good(x[2]) /\ Full(x[1], x[2])}
  <1>1. D = 1..n /\ n \in Nat /\ IsFiniteSet(D)
    BY ListedValidators
  <1>2. \A i \in D : Stake(i) \in Nat /\ stake_info[i].validator \in DOMAIN bonded
    BY DEF UndelegationFits, IsAmounts
  <1>3. <<0, UndelegateStart(p)>> \in I
    <2>1. /\ Pay(Missing) \in [D -> Nat] /\ SumFunction(Pay(Missing)) \in Nat
          /\ Remainder(Missing) = Missing - SumFunction(Pay(Missing))
      BY PayParts
    <2>2. Remainder(Missing) >= 0 /\ \A i \in D : Pay(Missing)[i] <= Stake(i)
      BY DEF UndelegationFits
    <2>3. UndelegateStart(p).pay = Pay(Missing) /\ UndelegateStart(p).remainder = Remainder(Missing)
          /\ UndelegateStart(p) = [pay |-> Pay(Missing), remainder |-> Remainder(Missing)]
      BY DEF UndelegateStart
    <2> HIDE DEF D, Stake
    <2>4. Remainder(Missing) \in Nat /\ SumFunction(Pay(Missing)) + Remainder(Missing) = Missing
      BY <2>1, <2>2
    <2>5. UndelegateStart(p) \in [pay : [D -> Nat], remainder : Nat]
      BY <2>1, <2>3, <2>4
    <2>6. 0 \in 0..n /\ 1..0 = {}
      BY <1>1
    <2> QED
      BY <2>1, <2>2, <2>3, <2>4, <2>5, <2>6
  <1>4. ASSUME NEW k \in 1..n, NEW acc, <<k - 1, acc>> \in I
        PROVE  <<k, UndelegateRound(p, ElementOf(p, k), acc)>> \in I
    <2> DEFINE spare == Stake(k) - acc.pay[k]
               extra == IF spare < acc.remainder THEN spare ELSE acc.remainder
               new == acc.pay[k] + extra
    <2>1. ElementOf(p, k) = k /\ k \in D /\ k \in 0..n
      BY <1>1 DEF ElementOf
    <2>2. Good(acc) /\ Full(k - 1, acc)
      <3> HIDE DEF Good, Full
      <3> QED
        BY <1>4
    <2>3. UndelegateRound(p, ElementOf(p, k), acc)
            = [pay |-> [acc.pay EXCEPT ![k] = new], remainder |-> acc.remainder - extra]
      BY <2>1 DEF UndelegateRound
    <2> HIDE DEF I, D, p, s
    <2>4. acc.pay[k] \in Nat /\ acc.remainder \in Nat /\ Stake(k) \in Nat /\ acc.pay[k] <= Stake(k)
      BY <1>2, <2>1, <2>2
    <2> HIDE DEF Stake
    <2>5. extra \in Nat /\ extra <= acc.remainder /\ new \in Nat /\ new <= Stake(k)
      <3>1. \A stake, pay, rest \in Nat : pay <= stake =>
              LET less == IF stake - pay < rest THEN stake - pay ELSE rest
              IN  less \in Nat /\ less <= rest /\ pay + less \in Nat /\ pay + less <= stake
        OBVIOUS
      <3> QED
        BY <2>4, <3>1
    <2>6. DOMAIN acc.pay = D /\ Ints(acc.pay, D)
      BY <2>2 DEF Ints
    <2> HIDE DEF extra, spare
    <2>7. SumFunction([acc.pay EXCEPT ![k] = new]) = SumFunction(acc.pay) - acc.pay[k] + new
      <3>1. new \in Int
        BY <2>5
      <3> HIDE DEF new, Good
      <3> QED
        BY <1>1, <2>1, <2>6, <3>1, SumExcept
    <2>8. SumFunction(acc.pay) \in Nat
      <3>1. SumFunction(acc.pay) = SumFunctionOnSet(acc.pay, D)
        BY <2>6 DEF SumFunction, SumFunctionOnSet
      <3>2. Nats(acc.pay, D)
        BY <2>2 DEF Nats
      <3> HIDE DEF Good
      <3> QED
        BY <1>1, <3>1, <3>2, SumNat
    <2> DEFINE pay == [acc.pay EXCEPT ![k] = new]
               left == acc.remainder - extra
    <2>9. left \in Nat /\ SumFunction(pay) + left = Missing
      <3>1. SumFunction(acc.pay) + acc.remainder = Missing
        BY <2>2
      <3>2. SumFunction(pay) = SumFunction(acc.pay) + extra
        <4>1. SumFunction(pay) = SumFunction(acc.pay) - acc.pay[k] + (acc.pay[k] + extra)
          BY <2>7
        <4> QED
          BY <2>4, <2>5, <2>8, <4>1
      <3> HIDE DEF pay, new, Good
      <3> QED
        BY <2>4, <2>5, <2>8, <3>1, <3>2
    <2>10. pay \in [D -> Nat] /\ \A i \in D : pay[i] <= Stake(i)
      BY <2>1, <2>2, <2>5
    <2> HIDE DEF pay, left
    <2>11. UndelegateRound(p, ElementOf(p, k), acc) = [pay |-> pay, remainder |-> left]
      BY <2>3 DEF pay, left
    <2>12. Good([pay |-> pay, remainder |-> left])
      BY <2>9, <2>10
    <2>13. Full(k, [pay |-> pay, remainder |-> left])
      <3> SUFFICES ASSUME left # 0, NEW i \in 1..k PROVE pay[i] = Stake(i)
        OBVIOUS
      <3>1. acc.remainder # 0 /\ new = Stake(k)
        <4>1. \A stake, had, rest \in Nat : had <= stake =>
                LET less == IF stake - had < rest THEN stake - had ELSE rest
                IN  rest - less # 0 => rest # 0 /\ had + less = stake
          OBVIOUS
        <4> QED
          BY <2>4, <4>1 DEF left, extra, spare
      <3>2. CASE i = k
        BY <2>1, <2>2, <3>1, <3>2 DEF pay
      <3>3. CASE i # k
        <4>1. k \in Nat /\ i \in 1..(k - 1) /\ i \in D
          BY <1>1, <2>1, <3>3
        <4>2. acc.pay[i] = Stake(i)
          BY <2>2, <3>1, <4>1
        <4> QED
          BY <2>2, <3>3, <4>1, <4>2 DEF pay
      <3> QED
        BY <3>2, <3>3
    <2> HIDE DEF Good, Full
    <2> QED
      BY <2>1, <2>9, <2>10, <2>11, <2>12, <2>13 DEF I
  <1>5. UndelegateLoop!InOrder /\ UndelegatePayments = UndelegateLoop!Fold(p, 1..n).pay
    BY <1>1, UndelegateIsLoop
  <1> HIDE DEF I, n, s, p
  <1>6. <<n, UndelegateLoop!Fold(p, 1..n)>> \in I
    BY <1>1, <1>3, <1>4, <1>5, UndelegateLoop!LoopKeeps
  <1>7. UndelegatePayments = UndelegateLoop!Fold(p, 1..n).pay
    BY <1>5
  <1>8. Good(UndelegateLoop!Fold(p, 1..n)) /\ Full(n, UndelegateLoop!Fold(p, 1..n))
    <2> HIDE DEF Good, Full
    <2> QED
      BY <1>6 DEF I
  <1>9. \A x \in Nat, y \in Int : y + x = Missing => y <= Missing
    OBVIOUS
  <1>10. SumFunction(UndelegatePayments) \in Int
    <2>1. UndelegatePayments \in [D -> Nat]
      BY <1>7, <1>8
    <2>2. SumFunction(UndelegatePayments) = SumFunctionOnSet(UndelegatePayments, D)
      BY <2>1 DEF SumFunction, SumFunctionOnSet
    <2>3. Nats(UndelegatePayments, D)
      BY <2>1 DEF Nats
    <2> QED
      BY <1>1, <2>2, <2>3, SumNat
  <1>11. \A x, y \in Int : x + 0 = y => x = y
    OBVIOUS
  <1> HIDE DEF Stake
  <1>12. \/ SumFunction(UndelegatePayments) = Missing
         \/ \A i \in D : UndelegatePayments[i] = Stake(i)
    BY <1>1, <1>7, <1>8, <1>10, <1>11 DEF n
  <1> QED
    BY <1>2, <1>7, <1>8, <1>9, <1>10, <1>12 DEF Stake

\* Paying out rewards takes them from what is unclaimed.
LEMMA RewardsPaid ==
    ASSUME rewards \in [Validators -> Nat], NEW A \in SUBSET Validators, PayRewards(A)
    PROVE  /\ rewards' \in [Validators -> Nat]
           /\ RewardsOf(A) \in Nat /\ RewardsOf(A) <= SumFunction(rewards)
           /\ SumFunction(rewards) \in Nat
           /\ SumFunction(rewards') = SumFunction(rewards) - RewardsOf(A)
  <1> DEFINE T == Touched(A)
             r == rewards'
  <1>1. T \in SUBSET Validators
    BY DEF Touched
  <1>2. r \in [Validators -> Nat] /\ (\A v \in T : r[v] = 0) /\ \A v \in Validators \ T : r[v] = rewards[v]
    BY <1>1 DEF PayRewards
  <1>3. /\ SumFunction(rewards) = SumFunctionOnSet(rewards, Validators)
        /\ SumFunction(r) = SumFunctionOnSet(r, Validators)
        /\ RewardsOf(A) = SumFunctionOnSet(rewards, T)
    BY <1>2 DEF SumFunction, SumFunctionOnSet, RewardsOf
  <1> HIDE DEF T, r
  <1>4. /\ Ints(rewards, Validators) /\ Nats(rewards, T) /\ Nats(rewards, Validators \ T)
        /\ Ints(r, Validators) /\ Nats(rewards, Validators) /\ Ints(r, Validators \ T)
    BY <1>1, <1>2 DEF Ints, Nats
  <1>5. IsFiniteSet(T) /\ IsFiniteSet(Validators \ T) /\ IsFiniteSet(Validators)
    BY <1>1, Constants, FS_Subset, FS_Difference
  <1>6. SumFunctionOnSet(rewards, Validators)
            = SumFunctionOnSet(rewards, T) + SumFunctionOnSet(rewards, Validators \ T)
    BY <1>1, <1>4, <1>5, SumSplit
  <1>7. SumFunctionOnSet(r, Validators) = SumFunctionOnSet(r, Validators \ T)
    <2>1. \A v \in Validators \ (Validators \ T) : r[v] = 0
      BY <1>2
    <2> QED
      BY <1>4, <1>5, <2>1, SumZeros
  <1>8. SumFunctionOnSet(r, Validators \ T) = SumFunctionOnSet(rewards, Validators \ T)
    BY <1>2, <1>4, <1>5, SumSame
  <1>9. SumFunctionOnSet(rewards, T) \in Nat /\ SumFunctionOnSet(rewards, Validators \ T) \in Nat
    BY <1>4, <1>5, SumNat
  <1>10. /\ RewardsOf(A) \in Nat /\ RewardsOf(A) <= SumFunction(rewards)
         /\ SumFunction(rewards) \in Nat
         /\ SumFunction(r) = SumFunction(rewards) - RewardsOf(A)
    BY <1>3, <1>6, <1>7, <1>8, <1>9
  <1> QED
    BY <1>2, <1>10 DEF r

\* No rewards are paid twice.
LEMMA RewardsOfUnion ==
    ASSUME rewards \in [Validators -> Nat], NEW A \in SUBSET Validators,
           NEW B \in SUBSET Validators
    PROVE  /\ RewardsOf(A \cup B) = RewardsOf(A) + RewardsOf(B \ A)
           /\ RewardsOf(A) \in Nat /\ RewardsOf(B \ A) \in Nat
  <1>1. /\ Touched(A) \in SUBSET Touched(A \cup B)
        /\ Touched(A \cup B) \ Touched(A) = Touched(B \ A)
        /\ Touched(A \cup B) \in SUBSET Validators /\ Touched(B \ A) \in SUBSET Validators
        /\ Touched(A) \in SUBSET Validators
    BY DEF Touched
  <1>2. /\ IsFiniteSet(Touched(A \cup B)) /\ IsFiniteSet(Touched(A)) /\ IsFiniteSet(Touched(B \ A))
    BY <1>1, Constants, FS_Subset
  <1>3. /\ Ints(rewards, Touched(A \cup B)) /\ Nats(rewards, Touched(A))
        /\ Nats(rewards, Touched(B \ A))
    BY <1>1 DEF Ints, Nats
  <1>4. SumFunctionOnSet(rewards, Touched(A \cup B))
            = SumFunctionOnSet(rewards, Touched(A)) + SumFunctionOnSet(rewards, Touched(B \ A))
    <2> DEFINE U == Touched(A \cup B)
               R == Touched(A)
    <2>1. R \in SUBSET U /\ IsFiniteSet(U) /\ Ints(rewards, U) /\ U \ R = Touched(B \ A)
      BY <1>1, <1>2, <1>3
    <2> HIDE DEF U, R
    <2>2. SumFunctionOnSet(rewards, U)
              = SumFunctionOnSet(rewards, R) + SumFunctionOnSet(rewards, U \ R)
      BY <2>1, SumSplit
    <2> QED
      BY <2>1, <2>2, Zenon DEF U, R
  <1> QED
    BY <1>2, <1>3, <1>4, SumNat DEF RewardsOf

-----------------------------------------------------------------------------
(* Claims *)

ClaimSum(s) == SumFunction([i \in DOMAIN s |-> s[i].amount])

\* the first k of them
ClaimSumTo(s, k) == SumFunctionOnSet([i \in DOMAIN s |-> s[i].amount], 1..k)

\* The sum of claims, one at a time.
LEMMA ClaimSums ==
    ASSUME NEW s \in Seq(Claim)
    PROVE  /\ DOMAIN s = 1..Len(s) /\ Len(s) \in Nat
           /\ \A i \in 1..Len(s) : s[i] \in Claim
           /\ ClaimSum(s) = ClaimSumTo(s, Len(s)) /\ ClaimSum(s) \in Nat
           /\ ClaimSumTo(s, 0) = 0
           /\ \A k \in 1..Len(s) : /\ ClaimSumTo(s, k) = ClaimSumTo(s, k - 1) + s[k].amount
                                   /\ ClaimSumTo(s, k - 1) \in Nat
  <1> DEFINE f == [i \in DOMAIN s |-> s[i].amount]
             n == Len(s)
  <1>1. DOMAIN s = 1..n /\ n \in Nat
    OBVIOUS
  <1>2. \A i \in 1..n : s[i] \in Claim
    BY <1>1
  <1>3. Nats(f, 1..n) /\ DOMAIN f = 1..n
    BY <1>1, <1>2 DEF Nats, Claim
  <1>4. ClaimSum(s) = SumFunctionOnSet(f, 1..n)
    BY <1>3 DEF ClaimSum, SumFunction, SumFunctionOnSet
  <1>5. \A k : ClaimSumTo(s, k) = SumFunctionOnSet(f, 1..k)
    BY DEF ClaimSumTo
  <1>6. \A k \in 1..n : f[k] = s[k].amount
    BY <1>1
  <1> HIDE DEF f, n
  <1>7. 1..0 = {}
    BY SMT
  <1>8. IsFiniteSet(1..n)
    BY <1>1, FS_Interval, 1 \in Int
  <1>9. ASSUME NEW k \in 1..n
        PROVE  /\ SumFunctionOnSet(f, 1..k) = SumFunctionOnSet(f, 1..(k - 1)) + f[k]
               /\ SumFunctionOnSet(f, 1..(k - 1)) \in Nat
    <2>1. 1..k = (1..(k - 1)) \cup {k} /\ k \notin 1..(k - 1)
      BY <1>1, SMT
    <2>2. (1..(k - 1)) \in SUBSET (1..n)
      BY <1>1, SMT
    <2>3. Nats(f, 1..(k - 1)) /\ Ints(f, 1..(k - 1)) /\ f[k] \in Nat
      BY <1>3, <2>2 DEF Nats, Ints
    <2>4. IsFiniteSet(1..(k - 1))
      BY <1>8, <2>2, FS_Subset
    <2>5. SumFunctionOnSet(f, 1..(k - 1)) \in Nat
      BY <2>3, <2>4, SumNat
    <2>6. SumFunctionOnSet(f, (1..(k - 1)) \cup {k}) = f[k] + SumFunctionOnSet(f, 1..(k - 1))
      BY <2>1, <2>3, <2>4, SumAdd, f[k] \in Int
    <2>7. SumFunctionOnSet(f, 1..k) = f[k] + SumFunctionOnSet(f, 1..(k - 1))
      BY <2>1, <2>6, Zenon
    <2>8. f[k] \in Nat
      BY <2>3
    <2> QED
      BY <2>5, <2>7, <2>8
  <1>10. SumFunctionOnSet(f, 1..n) \in Nat
    BY <1>3, <1>8, SumNat
  <1>11. \A k \in 1..n : /\ ClaimSumTo(s, k) = ClaimSumTo(s, k - 1) + s[k].amount
                         /\ ClaimSumTo(s, k - 1) \in Nat
    BY <1>5, <1>6, <1>9
  <1> QED
    BY <1>1, <1>2, <1>4, <1>5, <1>7, <1>10, <1>11, SumEmpty DEF n

LEMMA ClaimSumAppend ==
    ASSUME NEW s \in Seq(Claim), NEW c \in Claim
    PROVE  /\ Append(s, c) \in Seq(Claim)
           /\ ClaimSum(Append(s, c)) = ClaimSum(s) + c.amount
  <1> DEFINE t == Append(s, c)
             n == Len(s)
  <1>1. t \in Seq(Claim) /\ Len(t) = n + 1 /\ t[n + 1] = c /\ \A i \in 1..n : t[i] = s[i]
    OBVIOUS
  <1>2. n \in Nat /\ DOMAIN s = 1..n /\ DOMAIN t = 1..(n + 1)
    OBVIOUS
  <1> HIDE DEF t, n
  <1>3. ClaimSumTo(t, n) = ClaimSumTo(s, n)
    <2> DEFINE f == [i \in DOMAIN s |-> s[i].amount]
               g == [i \in DOMAIN t |-> t[i].amount]
    <2>1. \A i \in 1..n : f[i] = g[i]
      BY <1>1, <1>2
    <2>2. \A i \in 1..n : s[i] \in Claim
      BY ClaimSums DEF n
    <2>3. Ints(f, 1..n)
      BY <1>2, <2>2 DEF Ints, Claim
    <2>4. IsFiniteSet(1..n)
      BY <1>2, FS_Interval, 1 \in Int
    <2>5. ClaimSumTo(t, n) = SumFunctionOnSet(g, 1..n) /\ ClaimSumTo(s, n) = SumFunctionOnSet(f, 1..n)
      BY DEF ClaimSumTo
    <2> HIDE DEF f, g
    <2>6. SumFunctionOnSet(f, 1..n) = SumFunctionOnSet(g, 1..n)
      BY <2>1, <2>3, <2>4, SumSame
    <2> QED
      BY <2>5, <2>6
  <1>4. n + 1 \in 1..Len(t) /\ (n + 1) - 1 = n
    BY <1>1, <1>2
  <1>5. ClaimSum(t) = ClaimSumTo(t, n + 1)
    BY <1>1, ClaimSums
  <1>6. ClaimSumTo(t, n + 1) = ClaimSumTo(t, (n + 1) - 1) + t[n + 1].amount
    BY <1>1, <1>4, ClaimSums
  <1>7. ClaimSum(s) = ClaimSumTo(s, n)
    BY ClaimSums DEF n
  <1>8. ClaimSum(t) = ClaimSum(s) + c.amount
    BY <1>1, <1>3, <1>4, <1>5, <1>6, <1>7
  <1> QED
    BY <1>1, <1>8 DEF t

LEMMA ClaimSumEmpty == ClaimSum(<<>>) = 0 /\ <<>> \in Seq(Claim)
  <1>1. <<>> \in Seq(Claim) /\ Len(<<>>) = 0
    OBVIOUS
  <1> QED
    BY <1>1, ClaimSums

\* The loop of Slashed: every slash recorded while the claim was unbonding.
SlashRound(p, s, amount) ==
    IF s.start < p[1].release_at /\ s.end > p[1].release_at
    THEN MulFloor(amount, s.multiplier) ELSE amount

SlashStart(p) == p[1].amount

SlashLoop == INSTANCE FoldTheory WITH
    op <- SlashRound, base <- SlashStart, val <- ElementOf, pick <- LastOf

LEMMA SlashedIsLoop ==
    /\ SlashLoop!InOrder
    /\ \A claim : Slashed(claim) = SlashLoop!Fold(<<claim, slashings>>, DOMAIN slashings)
  BY DEF Slashed, FoldLeft, MapThenFoldSet, Max,
         SlashLoop!InOrder, SlashLoop!Fold, SlashLoop!MapThenFoldSet,
         SlashRound, SlashStart, ElementOf, LastOf

Multipliers(values) == \A i \in DOMAIN slashings : slashings[i].multiplier \in values

\* A slash only takes from a claim, and one of nothing takes nothing.
LEMMA SlashedBounds ==
    ASSUME slashings \in Seq(Slashing), Multipliers(0..DecimalOne), NEW claim \in Claim
    PROVE  /\ Slashed(claim) \in 0..claim.amount
           /\ Multipliers({DecimalOne}) => Slashed(claim) = claim.amount
  <1> DEFINE n == Len(slashings)
  <1>1. n \in Nat /\ DOMAIN slashings = 1..n
    OBVIOUS
  <1>2. claim.amount \in Nat
    BY DEF Claim
  <1> HIDE DEF n
  <1>3. ASSUME NEW most \in SUBSET Nat, claim.amount \in most,
               \A i \in 1..n : \A a \in most : MulFloor(a, slashings[i].multiplier) \in most
        PROVE  Slashed(claim) \in most
    <2> DEFINE I == (0..n) \X most
               p == <<claim, slashings>>
    <2>1. <<0, SlashStart(p)>> \in I
      BY <1>1, <1>3 DEF SlashStart
    <2>2. ASSUME NEW k \in 1..n, NEW a, <<k - 1, a>> \in I
          PROVE  <<k, SlashRound(p, ElementOf(p, k), a)>> \in I
      <3>1. a \in most /\ k \in 0..n
        BY <1>1, <2>2
      <3>2. SlashRound(p, ElementOf(p, k), a) \in most
        BY <1>3, <3>1 DEF SlashRound, ElementOf
      <3> QED
        BY <3>1, <3>2
    <2>3. SlashLoop!InOrder /\ Slashed(claim) = SlashLoop!Fold(p, 1..n)
      BY <1>1, SlashedIsLoop
    <2> HIDE DEF I, p
    <2>4. <<n, SlashLoop!Fold(p, 1..n)>> \in I
      BY <1>1, <2>1, <2>2, <2>3, SlashLoop!LoopKeeps
    <2> QED
      BY <2>3, <2>4 DEF I
  <1>4. Slashed(claim) \in 0..claim.amount
    <2>1. ASSUME NEW i \in 1..n, NEW a \in 0..claim.amount
          PROVE  MulFloor(a, slashings[i].multiplier) \in 0..claim.amount
      <3>1. slashings[i].multiplier \in 0..DecimalOne /\ slashings[i].multiplier \in Nat
        BY <1>1, Constants, SMT DEF Multipliers
      <3>2. a \in Nat /\ a <= claim.amount
        BY <1>2, SMT
      <3>3. MulFloor(a, slashings[i].multiplier) \in Nat
            /\ MulFloor(a, slashings[i].multiplier) <= a
        BY <3>1, <3>2, MulFloorType, MulFloorAtMost
      <3> QED
        BY <1>2, <3>2, <3>3
    <2>2. 0..claim.amount \in SUBSET Nat /\ claim.amount \in 0..claim.amount
      BY <1>2, SMT
    <2> QED
      BY <1>3, <2>1, <2>2
  <1>5. ASSUME Multipliers({DecimalOne}) PROVE Slashed(claim) = claim.amount
    <2>1. \A i \in 1..n : \A a \in {claim.amount} : MulFloor(a, slashings[i].multiplier) = claim.amount
      BY <1>1, <1>2, <1>5, OneIsOne DEF Multipliers
    <2>2. Slashed(claim) \in {claim.amount}
      BY <1>2, <1>3, <2>1
    <2> QED
      BY <2>2
  <1> QED
    BY <1>4, <1>5

\* The loop of ClaimTokens: a claim is paid or waits.
ClaimRound(p, claim, acc) ==
    IF claim.release_at <= now /\ acc.to_send + Slashed(claim) <= balance
    THEN [acc EXCEPT !.to_send = @ + Slashed(claim)]
    ELSE [acc EXCEPT !.waiting = Append(@, claim)]

ClaimStart(p) == [to_send |-> 0, waiting |-> <<>>]

ClaimLoop == INSTANCE FoldTheory WITH
    op <- ClaimRound, base <- ClaimStart, val <- ElementOf, pick <- LastOf

LEMMA ClaimTokensIsLoop ==
    /\ ClaimLoop!InOrder
    /\ \A u : ClaimTokens(u) = ClaimLoop!Fold(<<0, user_claims[u]>>, DOMAIN user_claims[u])
  BY DEF ClaimTokens, FoldLeft, MapThenFoldSet, Max,
         ClaimLoop!InOrder, ClaimLoop!Fold, ClaimLoop!MapThenFoldSet,
         ClaimRound, ClaimStart, ElementOf, LastOf

\* What is paid is in the bank, and no more than the claims that go; as much if
\* no slash was recorded.
LEMMA ClaimTokensBounds ==
    ASSUME user_claims \in [Users -> Seq(Claim)], slashings \in Seq(Slashing),
           Multipliers(0..DecimalOne), balance \in Nat, NEW u \in Users
    PROVE  LET result == ClaimTokens(u)
           IN  /\ result.to_send \in 0..balance
               /\ result.waiting \in Seq(Claim)
               /\ Len(result.waiting) <= Len(user_claims[u])
               /\ result.to_send + ClaimSum(result.waiting) <= ClaimSum(user_claims[u])
               /\ Multipliers({DecimalOne}) =>
                    result.to_send + ClaimSum(result.waiting) = ClaimSum(user_claims[u])
  <1> DEFINE s == user_claims[u]
             n == Len(s)
             Whole == Multipliers({DecimalOne})
             Good(k, acc) ==
                /\ Len(acc.waiting) <= k
                /\ acc.to_send + ClaimSum(acc.waiting) <= ClaimSumTo(s, k)
                /\ Whole => acc.to_send + ClaimSum(acc.waiting) = ClaimSumTo(s, k)
             Results == [to_send : 0..balance, waiting : Seq(Claim)]
             p == <<0, s>>
             I == {x \in (0..n) \X Results : Good(x[1], x[2])}
  <1>1. s \in Seq(Claim)
    OBVIOUS
  <1>2. n \in Nat /\ DOMAIN s = 1..n /\ ClaimSum(s) = ClaimSumTo(s, n) /\ ClaimSumTo(s, 0) = 0
    BY <1>1, ClaimSums
  <1> HIDE DEF s, n
  <1>3. <<0, ClaimStart(p)>> \in I
    <2>1. ClaimStart(p) \in Results /\ ClaimStart(p).to_send = 0 /\ ClaimStart(p).waiting = <<>>
      BY ClaimSumEmpty DEF ClaimStart
    <2>2. Good(0, ClaimStart(p))
      BY <1>2, <2>1, ClaimSumEmpty
    <2>3. 0 \in 0..n
      BY <1>2
    <2> HIDE DEF Good, Results
    <2> QED
      BY <2>1, <2>2, <2>3
  <1>4. ASSUME NEW k \in 1..n, NEW acc, <<k - 1, acc>> \in I
        PROVE  <<k, ClaimRound(p, ElementOf(p, k), acc)>> \in I
    <2> DEFINE c == ElementOf(p, k)
               new == ClaimRound(p, c, acc)
    <2>1. acc \in Results /\ Good(k - 1, acc)
      <3> HIDE DEF Good, Results
      <3> QED
        BY <1>4
    <2>9. c = s[k]
      BY DEF ElementOf
    <2>2. c \in Claim /\ k \in 0..n /\ c.amount \in Nat
      <3>1. c \in Claim
        BY <1>1, <2>9, ClaimSums DEF n
      <3> QED
        BY <1>2, <3>1 DEF Claim
    <2>3. ClaimSumTo(s, k) = ClaimSumTo(s, k - 1) + c.amount /\ ClaimSumTo(s, k - 1) \in Nat
      BY <1>1, <2>9, ClaimSums DEF n
    <2> HIDE DEF c, p
    <2>4. Slashed(c) \in 0..c.amount /\ (Whole => Slashed(c) = c.amount)
      BY <2>2, SlashedBounds
    <2>5. acc.to_send \in 0..balance /\ acc.waiting \in Seq(Claim) /\ ClaimSum(acc.waiting) \in Nat
      BY <2>1, ClaimSums
    <2>8. Len(acc.waiting) \in Nat /\ Len(acc.waiting) <= k - 1 /\ k \in Nat
      BY <1>2, <2>1, <2>2, <2>5
    <2>6. CASE c.release_at <= now /\ acc.to_send + Slashed(c) <= balance
      <3>1. new = [acc EXCEPT !.to_send = @ + Slashed(c)]
        BY <2>6 DEF ClaimRound
      <3>2. new.to_send = acc.to_send + Slashed(c) /\ new.waiting = acc.waiting
        BY <2>1, <3>1
      <3>3. new.to_send \in 0..balance
        BY <2>2, <2>4, <2>5, <2>6, <3>2
      <3>4. new \in Results
        BY <2>1, <2>5, <3>1, <3>2, <3>3
      <3> HIDE DEF new
      <3>5. Good(k, new)
        <4>1. Len(new.waiting) <= k
          BY <2>8, <3>2
        <4> QED
          BY <2>1, <2>2, <2>3, <2>4, <2>5, <3>2, <4>1
      <3> HIDE DEF Good, Results
      <3> QED
        BY <2>2, <3>4, <3>5 DEF new, c
    <2>7. CASE ~(c.release_at <= now /\ acc.to_send + Slashed(c) <= balance)
      <3>1. new = [acc EXCEPT !.waiting = Append(@, c)]
        BY <2>7 DEF ClaimRound
      <3>2. new.to_send = acc.to_send /\ new.waiting = Append(acc.waiting, c)
        BY <2>1, <3>1
      <3>3. new.waiting \in Seq(Claim) /\ ClaimSum(new.waiting) = ClaimSum(acc.waiting) + c.amount
        BY <2>2, <2>5, <3>2, ClaimSumAppend
      <3>4. new \in Results
        BY <2>1, <2>5, <3>1, <3>2, <3>3
      <3> HIDE DEF new
      <3>5. Good(k, new)
        <4>1. Len(new.waiting) <= k
          BY <2>5, <2>8, <3>2
        <4> QED
          BY <2>1, <2>2, <2>3, <2>5, <3>2, <3>3, <4>1
      <3> HIDE DEF Good, Results
      <3> QED
        BY <2>2, <3>4, <3>5 DEF new, c
    <2> QED
      BY <2>6, <2>7
  <1>6. ClaimLoop!InOrder /\ ClaimTokens(u) = ClaimLoop!Fold(p, 1..n)
    BY <1>2, ClaimTokensIsLoop DEF s
  <1> HIDE DEF I, p
  <1>5. <<n, ClaimLoop!Fold(p, 1..n)>> \in I
    BY <1>2, <1>3, <1>4, <1>6, ClaimLoop!LoopKeeps
  <1>7. ClaimTokens(u) \in Results /\ Good(n, ClaimTokens(u))
    <2> HIDE DEF Good, Results
    <2> QED
      BY <1>5, <1>6 DEF I
  <1> QED
    BY <1>2, <1>7 DEF s

-----------------------------------------------------------------------------
(* Redelegations *)

Redelegation == [src : Validators, dst : Validators, amount : Nat]
StakeType == [Validators -> Int]

RedelegateRound(p, m, acc) == AfterRedelegation(acc, m)
RedelegateStart(p) == p[1]
RedelegateLoop == INSTANCE FoldTheory WITH
    op <- RedelegateRound, base <- RedelegateStart, val <- ElementOf, pick <- LastOf

Redelegated(stake, messages) == FoldLeft(AfterRedelegation, stake, messages)

LEMMA RedelegatedIsLoop ==
    /\ RedelegateLoop!InOrder
    /\ \A stake, messages : Redelegated(stake, messages)
                               = RedelegateLoop!Fold(<<stake, messages>>, DOMAIN messages)
  BY DEF Redelegated, FoldLeft, MapThenFoldSet, Max,
         RedelegateLoop!InOrder, RedelegateLoop!Fold, RedelegateLoop!MapThenFoldSet,
         RedelegateRound, RedelegateStart, ElementOf, LastOf

\* A redelegation moves stake and keeps the sum.
LEMMA RedelegationKeepsSum ==
    ASSUME NEW stake \in StakeType, NEW m \in Redelegation
    PROVE  /\ AfterRedelegation(stake, m) \in StakeType
           /\ SumFunction(AfterRedelegation(stake, m)) = SumFunction(stake)
  <1> DEFINE a == m.amount
             less == stake[m.src] - a
             one == [stake EXCEPT ![m.src] = less]
             more == one[m.dst] + a
             two == [one EXCEPT ![m.dst] = more]
  <1>1. m.src \in Validators /\ m.dst \in Validators /\ a \in Nat /\ IsFiniteSet(Validators)
    BY Constants DEF Redelegation
  <1>2. AfterRedelegation(stake, m) = two
    BY <1>1 DEF AfterRedelegation, StakeType
  <1> HIDE DEF a
  <1>3. one \in StakeType /\ stake[m.src] \in Int /\ less \in Int
    BY <1>1 DEF StakeType
  <1>4. SumFunction(one) = SumFunction(stake) - stake[m.src] + less
    <2>1. DOMAIN stake = Validators /\ Ints(stake, Validators)
      BY DEF StakeType, Ints
    <2> HIDE DEF less
    <2> QED
      BY <1>1, <1>3, <2>1, SumExcept
  <1> HIDE DEF one
  <1>5. two \in StakeType /\ one[m.dst] \in Int /\ more \in Int
    BY <1>1, <1>3 DEF StakeType
  <1>6. SumFunction(two) = SumFunction(one) - one[m.dst] + more
    <2>1. DOMAIN one = Validators /\ Ints(one, Validators)
      BY <1>3 DEF StakeType, Ints
    <2> HIDE DEF more
    <2> QED
      BY <1>1, <1>5, <2>1, SumExcept
  <1>7. SumFunction(stake) \in Int
    <2>1. DOMAIN stake = Validators /\ Ints(stake, Validators)
      BY DEF StakeType, Ints
    <2>2. SumFunction(stake) = SumFunctionOnSet(stake, Validators)
      BY <2>1 DEF SumFunction, SumFunctionOnSet
    <2> QED
      BY <1>1, <2>1, <2>2, SumInt
  <1>8. SumFunction(two) = SumFunction(stake)
    <2> HIDE DEF two
    <2>1. SumFunction(one) = SumFunction(stake) - a
      BY <1>1, <1>3, <1>4, <1>7
    <2>2. SumFunction(two) = SumFunction(one) + a
      <3>1. SumFunction(one) \in Int
        BY <1>1, <1>7, <2>1
      <3> QED
        BY <1>1, <1>5, <1>6, <3>1
    <2> QED
      BY <1>1, <1>7, <2>1, <2>2
  <1> QED
    BY <1>2, <1>5, <1>8

\* One more message is one more redelegation; without one nothing happens.
LEMMA RedelegatedAppend ==
    ASSUME NEW stake, NEW messages \in Seq(Redelegation), NEW m \in Redelegation
    PROVE  Redelegated(stake, Append(messages, m))
               = AfterRedelegation(Redelegated(stake, messages), m)
  <1> DEFINE n == Len(messages)
             longer == Append(messages, m)
             p == <<stake, messages>>
             z == <<stake, longer>>
  <1>1. /\ n \in Nat /\ DOMAIN messages = 1..n /\ DOMAIN longer = 1..(n + 1)
        /\ longer[n + 1] = m /\ \A k \in 1..n : longer[k] = messages[k]
    OBVIOUS
  <1> HIDE DEF n, longer
  <1>2. /\ RedelegateStart(z) = RedelegateStart(p)
        /\ \A k \in 1..n : \A a : RedelegateRound(z, ElementOf(z, k), a)
                                    = RedelegateRound(p, ElementOf(p, k), a)
        /\ \A a : RedelegateRound(z, ElementOf(z, n + 1), a) = AfterRedelegation(a, m)
    BY <1>1 DEF RedelegateStart, RedelegateRound, ElementOf
  <1>3. /\ RedelegateLoop!InOrder
        /\ Redelegated(stake, messages) = RedelegateLoop!Fold(p, 1..n)
        /\ Redelegated(stake, longer) = RedelegateLoop!Fold(z, 1..(n + 1))
    BY <1>1, RedelegatedIsLoop
  <1> HIDE DEF p, z
  <1>4. RedelegateLoop!Fold(z, 1..(n + 1))
            = RedelegateRound(z, ElementOf(z, n + 1), RedelegateLoop!Fold(p, 1..n))
    BY <1>1, <1>2, <1>3, RedelegateLoop!LoopAppend
  <1> QED
    BY <1>2, <1>3, <1>4 DEF longer

LEMMA RedelegatedNone == \A stake : Redelegated(stake, <<>>) = stake
  <1> SUFFICES ASSUME NEW stake PROVE Redelegated(stake, <<>>) = stake
    OBVIOUS
  <1> DEFINE p == <<stake, <<>>>>
  <1>1. DOMAIN <<>> = 1..0 /\ 0 \in Nat
    BY SMT
  <1>2. RedelegateLoop!InOrder /\ Redelegated(stake, <<>>) = RedelegateLoop!Fold(p, 1..0)
    BY <1>1, RedelegatedIsLoop
  <1>3. RedelegateStart(p) = stake
    BY DEF RedelegateStart
  <1> HIDE DEF p
  <1>4. \E r : RedelegateLoop!Runs(p, 0, r)
    BY <1>1, <1>2, RedelegateLoop!LoopRuns
  <1>5. RedelegateLoop!Fold(p, 1..0) = RedelegateStart(p)
    BY <1>4 DEF RedelegateLoop!Runs
  <1> QED
    BY <1>2, <1>3, <1>5

-----------------------------------------------------------------------------
(* A change of the validator set *)

\* who has to give and who has to get, of the balances and the targets
Givers(balances, targets) == {v \in DOMAIN balances : balances[v] > AmountAt(targets, v)}
Takers(balances, targets) ==
    {v \in DOMAIN targets : v \notin DOMAIN balances \/ targets[v] > balances[v]}

StakeBefore(balances) == [v \in Validators |-> AmountAt(balances, v)]

\* the stake when `from` is left to give and `to` is left to get
StakeAt(balances, targets, from, to) ==
    [v \in Validators |-> IF v \in DOMAIN from THEN AmountAt(targets, v) + from[v]
                          ELSE IF v \in DOMAIN to THEN targets[v] - to[v]
                          ELSE AmountAt(balances, v)]

MatchStates(balances, targets) ==
    [from : [Givers(balances, targets) -> Nat], to : [Takers(balances, targets) -> Nat],
     messages : Seq(Redelegation)]

\* What each round of the matching keeps: the messages so far lead from the
\* balances to the stake that is left to move.
Matched(balances, targets, state) ==
    LET stake == StakeAt(balances, targets, state.from, state.to)
    IN  /\ state \in MatchStates(balances, targets)
        /\ \A v \in Takers(balances, targets) : state.to[v] <= targets[v]
        /\ Redelegated(StakeBefore(balances), state.messages) = stake
        /\ SumFunction(stake) = SumFunction(StakeBefore(balances))

LEMMA MoveKeeps ==
    ASSUME NEW balances, NEW targets, IsAmounts(balances), IsAmounts(targets),
           NEW state, Matched(balances, targets, state),
           NEW to \in Takers(balances, targets), NEW from \in Givers(balances, targets)
    PROVE  Matched(balances, targets, Move(state, to, from))
  <1> DEFINE G == Givers(balances, targets)
             T == Takers(balances, targets)
             amount == IF state.from[from] < state.to[to] THEN state.from[from] ELSE state.to[to]
             from2 == [state.from EXCEPT ![from] = @ - amount]
             to2 == [state.to EXCEPT ![to] = @ - amount]
             m == [src |-> from, dst |-> to, amount |-> amount]
             messages2 == Append(state.messages, m)
             stake == StakeAt(balances, targets, state.from, state.to)
             stake2 == StakeAt(balances, targets, from2, to2)
  <1>1. /\ state.from \in [G -> Nat] /\ state.to \in [T -> Nat]
        /\ state.messages \in Seq(Redelegation)
        /\ \A v \in T : state.to[v] <= targets[v]
        /\ Redelegated(StakeBefore(balances), state.messages) = stake
        /\ SumFunction(stake) = SumFunction(StakeBefore(balances))
    BY DEF Matched, MatchStates
  <1>2. /\ from \in G /\ to \in T /\ from # to /\ from \notin T /\ to \notin G
        /\ G \subseteq Validators /\ T \subseteq Validators
        /\ \A v \in T : targets[v] \in Nat
        /\ \A v \in G : v \notin T
    BY SMT DEF Givers, Takers, IsAmounts, AmountAt
  <1>3. \A v \in Validators : AmountAt(targets, v) \in Nat /\ AmountAt(balances, v) \in Nat
    BY DEF IsAmounts, AmountAt
  <1>4. CASE amount = 0
    <2>1. Move(state, to, from) = state
      BY <1>4 DEF Move
    <2> QED
      BY <2>1
  <1>5. CASE amount # 0
    <2>1. Move(state, to, from) = [from |-> from2, to |-> to2, messages |-> messages2]
      BY <1>5 DEF Move
    <2> HIDE DEF G, T
    <2>2. amount \in Nat /\ amount <= state.from[from] /\ amount <= state.to[to]
      BY <1>1, <1>2
    <2> HIDE DEF amount
    <2>3. from2 \in [G -> Nat] /\ to2 \in [T -> Nat]
      BY <1>1, <1>2, <2>2
    <2>4. m \in Redelegation /\ m.src = from /\ m.dst = to /\ m.amount = amount
      BY <1>2, <2>2 DEF Redelegation
    <2> HIDE DEF m
    <2>5. messages2 \in Seq(Redelegation)
      BY <1>1, <2>4
    <2>6. \A v \in T : to2[v] <= targets[v]
      BY <1>1, <1>2, <2>2
    <2>7. stake \in StakeType
      BY <1>1, <1>2, <1>3 DEF StakeAt, StakeType
    <2>8. stake2 = AfterRedelegation(stake, m)
      <3> DEFINE after == AfterRedelegation(stake, m)
      <3>1. after = [v \in Validators |-> IF v = to THEN stake[v] + amount
                                          ELSE IF v = from THEN stake[v] - amount ELSE stake[v]]
        <4> HIDE DEF stake
        <4> QED
          BY <1>2, <2>4, <2>7 DEF AfterRedelegation, StakeType
      <3>2. \A v \in Validators : stake2[v] = after[v]
        <4> SUFFICES ASSUME NEW v \in Validators PROVE stake2[v] = after[v]
          OBVIOUS
        <4>1. stake2[v] = IF v \in G THEN AmountAt(targets, v) + from2[v]
                          ELSE IF v \in T THEN targets[v] - to2[v] ELSE AmountAt(balances, v)
          BY <2>3 DEF StakeAt
        <4>2. stake[v] = IF v \in G THEN AmountAt(targets, v) + state.from[v]
                         ELSE IF v \in T THEN targets[v] - state.to[v] ELSE AmountAt(balances, v)
          BY <1>1 DEF StakeAt
        <4>3. after[v] = IF v = to THEN stake[v] + amount
                         ELSE IF v = from THEN stake[v] - amount ELSE stake[v]
          BY <3>1
        <4> HIDE DEF stake, stake2, after
        <4>4. CASE v = to
          <5>1. to2[v] = state.to[v] - amount /\ state.to[v] \in Nat
            BY <1>1, <1>2, <4>4
          <5> HIDE DEF to2
          <5> QED
            BY <1>2, <2>2, <4>1, <4>2, <4>3, <4>4, <5>1
        <4>5. CASE v = from
          <5>1. from2[v] = state.from[v] - amount /\ state.from[v] \in Nat
            BY <1>1, <1>2, <4>5
          <5> HIDE DEF from2
          <5> QED
            BY <1>2, <1>3, <2>2, <4>1, <4>2, <4>3, <4>5, <5>1
        <4>6. CASE v # to /\ v # from
          <5>1. (v \in G => from2[v] = state.from[v]) /\ (v \in T => to2[v] = state.to[v])
            BY <1>1, <4>6
          <5> HIDE DEF from2, to2
          <5> QED
            BY <4>1, <4>2, <4>3, <4>6, <5>1
        <4> QED
          BY <4>4, <4>5, <4>6
      <3>3. stake2 = [v \in Validators |-> stake2[v]]
        BY DEF StakeAt
      <3>4. after = [v \in Validators |-> after[v]]
        <4> HIDE DEF stake
        <4> QED
          BY <3>1
      <3> HIDE DEF stake2, after
      <3> QED
        BY <3>2, <3>3, <3>4 DEF after
    <2> HIDE DEF stake, stake2
    <2>9. Redelegated(StakeBefore(balances), messages2) = stake2
      BY <1>1, <2>4, <2>8, RedelegatedAppend
    <2>10. SumFunction(stake2) = SumFunction(StakeBefore(balances))
      BY <1>1, <2>4, <2>7, <2>8, RedelegationKeepsSum
    <2> HIDE DEF from2, to2, messages2
    <2> DEFINE next == [from |-> from2, to |-> to2, messages |-> messages2]
    <2>11. next.from = from2 /\ next.to = to2 /\ next.messages = messages2
           /\ next \in [from : [G -> Nat], to : [T -> Nat], messages : Seq(Redelegation)]
      BY <2>3, <2>5
    <2>12. StakeAt(balances, targets, next.from, next.to) = stake2
      BY <2>11 DEF stake2
    <2> HIDE DEF next
    <2>13. Matched(balances, targets, next)
      BY <2>6, <2>9, <2>10, <2>11, <2>12 DEF Matched, MatchStates, G, T
    <2> QED
      BY <2>1, <2>13 DEF next
  <1> QED
    BY <1>4, <1>5

\* The inner loop of Match; p[1] has the state and the taker.
TakeRound(p, from, inner) == Move(inner, p[1][2], from.validator)
TakeStart(p) == p[1][1]
TakeLoop == INSTANCE FoldTheory WITH
    op <- TakeRound, base <- TakeStart, val <- ElementOf, pick <- LastOf

LEMMA TakeIsLoop ==
    /\ TakeLoop!InOrder
    /\ \A state, to, moves : TakeFromEach(state, to, moves)
                                = TakeLoop!Fold(<<<<state, to>>, moves>>, DOMAIN moves)
  <1>1. \A p : TakeFromEach(p[1][1], p[1][2], p[2]) = TakeLoop!Fold(p, DOMAIN p[2])
    BY DEF TakeFromEach, FoldLeft, MapThenFoldSet, Max,
         TakeLoop!InOrder, TakeLoop!Fold, TakeLoop!MapThenFoldSet,
         TakeRound, TakeStart, ElementOf, LastOf
  <1>2. TakeLoop!InOrder
    BY DEF TakeLoop!InOrder, LastOf
  <1> SUFFICES ASSUME NEW state, NEW to, NEW moves
               PROVE  TakeFromEach(state, to, moves)
                        = TakeLoop!Fold(<<<<state, to>>, moves>>, DOMAIN moves)
    BY <1>2
  <1> DEFINE p == <<<<state, to>>, moves>>
  <1>3. p[1][1] = state /\ p[1][2] = to /\ p[2] = moves
    OBVIOUS
  <1> HIDE DEF p
  <1>4. TakeFromEach(state, to, moves) = TakeLoop!Fold(p, DOMAIN moves)
    BY <1>1, <1>3
  <1> QED
    BY <1>4 DEF p

\* moves is a list of some of the validators
ListsOf(moves, validators) ==
    /\ Len(moves) \in Nat /\ DOMAIN moves = 1..Len(moves)
    /\ \A i \in DOMAIN moves : moves[i].validator \in validators

\* What a move between any two of the validators keeps, the loop keeps.
LEMMA TakeInduction ==
    ASSUME NEW K, NEW to, NEW V, NEW moves, ListsOf(moves, V), NEW state \in K,
           \A x \in K : \A v \in V : Move(x, to, v) \in K
    PROVE  TakeFromEach(state, to, moves) \in K
  <1> DEFINE n == Len(moves)
             p == <<<<state, to>>, moves>>
             I == (0..n) \X K
  <1>1. n \in Nat /\ DOMAIN moves = 1..n
    BY DEF ListsOf
  <1>2. TakeStart(p) = state
    BY DEF TakeStart
  <1> HIDE DEF n
  <1>3. <<0, TakeStart(p)>> \in I
    BY <1>1, <1>2
  <1>4. ASSUME NEW k \in 1..n, NEW acc, <<k - 1, acc>> \in I
        PROVE  <<k, TakeRound(p, ElementOf(p, k), acc)>> \in I
    <2>1. acc \in K /\ moves[k].validator \in V /\ k \in 0..n
      BY <1>1, <1>4 DEF ListsOf
    <2>2. TakeRound(p, ElementOf(p, k), acc) = Move(acc, to, moves[k].validator)
      BY DEF TakeRound, ElementOf
    <2> HIDE DEF p
    <2> QED
      BY <2>1, <2>2
  <1>5. TakeLoop!InOrder /\ TakeFromEach(state, to, moves) = TakeLoop!Fold(p, 1..n)
    BY <1>1, TakeIsLoop
  <1> HIDE DEF I, p
  <1>6. <<n, TakeLoop!Fold(p, 1..n)>> \in I
    BY <1>1, <1>3, <1>4, <1>5, TakeLoop!LoopKeeps
  <1> QED
    BY <1>5, <1>6 DEF I

\* The outer loop of Match; p has the givers and the takers.
MatchRound(p, to, outer) == TakeFromEach(outer, to.validator, p[1])
MatchStart(p) == [from |-> Amounts(ToSet(p[1])), to |-> Amounts(ToSet(p[2])), messages |-> <<>>]
MatchLoop == INSTANCE FoldTheory WITH
    op <- MatchRound, base <- MatchStart, val <- ElementOf, pick <- LastOf

LEMMA MatchIsLoop ==
    /\ MatchLoop!InOrder
    /\ \A from, to : Match(from, to) = MatchLoop!Fold(<<from, to>>, DOMAIN to)
  <1>1. \A p : Match(p[1], p[2]) = MatchLoop!Fold(p, DOMAIN p[2])
    BY DEF Match, FoldLeft, MapThenFoldSet, Max,
         MatchLoop!InOrder, MatchLoop!Fold, MatchLoop!MapThenFoldSet,
         MatchRound, MatchStart, ElementOf, LastOf
  <1>2. MatchLoop!InOrder
    BY DEF MatchLoop!InOrder, LastOf
  <1> SUFFICES ASSUME NEW from, NEW to
               PROVE  Match(from, to) = MatchLoop!Fold(<<from, to>>, DOMAIN to)
    BY <1>2
  <1> DEFINE p == <<from, to>>
  <1>3. p[1] = from /\ p[2] = to
    OBVIOUS
  <1> HIDE DEF p
  <1>4. Match(from, to) = MatchLoop!Fold(p, DOMAIN to)
    BY <1>1, <1>3
  <1> QED
    BY <1>4 DEF p

LEMMA MatchInduction ==
    ASSUME NEW K, NEW G, NEW T, NEW from, NEW to, ListsOf(from, G), ListsOf(to, T),
           MatchStart(<<from, to>>) \in K,
           \A x \in K : \A t \in T : \A v \in G : Move(x, t, v) \in K
    PROVE  Match(from, to) \in K
  <1> DEFINE n == Len(to)
             p == <<from, to>>
             I == (0..n) \X K
  <1>1. n \in Nat /\ DOMAIN to = 1..n
    BY DEF ListsOf
  <1> HIDE DEF n
  <1>2. <<0, MatchStart(p)>> \in I
    BY <1>1
  <1>3. ASSUME NEW k \in 1..n, NEW acc, <<k - 1, acc>> \in I
        PROVE  <<k, MatchRound(p, ElementOf(p, k), acc)>> \in I
    <2>1. acc \in K /\ to[k].validator \in T /\ k \in 0..n
      BY <1>1, <1>3 DEF ListsOf
    <2>2. MatchRound(p, ElementOf(p, k), acc) = TakeFromEach(acc, to[k].validator, from)
      BY DEF MatchRound, ElementOf
    <2>3. TakeFromEach(acc, to[k].validator, from) \in K
      BY <2>1, TakeInduction
    <2> HIDE DEF p
    <2> QED
      BY <2>1, <2>2, <2>3
  <1>4. MatchLoop!InOrder /\ Match(from, to) = MatchLoop!Fold(p, 1..n)
    BY <1>1, MatchIsLoop
  <1> HIDE DEF I, p
  <1>5. <<n, MatchLoop!Fold(p, 1..n)>> \in I
    BY <1>1, <1>2, <1>3, <1>4, MatchLoop!LoopKeeps
  <1> QED
    BY <1>4, <1>5 DEF I

\* A list of the moves of a finite set has all of them.
LEMMA ListHasAll ==
    ASSUME NEW moves, IsFiniteSet(moves), NEW s \in LargestFirst(moves)
    PROVE  /\ Len(s) \in Nat /\ DOMAIN s = 1..Len(s) /\ \A i \in DOMAIN s : s[i] \in moves
           /\ ToSet(s) = moves
  <1> DEFINE D == 1..Cardinality(moves)
  <1>1. s \in [D -> moves] /\ \A i, j \in D : i # j => s[i] # s[j]
    BY DEF LargestFirst, SetToSeqs
  <1>2. Cardinality(moves) \in Nat /\ Cardinality(D) = Cardinality(moves)
    <2>1. Cardinality(moves) \in Nat
      BY FS_CardinalityType
    <2> QED
      BY <2>1, FS_Interval, 1 \in Int, SMT
  <1>3. s \in Injection(D, moves)
    BY <1>1 DEF Injection, IsInjective
  <1> HIDE DEF D
  <1>4. s \in Surjection(D, moves)
    BY <1>2, <1>3, FS_Injection
  <1>5. \A m \in moves : \E i \in D : s[i] = m
    BY <1>4 DEF Surjection
  <1>6. ToSet(s) = moves
    BY <1>1, <1>5 DEF ToSet
  <1>7. Len(s) = Cardinality(moves)
    BY <1>1, <1>2 DEF D
  <1> QED
    BY <1>1, <1>2, <1>6, <1>7 DEF D

\* The targets are amounts of listed validators.
LEMMA TargetsAreAmounts ==
    ASSUME NEW valset, IsValset(valset), NEW total_bonded \in Nat
    PROVE  IsAmounts(Targets(total_bonded, valset))
  <1> DEFINE R == [validator : Validators, weight : 0..DecimalOne]
             V == {valset[i].validator : i \in DOMAIN valset}
             Index(v) == CHOOSE i \in DOMAIN valset : valset[i].validator = v
             t == Targets(total_bonded, valset)
  <1>1. \A i \in DOMAIN valset : valset[i].validator \in Validators /\ valset[i].weight \in Nat
    <2>1. valset \in Seq(R)
      BY DEF IsValset
    <2> HIDE DEF R
    <2>2. \A i \in DOMAIN valset : valset[i] \in R
      BY <2>1
    <2> QED
      BY <2>2, DecimalOneAssumption, SMT DEF R
  <1>2. V \subseteq Validators
    BY <1>1
  <1>3. \A v \in V : Index(v) \in DOMAIN valset
    OBVIOUS
  <1>4. t = [v \in V |-> MulFloor(total_bonded, valset[Index(v)].weight)]
    BY DEF Targets
  <1> HIDE DEF Index, t
  <1>5. \A v \in V : MulFloor(total_bonded, valset[Index(v)].weight) \in Nat
    BY <1>1, <1>3, MulFloorType
  <1> HIDE DEF V
  <1>6. DOMAIN t \subseteq Validators /\ t \in [DOMAIN t -> Nat]
    BY <1>2, <1>4, <1>5
  <1> QED
    BY <1>6 DEF IsAmounts, t

\* The moves of a side, and the amounts they start from.
MovesOf(V, f) == {[validator |-> v, amount |-> f[v]] : v \in V}

LEMMA MovesOfSide ==
    ASSUME NEW V \in SUBSET Validators, NEW f, \A v \in V : f[v] \in Nat,
           NEW moves, moves = MovesOf(V, f)
    PROVE  /\ IsFiniteSet(moves)
           /\ \A m \in moves : m.validator \in V
           /\ Amounts(moves) \in [V -> Nat]
           /\ \A v \in V : Amounts(moves)[v] = f[v]
  <1> USE DEF MovesOf
  <1>1. IsFiniteSet(moves)
    <2>1. IsFiniteSet(V)
      BY Constants, FS_Subset
    <2> DEFINE g == [v \in V |-> [validator |-> v, amount |-> f[v]]]
    <2>2. g \in Surjection(V, moves)
      BY DEF Surjection
    <2> HIDE DEF g
    <2> QED
      BY <2>1, <2>2, FS_Surjection
  <1>2. \A m \in moves : m.validator \in V /\ m.amount = f[m.validator]
    OBVIOUS
  <1>3. \A v \in V : \E m \in moves : m.validator = v
    <2> SUFFICES ASSUME NEW v \in V PROVE \E m \in moves : m.validator = v
      OBVIOUS
    <2>1. [validator |-> v, amount |-> f[v]] \in moves
      OBVIOUS
    <2> QED
      BY <2>1
  <1>4. {m.validator : m \in moves} = V
    BY <1>2, <1>3
  <1>5. \A v \in V : (CHOOSE m \in moves : m.validator = v).amount = f[v]
    <2> SUFFICES ASSUME NEW v \in V PROVE (CHOOSE m \in moves : m.validator = v).amount = f[v]
      OBVIOUS
    <2> DEFINE c == CHOOSE m \in moves : m.validator = v
    <2>1. c \in moves /\ c.validator = v
      BY <1>3
    <2> HIDE DEF c
    <2>2. c.amount = f[v]
      BY <1>2, <2>1
    <2> QED
      BY <2>2 DEF c
  <1> DEFINE h(v) == (CHOOSE m \in moves : m.validator = v).amount
  <1>6. Amounts(moves) = [v \in V |-> h(v)]
    BY <1>4 DEF Amounts
  <1>7. \A v \in V : h(v) = f[v]
    BY <1>5
  <1> HIDE DEF h
  <1>8. Amounts(moves) \in [V -> Nat] /\ \A v \in V : Amounts(moves)[v] = f[v]
    BY <1>6, <1>7
  <1> QED
    BY <1>1, <1>2, <1>8

\* What the matching starts with: the two sides have nobody in common, their
\* lists have all of them, and the amounts are the differences.
LEMMA MatchSides ==
    ASSUME NEW balances, NEW targets, IsAmounts(balances), IsAmounts(targets),
           NEW from \in LargestFirst(DelegateFrom(balances, targets)),
           NEW to \in LargestFirst(DelegateTo(balances, targets))
    PROVE  LET G == Givers(balances, targets)
               T == Takers(balances, targets)
               start == MatchStart(<<from, to>>)
           IN  /\ G \in SUBSET Validators /\ T \in SUBSET Validators /\ \A v \in T : v \notin G
               /\ ListsOf(from, G) /\ \A v \in G : \E i \in DOMAIN from : from[i].validator = v
               /\ ListsOf(to, T) /\ \A v \in T : \E i \in DOMAIN to : to[i].validator = v
               /\ start \in MatchStates(balances, targets) /\ start.messages = <<>>
               /\ \A v \in G : AmountAt(targets, v) + start.from[v] = AmountAt(balances, v)
               /\ \A v \in T : /\ targets[v] - start.to[v] = AmountAt(balances, v)
                               /\ start.to[v] <= targets[v]
  <1> DEFINE G == Givers(balances, targets)
             T == Takers(balances, targets)
             f == [v \in G |-> balances[v] - AmountAt(targets, v)]
             g == [v \in T |-> targets[v] - AmountAt(balances, v)]
             p == <<from, to>>
             start == MatchStart(p)
             F == Amounts(DelegateFrom(balances, targets))
             E == Amounts(DelegateTo(balances, targets))
  <1>1. /\ G \in SUBSET Validators /\ T \in SUBSET Validators
        /\ \A v \in G : f[v] \in Nat
        /\ \A v \in T : g[v] \in Nat /\ g[v] <= targets[v] /\ v \notin G
    BY SMT DEF Givers, Takers, IsAmounts, AmountAt
  <1>2. /\ DelegateFrom(balances, targets) = {[validator |-> v, amount |-> f[v]] : v \in G}
        /\ DelegateTo(balances, targets) = {[validator |-> v, amount |-> g[v]] : v \in T}
    BY DEF DelegateFrom, DelegateTo, Givers, Takers
  <1>3. \A v \in Validators : /\ (v \in G => AmountAt(targets, v) + f[v] = AmountAt(balances, v))
                              /\ (v \in T => targets[v] - g[v] = AmountAt(balances, v))
    BY SMT DEF Givers, Takers, IsAmounts, AmountAt
  <1> HIDE DEF f, g, G, T
  <1>4. /\ IsFiniteSet(DelegateFrom(balances, targets))
        /\ \A m \in DelegateFrom(balances, targets) : m.validator \in G
        /\ Amounts(DelegateFrom(balances, targets)) \in [G -> Nat]
        /\ \A v \in G : Amounts(DelegateFrom(balances, targets))[v] = f[v]
    <2> DEFINE moves == DelegateFrom(balances, targets)
    <2>1. moves = MovesOf(G, f)
      BY <1>2 DEF MovesOf
    <2>2. G \in SUBSET Validators /\ \A v \in G : f[v] \in Nat
      BY <1>1
    <2> HIDE DEF moves
    <2>3. /\ IsFiniteSet(moves) /\ \A m \in moves : m.validator \in G
          /\ Amounts(moves) \in [G -> Nat] /\ \A v \in G : Amounts(moves)[v] = f[v]
      BY <2>1, <2>2, MovesOfSide
    <2> QED
      BY <2>3 DEF moves
  <1>5. /\ IsFiniteSet(DelegateTo(balances, targets))
        /\ \A m \in DelegateTo(balances, targets) : m.validator \in T
        /\ Amounts(DelegateTo(balances, targets)) \in [T -> Nat]
        /\ \A v \in T : Amounts(DelegateTo(balances, targets))[v] = g[v]
    <2> DEFINE moves == DelegateTo(balances, targets)
    <2>1. moves = MovesOf(T, g)
      BY <1>2 DEF MovesOf
    <2>2. T \in SUBSET Validators /\ \A v \in T : g[v] \in Nat
      BY <1>1
    <2> HIDE DEF moves
    <2>3. /\ IsFiniteSet(moves) /\ \A m \in moves : m.validator \in T
          /\ Amounts(moves) \in [T -> Nat] /\ \A v \in T : Amounts(moves)[v] = g[v]
      BY <2>1, <2>2, MovesOfSide
    <2> QED
      BY <2>3 DEF moves
  <1>6. ListsOf(from, G) /\ ToSet(from) = DelegateFrom(balances, targets)
    BY <1>4, ListHasAll DEF ListsOf
  <1>7. ListsOf(to, T) /\ ToSet(to) = DelegateTo(balances, targets)
    BY <1>5, ListHasAll DEF ListsOf
  <1>8. /\ \A v \in G : \E i \in DOMAIN from : from[i].validator = v
        /\ \A v \in T : \E i \in DOMAIN to : to[i].validator = v
    <2>1. \A v \in G : \E m \in ToSet(from) : m.validator = v
      <3> SUFFICES ASSUME NEW v \in G PROVE \E m \in ToSet(from) : m.validator = v
        OBVIOUS
      <3>1. [validator |-> v, amount |-> f[v]] \in ToSet(from)
        BY <1>2, <1>6
      <3> QED
        BY <3>1
    <2>2. \A v \in T : \E m \in ToSet(to) : m.validator = v
      <3> SUFFICES ASSUME NEW v \in T PROVE \E m \in ToSet(to) : m.validator = v
        OBVIOUS
      <3>1. [validator |-> v, amount |-> g[v]] \in ToSet(to)
        BY <1>2, <1>7
      <3> QED
        BY <3>1
    <2> QED
      BY <2>1, <2>2 DEF ToSet
  <1>9. start = [from |-> F, to |-> E, messages |-> <<>>]
    <2>1. p[1] = from /\ p[2] = to
      OBVIOUS
    <2> QED
      BY <1>6, <1>7, <2>1 DEF MatchStart
  <1>10. start.from = F /\ start.to = E /\ start.messages = <<>> /\ <<>> \in Seq(Redelegation)
    BY <1>9
  <1>11. F \in [G -> Nat] /\ E \in [T -> Nat] /\ (\A v \in G : F[v] = f[v]) /\ \A v \in T : E[v] = g[v]
    BY <1>4, <1>5
  <1> HIDE DEF start, F, E, p
  <1>12. start \in MatchStates(balances, targets)
    BY <1>9, <1>10, <1>11 DEF MatchStates, G, T
  <1>13. /\ \A v \in G : AmountAt(targets, v) + start.from[v] = AmountAt(balances, v)
         /\ \A v \in T : targets[v] - start.to[v] = AmountAt(balances, v) /\ start.to[v] <= targets[v]
    BY <1>1, <1>3, <1>10, <1>11
  <1> QED
    BY <1>1, <1>6, <1>7, <1>8, <1>10, <1>12, <1>13 DEF start, p, G, T

\* The matching keeps that from its start on.
LEMMA MatchKeeps ==
    ASSUME NEW balances, NEW targets, IsAmounts(balances), IsAmounts(targets),
           NEW from \in LargestFirst(DelegateFrom(balances, targets)),
           NEW to \in LargestFirst(DelegateTo(balances, targets))
    PROVE  Matched(balances, targets, Match(from, to))
  <1> DEFINE G == Givers(balances, targets)
             T == Takers(balances, targets)
             before == StakeBefore(balances)
             x == MatchStart(<<from, to>>)
             K == {y \in MatchStates(balances, targets) : Matched(balances, targets, y)}
  <1>1. /\ G \in SUBSET Validators /\ T \in SUBSET Validators
        /\ ListsOf(from, G) /\ ListsOf(to, T)
        /\ x \in MatchStates(balances, targets) /\ x.messages = <<>>
        /\ \A v \in G : AmountAt(targets, v) + x.from[v] = AmountAt(balances, v)
        /\ \A v \in T : targets[v] - x.to[v] = AmountAt(balances, v) /\ x.to[v] <= targets[v]
    BY MatchSides
  <1>2. Matched(balances, targets, x)
    <2> HIDE DEF x, before
    <2>1. x.from \in [G -> Nat] /\ x.to \in [T -> Nat]
      BY <1>1 DEF MatchStates
    <2> HIDE DEF G, T
    <2>2. StakeAt(balances, targets, x.from, x.to) = before
      BY <1>1, <2>1 DEF StakeAt, StakeBefore, before
    <2>3. Redelegated(before, x.messages) = before
      BY <1>1, RedelegatedNone
    <2> QED
      BY <1>1, <2>2, <2>3 DEF Matched, before, T
  <1>3. \A y \in K : \A t \in T : \A v \in G : Move(y, t, v) \in K
    <2> SUFFICES ASSUME NEW y \in K, NEW t \in T, NEW v \in G
                 PROVE  Matched(balances, targets, Move(y, t, v))
      BY DEF Matched
    <2> QED
      BY MoveKeeps
  <1>4. x \in K
    BY <1>1, <1>2
  <1> HIDE DEF K, G, T
  <1>5. Match(from, to) \in K
    BY <1>1, <1>3, <1>4, MatchInduction
  <1> QED
    BY <1>5 DEF K

\* The redelegations lead to the new balances, which have the same sum.
LEMMA ValsetChange ==
    ASSUME NEW balances, IsAmounts(balances), NEW valset, IsValset(valset),
           NEW total_bonded \in Nat,
           NEW change \in ValsetChanges(total_bonded, balances, valset)
    PROVE  /\ change.messages \in Seq(Redelegation)
           /\ IsAmounts(change.new_balances)
           /\ SumFunction(change.new_balances) = SumFunction(balances)
           /\ \A v \in Validators : AmountAt(change.new_balances, v)
                                      = Redelegated(StakeBefore(balances), change.messages)[v]
  <1> DEFINE targets == Targets(total_bonded, valset)
  <1>1. IsAmounts(targets)
    BY TargetsAreAmounts
  <1>2. PICK from \in LargestFirst(DelegateFrom(balances, targets)),
             to \in LargestFirst(DelegateTo(balances, targets)) :
                change = [messages |-> Match(from, to).messages,
                          new_balances |-> NewBalances(balances, targets, Match(from, to))]
    BY DEF ValsetChanges
  <1> HIDE DEF targets
  <1> DEFINE state == Match(from, to)
             G == Givers(balances, targets)
             T == Takers(balances, targets)
             D == DOMAIN balances \cup DOMAIN targets
             new == [v \in D |-> IF v \in DOMAIN state.from THEN AmountAt(targets, v) + state.from[v]
                                 ELSE IF v \in DOMAIN state.to THEN targets[v] - state.to[v]
                                 ELSE balances[v]]
             stake == StakeAt(balances, targets, state.from, state.to)
  <1>3. Matched(balances, targets, state)
    BY <1>1, <1>2, MatchKeeps
  <1>4. change.messages = state.messages /\ change.new_balances = NonZero(new)
    BY <1>2 DEF NewBalances
  <1> HIDE DEF state
  <1>5. /\ state.from \in [G -> Nat] /\ state.to \in [T -> Nat]
        /\ state.messages \in Seq(Redelegation)
        /\ \A v \in T : state.to[v] <= targets[v]
        /\ Redelegated(StakeBefore(balances), state.messages) = stake
        /\ SumFunction(stake) = SumFunction(StakeBefore(balances))
    BY <1>3 DEF Matched, MatchStates
  <1>6. /\ G \subseteq DOMAIN balances /\ T \subseteq DOMAIN targets /\ D \subseteq Validators
        /\ \A v \in D : v \notin T => v \in DOMAIN balances
        /\ \A v \in T : targets[v] \in Nat
        /\ \A v \in DOMAIN balances : balances[v] \in Nat
    BY <1>1 DEF Givers, Takers, IsAmounts
  <1>7. \A v \in D : new[v] \in Nat
    <2> SUFFICES ASSUME NEW v \in D PROVE new[v] \in Nat
      OBVIOUS
    <2>1. AmountAt(targets, v) \in Nat
      BY <1>1, <1>6 DEF IsAmounts, AmountAt
    <2> QED
      BY <1>5, <1>6, <2>1
  <1>8. IsAmounts(new)
    BY <1>6, <1>7 DEF IsAmounts
  <1>9. \A v \in Validators : AmountAt(new, v) = stake[v]
    <2> SUFFICES ASSUME NEW v \in Validators PROVE AmountAt(new, v) = stake[v]
      OBVIOUS
    <2>1. stake[v] = IF v \in G THEN AmountAt(targets, v) + state.from[v]
                     ELSE IF v \in T THEN targets[v] - state.to[v] ELSE AmountAt(balances, v)
      BY <1>5 DEF StakeAt
    <2>2. CASE v \in D
      BY <1>5, <1>6, <2>1, <2>2 DEF AmountAt
    <2>3. CASE v \notin D
      <3>1. v \notin G /\ v \notin T /\ v \notin DOMAIN balances
        BY <1>6, <2>3
      <3> HIDE DEF stake
      <3> QED
        BY <2>1, <2>3, <3>1 DEF AmountAt
    <2> QED
      BY <2>2, <2>3
  <1> HIDE DEF new, G, T, D
  <1>10. IsAmounts(stake) /\ SumFunction(new) = SumFunction(stake)
    <2>1. \A v \in Validators : AmountAt(new, v) \in Nat
      BY <1>8 DEF IsAmounts, AmountAt
    <2>2. stake = [v \in Validators |-> stake[v]] /\ DOMAIN stake = Validators
      BY DEF StakeAt
    <2> HIDE DEF stake
    <2>3. IsAmounts(stake)
      BY <1>9, <2>1, <2>2 DEF IsAmounts
    <2>4. \A v \in Validators : AmountAt(stake, v) = stake[v]
      BY <2>2 DEF AmountAt
    <2> QED
      BY <1>8, <1>9, <2>3, <2>4, SameAmounts
  <1>11. SumFunction(StakeBefore(balances)) = SumFunction(balances)
    <2>1. IsAmounts(StakeBefore(balances))
          /\ \A v \in Validators : AmountAt(StakeBefore(balances), v) = AmountAt(balances, v)
      BY DEF StakeBefore, IsAmounts, AmountAt
    <2> QED
      BY <2>1, SameAmounts
  <1>12. /\ IsAmounts(NonZero(new)) /\ SumFunction(NonZero(new)) = SumFunction(new)
         /\ \A v \in Validators : AmountAt(NonZero(new), v) = AmountAt(new, v)
    BY <1>8, NonZeroAmounts
  <1> HIDE DEF stake
  <1> QED
    BY <1>4, <1>5, <1>9, <1>10, <1>11, <1>12

\* what the first k redelegations take from a validator
TakenFrom(messages, v) ==
    [i \in {j \in DOMAIN messages : messages[j].src = v} |-> messages[i].amount]
TakenBy(messages, v, k) ==
    SumFunctionOnSet(TakenFrom(messages, v), {j \in 1..k : messages[j].src = v})

LEMMA TakenSums ==
    ASSUME NEW messages \in Seq(Redelegation), NEW v
    PROVE  /\ TakenBy(messages, v, 0) = 0
           /\ TakenBy(messages, v, Len(messages)) = SumFunction(TakenFrom(messages, v))
           /\ TakenBy(messages, v, Len(messages)) \in Nat
           /\ \A k \in 1..Len(messages) :
                /\ TakenBy(messages, v, k - 1) \in Nat
                /\ TakenBy(messages, v, k) =
                     TakenBy(messages, v, k - 1)
                        + (IF messages[k].src = v THEN messages[k].amount ELSE 0)
  <1> DEFINE n == Len(messages)
             f == TakenFrom(messages, v)
             At(k) == {j \in 1..k : messages[j].src = v}
  <1>1. n \in Nat /\ DOMAIN messages = 1..n
    OBVIOUS
  <1>2. \A k \in 1..n : messages[k] \in Redelegation
    BY <1>1
  <1>3. DOMAIN f = At(n) /\ Nats(f, At(n)) /\ \A k \in At(n) : f[k] = messages[k].amount
    BY <1>1, <1>2 DEF TakenFrom, Nats, Redelegation
  <1>4. \A k : TakenBy(messages, v, k) = SumFunctionOnSet(f, At(k))
    BY DEF TakenBy
  <1>5. SumFunction(f) = SumFunctionOnSet(f, At(n))
    BY <1>3 DEF SumFunction, SumFunctionOnSet
  <1>6. At(0) = {} /\ At(n) \subseteq 1..n
    BY SMT
  <1> HIDE DEF f, n
  <1>7. IsFiniteSet(1..n) /\ IsFiniteSet(At(n))
    <2>1. IsFiniteSet(1..n)
      BY <1>1, FS_Interval, 1 \in Int
    <2> HIDE DEF At
    <2> QED
      BY <1>6, <2>1, FS_Subset
  <1>8. ASSUME NEW k \in 1..n
        PROVE  /\ SumFunctionOnSet(f, At(k - 1)) \in Nat
               /\ SumFunctionOnSet(f, At(k)) = SumFunctionOnSet(f, At(k - 1))
                    + (IF messages[k].src = v THEN messages[k].amount ELSE 0)
    <2>1. 1..k = (1..(k - 1)) \cup {k} /\ k \notin 1..(k - 1) /\ 1..(k - 1) \subseteq 1..n
      BY <1>1, SMT
    <2>2. At(k - 1) \in SUBSET At(n) /\ k \notin At(k - 1) /\ At(k - 1) \in SUBSET (1..n)
      BY <2>1
    <2>3. At(k) = IF messages[k].src = v THEN At(k - 1) \cup {k} ELSE At(k - 1)
      BY <2>1
    <2>4. messages[k].src = v => k \in At(n)
      OBVIOUS
    <2> HIDE DEF At
    <2>5. IsFiniteSet(At(k - 1))
      BY <1>7, <2>2, FS_Subset
    <2>6. Nats(f, At(k - 1)) /\ Ints(f, At(k - 1))
      BY <1>3, <2>2 DEF Nats, Ints
    <2>7. SumFunctionOnSet(f, At(k - 1)) \in Nat
      BY <2>5, <2>6, SumNat
    <2>8. CASE messages[k].src = v
      <3>1. f[k] \in Nat /\ f[k] = messages[k].amount
        BY <1>3, <2>4, <2>8 DEF Nats
      <3>2. SumFunctionOnSet(f, At(k - 1) \cup {k}) = f[k] + SumFunctionOnSet(f, At(k - 1))
        BY <2>2, <2>5, <2>6, <3>1, SumAdd, f[k] \in Int
      <3> QED
        BY <2>3, <2>7, <2>8, <3>1, <3>2
    <2>9. CASE messages[k].src # v
      BY <2>3, <2>7, <2>9
    <2> QED
      BY <2>7, <2>8, <2>9
  <1> HIDE DEF At
  <1>9. SumFunctionOnSet(f, At(n)) \in Nat
    BY <1>3, <1>7, SumNat
  <1> QED
    BY <1>4, <1>5, <1>6, <1>8, <1>9, SumEmpty DEF n, f

\* Redelegations the chain accepts leave no validator with a negative stake, and
\* the hub with all of it.
LEMMA RedelegationsLeave ==
    ASSUME delegations \in [Validators -> Nat], NEW messages \in Seq(Redelegation),
           RedelegationsFit(messages)
    PROVE  /\ Redelegated(delegations, messages) \in [Validators -> Nat]
           /\ SumFunction(Redelegated(delegations, messages)) = SumFunction(delegations)
  <1> DEFINE n == Len(messages)
             Good(k, acc) ==
                /\ SumFunction(acc) = SumFunction(delegations)
                /\ \A v \in Validators : acc[v] >= delegations[v] - TakenBy(messages, v, k)
             p == <<delegations, messages>>
             I == {x \in (0..n) \X StakeType : Good(x[1], x[2])}
  <1>1. n \in Nat /\ DOMAIN messages = 1..n /\ \A k \in 1..n : messages[k] \in Redelegation
    OBVIOUS
  <1>2. \A v \in Validators : /\ TakenBy(messages, v, 0) = 0
                              /\ TakenBy(messages, v, n) <= delegations[v]
                              /\ TakenBy(messages, v, n) \in Nat
    <2> SUFFICES ASSUME NEW v \in Validators
                 PROVE  /\ TakenBy(messages, v, 0) = 0 /\ TakenBy(messages, v, n) <= delegations[v]
                        /\ TakenBy(messages, v, n) \in Nat
      OBVIOUS
    <2>1. delegations[v] >= SumFunction(TakenFrom(messages, v))
      BY DEF RedelegationsFit, TakenFrom
    <2>2. /\ TakenBy(messages, v, 0) = 0 /\ TakenBy(messages, v, n) = SumFunction(TakenFrom(messages, v))
          /\ TakenBy(messages, v, n) \in Nat
      BY TakenSums
    <2> QED
      BY <2>1, <2>2
  <1>3. <<0, RedelegateStart(p)>> \in I
    <2>1. RedelegateStart(p) = delegations /\ delegations \in StakeType
      BY DEF RedelegateStart, StakeType
    <2>2. Good(0, delegations)
      BY <1>2
    <2>3. 0 \in 0..n
      BY <1>1
    <2> HIDE DEF Good
    <2> QED
      BY <2>1, <2>2, <2>3
  <1>4. ASSUME NEW k \in 1..n, NEW acc, <<k - 1, acc>> \in I
        PROVE  <<k, RedelegateRound(p, ElementOf(p, k), acc)>> \in I
    <2> DEFINE m == messages[k]
               new == AfterRedelegation(acc, m)
    <2>1. acc \in StakeType /\ Good(k - 1, acc) /\ k \in 0..n
      <3> HIDE DEF Good
      <3> QED
        BY <1>1, <1>4
    <2>2. m \in Redelegation /\ m.src \in Validators /\ m.dst \in Validators /\ m.amount \in Nat
      BY <1>1 DEF Redelegation
    <2>3. new \in StakeType /\ SumFunction(new) = SumFunction(acc)
      BY <2>1, <2>2, RedelegationKeepsSum
    <2>4. \A v \in Validators : new[v] >= acc[v] - (IF m.src = v THEN m.amount ELSE 0)
      BY <2>1, <2>2 DEF AfterRedelegation, StakeType
    <2>5. \A v \in Validators :
            /\ TakenBy(messages, v, k - 1) \in Nat
            /\ TakenBy(messages, v, k) =
                 TakenBy(messages, v, k - 1) + (IF m.src = v THEN m.amount ELSE 0)
      BY TakenSums
    <2> HIDE DEF m
    <2>6. Good(k, new)
      <3> SUFFICES ASSUME NEW v \in Validators
                   PROVE  new[v] >= delegations[v] - TakenBy(messages, v, k)
        BY <2>1, <2>3
      <3>1. new[v] \in Int /\ acc[v] \in Int /\ delegations[v] \in Nat
        BY <2>1, <2>3 DEF StakeType
      <3>2. acc[v] >= delegations[v] - TakenBy(messages, v, k - 1)
        BY <2>1
      <3>3. new[v] >= acc[v] - (IF m.src = v THEN m.amount ELSE 0)
        BY <2>4
      <3> HIDE DEF new, Good
      <3> QED
        BY <2>2, <2>5, <3>1, <3>2, <3>3
    <2>7. RedelegateRound(p, ElementOf(p, k), acc) = new
      BY DEF RedelegateRound, ElementOf, m
    <2> HIDE DEF new, Good
    <2> QED
      BY <2>1, <2>3, <2>6, <2>7
  <1> DEFINE r == Redelegated(delegations, messages)
  <1>9. RedelegateLoop!InOrder /\ r = RedelegateLoop!Fold(p, 1..n)
    BY <1>1, RedelegatedIsLoop
  <1> HIDE DEF I, n, p
  <1>5. <<n, RedelegateLoop!Fold(p, 1..n)>> \in I
    BY <1>1, <1>3, <1>4, <1>9, RedelegateLoop!LoopKeeps
  <1>6. r \in StakeType /\ Good(n, r)
    <2> HIDE DEF Good
    <2> QED
      BY <1>5, <1>9 DEF I
  <1> HIDE DEF r
  <1>7. (\A v \in Validators : r[v] \in Nat) /\ SumFunction(r) = SumFunction(delegations)
    BY <1>2, <1>6 DEF StakeType
  <1>8. r \in [Validators -> Nat]
    BY <1>6, <1>7 DEF StakeType
  <1> QED
    BY <1>7, <1>8 DEF r

=============================================================================
