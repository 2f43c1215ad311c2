------------------------------ MODULE GaugeProofs ------------------------------
(***************************************************************************)
(* Proofs about the gauge adapter and valset.rs: whatever a gauge selects  *)
(* with an epoch of at least the unbonding period, the chain executes the  *)
(* redelegations, nothing is lost, every selected validator gets its part, *)
(* and no stake is moved twice.                                            *)
(***************************************************************************)
EXTENDS GaugeAdapter, HubLemmas

-----------------------------------------------------------------------------
(* The selections *)

Listing(D, w) == LET s == SetToSeq(D) IN [i \in DOMAIN s |-> [validator |-> s[i], weight |-> w[s[i]]]]

\* SetToSeq lists a finite set, every element once.
LEMMA SetListed ==
    ASSUME NEW D, IsFiniteSet(D)
    PROVE  /\ DOMAIN SetToSeq(D) = 1..Cardinality(D) /\ Cardinality(D) \in Nat
           /\ \A i \in DOMAIN SetToSeq(D) : SetToSeq(D)[i] \in D
           /\ \A i, j \in DOMAIN SetToSeq(D) : SetToSeq(D)[i] = SetToSeq(D)[j] => i = j
           /\ \A v \in D : \E i \in DOMAIN SetToSeq(D) : SetToSeq(D)[i] = v
  <1> DEFINE N == 1..Cardinality(D)
             s == SetToSeq(D)
  <1>1. Cardinality(D) \in Nat /\ \E f : f \in Bijection(N, D)
    BY FS_CardinalityType DEF ExistsBijection
  <1>2. \E f \in [N -> D] : IsInjective(f)
    BY <1>1 DEF Bijection, Injection, IsInjective
  <1>3. s \in [N -> D] /\ IsInjective(s)
    BY <1>2 DEF SetToSeq
  <1>4. \A i, j \in DOMAIN s : s[i] = s[j] => i = j
    BY <1>3 DEF IsInjective
  <1> HIDE DEF s
  <1>5. s \in Injection(N, D)
    BY <1>3, <1>4 DEF Injection, IsInjective
  <1>6. IsFiniteSet(N) /\ Cardinality(N) = Cardinality(D)
    BY <1>1, FS_Interval, 1 \in Int, SMT
  <1> HIDE DEF N
  <1>7. s \in Surjection(N, D)
    BY <1>5, <1>6, FS_Injection
  <1>8. DOMAIN s = N /\ (\A i \in N : s[i] \in D) /\ \A v \in D : \E i \in N : s[i] = v
    BY <1>3, <1>7 DEF Surjection
  <1> QED
    BY <1>1, <1>4, <1>8 DEF s, N

\* What a gauge selects is a list set_validators is made for, and its targets
\* are the parts by weight.
LEMMA ListingIsValset ==
    ASSUME NEW D \in SUBSET Validators, NEW w \in [D -> Weights], NEW total \in Nat
    PROVE  /\ IsValset(Listing(D, w))
           /\ Targets(total, Listing(D, w)) = [v \in D |-> MulFloor(total, w[v])]
  <1> DEFINE s == SetToSeq(D)
             list == Listing(D, w)
             N == Cardinality(D)
             R == [validator : Validators, weight : 0..DecimalOne]
  <1>1. IsFiniteSet(D)
    BY Constants, FS_Subset
  <1>2. /\ DOMAIN s = 1..N /\ N \in Nat
        /\ \A i \in 1..N : s[i] \in D
        /\ \A i, j \in 1..N : s[i] = s[j] => i = j
        /\ \A v \in D : \E i \in 1..N : s[i] = v
    BY <1>1, SetListed
  <1> HIDE DEF N
  <1>3. list = [i \in 1..N |-> [validator |-> s[i], weight |-> w[s[i]]]]
    BY <1>2 DEF Listing
  <1> HIDE DEF s, list
  <1>4. \A i \in 1..N : [validator |-> s[i], weight |-> w[s[i]]] \in R
    <2>1. Weights \subseteq 0..DecimalOne
      BY GaugeAssumption
    <2> QED
      BY <1>2, <2>1
  <1>5. DOMAIN list = 1..N /\ \A i \in 1..N : /\ list[i] \in R
                                              /\ list[i].validator = s[i] /\ list[i].weight = w[s[i]]
    <2> HIDE DEF R
    <2> QED
      BY <1>3, <1>4
  <1>6. list \in Seq(R)
    <2> HIDE DEF R
    <2>1. list \in [1..N -> R]
      BY <1>3, <1>4
    <2> QED
      BY <1>2, <2>1
  <1>7. IsValset(list)
    BY <1>2, <1>5, <1>6 DEF IsValset
  <1> DEFINE Index(v) == CHOOSE i \in DOMAIN list : list[i].validator = v
  <1>8. {list[i].validator : i \in DOMAIN list} = D
    <2>1. \A i \in DOMAIN list : list[i].validator \in D
      BY <1>2, <1>5
    <2>2. \A v \in D : \E i \in DOMAIN list : list[i].validator = v
      BY <1>2, <1>5
    <2> QED
      BY <2>1, <2>2
  <1>9. \A v \in D : list[Index(v)].weight = w[v]
    <2> SUFFICES ASSUME NEW v \in D PROVE list[Index(v)].weight = w[v]
      OBVIOUS
    <2>1. Index(v) \in 1..N /\ list[Index(v)].validator = v
      BY <1>2, <1>5
    <2> HIDE DEF Index
    <2> QED
      BY <1>5, <2>1
  <1>10. Targets(total, list) = [v \in D |-> MulFloor(total, list[Index(v)].weight)]
    BY <1>8 DEF Targets
  <1> HIDE DEF Index
  <1>11. Targets(total, list) = [v \in D |-> MulFloor(total, w[v])]
    BY <1>9, <1>10
  <1> QED
    BY <1>7, <1>11 DEF list

\* Parts whose weights are at most one together are at most the whole.
LEMMA PartsFit ==
    ASSUME NEW total \in Nat, NEW S, IsFiniteSet(S), NEW w, Nats(w, S),
           SumFunctionOnSet(w, S) <= DecimalOne
    PROVE  SumFunctionOnSet([v \in S |-> MulFloor(total, w[v])], S) <= total
  <1> DEFINE p == [v \in S |-> MulFloor(total, w[v])]
             T == {A \in SUBSET S : DecimalOne * SumFunctionOnSet(p, A)
                                      <= total * SumFunctionOnSet(w, A)}
  <1>1. DecimalOne \in Nat \ {0}
    BY DecimalOneAssumption
  <1>2. \A v \in S : /\ w[v] \in Nat /\ p[v] \in Nat
                     /\ DecimalOne * p[v] <= total * w[v]
    <2> SUFFICES ASSUME NEW v \in S
                 PROVE  w[v] \in Nat /\ p[v] \in Nat /\ DecimalOne * p[v] <= total * w[v]
      OBVIOUS
    <2>1. w[v] \in Nat
      BY DEF Nats
    <2>2. total * w[v] \in Nat /\ p[v] = (total * w[v]) \div DecimalOne
      BY <2>1, SMT DEF MulFloor
    <2> HIDE DEF p
    <2> QED
      BY <1>1, <2>1, <2>2, DivBounds
  <1> HIDE DEF p
  <1>3. {} \in T
    <2>1. SumFunctionOnSet(p, {}) = 0 /\ SumFunctionOnSet(w, {}) = 0
      BY SumEmpty
    <2> QED
      BY <1>1, <2>1
  <1>4. ASSUME NEW A \in T, NEW x \in S \ A PROVE A \cup {x} \in T
    <2> DEFINE a == SumFunctionOnSet(p, A)
               b == SumFunctionOnSet(w, A)
    <2>1. IsFiniteSet(A) /\ Nats(p, A) /\ Nats(w, A) /\ Ints(p, A) /\ Ints(w, A)
      BY <1>2, FS_Subset DEF Nats, Ints
    <2>2. a \in Nat /\ b \in Nat /\ DecimalOne * a <= total * b
      BY <2>1, SumNat
    <2>3. SumFunctionOnSet(p, A \cup {x}) = p[x] + a /\ SumFunctionOnSet(w, A \cup {x}) = w[x] + b
      BY <1>2, <2>1, SumAdd, p[x] \in Int, w[x] \in Int
    <2> HIDE DEF a, b
    <2>4. \A d, t, i, j, k, l \in Nat : d * i <= t * j /\ d * k <= t * l => d * (i + k) <= t * (j + l)
      BY SMT
    <2>5. DecimalOne * (p[x] + a) <= total * (w[x] + b)
      BY <1>1, <1>2, <2>2, <2>4
    <2> QED
      BY <2>3, <2>5
  <1>5. T \in SUBSET SUBSET S
    OBVIOUS
  <1> HIDE DEF T
  <1>6. S \in T
    BY <1>3, <1>4, <1>5, SetGrows
  <1>7. DecimalOne * SumFunctionOnSet(p, S) <= total * SumFunctionOnSet(w, S)
    BY <1>6 DEF T
  <1>8. SumFunctionOnSet(p, S) \in Nat /\ SumFunctionOnSet(w, S) \in Nat
    BY <1>2, SumNat DEF Nats
  <1>9. total * SumFunctionOnSet(w, S) <= DecimalOne * total
    BY <1>1, <1>8, SMTT(30)
  <1>10. DecimalOne * SumFunctionOnSet(p, S) <= DecimalOne * total
    <2> DEFINE x == DecimalOne * SumFunctionOnSet(p, S)
               y == total * SumFunctionOnSet(w, S)
               z == DecimalOne * total
    <2>1. x \in Int /\ y \in Int /\ z \in Int
      BY <1>1, <1>8, SMT
    <2>2. x <= y /\ y <= z
      BY <1>7, <1>9
    <2> HIDE DEF x, y, z
    <2>3. x <= z
      BY <2>1, <2>2
    <2> QED
      BY <2>3 DEF x, z
  <1>11. SumFunctionOnSet(p, S) <= total
    BY <1>1, <1>8, <1>10, MulCancels
  <1> QED
    BY <1>11 DEF p

\* Every selection of Lists.
LEMMA Selection ==
    ASSUME NEW selected \in Lists, NEW total \in Nat
    PROVE  /\ IsValset(selected)
           /\ IsAmounts(Targets(total, selected))
           /\ SumFunction(Targets(total, selected)) <= total
  <1>0. PICK D \in SUBSET Validators :
           \E w \in [D -> Weights] : /\ selected = Listing(D, w)
                                     /\ SumFunction(w) \in (DecimalOne - RoundingError)..DecimalOne
    BY DEF Lists, Listing
  <1>1. PICK w \in [D -> Weights] : selected = Listing(D, w) /\ SumFunction(w) <= DecimalOne
    BY <1>0, DecimalOneAssumption, GaugeAssumption
  <1>2. IsValset(selected) /\ Targets(total, selected) = [v \in D |-> MulFloor(total, w[v])]
    BY <1>1, ListingIsValset
  <1>3. IsFiniteSet(D)
    BY Constants, FS_Subset
  <1>4. Nats(w, D) /\ SumFunctionOnSet(w, D) <= DecimalOne
    <2>1. \A x \in Weights : x \in Nat
      BY GaugeAssumption
    <2>2. SumFunction(w) = SumFunctionOnSet(w, D)
      BY DEF SumFunction, SumFunctionOnSet
    <2> QED
      BY <1>1, <2>1, <2>2 DEF Nats
  <1> DEFINE t == [v \in D |-> MulFloor(total, w[v])]
  <1>5. SumFunctionOnSet(t, D) <= total
    BY <1>3, <1>4, PartsFit
  <1>6. SumFunction(t) = SumFunctionOnSet(t, D)
    BY DEF SumFunction, SumFunctionOnSet
  <1> QED
    BY <1>2, <1>5, <1>6, TargetsAreAmounts

-----------------------------------------------------------------------------
(* What the redelegations take *)

\* One more redelegation takes its amount from its source.
LEMMA TakenAppend ==
    ASSUME NEW sent \in Seq(Redelegation), NEW m \in Redelegation, NEW v
    PROVE  SumFunction(TakenFrom(Append(sent, m), v))
             = SumFunction(TakenFrom(sent, v)) + (IF m.src = v THEN m.amount ELSE 0)
  <1> DEFINE n == Len(sent)
             longer == Append(sent, m)
             At == {j \in 1..n : sent[j].src = v}
             AtLonger == {j \in 1..n : longer[j].src = v}
             f == TakenFrom(sent, v)
             g == TakenFrom(longer, v)
  <1>1. /\ n \in Nat /\ DOMAIN sent = 1..n /\ DOMAIN longer = 1..(n + 1)
        /\ longer \in Seq(Redelegation) /\ Len(longer) = n + 1
        /\ longer[n + 1] = m /\ \A k \in 1..n : longer[k] = sent[k]
    OBVIOUS
  <1>2. \A k \in 1..n : sent[k] \in Redelegation
    BY <1>1
  <1> HIDE DEF n, longer
  <1>3. At = AtLonger /\ At \subseteq 1..n
    BY <1>1
  <1>4. \A k \in At : f[k] = sent[k].amount /\ g[k] = sent[k].amount /\ sent[k].amount \in Nat
    <2>1. \A k \in At : k \in 1..n /\ sent[k].src = v /\ longer[k].src = v /\ k \in 1..(n + 1)
      BY <1>1
    <2>2. \A k \in 1..n : sent[k].amount \in Nat
      BY <1>2 DEF Redelegation
    <2> QED
      BY <1>1, <2>1, <2>2 DEF TakenFrom
  <1>5. IsFiniteSet(At)
    <2>1. IsFiniteSet(1..n)
      BY <1>1, FS_Interval, 1 \in Int
    <2> HIDE DEF At
    <2> QED
      BY <1>3, <2>1, FS_Subset
  <1>6. TakenBy(longer, v, n) = TakenBy(sent, v, n)
    <2>1. TakenBy(longer, v, n) = SumFunctionOnSet(g, AtLonger)
          /\ TakenBy(sent, v, n) = SumFunctionOnSet(f, At)
      BY DEF TakenBy
    <2> HIDE DEF f, g, At, AtLonger
    <2>2. SumFunctionOnSet(f, At) = SumFunctionOnSet(g, At)
      BY <1>4, <1>5, SumSame DEF Ints
    <2> QED
      BY <1>3, <2>1, <2>2
  <1>7. TakenBy(sent, v, n) = SumFunction(f)
    BY TakenSums DEF n
  <1>8. /\ TakenBy(longer, v, n + 1) = SumFunction(g)
        /\ TakenBy(longer, v, n + 1) = TakenBy(longer, v, n) + (IF m.src = v THEN m.amount ELSE 0)
    <2>1. /\ TakenBy(longer, v, Len(longer)) = SumFunction(g)
          /\ \A k \in 1..Len(longer) : TakenBy(longer, v, k) = TakenBy(longer, v, k - 1)
                                         + (IF longer[k].src = v THEN longer[k].amount ELSE 0)
      BY <1>1, TakenSums
    <2>2. n + 1 \in 1..Len(longer) /\ (n + 1) - 1 = n
      BY <1>1
    <2> HIDE DEF g
    <2> QED
      BY <1>1, <2>1, <2>2
  <1> QED
    BY <1>6, <1>7, <1>8 DEF longer

\* `amount` goes from one validator to another, as much as one of them can.
MovedBy(balances, targets, state, to, from, next, amount) ==
    /\ amount <= state.from[from] /\ amount <= state.to[to]
    /\ amount = state.from[from] \/ amount = state.to[to]
    /\ next \in MatchStates(balances, targets)
    /\ next.from[from] = state.from[from] - amount
    /\ next.to[to] = state.to[to] - amount
    /\ \A v \in Givers(balances, targets) : v # from => next.from[v] = state.from[v]
    /\ \A v \in Takers(balances, targets) : v # to => next.to[v] = state.to[v]
    /\ [src |-> from, dst |-> to, amount |-> amount] \in Redelegation
    /\ next.messages = Append(state.messages, [src |-> from, dst |-> to, amount |-> amount])

\* What a move does to a state of the matching.
LEMMA Moved ==
    ASSUME NEW balances, NEW targets, NEW state \in MatchStates(balances, targets),
           Givers(balances, targets) \subseteq Validators,
           Takers(balances, targets) \subseteq Validators,
           NEW to \in Takers(balances, targets), NEW from \in Givers(balances, targets),
           NEW next, next = Move(state, to, from)
    PROVE  \/ next = state /\ (state.from[from] = 0 \/ state.to[to] = 0)
           \/ \E amount \in Nat \ {0} : MovedBy(balances, targets, state, to, from, next, amount)
  <1> DEFINE G == Givers(balances, targets)
             T == Takers(balances, targets)
             amount == IF state.from[from] < state.to[to] THEN state.from[from] ELSE state.to[to]
             from2 == [state.from EXCEPT ![from] = @ - amount]
             to2 == [state.to EXCEPT ![to] = @ - amount]
             m == [src |-> from, dst |-> to, amount |-> amount]
             messages2 == Append(state.messages, m)
  <1>1. /\ state.from \in [G -> Nat] /\ state.to \in [T -> Nat] /\ state.messages \in Seq(Redelegation)
    BY DEF MatchStates
  <1>2. /\ amount \in Nat /\ amount <= state.from[from] /\ amount <= state.to[to]
        /\ amount = state.from[from] \/ amount = state.to[to]
    BY <1>1
  <1>3. CASE amount = 0
    BY <1>2, <1>3 DEF Move
  <1>4. CASE amount # 0
    <2>1. next = [from |-> from2, to |-> to2, messages |-> messages2]
      BY <1>4 DEF Move
    <2> HIDE DEF amount
    <2>2. from2 \in [G -> Nat] /\ to2 \in [T -> Nat]
      BY <1>1, <1>2
    <2>3. m \in Redelegation
      BY <1>2 DEF Redelegation
    <2>4. messages2 \in Seq(Redelegation)
      <3> HIDE DEF m
      <3> QED
        BY <1>1, <2>3
    <2>5. /\ from2[from] = state.from[from] - amount /\ to2[to] = state.to[to] - amount
          /\ \A v \in G : v # from => from2[v] = state.from[v]
          /\ \A v \in T : v # to => to2[v] = state.to[v]
      BY <1>1
    <2> HIDE DEF from2, to2
    <2>6. next.from = from2 /\ next.to = to2 /\ next.messages = messages2
      BY <2>1
    <2>7. next \in MatchStates(balances, targets)
      <3> HIDE DEF messages2
      <3> QED
        BY <2>1, <2>2, <2>4 DEF MatchStates
    <2>8. amount \in Nat \ {0}
      BY <1>2, <1>4
    <2> HIDE DEF G, T
    <2> QED
      BY <1>2, <2>3, <2>5, <2>6, <2>7, <2>8 DEF MovedBy, G, T, m, messages2
  <1> QED
    BY <1>3, <1>4

\* What has been taken from a giver and what it has still to give is what it
\* has above its target; nothing is taken from anybody else.
Taken(balances, targets, state) ==
    \A v \in Validators :
        SumFunction(TakenFrom(state.messages, v))
            + (IF v \in Givers(balances, targets) THEN AmountAt(targets, v) + state.from[v] ELSE 0)
          <= AmountAt(balances, v)

LEMMA TakenFits ==
    ASSUME NEW balances, IsAmounts(balances), NEW valset, IsValset(valset),
           NEW total_bonded \in Nat,
           NEW change \in ValsetChanges(total_bonded, balances, valset), NEW u \in Validators
    PROVE  SumFunction(TakenFrom(change.messages, u)) <= AmountAt(balances, u)
  <1> DEFINE targets == Targets(total_bonded, valset)
             G == Givers(balances, targets)
             T == Takers(balances, targets)
             K == {y \in MatchStates(balances, targets) : Taken(balances, targets, y)}
  <1>1. IsAmounts(targets)
    BY TargetsAreAmounts
  <1>2. PICK from \in LargestFirst(DelegateFrom(balances, targets)),
             to \in LargestFirst(DelegateTo(balances, targets)) :
                change.messages = Match(from, to).messages
    BY DEF ValsetChanges
  <1> HIDE DEF targets
  <1> DEFINE x == MatchStart(<<from, to>>)
  <1>3. /\ G \in SUBSET Validators /\ T \in SUBSET Validators /\ ListsOf(from, G) /\ ListsOf(to, T)
        /\ x \in MatchStates(balances, targets) /\ x.messages = <<>>
        /\ \A v \in G : AmountAt(targets, v) + x.from[v] = AmountAt(balances, v)
    BY <1>1, MatchSides
  <1>4. \A v \in Validators : AmountAt(targets, v) \in Nat /\ AmountAt(balances, v) \in Nat
    BY <1>1 DEF IsAmounts, AmountAt
  <1> HIDE DEF x, G, T
  <1>5. x \in K
    <2>1. \A v : SumFunction(TakenFrom(<<>>, v)) = 0
      <3> SUFFICES ASSUME NEW v PROVE SumFunction(TakenFrom(<<>>, v)) = 0
        OBVIOUS
      <3>1. <<>> \in Seq(Redelegation) /\ Len(<<>>) = 0
        OBVIOUS
      <3>2. /\ TakenBy(<<>>, v, 0) = 0
            /\ TakenBy(<<>>, v, Len(<<>>)) = SumFunction(TakenFrom(<<>>, v))
        BY <3>1, TakenSums
      <3> QED
        BY <3>1, <3>2
    <2>2. \A v \in Validators :
            SumFunction(TakenFrom(x.messages, v)) + (IF v \in G THEN AmountAt(targets, v) + x.from[v] ELSE 0)
              <= AmountAt(balances, v)
      BY <1>3, <1>4, <2>1
    <2> QED
      BY <1>3, <2>2 DEF Taken, G
  <1>6. ASSUME NEW y \in K, NEW t \in T, NEW w \in G
        PROVE  Move(y, t, w) \in K
    <2> DEFINE z == Move(y, t, w)
    <2>1. y \in MatchStates(balances, targets) /\ Taken(balances, targets, y)
      OBVIOUS
    <2>2. z = y \/ \E amount \in Nat \ {0} : MovedBy(balances, targets, y, t, w, z, amount)
      BY <1>3, <2>1, Moved DEF G, T
    <2> HIDE DEF z
    <2>3. CASE z = y
      BY <2>1, <2>3 DEF z
    <2>4. CASE z # y
      <3>1. PICK amount \in Nat \ {0} :
                /\ amount <= y.from[w]
                /\ z \in MatchStates(balances, targets)
                /\ z.from[w] = y.from[w] - amount
                /\ \A v \in G : v # w => z.from[v] = y.from[v]
                /\ [src |-> w, dst |-> t, amount |-> amount] \in Redelegation
                /\ z.messages = Append(y.messages, [src |-> w, dst |-> t, amount |-> amount])
        BY <2>2, <2>4 DEF MovedBy, G
      <3> DEFINE m == [src |-> w, dst |-> t, amount |-> amount]
      <3>2. m \in Redelegation /\ m.src = w /\ m.amount = amount /\ y.messages \in Seq(Redelegation)
            /\ y.from \in [G -> Nat]
        BY <2>1, <3>1 DEF MatchStates, G
      <3>3. z.messages = Append(y.messages, m)
        BY <3>1
      <3> HIDE DEF m
      <3>4. Taken(balances, targets, z)
        <4> SUFFICES ASSUME NEW v \in Validators
                     PROVE  SumFunction(TakenFrom(z.messages, v))
                              + (IF v \in G THEN AmountAt(targets, v) + z.from[v] ELSE 0)
                              <= AmountAt(balances, v)
          BY DEF Taken, G
        <4> DEFINE s == SumFunction(TakenFrom(y.messages, v))
        <4>1. SumFunction(TakenFrom(z.messages, v)) = s + (IF w = v THEN amount ELSE 0)
          BY <3>2, <3>3, TakenAppend
        <4>2. s + (IF v \in G THEN AmountAt(targets, v) + y.from[v] ELSE 0) <= AmountAt(balances, v)
          BY <2>1 DEF Taken, G
        <4>3. s \in Nat
          BY <3>2, TakenSums
        <4> HIDE DEF s
        <4>4. CASE v = w
          <5>1. y.from[w] \in Nat /\ z.from[w] = y.from[w] - amount /\ w \in G /\ amount \in Nat
            BY <3>1, <3>2
          <5> QED
            BY <1>4, <4>1, <4>2, <4>3, <4>4, <5>1
        <4>5. CASE v # w
          <5>1. v \in G => z.from[v] = y.from[v] /\ y.from[v] \in Nat
            BY <3>1, <3>2, <4>5
          <5> QED
            BY <1>4, <4>1, <4>2, <4>3, <4>5, <5>1
        <4> QED
          BY <4>4, <4>5
      <3> QED
        BY <3>1, <3>4 DEF z
    <2> QED
      BY <2>3, <2>4
  <1>7. \A y \in K : \A t \in T : \A w \in G : Move(y, t, w) \in K
    BY <1>6
  <1> HIDE DEF K
  <1>8. Match(from, to) \in K
    BY <1>3, <1>5, <1>7, MatchInduction DEF x
  <1> DEFINE last == Match(from, to)
  <1>9. last \in MatchStates(balances, targets) /\ Taken(balances, targets, last)
    BY <1>8 DEF K
  <1> HIDE DEF last
  <1>10. last.messages \in Seq(Redelegation) /\ last.from \in [G -> Nat]
    BY <1>9 DEF MatchStates, G
  <1>11. SumFunction(TakenFrom(last.messages, u)) \in Nat
    BY <1>10, TakenSums
  <1>12. SumFunction(TakenFrom(last.messages, u))
            + (IF u \in G THEN AmountAt(targets, u) + last.from[u] ELSE 0) <= AmountAt(balances, u)
    BY <1>9 DEF Taken, G
  <1>13. (IF u \in G THEN AmountAt(targets, u) + last.from[u] ELSE 0) \in Nat
    BY <1>4, <1>10
  <1>14. SumFunction(TakenFrom(last.messages, u)) <= AmountAt(balances, u)
    BY <1>4, <1>11, <1>12, <1>13
  <1> QED
    BY <1>2, <1>14 DEF last

-----------------------------------------------------------------------------
(* How many redelegations there are *)

Involved(sent) == Sources(sent) \cup Destinations(sent)

Left(state, v) == IF v \in DOMAIN state.from THEN state.from[v] ELSE state.to[v]
Done(state) == {v \in Involved(state.messages) : Left(state, v) = 0}

\* Each redelegation is the last one of a validator, and the last of all is the
\* last one of two.
FewSoFar(balances, targets, state) ==
    /\ Sources(state.messages) \subseteq Givers(balances, targets)
    /\ Destinations(state.messages) \subseteq Takers(balances, targets)
    /\ Len(state.messages) <= Cardinality(Done(state))
    /\ state.messages # <<>> => Len(state.messages) < Cardinality(Involved(state.messages))

LEMMA InvolvedAppend ==
    ASSUME NEW sent \in Seq(Redelegation), NEW m \in Redelegation
    PROVE  /\ Sources(Append(sent, m)) = Sources(sent) \cup {m.src}
           /\ Destinations(Append(sent, m)) = Destinations(sent) \cup {m.dst}
           /\ Len(Append(sent, m)) = Len(sent) + 1 /\ Len(sent) \in Nat
  <1> DEFINE n == Len(sent)
             longer == Append(sent, m)
  <1>1. /\ n \in Nat /\ DOMAIN sent = 1..n /\ DOMAIN longer = (1..n) \cup {n + 1}
        /\ longer[n + 1] = m /\ (\A k \in 1..n : longer[k] = sent[k]) /\ Len(longer) = n + 1
    OBVIOUS
  <1> HIDE DEF n, longer
  <1>2. Sources(longer) = Sources(sent) \cup {m.src}
    BY <1>1 DEF Sources
  <1>3. Destinations(longer) = Destinations(sent) \cup {m.dst}
    BY <1>1 DEF Destinations
  <1> QED
    BY <1>1, <1>2, <1>3 DEF n, longer

LEMMA MoveSettles ==
    ASSUME NEW balances, NEW targets, NEW state \in MatchStates(balances, targets),
           NEW G, G = Givers(balances, targets), NEW T, T = Takers(balances, targets),
           G \subseteq Validators, T \subseteq Validators, \A v \in T : v \notin G,
           NEW t \in T, NEW w \in G, FewSoFar(balances, targets, state)
    PROVE  FewSoFar(balances, targets, Move(state, t, w))
  <1> DEFINE next == Move(state, t, w)
  <1>1. next = state \/ \E amount \in Nat \ {0} : MovedBy(balances, targets, state, t, w, next, amount)
    BY Moved
  <1>2. CASE next = state
    BY <1>2
  <1> HIDE DEF next
  <1>3. CASE next # state
    <2>1. PICK amount \in Nat \ {0} : MovedBy(balances, targets, state, t, w, next, amount)
      BY <1>1, <1>3
    <2> DEFINE m == [src |-> w, dst |-> t, amount |-> amount]
               old == Involved(state.messages)
               new == Involved(next.messages)
    <2>2. /\ m \in Redelegation /\ m.src = w /\ m.dst = t /\ next.messages = Append(state.messages, m)
          /\ state.messages \in Seq(Redelegation) /\ next.messages \in Seq(Redelegation)
      BY <2>1 DEF MovedBy, MatchStates
    <2>3. /\ state.from \in [G -> Nat] /\ state.to \in [T -> Nat]
          /\ next.from \in [G -> Nat] /\ next.to \in [T -> Nat]
      BY <2>1 DEF MovedBy, MatchStates
    <2>4. /\ Sources(next.messages) = Sources(state.messages) \cup {w}
          /\ Destinations(next.messages) = Destinations(state.messages) \cup {t}
          /\ Len(next.messages) = Len(state.messages) + 1 /\ Len(state.messages) \in Nat
      BY <2>2, InvolvedAppend
    <2>5. Sources(next.messages) \subseteq G /\ Destinations(next.messages) \subseteq T
      BY <2>4 DEF FewSoFar
    <2>6. new = old \cup {w, t}
      BY <2>4 DEF Involved
    <2>7. new \in SUBSET Validators /\ old \in SUBSET Validators
      BY <2>5, <2>6 DEF Involved
    <2>8. /\ Left(state, w) # 0 /\ Left(state, t) # 0
          /\ Left(next, w) = 0 \/ Left(next, t) = 0
          /\ \A v \in old : v # w /\ v # t => Left(next, v) = Left(state, v)
      <3>1. /\ amount \in Nat /\ amount # 0 /\ amount <= state.from[w] /\ amount <= state.to[t]
            /\ amount = state.from[w] \/ amount = state.to[t]
            /\ next.from[w] = state.from[w] - amount /\ next.to[t] = state.to[t] - amount
            /\ \A v \in G : v # w => next.from[v] = state.from[v]
            /\ \A v \in T : v # t => next.to[v] = state.to[v]
        BY <2>1 DEF MovedBy
      <3>2. Left(state, w) = state.from[w] /\ Left(state, t) = state.to[t]
            /\ Left(next, w) = next.from[w] /\ Left(next, t) = next.to[t]
        BY <2>3 DEF Left
      <3>3. state.from[w] \in Nat /\ state.to[t] \in Nat
        BY <2>3
      <3>4. \A v \in old : v \in G \/ v \in T
        BY DEF FewSoFar, Involved
      <3>5. \A v \in old : v # w /\ v # t => Left(next, v) = Left(state, v)
        BY <2>3, <3>1, <3>4 DEF Left
      <3> HIDE DEF old
      <3> QED
        BY <3>1, <3>2, <3>3, <3>5
    <2> HIDE DEF new, old, m
    <2> DEFINE A == Done(state)
               B == Done(next)
               both == (A \cup {w}) \cup {t}
    <2>9. /\ A \in SUBSET old /\ w \notin A /\ t \notin A /\ w # t
          /\ A \subseteq B /\ (w \in B \/ t \in B) /\ B \in SUBSET new /\ both \in SUBSET new
      BY <2>6, <2>8 DEF Done, old, new
    <2> HIDE DEF A, B
    <2>10. IsFiniteSet(new) /\ IsFiniteSet(B) /\ IsFiniteSet(A)
      <3>1. IsFiniteSet(new) /\ IsFiniteSet(old)
        BY <2>7, Constants, FS_Subset
      <3> QED
        BY <2>9, <3>1, FS_Subset
    <2>11. PICK e : e \notin A /\ A \cup {e} \in SUBSET B
      BY <2>9
    <2>12. Cardinality(A) \in Nat /\ Cardinality(A \cup {e}) = Cardinality(A) + 1
           /\ Cardinality(A \cup {e}) <= Cardinality(B)
      BY <2>10, <2>11, FS_CardinalityType, FS_AddElement, FS_Subset
    <2>13. Cardinality(both) = Cardinality(A) + 2 /\ Cardinality(both) <= Cardinality(new)
      <3>1. IsFiniteSet(A \cup {w}) /\ Cardinality(A \cup {w}) = Cardinality(A) + 1
        BY <2>9, <2>10, FS_AddElement
      <3>2. t \notin A \cup {w}
        BY <2>9
      <3>3. Cardinality(both) = Cardinality(A \cup {w}) + 1
        BY <3>1, <3>2, FS_AddElement
      <3> HIDE DEF both
      <3>4. Cardinality(both) <= Cardinality(new)
        BY <2>9, <2>10, FS_Subset
      <3> QED
        BY <2>12, <3>1, <3>3, <3>4
    <2>14. Cardinality(B) \in Nat /\ Cardinality(new) \in Nat
      BY <2>10, FS_CardinalityType
    <2>15. Len(state.messages) <= Cardinality(A)
      BY DEF FewSoFar, A
    <2> HIDE DEF both
    <2>16. Len(next.messages) <= Cardinality(B) /\ Len(next.messages) < Cardinality(new)
      BY <2>4, <2>12, <2>13, <2>14, <2>15
    <2>17. Len(next.messages) <= Cardinality(Done(next))
           /\ Len(next.messages) < Cardinality(Involved(next.messages))
      BY <2>16 DEF B, new
    <2> QED
      BY <2>5, <2>17 DEF FewSoFar, next
  <1> QED
    BY <1>2, <1>3 DEF next

\* The redelegations of a change of the validator set.
LEMMA ChangeIsFew ==
    ASSUME NEW balances, IsAmounts(balances), NEW valset, IsValset(valset),
           NEW total_bonded \in Nat,
           NEW change \in ValsetChanges(total_bonded, balances, valset)
    PROVE  /\ Sources(change.messages) \cap Destinations(change.messages) = {}
           /\ change.messages # <<>> =>
                Len(change.messages) < Cardinality(Involved(change.messages))
  <1> DEFINE targets == Targets(total_bonded, valset)
             G == Givers(balances, targets)
             T == Takers(balances, targets)
             K == {y \in MatchStates(balances, targets) : FewSoFar(balances, targets, y)}
  <1>1. IsAmounts(targets)
    BY TargetsAreAmounts
  <1>2. PICK from \in LargestFirst(DelegateFrom(balances, targets)),
             to \in LargestFirst(DelegateTo(balances, targets)) :
                change.messages = Match(from, to).messages
    BY DEF ValsetChanges
  <1> HIDE DEF targets
  <1> DEFINE x == MatchStart(<<from, to>>)
             last == Match(from, to)
  <1>3. /\ G \in SUBSET Validators /\ T \in SUBSET Validators /\ \A v \in T : v \notin G
        /\ ListsOf(from, G) /\ ListsOf(to, T)
        /\ x \in MatchStates(balances, targets) /\ x.messages = <<>>
    BY <1>1, MatchSides
  <1> HIDE DEF x
  <1>4. x \in K
    <2>1. Sources(<<>>) = {} /\ Destinations(<<>>) = {} /\ Len(<<>>) = 0
      BY DEF Sources, Destinations
    <2>2. Done(x) = {}
      BY <1>3, <2>1 DEF Done, Involved
    <2>3. Cardinality({}) = 0
      BY FS_EmptySet
    <2>4. /\ Sources(x.messages) = {} /\ Destinations(x.messages) = {}
          /\ Len(x.messages) = 0 /\ Cardinality(Done(x)) = 0 /\ ~(x.messages # <<>>)
      BY <1>3, <2>1, <2>2, <2>3
    <2>5. FewSoFar(balances, targets, x)
      BY <2>4 DEF FewSoFar
    <2> QED
      BY <1>3, <2>5
  <1>5. ASSUME NEW y \in K, NEW t \in T, NEW w \in G PROVE Move(y, t, w) \in K
    <2>1. FewSoFar(balances, targets, Move(y, t, w))
      BY <1>3, MoveSettles
    <2>2. Move(y, t, w) \in MatchStates(balances, targets)
      <3>1. \/ Move(y, t, w) = y
            \/ \E amount \in Nat \ {0} :
                  MovedBy(balances, targets, y, t, w, Move(y, t, w), amount)
        BY <1>3, Moved
      <3> QED
        BY <3>1 DEF MovedBy
    <2> QED
      BY <2>1, <2>2
  <1> HIDE DEF K
  <1>6. last \in K
    <2> HIDE DEF G, T
    <2> QED
      BY <1>3, <1>4, <1>5, MatchInduction DEF x
  <1> HIDE DEF last, G, T
  <1>7. FewSoFar(balances, targets, last)
    BY <1>6 DEF K
  <1> QED
    BY <1>2, <1>3, <1>7 DEF FewSoFar, last, G, T

-----------------------------------------------------------------------------
(* What the matching leaves *)

\* Whoever has nothing left to give or to get, never has again.
Spent(balances, targets, before, state) ==
    /\ \A v \in Givers(balances, targets) : before.from[v] = 0 => state.from[v] = 0
    /\ \A v \in Takers(balances, targets) : before.to[v] = 0 => state.to[v] = 0

\* `to` has all it needs, or `from` has given all it can.
Met(state, to, from) == state.to[to] = 0 \/ state.from[from] = 0

LEMMA MoveMeets ==
    ASSUME NEW balances, NEW targets, NEW state \in MatchStates(balances, targets),
           NEW G, G = Givers(balances, targets), NEW T, T = Takers(balances, targets),
           G \subseteq Validators, T \subseteq Validators, NEW t \in T, NEW w \in G
    PROVE  /\ Move(state, t, w) \in MatchStates(balances, targets)
           /\ Spent(balances, targets, state, Move(state, t, w))
           /\ Met(Move(state, t, w), t, w)
  <1> DEFINE next == Move(state, t, w)
  <1>1. \/ next = state /\ (state.from[w] = 0 \/ state.to[t] = 0)
        \/ \E amount \in Nat \ {0} : MovedBy(balances, targets, state, t, w, next, amount)
    BY Moved
  <1>2. CASE next = state /\ (state.from[w] = 0 \/ state.to[t] = 0)
    BY <1>2 DEF Spent, Met
  <1> HIDE DEF next
  <1>3. CASE \E amount \in Nat \ {0} : MovedBy(balances, targets, state, t, w, next, amount)
    <2>1. PICK amount \in Nat \ {0} : MovedBy(balances, targets, state, t, w, next, amount)
      BY <1>3
    <2>2. /\ next \in MatchStates(balances, targets)
          /\ amount <= state.from[w] /\ amount <= state.to[t]
          /\ amount = state.from[w] \/ amount = state.to[t]
          /\ next.from[w] = state.from[w] - amount /\ next.to[t] = state.to[t] - amount
          /\ \A v \in G : v # w => next.from[v] = state.from[v]
          /\ \A v \in T : v # t => next.to[v] = state.to[v]
      BY <2>1 DEF MovedBy
    <2>3. state.from[w] \in Nat /\ state.to[t] \in Nat
      BY DEF MatchStates
    <2>4. state.from[w] # 0 /\ state.to[t] # 0 /\ (next.from[w] = 0 \/ next.to[t] = 0)
      BY <2>2, <2>3
    <2> QED
      BY <2>2, <2>4 DEF Spent, Met, next
  <1> QED
    BY <1>1, <1>2, <1>3 DEF next

\* After a taker's turn it and every giver have met.
LEMMA TakeMeets ==
    ASSUME NEW balances, NEW targets, NEW state \in MatchStates(balances, targets),
           NEW G, G = Givers(balances, targets), NEW T, T = Takers(balances, targets),
           G \subseteq Validators, T \subseteq Validators, NEW t \in T,
           NEW moves, ListsOf(moves, G), \A v \in G : \E i \in DOMAIN moves : moves[i].validator = v
    PROVE  /\ TakeFromEach(state, t, moves) \in MatchStates(balances, targets)
           /\ Spent(balances, targets, state, TakeFromEach(state, t, moves))
           /\ \A v \in G : Met(TakeFromEach(state, t, moves), t, v)
  <1> DEFINE n == Len(moves)
             p == <<<<state, t>>, moves>>
             Good(k, acc) == /\ Spent(balances, targets, state, acc)
                             /\ \A i \in 1..k : Met(acc, t, moves[i].validator)
             I == {x \in (0..n) \X MatchStates(balances, targets) : Good(x[1], x[2])}
  <1>1. n \in Nat /\ DOMAIN moves = 1..n /\ \A i \in 1..n : moves[i].validator \in G
    BY DEF ListsOf
  <1> HIDE DEF n
  <1>2. <<0, TakeStart(p)>> \in I
    <2>1. TakeStart(p) = state /\ 0 \in 0..n
      BY <1>1 DEF TakeStart
    <2>2. Good(0, state)
      BY SMT DEF Spent
    <2> HIDE DEF Good, p
    <2> QED
      BY <2>1, <2>2
  <1>3. ASSUME NEW k \in 1..n, NEW acc, <<k - 1, acc>> \in I
        PROVE  <<k, TakeRound(p, ElementOf(p, k), acc)>> \in I
    <2> DEFINE w == moves[k].validator
               next == Move(acc, t, w)
    <2>1. acc \in MatchStates(balances, targets) /\ Good(k - 1, acc) /\ w \in G /\ k \in 0..n
      <3> HIDE DEF Good
      <3> QED
        BY <1>1, <1>3
    <2>2. /\ next \in MatchStates(balances, targets)
          /\ Spent(balances, targets, acc, next) /\ Met(next, t, w)
      BY <2>1, MoveMeets
    <2> HIDE DEF next
    <2>3. Good(k, next)
      <3>1. Spent(balances, targets, state, next)
        BY <2>1, <2>2 DEF Spent
      <3>2. ASSUME NEW i \in 1..k PROVE Met(next, t, moves[i].validator)
        <4>1. CASE i = k
          BY <2>2, <4>1
        <4>2. CASE i # k
          <5>1. i \in 1..(k - 1) /\ i \in 1..n
            BY <1>1, <4>2
          <5>2. Met(acc, t, moves[i].validator) /\ moves[i].validator \in G
            BY <1>1, <2>1, <5>1
          <5> QED
            BY <2>2, <5>2 DEF Spent, Met
        <4> QED
          BY <4>1, <4>2
      <3> QED
        BY <3>1, <3>2
    <2>4. TakeRound(p, ElementOf(p, k), acc) = next
      BY DEF TakeRound, ElementOf, next
    <2> HIDE DEF Good
    <2> QED
      BY <2>1, <2>2, <2>3, <2>4
  <1> DEFINE last == TakeFromEach(state, t, moves)
  <1>4. TakeLoop!InOrder /\ last = TakeLoop!Fold(p, 1..n)
    BY <1>1, TakeIsLoop
  <1> HIDE DEF I, p, last
  <1>5. <<n, TakeLoop!Fold(p, 1..n)>> \in I
    BY <1>1, <1>2, <1>3, <1>4, TakeLoop!LoopKeeps
  <1>6. last \in MatchStates(balances, targets) /\ Good(n, last)
    <2> HIDE DEF Good
    <2> QED
      BY <1>4, <1>5 DEF I
  <1>7. \A v \in G : Met(last, t, v)
    BY <1>1, <1>6
  <1> QED
    BY <1>6, <1>7 DEF last

\* After the matching every taker and every giver have met.
LEMMA MatchMeets ==
    ASSUME NEW balances, NEW targets, IsAmounts(balances), IsAmounts(targets),
           NEW from \in LargestFirst(DelegateFrom(balances, targets)),
           NEW to \in LargestFirst(DelegateTo(balances, targets))
    PROVE  /\ Match(from, to) \in MatchStates(balances, targets)
           /\ \A t \in Takers(balances, targets), v \in Givers(balances, targets) :
                Met(Match(from, to), t, v)
  <1> DEFINE G == Givers(balances, targets)
             T == Takers(balances, targets)
             n == Len(to)
             p == <<from, to>>
             Good(k, acc) == \A i \in 1..k, v \in G : Met(acc, to[i].validator, v)
             I == {x \in (0..n) \X MatchStates(balances, targets) : Good(x[1], x[2])}
  <1>1. /\ G \in SUBSET Validators /\ T \in SUBSET Validators
        /\ ListsOf(from, G) /\ \A v \in G : \E i \in DOMAIN from : from[i].validator = v
        /\ ListsOf(to, T) /\ \A v \in T : \E i \in DOMAIN to : to[i].validator = v
        /\ MatchStart(p) \in MatchStates(balances, targets)
    BY MatchSides
  <1> HIDE DEF G, T
  <1>2. n \in Nat /\ DOMAIN to = 1..n /\ \A i \in 1..n : to[i].validator \in T
    BY <1>1 DEF ListsOf
  <1> HIDE DEF n, p
  <1>3. <<0, MatchStart(p)>> \in I
    <2>1. Good(0, MatchStart(p)) /\ 0 \in 0..n
      BY <1>2
    <2> HIDE DEF Good
    <2> QED
      BY <1>1, <2>1
  <1>4. ASSUME NEW k \in 1..n, NEW acc, <<k - 1, acc>> \in I
        PROVE  <<k, MatchRound(p, ElementOf(p, k), acc)>> \in I
    <2> DEFINE t == to[k].validator
               next == TakeFromEach(acc, t, from)
    <2>1. acc \in MatchStates(balances, targets) /\ Good(k - 1, acc) /\ t \in T /\ k \in 0..n
      <3> HIDE DEF Good
      <3> QED
        BY <1>2, <1>4
    <2> HIDE DEF t
    <2>2. /\ next \in MatchStates(balances, targets)
          /\ Spent(balances, targets, acc, next) /\ \A v \in G : Met(next, t, v)
      BY <1>1, <2>1, TakeMeets DEF G, T
    <2> HIDE DEF next
    <2>3. ASSUME NEW i \in 1..k, NEW v \in G PROVE Met(next, to[i].validator, v)
      <3>1. CASE i = k
        BY <2>2, <3>1 DEF t
      <3>2. CASE i # k
        <4>1. i \in 1..(k - 1) /\ i \in 1..n
          BY <1>2, <3>2
        <4>2. Met(acc, to[i].validator, v) /\ to[i].validator \in T
          BY <1>2, <2>1, <4>1
        <4> QED
          BY <2>2, <4>2 DEF Spent, Met, G, T
      <3> QED
        BY <3>1, <3>2
    <2>4. Good(k, next)
      BY <2>3
    <2>5. MatchRound(p, ElementOf(p, k), acc) = next
      BY DEF MatchRound, ElementOf, next, t, p
    <2> HIDE DEF Good
    <2> QED
      BY <2>1, <2>2, <2>4, <2>5
  <1> DEFINE last == Match(from, to)
  <1>5. MatchLoop!InOrder /\ last = MatchLoop!Fold(p, 1..n)
    BY <1>2, MatchIsLoop DEF p
  <1> HIDE DEF I, last
  <1>6. <<n, MatchLoop!Fold(p, 1..n)>> \in I
    BY <1>2, <1>3, <1>4, <1>5, MatchLoop!LoopKeeps
  <1>7. last \in MatchStates(balances, targets) /\ Good(n, last)
    <2> HIDE DEF Good
    <2> QED
      BY <1>5, <1>6 DEF I
  <1>8. \A t \in T, v \in G : Met(last, t, v)
    BY <1>1, <1>2, <1>7
  <1> QED
    BY <1>7, <1>8 DEF last, G, T

\* When the targets are no more than there is, every listed validator gets its
\* target: a taker left with less would mean that nobody has more than his.
LEMMA TargetsReached ==
    ASSUME NEW balances, IsAmounts(balances), NEW valset, IsValset(valset),
           NEW total_bonded \in Nat, total_bonded = SumFunction(balances),
           SumFunction(Targets(total_bonded, valset)) <= total_bonded,
           NEW change \in ValsetChanges(total_bonded, balances, valset)
    PROVE  \A v \in DOMAIN Targets(total_bonded, valset) :
              AmountAt(change.new_balances, v) >= Targets(total_bonded, valset)[v]
  <1> DEFINE targets == Targets(total_bonded, valset)
             G == Givers(balances, targets)
             T == Takers(balances, targets)
  <1>1. IsAmounts(targets)
    BY TargetsAreAmounts
  <1>2. PICK from \in LargestFirst(DelegateFrom(balances, targets)),
             to \in LargestFirst(DelegateTo(balances, targets)) :
                change.messages = Match(from, to).messages
    BY DEF ValsetChanges
  <1>3. \A v \in Validators : AmountAt(change.new_balances, v)
                                = Redelegated(StakeBefore(balances), change.messages)[v]
    BY ValsetChange
  <1> HIDE DEF targets
  <1> DEFINE last == Match(from, to)
             stake == StakeAt(balances, targets, last.from, last.to)
             wanted == [v \in Validators |-> AmountAt(targets, v)]
  <1>4. /\ G \in SUBSET Validators /\ T \in SUBSET Validators /\ \A v \in T : v \notin G
    BY <1>1, MatchSides
  <1>5. Matched(balances, targets, last) /\ \A t \in T, v \in G : Met(last, t, v)
    BY <1>1, MatchKeeps, MatchMeets
  <1> HIDE DEF last
  <1>6. /\ last.from \in [G -> Nat] /\ last.to \in [T -> Nat]
        /\ \A v \in T : last.to[v] <= targets[v]
        /\ Redelegated(StakeBefore(balances), last.messages) = stake
        /\ SumFunction(stake) = SumFunction(StakeBefore(balances))
    BY <1>5 DEF Matched, MatchStates
  <1>7. \A v \in Validators :
          /\ wanted[v] \in Nat /\ AmountAt(balances, v) \in Nat
          /\ v \in G => stake[v] = wanted[v] + last.from[v]
          /\ v \in T => stake[v] = wanted[v] - last.to[v] /\ wanted[v] = targets[v]
          /\ v \notin G /\ v \notin T => stake[v] = AmountAt(balances, v)
                                         /\ AmountAt(balances, v) <= wanted[v]
    <2>1. \A v \in Validators : wanted[v] \in Nat /\ AmountAt(balances, v) \in Nat
      BY <1>1 DEF IsAmounts, AmountAt
    <2>2. \A v \in Validators :
            stake[v] = IF v \in G THEN wanted[v] + last.from[v]
                       ELSE IF v \in T THEN targets[v] - last.to[v] ELSE AmountAt(balances, v)
      BY <1>6 DEF StakeAt
    <2>3. \A v \in T : wanted[v] = targets[v]
      BY <1>4 DEF Takers, AmountAt
    <2>4. \A v \in Validators : v \notin G => AmountAt(balances, v) <= wanted[v]
      BY <1>1 DEF Givers, AmountAt, IsAmounts
    <2> HIDE DEF stake, wanted, G, T
    <2> QED
      BY <1>4, <2>1, <2>2, <2>3, <2>4
  <1>8. \A v \in DOMAIN targets : v \in Validators /\ wanted[v] = targets[v]
                                  /\ (v \notin T => AmountAt(balances, v) >= targets[v])
    BY <1>1 DEF Takers, AmountAt, IsAmounts
  <1>9. SumFunction(wanted) <= SumFunction(stake)
    <2>1. SumFunction(targets) = SumFunctionOnSet(wanted, Validators)
      BY <1>1, SumOverValidators
    <2>2. SumFunction(wanted) = SumFunctionOnSet(wanted, Validators)
      BY DEF SumFunction, SumFunctionOnSet
    <2>3. SumFunction(StakeBefore(balances)) = SumFunction(balances)
      <3>1. SumFunction(balances) = SumFunctionOnSet(StakeBefore(balances), Validators)
        BY SumOverValidators DEF StakeBefore
      <3>2. SumFunction(StakeBefore(balances)) = SumFunctionOnSet(StakeBefore(balances), Validators)
        BY DEF SumFunction, SumFunctionOnSet, StakeBefore
      <3> QED
        BY <3>1, <3>2
    <2>4. SumFunction(targets) <= total_bonded
      BY DEF targets
    <2> HIDE DEF wanted, stake
    <2> QED
      BY <1>6, <2>1, <2>2, <2>3, <2>4
  <1> HIDE DEF G, T, stake, wanted
  <1>10. \A u \in T : last.to[u] = 0
    <2> SUFFICES ASSUME NEW u \in T, last.to[u] # 0 PROVE FALSE
      OBVIOUS
    <2>1. \A v \in G : last.from[v] = 0
      BY <1>5 DEF Met
    <2>2. u \in Validators /\ u \in T /\ last.to[u] \in Nat
      BY <1>4, <1>6
    <2>3. \A v \in Validators : wanted[v] \in Nat /\ stake[v] \in Int /\ stake[v] <= wanted[v]
      <3> SUFFICES ASSUME NEW v \in Validators
                   PROVE  wanted[v] \in Nat /\ stake[v] \in Int /\ stake[v] <= wanted[v]
        OBVIOUS
      <3>1. v \in G => last.from[v] = 0
        BY <2>1
      <3>2. v \in T => last.to[v] \in Nat
        BY <1>6
      <3> QED
        BY <1>7, <3>1, <3>2
    <2>4. stake[u] + 1 <= wanted[u]
      BY <1>7, <2>2, <2>3
    <2> DEFINE high == stake[u] + 1
               more == [stake EXCEPT ![u] = high]
    <2>5. DOMAIN stake = Validators /\ Ints(stake, Validators) /\ Ints(wanted, Validators)
          /\ DOMAIN wanted = Validators /\ high \in Int /\ high <= wanted[u]
      <3>1. DOMAIN stake = Validators /\ DOMAIN wanted = Validators
        BY DEF stake, StakeAt, wanted
      <3> QED
        BY <2>2, <2>3, <2>4, <3>1 DEF Ints
    <2> HIDE DEF high
    <2>6. SumFunction(more) = SumFunction(stake) - stake[u] + high
      BY <2>2, <2>5, Constants, SumExcept
    <2>7. /\ DOMAIN more = Validators /\ Ints(more, Validators)
          /\ \A v \in Validators : more[v] <= wanted[v]
      BY <2>2, <2>3, <2>5 DEF Ints
    <2> HIDE DEF more
    <2>8. SumFunctionOnSet(more, Validators) <= SumFunctionOnSet(wanted, Validators)
      BY <2>5, <2>7, Constants, SumMonotone
    <2>9. /\ SumFunction(more) = SumFunctionOnSet(more, Validators)
          /\ SumFunction(wanted) = SumFunctionOnSet(wanted, Validators)
          /\ SumFunction(stake) = SumFunctionOnSet(stake, Validators)
      BY <2>5, <2>7 DEF SumFunction, SumFunctionOnSet
    <2>10. SumFunctionOnSet(stake, Validators) \in Int /\ SumFunctionOnSet(wanted, Validators) \in Int
      BY <2>5, Constants, SumInt
    <2> QED
      BY <1>9, <2>2, <2>3, <2>6, <2>8, <2>9, <2>10 DEF high
  <1>11. \A v \in DOMAIN targets : stake[v] >= targets[v]
    <2> SUFFICES ASSUME NEW v \in DOMAIN targets PROVE stake[v] >= targets[v]
      OBVIOUS
    <2>1. v \in Validators /\ wanted[v] = targets[v] /\ wanted[v] \in Nat
      BY <1>7, <1>8
    <2>2. CASE v \in T
      BY <1>7, <1>10, <2>1, <2>2
    <2>3. CASE v \notin T
      <3>1. v \in G => last.from[v] \in Nat
        BY <1>6
      <3> QED
        BY <1>7, <1>8, <2>1, <2>3, <3>1
    <2> QED
      BY <2>2, <2>3
  <1> QED
    BY <1>2, <1>3, <1>6, <1>8, <1>11 DEF targets, last

-----------------------------------------------------------------------------
(* The gauge *)

Reached ==
    stake_info # FirstMessage.validators =>
        \A v \in DOMAIN Targets(supply.total_bonded, stake_info) :
            delegations[v] >= Targets(supply.total_bonded, stake_info)[v]

\* Only the books of what is bonded and the last redelegations matter.
GaugeInv ==
    /\ IsPending(unbonding) /\ supply \in SupplyType
    /\ IsAmounts(bonded) /\ delegations \in [Validators -> Nat]
    /\ BalancesFollowMessages
    /\ Reached
    /\ RedelegationsFew

\* What set_validators does to the books.
LEMMA ExecutionEffect ==
    ASSUME GaugeInv, NEW selected \in Lists, Execute(selected)
    PROVE  GaugeInv'
  <1> DEFINE total == supply.total_bonded
  <1>1. /\ IsPending(unbonding) /\ supply \in SupplyType
        /\ IsAmounts(bonded) /\ delegations \in [Validators -> Nat]
        /\ \A v \in Validators : AmountAt(bonded, v) = delegations[v]
        /\ total = SumFunction(delegations) /\ total = supply.issued /\ total \in Nat
    BY DEF GaugeInv, BalancesFollowMessages, SupplyType
  <1>2. /\ SetValidators(selected) /\ stake_info' = selected
        /\ messages' \in Redelegations(selected)
        /\ delegations' = Redelegated(delegations, messages')
    BY DEF Execute, SetValidatorsBy, SampleGaugeMsgs, SetValidators, SetValidatorsBonded,
           SetValidatorsUnbonded, Redelegated
  <1>3. /\ IsValset(selected) /\ IsAmounts(Targets(total, selected))
        /\ SumFunction(Targets(total, selected)) <= total
    BY <1>1, Selection
  <1>4. IsPending(unbonding') /\ Freed \in Nat
    <2>1. unbonding' = CleanUnbonding
      BY <1>2 DEF SetValidators, SetValidatorsBonded, SetValidatorsUnbonded, ForgetMature
    <2> QED
      BY <1>1, <2>1, PartOfPending DEF CleanUnbonding, Immature, Freed, Mature
  <1>5. \A v \in Validators : StakeBefore(bonded)[v] = delegations[v]
    BY <1>1 DEF StakeBefore
  <1>6. StakeBefore(bonded) = delegations
    BY <1>1, <1>5 DEF StakeBefore
  <1>7. total = SumFunction(bonded)
    <2>1. IsAmounts(delegations) /\ \A v \in Validators : AmountAt(bonded, v) = AmountAt(delegations, v)
      BY <1>1 DEF IsAmounts, AmountAt
    <2> QED
      BY <1>1, <2>1, SameAmounts
  <1>8. /\ RedelegationsFew'
    <2>1. PICK change \in ValsetChanges(total, bonded, selected) : messages' = change.messages
      BY <1>2 DEF Redelegations
    <2>2. /\ Sources(messages') \cap Destinations(messages') = {}
          /\ messages' # <<>> => Len(messages') < Cardinality(Involved(messages'))
      BY <1>1, <1>3, <2>1, ChangeIsFew
    <2> QED
      BY <2>2 DEF RedelegationsFew, Sources, Destinations, Involved
  <1>9. CASE SetValidatorsBonded(selected)
    <2>1. PICK change \in ValsetChanges(total, bonded, selected) :
            /\ RedelegationsFit(change.messages)
            /\ bonded' = change.new_balances
            /\ supply' = [CleanSupply EXCEPT !.total_bonded = SumFunction(change.new_balances)]
            /\ delegations' = Redelegated(delegations, change.messages)
      BY <1>9 DEF SetValidatorsBonded, SaveSupply, Redelegated
    <2> DEFINE sum == SumFunction(change.new_balances)
    <2>2. /\ change.messages \in Seq(Redelegation) /\ IsAmounts(change.new_balances)
          /\ sum = SumFunction(bonded)
          /\ \A v \in Validators : AmountAt(change.new_balances, v) = delegations'[v]
      BY <1>1, <1>3, <1>6, <2>1, ValsetChange
    <2> HIDE DEF sum
    <2>3. delegations' \in [Validators -> Nat]
      BY <1>1, <2>1, <2>2, RedelegationsLeave
    <2>4. supply' \in SupplyType /\ supply'.issued = supply.issued /\ supply'.total_bonded = total
      <3>1. Freed <= supply.total_unbonding
        BY <1>9 DEF SetValidatorsBonded, Loads
      <3>2. supply' = [CleanSupply EXCEPT !.total_bonded = sum]
        BY <2>1 DEF sum
      <3>3. sum = total
        BY <1>7, <2>2
      <3>4. CleanSupply \in SupplyType /\ CleanSupply.issued = supply.issued
        BY <1>1, <1>4, <3>1, SMT DEF CleanSupply, Cleaned, SupplyType
      <3> QED
        BY <1>1, <3>2, <3>3, <3>4 DEF SupplyType
    <2>5. SumFunction(delegations') = total
      <3>1. IsAmounts(delegations')
            /\ \A v \in Validators : AmountAt(delegations', v) = AmountAt(change.new_balances, v)
        BY <2>2, <2>3 DEF IsAmounts, AmountAt
      <3> QED
        BY <1>7, <2>2, <3>1, SameAmounts DEF sum
    <2>6. BalancesFollowMessages'
      BY <1>1, <2>1, <2>2, <2>4, <2>5 DEF BalancesFollowMessages
    <2>7. Reached'
      <3>1. \A v \in DOMAIN Targets(total, selected) :
              /\ AmountAt(change.new_balances, v) >= Targets(total, selected)[v]
              /\ v \in Validators
        BY <1>1, <1>3, <1>7, TargetsReached DEF IsAmounts
      <3>2. Targets(supply.total_bonded, stake_info)' = Targets(total, selected)
        BY <1>2, <2>4
      <3> QED
        BY <2>2, <3>1, <3>2 DEF Reached
    <2> QED
      BY <1>4, <1>8, <2>1, <2>2, <2>3, <2>4, <2>6, <2>7 DEF GaugeInv
  <1>10. CASE SetValidatorsUnbonded(selected)
    <2>1. UNCHANGED <<supply, bonded, delegations>> /\ total = 0
      BY <1>10 DEF SetValidatorsUnbonded, ForgetMature, staking
    <2>2. BalancesFollowMessages'
      BY <2>1 DEF GaugeInv, BalancesFollowMessages
    <2>3. Reached'
      <3> DEFINE targets == Targets(total, selected)
      <3>1. Targets(supply.total_bonded, stake_info)' = targets
        BY <1>2, <2>1
      <3>2. IsAmounts(targets) /\ SumFunction(targets) = 0
        <4>1. SumFunction(targets) \in Nat /\ SumFunction(targets) <= 0
          BY <1>3, <2>1, AmountsSum
        <4> QED
          BY <1>3, <4>1
      <3> HIDE DEF targets
      <3>3. ASSUME NEW v \in DOMAIN targets PROVE targets[v] = 0 /\ v \in Validators
        <4>1. /\ SumFunction(targets) = SumFunctionOnSet(targets, DOMAIN targets)
              /\ IsFiniteSet(DOMAIN targets) /\ Nats(targets, DOMAIN targets)
          BY <3>2, AmountsSum DEF IsAmounts, Nats
        <4>2. targets[v] <= 0
          BY <3>2, <4>1, SumAtLeast
        <4> QED
          BY <3>2, <4>2 DEF IsAmounts
      <3> QED
        BY <1>1, <2>1, <3>1, <3>3 DEF Reached
    <2> QED
      BY <1>1, <1>4, <1>8, <2>1, <2>2, <2>3 DEF GaugeInv
  <1> QED
    BY <1>2, <1>9, <1>10 DEF SetValidators

LEMMA GaugeInit_Inv == GaugeInit => GaugeInv
  <1> SUFFICES ASSUME GaugeInit PROVE GaugeInv
    OBVIOUS
  <1>1. /\ unbonding = <<>> /\ messages = <<>> /\ stake_info = FirstMessage.validators
        /\ delegations \in [Validators -> Stakes] /\ bonded = NonZero(delegations)
        /\ supply = [NewSupply EXCEPT !.issued = SumFunction(delegations),
                                      !.total_bonded = SumFunction(delegations)]
    BY DEF GaugeInit, InitLists
  <1>2. IsPending(unbonding)
    <2>1. DOMAIN unbonding = {}
      BY <1>1, SMT
    <2> QED
      BY <2>1, FS_EmptySet DEF IsPending
  <1>3. delegations \in [Validators -> Nat]
    BY <1>1, GaugeAssumption
  <1>4. IsAmounts(delegations) /\ \A v \in Validators : AmountAt(delegations, v) = delegations[v]
    BY <1>3 DEF IsAmounts, AmountAt
  <1>5. IsAmounts(bonded) /\ \A v \in Validators : AmountAt(bonded, v) = delegations[v]
    BY <1>1, <1>4, NonZeroAmounts
  <1>6. SumFunction(delegations) \in Nat
    BY <1>4, AmountsSum
  <1>7. supply \in SupplyType /\ supply.issued = SumFunction(delegations)
        /\ supply.total_bonded = SumFunction(delegations)
    BY <1>1, <1>6 DEF NewSupply, SupplyType
  <1>8. RedelegationsFew
    BY <1>1 DEF RedelegationsFew, Sources, Destinations
  <1>9. BalancesFollowMessages
    BY <1>5, <1>7 DEF BalancesFollowMessages
  <1>10. Reached
    BY <1>1 DEF Reached
  <1> QED
    BY <1>2, <1>3, <1>5, <1>7, <1>8, <1>9, <1>10 DEF GaugeInv

LEMMA GaugeStep ==
    ASSUME GaugeInv, [GaugeNext]_gaugeVars
    PROVE  GaugeInv'
  <1>1. CASE UNCHANGED <<unbonding, supply, bonded, delegations, stake_info, messages>>
    <2>1. BalancesFollowMessages => BalancesFollowMessages'
      BY <1>1 DEF BalancesFollowMessages
    <2>2. Reached => Reached'
      BY <1>1 DEF Reached
    <2>3. RedelegationsFew => RedelegationsFew'
      BY <1>1 DEF RedelegationsFew
    <2> QED
      BY <1>1, <2>1, <2>2, <2>3 DEF GaugeInv
  <1>2. CASE \E selected \in Lists : Execute(selected)
    BY <1>2, ExecutionEffect
  <1>3. CASE UNCHANGED gaugeVars
    BY <1>1, <1>3 DEF gaugeVars, execution, adminVars, vars, storage, staking
  <1>4. ASSUME NEW max \in MaxCommissions, MigrateInit(max) \/ MigrateUpdate(max)
        PROVE  GaugeInv'
    BY <1>1, <1>4 DEF MigrateInit, MigrateUpdate, execution, adminVars, vars, storage, staking
  <1>5. ASSUME NEW new_owner \in Accounts, MigrateHub(new_owner), UNCHANGED <<gauge, execution>>
        PROVE  GaugeInv'
    BY <1>1, <1>5 DEF MigrateHub, execution, vars, storage, staking
  <1>6. CASE CreateGauge \/ \E option \in Validators : AddOption(option)
    BY <1>1, <1>6 DEF CreateGauge, AddOption, execution, adminVars, vars, storage, staking
  <1>7. CASE \E seconds \in BlockTimes : GaugeBlock(seconds)
    BY <1>1, <1>7 DEF GaugeBlock, adminVars, vars, storage, staking
  <1> QED
    BY <1>2, <1>3, <1>4, <1>5, <1>6, <1>7 DEF GaugeNext

\* The inductive invariant of the gauge: the stored balances are the stake,
\* every list but the first has reached its targets, and the last redelegations
\* were fewer than the validators they touched.
THEOREM GaugeSafe == GaugeSpec => []GaugeInv
  <1>1. GaugeInit => GaugeInv
    BY GaugeInit_Inv
  <1>2. GaugeInv /\ [GaugeNext]_gaugeVars => GaugeInv'
    BY GaugeStep
  <1> QED
    BY <1>1, <1>2, PTL DEF GaugeSpec

\* What the hub stores as bonded is what the chain has, after any executions:
\* set_validators loses, invents and forgets no stake.
THEOREM GaugeBalances == GaugeSpec => []BalancesFollowMessages
  <1>1. GaugeInv => BalancesFollowMessages
    BY DEF GaugeInv
  <1> QED
    BY <1>1, GaugeSafe, PTL

\* The redelegations in progress end before the gauge executes again.
HeldInv ==
    /\ due \in Nat
    /\ \A v \in DOMAIN held : held[v] \in Nat /\ held[v] <= due

LEMMA HeldStep ==
    ASSUME GaugeEpoch >= UnbondPeriod, HeldInv, [GaugeNext]_gaugeVars
    PROVE  HeldInv'
  <1>1. GaugeEpoch \in Nat /\ UnbondPeriod \in Nat /\ \A seconds \in BlockTimes : seconds \in Nat
    BY GaugeAssumption, HubAssumption
  <1>2. CASE UNCHANGED <<due, held>>
    BY <1>2 DEF HeldInv
  <1>3. ASSUME NEW selected \in Lists, Execute(selected)
        PROVE  HeldInv'
    <2>1. due = 0 /\ due' = GaugeEpoch /\ held' = HeldAfter(messages')
      BY <1>3 DEF Execute
    <2>2. ASSUME NEW v \in DOMAIN held'
          PROVE  held'[v] \in Nat /\ held'[v] <= GaugeEpoch
      <3>1. held'[v] = UnbondPeriod \/ (v \in DOMAIN held /\ held'[v] = held[v])
        BY <2>1, <2>2 DEF HeldAfter
      <3> QED
        BY <1>1, <2>1, <3>1 DEF HeldInv
    <2> QED
      BY <1>1, <2>1, <2>2 DEF HeldInv
  <1>4. ASSUME NEW seconds \in BlockTimes, GaugeBlock(seconds)
        PROVE  HeldInv'
    <2>1. due' = SaturatingSub(due, seconds)
          /\ held' = [v \in {u \in DOMAIN held : held[u] > 0} |-> SaturatingSub(held[v], seconds)]
      BY <1>4 DEF GaugeBlock
    <2>2. ASSUME NEW v \in DOMAIN held'
          PROVE  held'[v] \in Nat /\ held'[v] <= due'
      <3>1. v \in DOMAIN held /\ held'[v] = SaturatingSub(held[v], seconds)
        BY <2>1, <2>2
      <3> QED
        BY <1>1, <2>1, <3>1 DEF HeldInv, SaturatingSub
    <2> QED
      BY <1>1, <2>1, <2>2 DEF HeldInv, SaturatingSub
  <1>5. CASE UNCHANGED gaugeVars
    BY <1>2, <1>5 DEF gaugeVars, execution
  <1>6. ASSUME NEW max \in MaxCommissions, MigrateInit(max) \/ MigrateUpdate(max)
        PROVE  HeldInv'
    BY <1>2, <1>6 DEF MigrateInit, MigrateUpdate, execution
  <1>7. CASE \E new_owner \in Accounts : MigrateHub(new_owner) /\ UNCHANGED <<gauge, execution>>
    BY <1>2, <1>7 DEF execution
  <1>8. CASE CreateGauge \/ \E option \in Validators : AddOption(option)
    BY <1>2, <1>8 DEF CreateGauge, AddOption, execution
  <1> QED
    BY <1>3, <1>4, <1>5, <1>6, <1>7, <1>8 DEF GaugeNext

\* When the gauge executes and no redelegation is over by the clock only, the
\* chain takes the redelegations of any selection.
LEMMA SelectionAccepted ==
    ASSUME GaugeInv, HeldInv
    PROVE  ExecutionAccepted
  <1> SUFFICES ASSUME due = 0, ~HeldOver, NEW selected \in Lists,
                      NEW redelegations \in Redelegations(selected)
               PROVE  ChainRedelegates(redelegations)
    BY DEF ExecutionAccepted
  <1>1. PICK change \in ValsetChanges(supply.total_bonded, bonded, selected) :
          redelegations = change.messages
    BY DEF Redelegations
  <1>2. /\ IsAmounts(bonded) /\ delegations \in [Validators -> Nat]
        /\ \A v \in Validators : AmountAt(bonded, v) = delegations[v]
        /\ supply.total_bonded \in Nat
    BY DEF GaugeInv, BalancesFollowMessages, SupplyType
  <1>3. IsValset(selected) /\ redelegations \in Seq(Redelegation)
    <2>1. IsValset(selected)
      BY <1>2, Selection
    <2> QED
      BY <1>1, <1>2, <2>1, ValsetChange
  <1>4. RedelegationsFit(redelegations)
    <2> SUFFICES ASSUME NEW v \in Validators
                 PROVE  delegations[v] >= SumFunction(TakenFrom(redelegations, v))
      BY DEF RedelegationsFit, TakenFrom
    <2>1. SumFunction(TakenFrom(change.messages, v)) <= AmountAt(bonded, v)
      BY <1>2, <1>3, TakenFits
    <2>2. TakenFrom(redelegations, v) = TakenFrom(change.messages, v)
      BY <1>1
    <2>3. SumFunction(TakenFrom(redelegations, v)) \in Nat
      BY <1>3, TakenSums
    <2> QED
      BY <1>2, <2>1, <2>2, <2>3
  <1>5. DOMAIN held = {}
    <2>1. \A v \in DOMAIN held : held[v] = 0
      BY DEF HeldInv
    <2> QED
      BY <2>1 DEF HeldOver
  <1>6. Sources(redelegations) \cap Destinations(redelegations) = {}
    BY <1>1, <1>2, <1>3, ChangeIsFew
  <1>7. ASSUME NEW i \in DOMAIN redelegations, NEW j \in 1..(i - 1)
        PROVE  redelegations[i].src # redelegations[j].dst
    <2>1. j \in DOMAIN redelegations
      BY <1>3
    <2> QED
      BY <1>6, <2>1 DEF Sources, Destinations
  <1> QED
    BY <1>4, <1>5, <1>7 DEF ChainRedelegates

\* Whatever a gauge selects, if its epoch is at least the unbonding period: no
\* validator is asked for more stake than it has, nor for stake that a
\* redelegation has brought too recently, so the chain executes what
\* set_validators sends.
THEOREM GaugeExecutes ==
    GaugeEpoch >= UnbondPeriod => (GaugeSpec => []ExecutionAccepted)
  <1> SUFFICES ASSUME GaugeEpoch >= UnbondPeriod
               PROVE  GaugeSpec => []ExecutionAccepted
    OBVIOUS
  <1>1. GaugeInit => HeldInv
    BY DEF GaugeInit, HeldInv
  <1>2. HeldInv /\ [GaugeNext]_gaugeVars => HeldInv'
    BY HeldStep
  <1>3. GaugeInv /\ HeldInv => ExecutionAccepted
    BY SelectionAccepted
  <1> QED
    BY <1>1, <1>2, <1>3, GaugeSafe, PTL DEF GaugeSpec

\* After an execution every selected validator has at least its part by weight.
THEOREM GaugeReaches == GaugeSpec => []WeightsReached
  <1>1. GaugeInv => WeightsReached
    BY DEF GaugeInv, Reached, WeightsReached
  <1> QED
    BY <1>1, GaugeSafe, PTL

\* The redelegations of an execution are fewer than the validators they touch,
\* and no stake is moved twice.
THEOREM GaugeMovesLittle == GaugeSpec => []RedelegationsFew
  <1>1. GaugeInv => RedelegationsFew
    BY DEF GaugeInv
  <1> QED
    BY <1>1, GaugeSafe, PTL

=============================================================================
