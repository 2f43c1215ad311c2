------------------------------ MODULE HubProofs ------------------------------
(***************************************************************************)
(* Proofs about LsdHub, for all users, validators, amounts, weights and    *)
(* periods: the inductive invariant HubInv, from it the invariants of      *)
(* HubProperties, and that the contract implements the ledger.             *)
(***************************************************************************)
EXTENDS HubRefinement, HubLemmas

\* They are those of the ledger.
LEMMA LedgerConstants == Ledger!LedgerAssumption /\ Ledger!DecimalOneAssumption
  BY Constants DEF Ledger!LedgerAssumption, Ledger!DecimalOneAssumption

\* The claims of all users.
ClaimsTotal(claims) == SumFunction([u \in Users |-> ClaimSum(claims[u])])

LEMMA OwedIsTotal == Owed = ClaimsTotal(user_claims) /\ Owed' = ClaimsTotal(user_claims')
  BY DEF Owed, OwedTo, ClaimsTotal, ClaimSum

\* The claims of one user change what is owed to all by as much.
LEMMA OwedChanges ==
    ASSUME user_claims \in [Users -> Seq(Claim)], NEW u \in Users, NEW s \in Seq(Claim),
           user_claims' = [user_claims EXCEPT ![u] = s]
    PROVE  /\ user_claims' \in [Users -> Seq(Claim)]
           /\ Owed \in Nat /\ ClaimSum(user_claims[u]) <= Owed
           /\ ClaimSum(user_claims[u]) \in Nat /\ ClaimSum(s) \in Nat
           /\ Owed' = Owed - ClaimSum(user_claims[u]) + ClaimSum(s)
  <1> DEFINE f == [v \in Users |-> ClaimSum(user_claims[v])]
             g == [v \in Users |-> ClaimSum(user_claims'[v])]
  <1>1. user_claims' \in [Users -> Seq(Claim)]
    OBVIOUS
  <1>2. \A v \in Users : ClaimSum(user_claims[v]) \in Nat
    BY ClaimSums
  <1>3. ClaimSum(s) \in Nat
    BY ClaimSums
  <1>4. DOMAIN f = Users /\ Nats(f, Users) /\ Ints(f, Users) /\ f[u] = ClaimSum(user_claims[u])
    BY <1>2 DEF Nats, Ints
  <1>5. g = [f EXCEPT ![u] = ClaimSum(s)]
    OBVIOUS
  <1>6. Owed = SumFunction(f) /\ Owed' = SumFunction(g)
    BY OwedIsTotal DEF ClaimsTotal
  <1>7. SumFunction(f) = SumFunctionOnSet(f, Users)
    BY DEF SumFunction, SumFunctionOnSet
  <1> HIDE DEF f, g
  <1>8. SumFunction([f EXCEPT ![u] = ClaimSum(s)]) = SumFunction(f) - f[u] + ClaimSum(s)
    <2>1. ClaimSum(s) \in Int
      BY <1>3
    <2> QED
      BY <1>4, <2>1, Constants, SumExcept
  <1>9. SumFunctionOnSet(f, Users) \in Nat /\ f[u] <= SumFunctionOnSet(f, Users)
    BY <1>4, Constants, SumNat, SumAtLeast
  <1> QED
    BY <1>1, <1>2, <1>3, <1>4, <1>5, <1>6, <1>7, <1>8, <1>9

-----------------------------------------------------------------------------
(* States and steps *)

\* TypeOK in the terms of this module, before and after a step.
LEMMA TypeIs ==
    TypeOK <=>
        /\ now \in 0..MaxTime /\ next_epoch \in Nat /\ next_unbond \in Nat
        /\ IsValset(stake_info) /\ supply \in SupplyType
        /\ IsAmounts(bonded) /\ IsPending(unbonding) /\ IsPending(queue)
        /\ user_claims \in [Users -> Seq(Claim)] /\ slashings \in Seq(Slashing)
        /\ balance \in Nat
        /\ delegations \in [Validators -> Nat] /\ rewards \in [Validators -> Nat]
        /\ tokens \in [Users -> Nat] /\ slashes \in 0..MaxSlashes /\ forgotten \in Nat
  BY Zenon DEF TypeOK, IsAmounts, IsPending

LEMMA TypeIsNext ==
    TypeOK' <=>
        /\ now' \in 0..MaxTime /\ next_epoch' \in Nat /\ next_unbond' \in Nat
        /\ IsValset(stake_info') /\ supply' \in SupplyType
        /\ IsAmounts(bonded') /\ IsPending(unbonding') /\ IsPending(queue')
        /\ user_claims' \in [Users -> Seq(Claim)] /\ slashings' \in Seq(Slashing)
        /\ balance' \in Nat
        /\ delegations' \in [Validators -> Nat] /\ rewards' \in [Validators -> Nat]
        /\ tokens' \in [Users -> Nat] /\ slashes' \in 0..MaxSlashes /\ forgotten' \in Nat
  BY Zenon DEF TypeOK, IsAmounts, IsPending

\* The numbers of a state.
LEMMA StateTypes ==
    ASSUME TypeOK
    PROVE  /\ now \in Nat /\ balance \in Nat /\ forgotten \in Nat /\ slashes \in Nat
           /\ supply.issued \in Nat /\ supply.total_bonded \in Nat
           /\ supply.claims \in Nat /\ supply.total_unbonding \in Nat
           /\ SumFunction(bonded) \in Nat
           /\ IsAmounts(delegations) /\ AllDelegations \in Nat
           /\ Freed = Total(Before(unbonding, now)) /\ Freed \in Nat
           /\ CleanUnbonding = After(unbonding, now) /\ IsPending(CleanUnbonding)
           /\ Total(CleanUnbonding) \in Nat /\ Total(unbonding) = Freed + Total(CleanUnbonding)
           /\ Total(queue) \in Nat /\ Total(Mature(queue)) \in Nat
           /\ Mature(queue) = Before(queue, now)
           /\ Immature(queue) = After(queue, now) /\ Immature(unbonding) = After(unbonding, now)
           /\ SumFunction(tokens) \in Nat /\ SumFunction(rewards) \in Nat
  <1> USE TypeIs
  <1>1. now \in Nat /\ balance \in Nat /\ forgotten \in Nat /\ slashes \in Nat
    BY Constants, SMT
  <1>2. /\ supply.issued \in Nat /\ supply.total_bonded \in Nat
        /\ supply.claims \in Nat /\ supply.total_unbonding \in Nat
    BY DEF SupplyType
  <1>3. IsAmounts(delegations) /\ IsAmounts(rewards)
    BY DEF IsAmounts
  <1>4. SumFunction(bonded) \in Nat /\ AllDelegations \in Nat /\ SumFunction(rewards) \in Nat
    BY <1>3, AmountsSum DEF AllDelegations
  <1>5. Freed = Total(Before(unbonding, now)) /\ CleanUnbonding = After(unbonding, now)
        /\ Mature(queue) = Before(queue, now)
        /\ Immature(queue) = After(queue, now) /\ Immature(unbonding) = After(unbonding, now)
    BY DEF Freed, CleanUnbonding, Mature, Immature, Before, After
  <1>6. /\ IsPending(After(unbonding, now))
        /\ Total(Before(unbonding, now)) \in Nat /\ Total(After(unbonding, now)) \in Nat
        /\ Total(unbonding) = Total(Before(unbonding, now)) + Total(After(unbonding, now))
        /\ Total(Before(queue, now)) \in Nat
    BY <1>1, TotalSplits
  <1>7. Total(queue) \in Nat
    BY PendingSums
  <1>8. SumFunction(tokens) \in Nat
    <2>1. Nats(tokens, Users) /\ SumFunction(tokens) = SumFunctionOnSet(tokens, Users)
      BY DEF Nats, SumFunction, SumFunctionOnSet
    <2> QED
      BY <2>1, Constants, SumNat
  <1> QED
    BY <1>1, <1>2, <1>3, <1>4, <1>5, <1>6, <1>7, <1>8

\* The supply a handler loads.
LEMMA CleanedSupply ==
    ASSUME TypeOK, Loads
    PROVE  /\ CleanSupply \in SupplyType
           /\ CleanSupply.issued = supply.issued /\ CleanSupply.claims = supply.claims
           /\ CleanSupply.total_bonded = supply.total_bonded
           /\ CleanSupply.total_unbonding = supply.total_unbonding - Freed
           /\ supply.total_unbonding - Freed \in Nat
  <1>1. supply \in SupplyType
    BY TypeIs
  <1>2. Freed \in Nat /\ supply.total_unbonding \in Nat /\ Freed <= supply.total_unbonding
    BY StateTypes DEF Loads
  <1> QED
    BY <1>1, <1>2, SMT DEF CleanSupply, Cleaned, SupplyType

\* What cleaning up UNBONDING does.
LEMMA CleanedUnbonding ==
    ASSUME TypeOK, unbonding' = CleanUnbonding, now' = now
    PROVE  /\ IsPending(unbonding') /\ Total(unbonding') = Total(unbonding) - Freed
           /\ Freed' = 0
           /\ DOMAIN unbonding' \subseteq DOMAIN unbonding
           /\ Immature(unbonding)' = Immature(unbonding)
  <1>1. unbonding' = After(unbonding, now) /\ now \in Nat /\ IsPending(unbonding)
    BY StateTypes, TypeIs
  <1>2. Freed' = Total(Before(unbonding', now'))
        /\ Immature(unbonding)' = After(unbonding', now')
        /\ Immature(unbonding) = After(unbonding, now)
    BY DEF Freed, Mature, Immature, Before, After
  <1>3. /\ After(After(unbonding, now), now) = After(unbonding, now)
        /\ Total(Before(After(unbonding, now), now)) = 0
        /\ DOMAIN After(unbonding, now) \subseteq DOMAIN unbonding
    BY <1>1, AfterIsAfter
  <1>4. IsPending(CleanUnbonding) /\ Total(CleanUnbonding) = Total(unbonding) - Freed
    BY StateTypes
  <1> QED
    BY <1>1, <1>2, <1>3, <1>4

\* The queue between two blocks.
LEMMA SameQueue ==
    ASSUME queue' = queue, now' = now
    PROVE  Immature(queue)' = Immature(queue) /\ Total(Mature(queue))' = Total(Mature(queue))
           /\ Total(queue)' = Total(queue)
  <1>1. Immature(queue)' = Immature(queue) /\ Mature(queue)' = Mature(queue)
    BY DEF Immature, Mature
  <1> QED
    BY <1>1

\* The next point of a grid lies ahead.
LEMMA NextIsAhead ==
    ASSUME NEW next \in Nat, NEW period \in Nat \ {0}, NEW t \in Nat, next <= t
    PROVE  NextAfter(next, period, t) \in Nat /\ NextAfter(next, period, t) > t
  <1> DEFINE q == (t - next) \div period
  <1>1. t - next \in Nat
    BY SMT
  <1>2. q \in Nat /\ t - next < period * (q + 1)
    BY <1>1, DivBounds
  <1>3. NextAfter(next, period, t) = next + (q + 1) * period
    BY DEF NextAfter
  <1> HIDE DEF q
  <1>4. (q + 1) * period \in Nat /\ (q + 1) * period = period * (q + 1)
    BY <1>2, SMT
  <1> QED
    BY <1>2, <1>3, <1>4

LEMMA UnbondEpochPositive == UnbondEpoch(UnbondPeriod, MaxConcurrentUnbondings) \in Nat \ {0}
  <1> DEFINE n == UnbondPeriod
             m == MaxConcurrentUnbondings
  <1>1. n \in Nat \ {0} /\ m \in Nat \ {0}
    BY Constants
  <1> HIDE DEF n, m
  <1>2. n \div m \in Nat /\ n % m \in Nat /\ n = m * (n \div m) + (n % m)
    BY <1>1, SMTT(30)
  <1>3. n \div m # 0 \/ n % m > 0
    BY <1>1, <1>2, SMTT(30)
  <1>4. DivCeil(n, m) \in Nat \ {0}
    BY <1>2, <1>3 DEF DivCeil
  <1> QED
    BY <1>4 DEF UnbondEpoch, n, m

-----------------------------------------------------------------------------
(* Every transaction keeps what the books and the chain have in common *)

\* What BooksInv says, conjunct by conjunct.
LEMMA BooksInvIs ==
    BooksInv <=> /\ TypeOK
                 /\ TotalBondedIsSum /\ UnbondingAccounted /\ ExpiriesBehind /\ SlashingsFair
                 /\ NoSlash => StakeKnown /\ UnbondingIsQueued
  BY DEF BooksInv

LEMMA BooksInvIsNext ==
    BooksInv' <=> /\ TypeOK'
                  /\ TotalBondedIsSum' /\ UnbondingAccounted' /\ ExpiriesBehind' /\ SlashingsFair'
                  /\ NoSlash' => StakeKnown' /\ UnbondingIsQueued'
  BY DEF BooksInv

\* No slash is recorded, and none goes wrong.
LEMMA SameSlashings ==
    ASSUME SlashingsFair, UNCHANGED <<slashings, slashes>>, forgotten' = 0 => forgotten = 0
    PROVE  SlashingsFair'
  BY DEF SlashingsFair, NoSlash

\* The stake stays where it is.
LEMMA SameStake ==
    ASSUME BooksInv, UNCHANGED <<bonded, delegations, slashes>>
    PROVE  NoSlash' => NoSlash /\ StakeKnown'
  BY DEF BooksInv, StakeKnown, NoSlash

\* Nothing changes but what has matured: it is deleted, or stays.
LEMMA CleanedQueue ==
    ASSUME BooksInv, unbonding' \in {unbonding, CleanUnbonding},
           UNCHANGED <<now, next_unbond, queue, slashes>>
    PROVE  /\ IsPending(unbonding') /\ IsPending(queue')
           /\ ExpiriesBehind'
           /\ NoSlash' => NoSlash /\ UnbondingIsQueued'
  <1> USE BooksInvIs
  <1>1. IsPending(unbonding) /\ IsPending(queue)
    BY TypeIs
  <1>2. Immature(queue)' = Immature(queue)
    BY SameQueue
  <1>3. /\ IsPending(unbonding') /\ DOMAIN unbonding' \subseteq DOMAIN unbonding
        /\ Immature(unbonding)' = Immature(unbonding)
    <2>1. CASE unbonding' = unbonding
      BY <1>1, <2>1 DEF Immature
    <2>2. CASE unbonding' = CleanUnbonding
      BY <2>2, CleanedUnbonding
    <2> QED
      BY <2>1, <2>2
  <1>4. ExpiriesBehind'
    BY <1>3 DEF ExpiriesBehind
  <1>5. NoSlash' => NoSlash /\ UnbondingIsQueued'
    BY <1>2, <1>3 DEF UnbondingIsQueued, NoSlash
  <1> QED
    BY <1>1, <1>3, <1>4, <1>5

\* A transaction that saves the supply it loaded.
LEMMA SavedUnbonding ==
    ASSUME BooksInv, Loads, unbonding' = CleanUnbonding, UNCHANGED <<now, forgotten>>,
           supply'.total_unbonding = CleanSupply.total_unbonding
    PROVE  UnbondingAccounted'
  <1>1. TypeOK /\ UnbondingAccounted
    BY BooksInvIs
  <1>2. Total(unbonding') = Total(unbonding) - Freed
    BY <1>1, CleanedUnbonding
  <1>3. supply'.total_unbonding = supply.total_unbonding - Freed
    BY <1>1, CleanedSupply
  <1>4. Total(unbonding)' = Total(unbonding') /\ forgotten' = forgotten
    OBVIOUS
  <1>5. /\ Total(unbonding) \in Nat /\ Freed \in Nat /\ supply.total_unbonding \in Nat
        /\ forgotten \in Nat
    <2>1. Total(unbonding) \in Nat
      BY <1>1, TypeIs, PendingSums
    <2> QED
      BY <1>1, <2>1, StateTypes
  <1> QED
    BY <1>1, <1>2, <1>3, <1>4, <1>5 DEF UnbondingAccounted

\* One that does not.
LEMMA ForgottenUnbonding ==
    ASSUME BooksInv, ForgetMature, UNCHANGED now
    PROVE  UnbondingAccounted' /\ forgotten' \in Nat /\ (forgotten' = 0 => forgotten = 0 /\ Freed = 0)
  <1>1. TypeOK /\ UnbondingAccounted
    BY BooksInvIs
  <1>2. Total(unbonding') = Total(unbonding) - Freed
    BY <1>1, CleanedUnbonding DEF ForgetMature
  <1>3. supply' = supply /\ forgotten' = forgotten + Freed
    BY DEF ForgetMature
  <1>5. /\ Total(unbonding) \in Nat /\ Freed \in Nat /\ supply.total_unbonding \in Nat
        /\ forgotten \in Nat
    <2>1. Total(unbonding) \in Nat
      BY <1>1, TypeIs, PendingSums
    <2> QED
      BY <1>1, <2>1, StateTypes
  <1> QED
    BY <1>1, <1>2, <1>3, <1>5 DEF UnbondingAccounted

\* Bond, for any holders of the LSD tokens.
LEMMA HubBondBooks ==
    ASSUME BooksInv, NEW paid \in Nat, HubBond(paid), tokens' \in [Users -> Nat]
    PROVE  BooksInv'
  <1>1. TypeOK /\ Loads
    BY BooksInvIs DEF HubBond
  <1>2. /\ UNCHANGED <<now, next_epoch, next_unbond, stake_info, bonded, user_claims, slashings>>
        /\ UNCHANGED <<delegations, queue, rewards, slashes, forgotten>>
        /\ unbonding' = CleanUnbonding /\ balance' = balance + paid
        /\ supply' = AfterBond(CleanSupply, balance, paid)
        /\ Assets(CleanSupply, balance) >= 0
    BY DEF HubBond, SaveSupply, staking
  <1>3. /\ supply' \in SupplyType /\ supply'.total_bonded = supply.total_bonded
        /\ supply'.total_unbonding = CleanSupply.total_unbonding
    <2>1. CleanSupply \in SupplyType /\ CleanSupply.total_bonded = supply.total_bonded
      BY <1>1, CleanedSupply
    <2>2. SharesFor(CleanSupply, balance, paid) \in Nat
      BY <1>1, <1>2, <2>1, StateTypes, SharesForBounds
    <2> QED
      BY <1>2, <2>1, <2>2 DEF AfterBond, SupplyType
  <1>4. IsPending(unbonding') /\ IsPending(queue') /\ ExpiriesBehind'
        /\ (NoSlash' => UnbondingIsQueued')
    BY <1>2, CleanedQueue
  <1>5. balance' \in Nat
    BY <1>1, <1>2, StateTypes
  <1>6. TypeOK'
    BY <1>1, <1>2, <1>3, <1>4, <1>5, TypeIs, TypeIsNext
  <1>7. TotalBondedIsSum'
    BY <1>2, <1>3, BooksInvIs DEF TotalBondedIsSum
  <1>8. UnbondingAccounted'
    BY <1>1, <1>2, <1>3, SavedUnbonding
  <1>9. SlashingsFair'
    BY <1>2, BooksInvIs, SameSlashings
  <1>10. NoSlash' => StakeKnown'
    BY <1>2, SameStake
  <1> QED
    BY <1>4, <1>6, <1>7, <1>8, <1>9, <1>10, BooksInvIsNext

\* What Bond mints.
LEMMA MintedType ==
    ASSUME TypeOK, NEW paid \in Nat, HubBond(paid)
    PROVE  Minted(paid) \in Nat
  <1>1. Loads /\ Assets(CleanSupply, balance) >= 0
    BY DEF HubBond
  <1>2. CleanSupply \in SupplyType
    BY <1>1, CleanedSupply
  <1> QED
    BY <1>1, <1>2, StateTypes, SharesForBounds DEF Minted

LEMMA BondBooks ==
    ASSUME BooksInv, NEW u \in Users, NEW paid \in Deposits, Bond(u, paid)
    PROVE  BooksInv'
  <1>1. TypeOK /\ HubBond(paid) /\ paid \in Nat
    BY BooksInvIs, Constants DEF Bond
  <1>2. Minted(paid) \in Nat
    BY <1>1, MintedType
  <1>3. tokens \in [Users -> Nat]
    BY <1>1, TypeIs
  <1>4. tokens' = [tokens EXCEPT ![u] = @ + Minted(paid)]
    BY DEF Bond
  <1>5. tokens' \in [Users -> Nat]
    BY <1>2, <1>3, <1>4
  <1> QED
    BY <1>1, <1>5, HubBondBooks

\* What Unbond promises.
LEMMA UnbondTypes ==
    ASSUME TypeOK, NEW u \in Users, NEW amount, Unbond(u, amount)
    PROVE  /\ amount \in Nat /\ amount \in 1..supply.issued /\ amount \in 1..tokens[u]
           /\ NativeFor(CleanSupply, balance, amount) \in Nat
           /\ supply' \in SupplyType
           /\ supply'.total_bonded = supply.total_bonded
           /\ supply'.total_unbonding = CleanSupply.total_unbonding
           /\ ReleaseAt(next_epoch, next_unbond, UnbondPeriod) \in Nat
  <1>1. Loads /\ RateFits(CleanSupply, balance) /\ amount <= supply.issued /\ amount \in 1..tokens[u]
        /\ supply' = AfterUnbond(CleanSupply, balance, amount)
    BY DEF Unbond, SaveSupply
  <1>2. tokens[u] \in Nat /\ supply.issued \in Nat /\ balance \in Nat
    BY TypeIs, StateTypes
  <1>3. amount \in Nat /\ amount \in 1..supply.issued
    BY <1>1, <1>2
  <1>4. CleanSupply \in SupplyType /\ CleanSupply.issued = supply.issued
        /\ CleanSupply.total_bonded = supply.total_bonded
    BY <1>1, CleanedSupply
  <1>5. NativeFor(CleanSupply, balance, amount) \in Nat
    <2>1. amount \in 0..CleanSupply.issued
      BY <1>2, <1>3, <1>4
    <2> QED
      BY <1>1, <1>2, <1>4, <2>1, NativeForBounds
  <1>6. supply' \in SupplyType /\ supply'.total_bonded = supply.total_bonded
        /\ supply'.total_unbonding = CleanSupply.total_unbonding
    <2> DEFINE left == CleanSupply.issued - amount
               owing == CleanSupply.claims + NativeFor(CleanSupply, balance, amount)
    <2>1. supply' = [CleanSupply EXCEPT !.issued = left, !.claims = owing]
      BY <1>1 DEF AfterUnbond
    <2>2. left \in Nat /\ owing \in Nat
      BY <1>2, <1>3, <1>4, <1>5 DEF SupplyType
    <2> HIDE DEF left, owing
    <2> QED
      BY <1>4, <2>1, <2>2 DEF SupplyType
  <1>7. ReleaseAt(next_epoch, next_unbond, UnbondPeriod) \in Nat
    <2>1. next_epoch \in Nat /\ next_unbond \in Nat /\ UnbondPeriod \in Nat
      BY TypeIs, Constants
    <2> QED
      BY <2>1 DEF ReleaseAt
  <1> QED
    BY <1>1, <1>3, <1>5, <1>6, <1>7

LEMMA UnbondBooks ==
    ASSUME BooksInv, NEW u \in Users, NEW amount, Unbond(u, amount)
    PROVE  BooksInv'
  <1> DEFINE c == [amount |-> NativeFor(CleanSupply, balance, amount),
                   release_at |-> ReleaseAt(next_epoch, next_unbond, UnbondPeriod)]
  <1>1. TypeOK /\ Loads
    BY BooksInvIs DEF Unbond
  <1>2. /\ UNCHANGED <<now, next_epoch, next_unbond, stake_info, bonded, slashings>>
        /\ UNCHANGED <<balance, delegations, queue, rewards, slashes, forgotten>>
        /\ unbonding' = CleanUnbonding
        /\ user_claims' = [user_claims EXCEPT ![u] = Append(@, c)]
        /\ tokens' = [tokens EXCEPT ![u] = @ - amount]
    BY DEF Unbond, SaveSupply, staking
  <1>3. /\ amount \in Nat /\ amount \in 1..tokens[u] /\ c \in Claim /\ supply' \in SupplyType
        /\ supply'.total_bonded = supply.total_bonded
        /\ supply'.total_unbonding = CleanSupply.total_unbonding
    BY <1>1, UnbondTypes DEF Claim
  <1>4. IsPending(unbonding') /\ IsPending(queue') /\ ExpiriesBehind'
        /\ (NoSlash' => UnbondingIsQueued')
    BY <1>2, CleanedQueue
  <1> HIDE DEF c
  <1>5. user_claims' \in [Users -> Seq(Claim)]
    <2>1. user_claims \in [Users -> Seq(Claim)]
      BY <1>1, TypeIs
    <2>2. Append(user_claims[u], c) \in Seq(Claim)
      BY <1>3, <2>1, ClaimSumAppend
    <2> QED
      BY <1>2, <2>1, <2>2
  <1>6. tokens' \in [Users -> Nat]
    <2>1. tokens \in [Users -> Nat]
      BY <1>1, TypeIs
    <2>2. tokens[u] - amount \in Nat
      BY <1>3, <2>1
    <2> QED
      BY <1>2, <2>1, <2>2
  <1>7. TypeOK'
    BY <1>1, <1>2, <1>3, <1>4, <1>5, <1>6, TypeIs, TypeIsNext
  <1>8. TotalBondedIsSum'
    BY <1>2, <1>3, BooksInvIs DEF TotalBondedIsSum
  <1>9. UnbondingAccounted'
    BY <1>1, <1>2, <1>3, SavedUnbonding
  <1>10. SlashingsFair'
    BY <1>2, BooksInvIs, SameSlashings
  <1>11. NoSlash' => StakeKnown'
    BY <1>2, SameStake
  <1> QED
    BY <1>4, <1>7, <1>8, <1>9, <1>10, <1>11, BooksInvIsNext

\* What SlashingsFair says of the multipliers.
LEMMA FairMultipliers ==
    ASSUME TypeOK, SlashingsFair
    PROVE  /\ Multipliers(0..DecimalOne)
           /\ NoSlash /\ forgotten = 0 => Multipliers({DecimalOne})
  <1>1. slashings \in Seq(Slashing) /\ DecimalOne \in Nat
    BY TypeIs, Constants
  <1>2. \A i \in DOMAIN slashings : slashings[i].multiplier \in Nat
    <2>1. \A i \in DOMAIN slashings : slashings[i] \in Slashing
      BY <1>1
    <2> QED
      BY <2>1 DEF Slashing
  <1> QED
    BY <1>1, <1>2 DEF Multipliers, SlashingsFair

\* What a claim pays and what it settles.
LEMMA ClaimTypes ==
    ASSUME TypeOK, SlashingsFair, NEW u \in Users, ClaimMature(u)
    PROVE  LET result == ClaimTokens(u)
               settled == ClaimSum(user_claims[u]) - ClaimSum(result.waiting)
           IN  /\ result.to_send \in 1..balance /\ result.to_send <= supply.claims
               /\ result.waiting \in Seq(Claim)
               /\ user_claims' \in [Users -> Seq(Claim)]
               /\ settled \in Nat /\ result.to_send <= settled /\ settled <= Owed
               /\ Owed \in Nat /\ Owed' = Owed - settled
               /\ NoSlash /\ forgotten = 0 => settled = result.to_send
  <1> DEFINE sent == ClaimTokens(u).to_send
             waiting == ClaimTokens(u).waiting
  <1>1. /\ sent > 0 /\ sent <= supply.claims
        /\ user_claims' = [user_claims EXCEPT ![u] = waiting]
    BY DEF ClaimMature
  <1>2. /\ user_claims \in [Users -> Seq(Claim)] /\ slashings \in Seq(Slashing) /\ balance \in Nat
    BY TypeIs
  <1>3. /\ sent \in 0..balance /\ waiting \in Seq(Claim)
        /\ sent + ClaimSum(waiting) <= ClaimSum(user_claims[u])
        /\ Multipliers({DecimalOne}) => sent + ClaimSum(waiting) = ClaimSum(user_claims[u])
    BY <1>2, FairMultipliers, ClaimTokensBounds
  <1>4. /\ user_claims' \in [Users -> Seq(Claim)]
        /\ Owed \in Nat /\ ClaimSum(user_claims[u]) <= Owed
        /\ ClaimSum(user_claims[u]) \in Nat /\ ClaimSum(waiting) \in Nat
        /\ Owed' = Owed - ClaimSum(user_claims[u]) + ClaimSum(waiting)
    BY <1>1, <1>2, <1>3, OwedChanges
  <1>5. NoSlash /\ forgotten = 0 => Multipliers({DecimalOne})
    BY FairMultipliers
  <1> DEFINE had == ClaimSum(user_claims[u])
             has == ClaimSum(waiting)
  <1> HIDE DEF sent, waiting, had, has
  <1>6. /\ sent \in 1..balance /\ had - has \in Nat /\ sent <= had - has /\ had - has <= Owed
        /\ Owed' = Owed - (had - has)
        /\ NoSlash /\ forgotten = 0 => had - has = sent
    BY <1>1, <1>2, <1>3, <1>4, <1>5 DEF had, has
  <1> QED
    BY <1>1, <1>3, <1>4, <1>6 DEF sent, waiting, had, has

LEMMA ClaimBooks ==
    ASSUME BooksInv, NEW u \in Users, ClaimMature(u)
    PROVE  BooksInv'
  <1> DEFINE sent == ClaimTokens(u).to_send
  <1>1. TypeOK /\ SlashingsFair
    BY BooksInvIs
  <1>2. /\ UNCHANGED <<now, next_epoch, next_unbond, stake_info, bonded, unbonding, slashings>>
        /\ UNCHANGED <<delegations, queue, rewards, tokens, slashes, forgotten>>
        /\ balance' = balance - sent /\ supply' = AfterClaim(supply, sent)
    BY DEF ClaimMature, SaveSupply, staking
  <1>3. sent \in 1..balance /\ sent <= supply.claims /\ user_claims' \in [Users -> Seq(Claim)]
    BY <1>1, ClaimTypes
  <1> HIDE DEF sent
  <1>4. /\ supply' \in SupplyType /\ supply'.total_bonded = supply.total_bonded
        /\ supply'.total_unbonding = supply.total_unbonding
        /\ balance' \in Nat
    <2>1. supply \in SupplyType /\ balance \in Nat
      BY <1>1, TypeIs
    <2> QED
      BY <1>2, <1>3, <2>1 DEF AfterClaim, SupplyType
  <1>5. IsPending(unbonding') /\ IsPending(queue') /\ ExpiriesBehind'
        /\ (NoSlash' => UnbondingIsQueued')
    BY <1>2, CleanedQueue
  <1>6. TypeOK'
    BY <1>1, <1>2, <1>3, <1>4, <1>5, TypeIs, TypeIsNext
  <1>7. TotalBondedIsSum'
    BY <1>2, <1>4, BooksInvIs DEF TotalBondedIsSum
  <1>8. UnbondingAccounted'
    BY <1>2, <1>4, BooksInvIs DEF UnbondingAccounted
  <1>9. SlashingsFair'
    BY <1>2, BooksInvIs, SameSlashings
  <1>10. NoSlash' => StakeKnown'
    BY <1>2, SameStake
  <1> QED
    BY <1>5, <1>6, <1>7, <1>8, <1>9, <1>10, BooksInvIsNext

\* The transactions that clean up UNBONDING and do not save the supply.
LEMMA ForgetBooks ==
    ASSUME BooksInv, ForgetMature, next_epoch' \in Nat, IsValset(stake_info'),
           UNCHANGED <<now, next_unbond, bonded, user_claims, slashings>>,
           UNCHANGED <<balance, delegations, queue, rewards, tokens, slashes>>
    PROVE  BooksInv'
  <1>1. TypeOK /\ unbonding' = CleanUnbonding /\ supply' = supply
    BY BooksInvIs DEF ForgetMature
  <1>2. UnbondingAccounted' /\ forgotten' \in Nat /\ (forgotten' = 0 => forgotten = 0)
    BY ForgottenUnbonding
  <1>3. IsPending(unbonding') /\ IsPending(queue') /\ ExpiriesBehind'
        /\ (NoSlash' => UnbondingIsQueued')
    BY <1>1, CleanedQueue
  <1>4. TypeOK'
    BY <1>1, <1>2, <1>3, TypeIs, TypeIsNext
  <1>5. TotalBondedIsSum'
    BY <1>1, BooksInvIs DEF TotalBondedIsSum
  <1>6. SlashingsFair'
    BY <1>2, BooksInvIs, SameSlashings
  <1>7. NoSlash' => StakeKnown'
    BY SameStake
  <1> QED
    BY <1>2, <1>3, <1>4, <1>5, <1>6, <1>7, BooksInvIsNext

\* The next epoch.
LEMMA EpochAdvances ==
    ASSUME TypeOK, EpochReached
    PROVE  next_epoch' \in Nat
  <1>1. next_epoch \in Nat /\ now \in Nat /\ EpochPeriod \in Nat \ {0} /\ next_epoch <= now
    BY TypeIs, StateTypes, Constants DEF EpochReached
  <1>2. next_epoch' = NextAfter(next_epoch, EpochPeriod, now)
    BY DEF EpochReached
  <1> QED
    BY <1>1, <1>2, NextIsAhead

LEMMA NothingListedBooks ==
    ASSUME BooksInv, ReinvestNothingListed
    PROVE  BooksInv'
  <1>1. TypeOK
    BY BooksInvIs
  <1>2. /\ UNCHANGED <<now, next_unbond, stake_info, supply, bonded, unbonding, user_claims>>
        /\ UNCHANGED <<slashings, balance, delegations, queue, rewards, tokens, slashes, forgotten>>
    BY DEF ReinvestNothingListed, staking
  <1>3. next_epoch' \in Nat
    BY <1>1, EpochAdvances DEF ReinvestNothingListed
  <1>4. IsPending(unbonding') /\ IsPending(queue') /\ ExpiriesBehind'
        /\ (NoSlash' => UnbondingIsQueued')
    BY <1>2, CleanedQueue
  <1>5. TypeOK'
    BY <1>1, <1>2, <1>3, TypeIs, TypeIsNext
  <1>6. TotalBondedIsSum' /\ UnbondingAccounted'
    BY <1>2, BooksInvIs DEF TotalBondedIsSum, UnbondingAccounted
  <1>7. SlashingsFair'
    BY <1>2, BooksInvIs, SameSlashings
  <1>8. NoSlash' => StakeKnown'
    BY <1>2, SameStake
  <1> QED
    BY <1>4, <1>5, <1>6, <1>7, <1>8, BooksInvIsNext

LEMMA NoBalanceBooks ==
    ASSUME BooksInv, ReinvestNoBalance
    PROVE  BooksInv'
  <1>1. /\ UNCHANGED <<now, next_unbond, stake_info, bonded, user_claims, slashings>>
        /\ UNCHANGED <<balance, delegations, queue, rewards, tokens, slashes>>
        /\ ForgetMature /\ EpochReached
    BY DEF ReinvestNoBalance, Withdraws, staking
  <1>2. TypeOK
    BY BooksInvIs
  <1> QED
    BY <1>1, <1>2, EpochAdvances, ForgetBooks, TypeIs

LEMMA CheckSlashNoneBooks ==
    ASSUME BooksInv, CheckSlashNone
    PROVE  BooksInv'
  <1>1. /\ UNCHANGED <<now, next_epoch, next_unbond, stake_info, bonded, user_claims, slashings>>
        /\ UNCHANGED <<balance, delegations, queue, rewards, tokens, slashes>>
        /\ ForgetMature
    BY DEF CheckSlashNone, staking
  <1> QED
    BY <1>1, ForgetBooks, BooksInvIs, TypeIs

LEMMA SetUnbondedBooks ==
    ASSUME BooksInv, NEW valset \in Valsets, SetValidatorsUnbonded(valset)
    PROVE  BooksInv'
  <1>1. /\ UNCHANGED <<now, next_epoch, next_unbond, bonded, user_claims, slashings>>
        /\ UNCHANGED <<balance, delegations, queue, rewards, tokens, slashes>>
        /\ ForgetMature /\ stake_info' = valset
    BY DEF SetValidatorsUnbonded, staking
  <1>2. IsValset(stake_info')
    BY <1>1, Constants
  <1> QED
    BY <1>1, <1>2, ForgetBooks, BooksInvIs, TypeIs

-----------------------------------------------------------------------------
(* Reinvest *)

\* What a handler saves in BONDED and SUPPLY.
LEMMA SavedBonded ==
    ASSUME NEW new_bonded, IsAmounts(new_bonded), NEW new_supply \in SupplyType,
           SaveBonded(new_bonded, new_supply)
    PROVE  /\ IsAmounts(bonded') /\ supply' \in SupplyType
           /\ \A v \in Validators : AmountAt(bonded', v) = AmountAt(new_bonded, v)
           /\ supply'.total_bonded = SumFunction(new_bonded)
           /\ supply'.total_bonded = SumFunction(bonded')
           /\ supply' = [new_supply EXCEPT !.total_bonded = SumFunction(new_bonded)]
           /\ supply'.total_unbonding = new_supply.total_unbonding
           /\ forgotten' = forgotten
  <1>1. /\ bonded' = NonZero(new_bonded) /\ forgotten' = forgotten
        /\ supply' = [new_supply EXCEPT !.total_bonded = SumFunction(NonZero(new_bonded))]
    BY DEF SaveBonded, SaveSupply
  <1>2. /\ IsAmounts(NonZero(new_bonded))
        /\ \A v \in Validators : AmountAt(NonZero(new_bonded), v) = AmountAt(new_bonded, v)
        /\ SumFunction(NonZero(new_bonded)) = SumFunction(new_bonded)
    BY NonZeroAmounts
  <1>3. SumFunction(new_bonded) \in Nat
    BY AmountsSum
  <1>4. supply' \in SupplyType /\ supply'.total_bonded = SumFunction(new_bonded)
        /\ supply'.total_unbonding = new_supply.total_unbonding
    BY <1>1, <1>2, <1>3 DEF SupplyType
  <1> QED
    BY <1>1, <1>2, <1>4

\* The amounts a reinvest computes with.
LEMMA ReinvestTypes ==
    ASSUME TypeOK, Withdraws
    PROVE  /\ Loads /\ next_epoch' \in Nat
           /\ WithdrawnFrom \in SUBSET Validators
           /\ Withdrawn \in Nat /\ MulFloor(Withdrawn, Commission) \in 0..Withdrawn
           /\ Liquid \in Nat /\ Liquid >= balance
           /\ ClaimCoverage = Liquid + (supply.total_unbonding - Freed)
           /\ ClaimCoverage \in Nat /\ Surplus \in Int /\ Missing \in Int
           /\ Surplus = ClaimCoverage - supply.claims /\ Missing = supply.claims - ClaimCoverage
  <1>1. Loads /\ next_epoch' \in Nat
    BY EpochAdvances DEF Withdraws
  <1>2. WithdrawnFrom \in SUBSET Validators
    <2>1. Listed \in SUBSET Validators
      BY TypeIs, ListedValidators DEF Listed
    <2> QED
      BY <2>1 DEF WithdrawnFrom, Touched
  <1>3. Withdrawn \in Nat
    <2>1. rewards \in [Validators -> Nat] /\ {} \in SUBSET Validators
      BY TypeIs
    <2> QED
      BY <1>2, <2>1, RewardsOfUnion DEF Withdrawn
  <1>4. MulFloor(Withdrawn, Commission) \in 0..Withdrawn
    <2>1. Commission \in 0..DecimalOne /\ Commission \in Nat /\ DecimalOne \in Nat
      BY Constants, SMT
    <2> QED
      BY <1>3, <2>1, MulFloorAtMost, MulFloorType
  <1>5. balance \in Nat /\ supply.claims \in Nat
    BY StateTypes
  <1>6. CleanSupply.total_unbonding \in Nat
        /\ CleanSupply.total_unbonding = supply.total_unbonding - Freed
    BY <1>1, CleanedSupply
  <1>7. Liquid = balance + Withdrawn - MulFloor(Withdrawn, Commission)
    BY DEF Liquid
  <1>8. Liquid \in Nat /\ Liquid >= balance
    BY <1>3, <1>4, <1>5, <1>7
  <1>9. /\ ClaimCoverage = Liquid + CleanSupply.total_unbonding
        /\ Surplus = ClaimCoverage - supply.claims /\ Missing = supply.claims - ClaimCoverage
    BY DEF ClaimCoverage, Surplus, Missing
  <1> QED
    BY <1>1, <1>2, <1>3, <1>4, <1>5, <1>6, <1>8, <1>9

\* The rewards paid along with a change of delegations.
LEMMA PaidRewards ==
    ASSUME TypeOK, NEW A \in SUBSET Validators, NEW B \in SUBSET Validators,
           PayRewards(A \cup B)
    PROVE  /\ rewards' \in [Validators -> Nat]
           /\ RewardsOf(B \ A) \in Nat /\ RewardsOf(A) \in Nat
           /\ RewardsOf(A) + RewardsOf(B \ A) <= SumFunction(rewards)
           /\ SumFunction(rewards) \in Nat
           /\ SumFunction(rewards') = SumFunction(rewards) - RewardsOf(A) - RewardsOf(B \ A)
  <1>1. rewards \in [Validators -> Nat] /\ A \cup B \in SUBSET Validators
    BY TypeIs
  <1>2. /\ RewardsOf(A \cup B) = RewardsOf(A) + RewardsOf(B \ A)
        /\ RewardsOf(A) \in Nat /\ RewardsOf(B \ A) \in Nat
    BY <1>1, RewardsOfUnion
  <1>3. /\ rewards' \in [Validators -> Nat]
        /\ RewardsOf(A \cup B) \in Nat /\ RewardsOf(A \cup B) <= SumFunction(rewards)
        /\ SumFunction(rewards) \in Nat
        /\ SumFunction(rewards') = SumFunction(rewards) - RewardsOf(A \cup B)
    BY <1>1, RewardsPaid
  <1> QED
    BY <1>2, <1>3

LEMMA WaitTypes ==
    ASSUME BooksInv, ReinvestWait
    PROVE  /\ IsAmounts(bonded') /\ supply' = CleanSupply /\ supply' \in SupplyType
           /\ \A v \in Validators : AmountAt(bonded', v) = AmountAt(bonded, v)
           /\ supply'.total_bonded = SumFunction(bonded')
           /\ supply'.total_unbonding = CleanSupply.total_unbonding
           /\ rewards' \in [Validators -> Nat]
           /\ SumFunction(rewards') = SumFunction(rewards) - Withdrawn
           /\ Withdrawn <= SumFunction(rewards)
  <1>1. TypeOK /\ Withdraws /\ SaveBonded(bonded, CleanSupply) /\ PayRewards(WithdrawnFrom)
    BY BooksInvIs DEF ReinvestWait
  <1>2. CleanSupply \in SupplyType /\ CleanSupply.total_bonded = SumFunction(bonded)
    <2>1. supply.total_bonded = SumFunction(bonded)
      BY BooksInvIs DEF TotalBondedIsSum
    <2> QED
      BY <1>1, <2>1, CleanedSupply, ReinvestTypes
  <1>3. IsAmounts(bonded) /\ rewards \in [Validators -> Nat]
    BY <1>1, TypeIs
  <1>4. /\ IsAmounts(bonded') /\ supply' \in SupplyType
        /\ \A v \in Validators : AmountAt(bonded', v) = AmountAt(bonded, v)
        /\ supply'.total_bonded = SumFunction(bonded')
        /\ supply' = [CleanSupply EXCEPT !.total_bonded = SumFunction(bonded)]
        /\ supply'.total_unbonding = CleanSupply.total_unbonding
    BY <1>1, <1>2, <1>3, SavedBonded
  <1>5. [CleanSupply EXCEPT !.total_bonded = SumFunction(bonded)] = CleanSupply
    BY <1>2 DEF SupplyType
  <1>6. WithdrawnFrom \in SUBSET Validators
    BY <1>1, ReinvestTypes
  <1>7. /\ rewards' \in [Validators -> Nat]
        /\ SumFunction(rewards') = SumFunction(rewards) - Withdrawn
        /\ Withdrawn <= SumFunction(rewards)
    BY <1>1, <1>3, <1>6, RewardsPaid DEF Withdrawn
  <1> QED
    BY <1>4, <1>5, <1>7

LEMMA WaitBooks ==
    ASSUME BooksInv, ReinvestWait
    PROVE  BooksInv'
  <1>1. /\ UNCHANGED <<now, next_unbond, stake_info, user_claims, slashings>>
        /\ UNCHANGED <<delegations, queue, tokens, slashes, forgotten>>
        /\ unbonding' = CleanUnbonding /\ balance' = Liquid /\ Withdraws
    BY DEF ReinvestWait, SaveBonded, SaveSupply
  <1>2. TypeOK
    BY BooksInvIs
  <1>3. Liquid \in Nat /\ next_epoch' \in Nat /\ Loads
    BY <1>1, <1>2, ReinvestTypes
  <1>4. /\ IsAmounts(bonded') /\ supply' \in SupplyType
        /\ \A v \in Validators : AmountAt(bonded', v) = AmountAt(bonded, v)
        /\ supply'.total_bonded = SumFunction(bonded')
        /\ supply'.total_unbonding = CleanSupply.total_unbonding
        /\ rewards' \in [Validators -> Nat]
    BY WaitTypes
  <1>5. IsPending(unbonding') /\ IsPending(queue') /\ ExpiriesBehind'
        /\ (NoSlash' => NoSlash /\ UnbondingIsQueued')
    BY <1>1, CleanedQueue
  <1>6. TypeOK'
    BY <1>1, <1>2, <1>3, <1>4, <1>5, TypeIs, TypeIsNext
  <1>7. TotalBondedIsSum'
    BY <1>4 DEF TotalBondedIsSum
  <1>8. UnbondingAccounted'
    BY <1>1, <1>3, <1>4, SavedUnbonding
  <1>9. SlashingsFair'
    BY <1>1, BooksInvIs, SameSlashings
  <1>10. NoSlash' => StakeKnown'
    BY <1>1, <1>4, <1>5, BooksInvIs DEF StakeKnown
  <1> QED
    BY <1>5, <1>6, <1>7, <1>8, <1>9, <1>10, BooksInvIsNext

LEMMA DelegateTypes ==
    ASSUME BooksInv, ReinvestDelegate
    PROVE  LET payments == ByValidator(DelegatePayments)
               extra == RewardsOf(DOMAIN payments \ WithdrawnFrom)
           IN  /\ Surplus \in Nat \ {0} /\ Surplus <= Liquid
               /\ IsAmounts(payments) /\ SumFunction(payments) = Surplus
               /\ IsAmounts(bonded') /\ supply' \in SupplyType
               /\ \A v \in Validators :
                    AmountAt(bonded', v) = AmountAt(bonded, v) + AmountAt(payments, v)
               /\ supply' = [CleanSupply EXCEPT !.total_bonded = supply.total_bonded + Surplus]
               /\ supply'.total_bonded = SumFunction(bonded')
               /\ supply'.total_unbonding = CleanSupply.total_unbonding
               /\ delegations' \in [Validators -> Nat]
               /\ \A v \in Validators :
                    delegations'[v] = delegations[v] + AmountAt(payments, v)
               /\ AllDelegations' = AllDelegations + Surplus
               /\ rewards' \in [Validators -> Nat] /\ extra \in Nat
               /\ Withdrawn + extra <= SumFunction(rewards)
               /\ SumFunction(rewards') = SumFunction(rewards) - Withdrawn - extra
  <1> DEFINE payments == ByValidator(DelegatePayments)
             extra == RewardsOf(DOMAIN payments \ WithdrawnFrom)
             new == [v \in DOMAIN bonded \cup DOMAIN payments |->
                        AmountAt(bonded, v) + AmountAt(payments, v)]
  <1>1. /\ Withdraws /\ ClaimCoverage > supply.claims /\ stake_info # <<>>
        /\ Remainder(Surplus) >= 0 /\ Surplus <= Liquid
        /\ SaveBonded(new, CleanSupply)
        /\ delegations' = [v \in Validators |-> delegations[v] + AmountAt(payments, v)]
        /\ PayRewards(WithdrawnFrom \cup DOMAIN payments)
    BY DEF ReinvestDelegate
  <1>2. TypeOK /\ supply.total_bonded = SumFunction(bonded)
    BY BooksInvIs DEF TotalBondedIsSum
  <1>3. /\ Loads /\ WithdrawnFrom \in SUBSET Validators
        /\ ClaimCoverage \in Nat /\ Surplus = ClaimCoverage - supply.claims
    BY <1>1, <1>2, ReinvestTypes
  <1>4. /\ IsValset(stake_info) /\ IsAmounts(bonded) /\ delegations \in [Validators -> Nat]
    BY <1>2, TypeIs
  <1>5. Surplus \in Nat \ {0}
    <2>1. supply.claims \in Nat
      BY <1>2, StateTypes
    <2> QED
      BY <1>1, <1>3, <2>1
  <1>6. DelegatePayments \in [DOMAIN stake_info -> Nat] /\ SumFunction(DelegatePayments) = Surplus
    BY <1>1, <1>4, <1>5, DelegatedSurplus
  <1>7. IsAmounts(payments) /\ SumFunction(payments) = Surplus
    BY <1>4, <1>6, PaymentsByValidator
  <1> HIDE DEF payments
  <1>8. DOMAIN payments \in SUBSET Validators
    BY <1>7 DEF IsAmounts
  <1>9. IsAmounts(new) /\ \A v \in Validators :
            AmountAt(new, v) = AmountAt(bonded, v) + AmountAt(payments, v)
    BY <1>4, <1>7 DEF IsAmounts, AmountAt
  <1> HIDE DEF new
  <1>10. SumFunction(new) = supply.total_bonded + Surplus
    BY <1>2, <1>4, <1>7, <1>9, AddAmounts
  <1>11. CleanSupply \in SupplyType
    BY <1>2, <1>3, CleanedSupply
  <1>12. /\ IsAmounts(bonded') /\ supply' \in SupplyType
         /\ \A v \in Validators :
              AmountAt(bonded', v) = AmountAt(bonded, v) + AmountAt(payments, v)
         /\ supply' = [CleanSupply EXCEPT !.total_bonded = supply.total_bonded + Surplus]
         /\ supply'.total_bonded = SumFunction(bonded')
         /\ supply'.total_unbonding = CleanSupply.total_unbonding
    BY <1>1, <1>9, <1>10, <1>11, SavedBonded
  <1>13. /\ delegations' \in [Validators -> Nat]
         /\ \A v \in Validators : delegations'[v] = delegations[v] + AmountAt(payments, v)
    BY <1>1, <1>4, <1>7 DEF IsAmounts, AmountAt
  <1>14. AllDelegations' = AllDelegations + Surplus
    <2>1. IsAmounts(delegations) /\ IsAmounts(delegations')
      BY <1>4, <1>13 DEF IsAmounts
    <2>2. \A v \in Validators :
            AmountAt(delegations', v) = AmountAt(delegations, v) + AmountAt(payments, v)
      BY <1>4, <1>13 DEF AmountAt
    <2>3. SumFunction(delegations') = SumFunction(delegations) + SumFunction(payments)
      BY <1>7, <2>1, <2>2, AddAmounts
    <2> QED
      BY <1>7, <2>3 DEF AllDelegations
  <1>15. /\ rewards' \in [Validators -> Nat] /\ extra \in Nat
         /\ Withdrawn + extra <= SumFunction(rewards)
         /\ SumFunction(rewards') = SumFunction(rewards) - Withdrawn - extra
    BY <1>1, <1>2, <1>3, <1>8, PaidRewards DEF Withdrawn
  <1> QED
    BY <1>1, <1>5, <1>7, <1>12, <1>13, <1>14, <1>15 DEF payments

LEMMA DelegateBooks ==
    ASSUME BooksInv, ReinvestDelegate
    PROVE  BooksInv'
  <1> DEFINE payments == ByValidator(DelegatePayments)
             extra == RewardsOf(DOMAIN payments \ WithdrawnFrom)
  <1>1. /\ UNCHANGED <<now, next_unbond, stake_info, user_claims, slashings>>
        /\ UNCHANGED <<queue, tokens, slashes, forgotten>>
        /\ unbonding' = CleanUnbonding /\ balance' = Liquid - Surplus + extra /\ Withdraws
    BY DEF ReinvestDelegate, SaveBonded, SaveSupply
  <1>2. TypeOK
    BY BooksInvIs
  <1>3. Liquid \in Nat /\ next_epoch' \in Nat /\ Loads
    BY <1>1, <1>2, ReinvestTypes
  <1>4. /\ Surplus \in Nat /\ Surplus <= Liquid
        /\ IsAmounts(bonded') /\ supply' \in SupplyType
        /\ \A v \in Validators :
                    AmountAt(bonded', v) = AmountAt(bonded, v) + AmountAt(payments, v)
        /\ supply'.total_bonded = SumFunction(bonded')
        /\ supply'.total_unbonding = CleanSupply.total_unbonding
        /\ delegations' \in [Validators -> Nat]
        /\ \A v \in Validators : delegations'[v] = delegations[v] + AmountAt(payments, v)
        /\ rewards' \in [Validators -> Nat] /\ extra \in Nat
    BY DelegateTypes
  <1> HIDE DEF payments, extra
  <1>5. IsPending(unbonding') /\ IsPending(queue') /\ ExpiriesBehind'
        /\ (NoSlash' => NoSlash /\ UnbondingIsQueued')
    BY <1>1, CleanedQueue
  <1>6. balance' \in Nat
    BY <1>1, <1>3, <1>4
  <1>7. TypeOK'
    BY <1>1, <1>2, <1>3, <1>4, <1>5, <1>6, TypeIs, TypeIsNext
  <1>8. TotalBondedIsSum'
    BY <1>4 DEF TotalBondedIsSum
  <1>9. UnbondingAccounted'
    BY <1>1, <1>3, <1>4, SavedUnbonding
  <1>10. SlashingsFair'
    BY <1>1, BooksInvIs, SameSlashings
  <1>11. NoSlash' => StakeKnown'
    BY <1>4, <1>5, BooksInvIs DEF StakeKnown
  <1> QED
    BY <1>5, <1>7, <1>8, <1>9, <1>10, <1>11, BooksInvIsNext

\* What an undelegation takes from BONDED and from the chain.
LEMMA UndelegatedTypes ==
    ASSUME TypeOK, ReinvestUndelegate
    PROVE  LET payments == ByValidator(UndelegatePayments)
           IN  /\ Missing \in Nat /\ IsAmounts(payments) /\ SumFunction(payments) \in Nat
               /\ SumFunction(payments) <= Missing
               /\ \A v \in DOMAIN payments : /\ v \in DOMAIN bonded /\ payments[v] <= bonded[v]
                                             /\ payments[v] <= delegations[v]
  <1> DEFINE payments == ByValidator(UndelegatePayments)
  <1>1. /\ Withdraws /\ UndelegationDue /\ UndelegationFits /\ ChainUndelegates(payments)
    BY DEF ReinvestUndelegate
  <1>2. /\ IsValset(stake_info) /\ IsAmounts(bonded) /\ supply.claims \in Nat
    BY TypeIs, StateTypes
  <1>3. Missing \in Nat
    <2>1. ClaimCoverage \in Nat /\ Missing = supply.claims - ClaimCoverage
      BY <1>1, ReinvestTypes
    <2> QED
      BY <1>1, <1>2, <2>1 DEF UndelegationDue
  <1>4. /\ UndelegatePayments \in [DOMAIN stake_info -> Nat]
        /\ SumFunction(UndelegatePayments) <= Missing
        /\ \A i \in DOMAIN stake_info :
             /\ stake_info[i].validator \in DOMAIN bonded
             /\ UndelegatePayments[i] <= bonded[stake_info[i].validator]
    BY <1>1, <1>2, <1>3, UndelegatedMissing
  <1>5. /\ IsAmounts(payments)
        /\ \A i \in DOMAIN stake_info :
             AmountAt(payments, stake_info[i].validator) = UndelegatePayments[i]
        /\ \A v \in DOMAIN payments : \E i \in DOMAIN stake_info : v = stake_info[i].validator
        /\ SumFunction(payments) = SumFunction(UndelegatePayments)
    BY <1>2, <1>4, PaymentsByValidator
  <1>6. SumFunction(payments) \in Nat
    BY <1>5, AmountsSum
  <1> HIDE DEF payments
  <1>7. \A v \in DOMAIN payments : /\ v \in DOMAIN bonded /\ payments[v] <= bonded[v]
                                   /\ payments[v] <= delegations[v]
    <2> SUFFICES ASSUME NEW v \in DOMAIN payments
                 PROVE  /\ v \in DOMAIN bonded /\ payments[v] <= bonded[v]
                        /\ payments[v] <= delegations[v]
      OBVIOUS
    <2>1. PICK i \in DOMAIN stake_info : v = stake_info[i].validator
      BY <1>5
    <2>2. payments[v] = UndelegatePayments[i]
      BY <1>5, <2>1 DEF AmountAt
    <2>3. v \in DOMAIN bonded /\ UndelegatePayments[i] <= bonded[v]
      BY <1>4, <2>1
    <2>4. payments[v] <= delegations[v]
      BY <1>1 DEF ChainUndelegates
    <2> QED
      BY <2>2, <2>3, <2>4
  <1> QED
    BY <1>3, <1>4, <1>5, <1>6, <1>7 DEF payments

LEMMA UndelegateTypes ==
    ASSUME BooksInv, ReinvestUndelegate
    PROVE  LET payments == ByValidator(UndelegatePayments)
               amount == SumFunction(payments)
               extra == RewardsOf(DOMAIN payments \ WithdrawnFrom)
           IN  /\ amount \in Nat /\ amount <= Missing /\ Missing \in Nat
               /\ amount <= supply.total_bonded /\ amount <= AllDelegations
               /\ IsAmounts(payments)
               /\ IsAmounts(bonded') /\ supply' \in SupplyType
               /\ \A v \in Validators :
                    AmountAt(bonded', v) = AmountAt(bonded, v) - AmountAt(payments, v)
               /\ supply' = [CleanSupply EXCEPT !.total_bonded = supply.total_bonded - amount,
                                                !.total_unbonding = @ + amount]
               /\ supply'.total_bonded = SumFunction(bonded')
               /\ supply'.total_unbonding = CleanSupply.total_unbonding + amount
               /\ delegations' \in [Validators -> Nat]
               /\ \A v \in Validators :
                    delegations'[v] = delegations[v] - AmountAt(payments, v)
               /\ AllDelegations' = AllDelegations - amount
               /\ rewards' \in [Validators -> Nat] /\ extra \in Nat
               /\ Withdrawn + extra <= SumFunction(rewards)
               /\ SumFunction(rewards') = SumFunction(rewards) - Withdrawn - extra
  <1> DEFINE payments == ByValidator(UndelegatePayments)
             amount == SumFunction(payments)
             extra == RewardsOf(DOMAIN payments \ WithdrawnFrom)
             new == [v \in DOMAIN bonded |-> bonded[v] - AmountAt(payments, v)]
             saved == [CleanSupply EXCEPT !.total_unbonding = @ + amount]
  <1>1. /\ Withdraws
        /\ SaveBonded(new, saved)
        /\ delegations' = [v \in Validators |-> delegations[v] - AmountAt(payments, v)]
        /\ PayRewards(WithdrawnFrom \cup DOMAIN payments)
    BY DEF ReinvestUndelegate
  <1>2. TypeOK /\ supply.total_bonded = SumFunction(bonded)
    BY BooksInvIs DEF TotalBondedIsSum
  <1>3. Loads /\ WithdrawnFrom \in SUBSET Validators
    BY <1>1, <1>2, ReinvestTypes
  <1>4. IsAmounts(bonded) /\ delegations \in [Validators -> Nat]
    BY <1>2, TypeIs
  <1>5. /\ Missing \in Nat /\ IsAmounts(payments) /\ amount \in Nat /\ amount <= Missing
        /\ \A v \in DOMAIN payments : /\ v \in DOMAIN bonded /\ payments[v] <= bonded[v]
                                      /\ payments[v] <= delegations[v]
    BY <1>2, UndelegatedTypes
  <1> HIDE DEF payments
  <1>6. DOMAIN payments \in SUBSET Validators
    BY <1>5 DEF IsAmounts
  <1>7. /\ IsAmounts(new)
        /\ \A v \in Validators : AmountAt(bonded, v) = AmountAt(new, v) + AmountAt(payments, v)
        /\ \A v \in Validators : AmountAt(new, v) = AmountAt(bonded, v) - AmountAt(payments, v)
    <2>1. \A v \in DOMAIN bonded : bonded[v] - AmountAt(payments, v) \in Nat
      BY <1>4, <1>5 DEF IsAmounts, AmountAt
    <2>2. IsAmounts(new)
      BY <1>4, <2>1 DEF IsAmounts
    <2>3. \A v \in Validators : AmountAt(bonded, v) = AmountAt(new, v) + AmountAt(payments, v)
      BY <1>4, <1>5, <2>1 DEF IsAmounts, AmountAt
    <2>4. \A v \in Validators : AmountAt(new, v) = AmountAt(bonded, v) - AmountAt(payments, v)
      BY <1>4, <1>5, <2>1 DEF IsAmounts, AmountAt
    <2> QED
      BY <2>2, <2>3, <2>4
  <1> HIDE DEF new
  <1>8. SumFunction(bonded) = SumFunction(new) + amount
    BY <1>4, <1>5, <1>7, AddAmounts
  <1>9. SumFunction(new) = supply.total_bonded - amount /\ amount <= supply.total_bonded
    <2>1. SumFunction(new) \in Nat
      BY <1>7, AmountsSum
    <2> HIDE DEF amount
    <2> QED
      BY <1>2, <1>5, <1>8, <2>1
  <1>10. CleanSupply \in SupplyType
    BY <1>2, <1>3, CleanedSupply
  <1>11. saved \in SupplyType /\ saved.total_unbonding = CleanSupply.total_unbonding + amount
    <2> HIDE DEF amount
    <2> QED
      BY <1>5, <1>10 DEF SupplyType
  <1>12. /\ IsAmounts(bonded') /\ supply' \in SupplyType
         /\ \A v \in Validators :
              AmountAt(bonded', v) = AmountAt(bonded, v) - AmountAt(payments, v)
         /\ supply' = [saved EXCEPT !.total_bonded = supply.total_bonded - amount]
         /\ supply'.total_bonded = SumFunction(bonded')
         /\ supply'.total_unbonding = CleanSupply.total_unbonding + amount
    <2> HIDE DEF saved, amount
    <2> QED
      BY <1>1, <1>7, <1>9, <1>11, SavedBonded
  <1>13. supply' = [CleanSupply EXCEPT !.total_bonded = supply.total_bonded - amount,
                                       !.total_unbonding = @ + amount]
    <2> HIDE DEF amount
    <2> QED
      BY <1>10, <1>12 DEF SupplyType
  <1>14. /\ delegations' \in [Validators -> Nat]
         /\ \A v \in Validators : delegations'[v] = delegations[v] - AmountAt(payments, v)
    <2>1. \A v \in Validators : delegations[v] - AmountAt(payments, v) \in Nat
      BY <1>4, <1>5 DEF IsAmounts, AmountAt
    <2> QED
      BY <1>1, <2>1
  <1>15. AllDelegations' = AllDelegations - amount /\ amount <= AllDelegations
    <2>1. IsAmounts(delegations) /\ IsAmounts(delegations')
      BY <1>4, <1>14 DEF IsAmounts
    <2>2. \A v \in Validators :
            AmountAt(delegations, v) = AmountAt(delegations', v) + AmountAt(payments, v)
      BY <1>4, <1>5, <1>14 DEF IsAmounts, AmountAt
    <2>3. SumFunction(delegations) = SumFunction(delegations') + SumFunction(payments)
      BY <1>5, <2>1, <2>2, AddAmounts
    <2>4. SumFunction(delegations) \in Nat /\ SumFunction(delegations') \in Nat
      BY <2>1, AmountsSum
    <2> HIDE DEF amount
    <2> QED
      BY <1>5, <2>3, <2>4 DEF AllDelegations, amount
  <1>16. /\ rewards' \in [Validators -> Nat] /\ extra \in Nat
         /\ Withdrawn + extra <= SumFunction(rewards)
         /\ SumFunction(rewards') = SumFunction(rewards) - Withdrawn - extra
    BY <1>1, <1>2, <1>3, <1>6, PaidRewards DEF Withdrawn
  <1> HIDE DEF saved
  <1> QED
    BY <1>5, <1>9, <1>12, <1>13, <1>14, <1>15, <1>16 DEF payments

\* An undelegation expires later than now, and before one of the next grid point.
LEMMA ExpiryAhead ==
    ASSUME NEW time \in Nat, NEW period \in Nat \ {0}, NEW next \in Nat, next > time
    PROVE  /\ time + period \in Nat /\ time < time + period
           /\ next + period \in Nat /\ time + period < next + period
  OBVIOUS

\* The new unbonding is entered under a time of its own, here and in the queue.
LEMMA UndelegatePending ==
    ASSUME BooksInv, ReinvestUndelegate
    PROVE  LET amount == SumFunction(ByValidator(UndelegatePayments))
           IN  /\ IsPending(unbonding') /\ IsPending(queue')
               /\ Total(unbonding') = Total(unbonding) - Freed + amount /\ Freed' = 0
               /\ Total(queue') = Total(queue) + amount
               /\ Total(Mature(queue))' = Total(Mature(queue))
               /\ next_unbond' \in Nat
               /\ ExpiriesBehind'
               /\ NoSlash => UnbondingIsQueued'
  <1> DEFINE p == ByValidator(UndelegatePayments)
             k == now + UnbondPeriod
             c == CleanUnbonding
  <1>1. /\ now' = now /\ slashes' = slashes /\ next_unbond <= now
        /\ next_unbond' = NextAfter(next_unbond,
                                UnbondEpoch(UnbondPeriod, MaxConcurrentUnbondings), now)
        /\ unbonding' = Entered(c, k, p) /\ queue' = Queued(queue, k, p)
    BY DEF ReinvestUndelegate, UndelegationDue
  <1>2. /\ TypeOK /\ ExpiriesBehind /\ (NoSlash => UnbondingIsQueued)
    BY BooksInvIs
  <1>3. /\ IsAmounts(p)
    BY <1>2, UndelegatedTypes
  <1>4. /\ IsPending(unbonding) /\ IsPending(queue) /\ now \in Nat /\ next_unbond \in Nat
        /\ UnbondPeriod \in Nat \ {0}
    BY <1>2, TypeIs, StateTypes, Constants
  <1>5. /\ c = After(unbonding, now) /\ IsPending(c) /\ Total(c) = Total(unbonding) - Freed
        /\ DOMAIN c \subseteq DOMAIN unbonding
        /\ After(c, now) = c /\ Total(Before(c, now)) = 0
    <2>1. c = After(unbonding, now) /\ IsPending(c) /\ Total(c) = Total(unbonding) - Freed
      BY <1>2, StateTypes
    <2> HIDE DEF c
    <2> QED
      BY <1>4, <2>1, AfterIsAfter
  <1> HIDE DEF p, c
  <1>6. next_unbond' \in Nat /\ next_unbond' > now
    BY <1>1, <1>4, NextIsAhead, UnbondEpochPositive
  <1>7. k \in Nat /\ now < k /\ k < next_unbond' + UnbondPeriod /\ next_unbond' + UnbondPeriod \in Nat
    BY <1>4, <1>6, ExpiryAhead
  <1>8. \A t \in DOMAIN unbonding \cup DOMAIN queue : t \in Nat /\ t < k
    <2>1. \A t \in DOMAIN unbonding \cup DOMAIN queue : t \in Nat /\ t < next_unbond + UnbondPeriod
      BY <1>2, <1>4 DEF ExpiriesBehind, IsPending
    <2> QED
      BY <1>1, <1>4, <2>1
  <1>9. k \notin DOMAIN c /\ k \notin DOMAIN queue /\ queue' = Entered(queue, k, p)
    <2>1. k \notin DOMAIN c /\ k \notin DOMAIN queue
      BY <1>5, <1>8
    <2> QED
      BY <1>1, <2>1 DEF Queued
  <1> HIDE DEF k
  <1>10. /\ IsPending(unbonding') /\ DOMAIN unbonding' = DOMAIN c \cup {k}
         /\ Total(unbonding') = Total(c) + SumFunction(p)
         /\ After(unbonding', now) = Entered(c, k, p)
         /\ Before(unbonding', now) = Before(c, now)
    <2>1. /\ IsPending(c) /\ k \in Nat /\ k \notin DOMAIN c /\ IsAmounts(p)
          /\ now \in Nat /\ now < k
      BY <1>3, <1>4, <1>5, <1>7, <1>9
    <2>2. IsPending(Entered(c, k, p))
      BY <2>1, NewPending, Zenon
    <2>3. DOMAIN Entered(c, k, p) = DOMAIN c \cup {k}
      BY <2>1, NewPending, Zenon
    <2>4. Total(Entered(c, k, p)) = Total(c) + SumFunction(p)
      BY <2>1, NewPending, Zenon
    <2>5. After(Entered(c, k, p), now) = Entered(After(c, now), k, p)
      BY <2>1, NewPendingAfter
    <2>6. Before(Entered(c, k, p), now) = Before(c, now)
      BY <2>1, NewPendingBefore
    <2> QED
      BY <1>1, <1>5, <2>2, <2>3, <2>4, <2>5, <2>6
  <1>11. /\ IsPending(queue') /\ DOMAIN queue' = DOMAIN queue \cup {k}
         /\ Total(queue') = Total(queue) + SumFunction(p)
         /\ After(queue', now) = Entered(After(queue, now), k, p)
         /\ Before(queue', now) = Before(queue, now)
    <2>1. /\ IsPending(queue) /\ k \in Nat /\ k \notin DOMAIN queue /\ IsAmounts(p)
          /\ now \in Nat /\ now < k
      BY <1>3, <1>4, <1>7, <1>9
    <2>2. IsPending(Entered(queue, k, p))
      BY <2>1, NewPending, Zenon
    <2>3. DOMAIN Entered(queue, k, p) = DOMAIN queue \cup {k}
      BY <2>1, NewPending, Zenon
    <2>4. Total(Entered(queue, k, p)) = Total(queue) + SumFunction(p)
      BY <2>1, NewPending, Zenon
    <2>5. After(Entered(queue, k, p), now) = Entered(After(queue, now), k, p)
      BY <2>1, NewPendingAfter
    <2>6. Before(Entered(queue, k, p), now) = Before(queue, now)
      BY <2>1, NewPendingBefore
    <2> QED
      BY <1>9, <1>5, <2>2, <2>3, <2>4, <2>5, <2>6
  <1>12. ExpiriesBehind'
    <2>1. \A t \in DOMAIN unbonding' \cup DOMAIN queue' : t < next_unbond' + UnbondPeriod
      <3> SUFFICES ASSUME NEW t \in DOMAIN unbonding' \cup DOMAIN queue'
                   PROVE  t < next_unbond' + UnbondPeriod
        OBVIOUS
      <3> DEFINE end == next_unbond' + UnbondPeriod
      <3>1. t = k \/ t \in DOMAIN unbonding \cup DOMAIN queue
        BY <1>5, <1>10, <1>11
      <3>2. k \in Nat /\ k < end /\ end \in Nat
        BY <1>7
      <3> HIDE DEF end
      <3>3. ASSUME t \in Nat, t < k PROVE t < end
        BY <3>2, <3>3
      <3>4. t < end
        BY <1>8, <3>1, <3>2, <3>3
      <3> QED
        BY <3>4 DEF end
    <2> QED
      BY <2>1 DEF ExpiriesBehind
  <1>13. NoSlash => UnbondingIsQueued'
    <2>1. NoSlash => c = After(queue, now)
      <3>1. Immature(unbonding) = c /\ Immature(queue) = After(queue, now)
        BY <1>2, <1>5, StateTypes
      <3> QED
        BY <1>2, <3>1 DEF UnbondingIsQueued
    <2>2. Immature(unbonding)' = After(unbonding', now) /\ Immature(queue)' = After(queue', now)
      BY <1>1 DEF Immature, After
    <2> QED
      BY <1>10, <1>11, <2>1, <2>2 DEF UnbondingIsQueued
  <1>14. Freed' = 0 /\ Total(Mature(queue))' = Total(Mature(queue))
    <2>1. /\ Freed' = Total(Before(unbonding', now))
          /\ Total(Mature(queue))' = Total(Before(queue', now))
          /\ Mature(queue) = Before(queue, now)
      BY <1>1 DEF Freed, Mature, Before
    <2> QED
      BY <1>5, <1>10, <1>11, <2>1
  <1> QED
    BY <1>5, <1>6, <1>10, <1>11, <1>12, <1>13, <1>14 DEF p

LEMMA UndelegateBooks ==
    ASSUME BooksInv, ReinvestUndelegate
    PROVE  BooksInv'
  <1> DEFINE payments == ByValidator(UndelegatePayments)
             amount == SumFunction(payments)
             extra == RewardsOf(DOMAIN payments \ WithdrawnFrom)
  <1>1. /\ UNCHANGED <<now, stake_info, user_claims, slashings>>
        /\ UNCHANGED <<tokens, slashes, forgotten>>
        /\ balance' = Liquid + extra /\ Withdraws
    BY DEF ReinvestUndelegate, SaveBonded, SaveSupply
  <1>2. TypeOK /\ UnbondingAccounted
    BY BooksInvIs
  <1>3. Liquid \in Nat /\ next_epoch' \in Nat /\ Loads
    BY <1>1, <1>2, ReinvestTypes
  <1>4. /\ amount \in Nat
        /\ IsAmounts(bonded') /\ supply' \in SupplyType
        /\ \A v \in Validators :
             AmountAt(bonded', v) = AmountAt(bonded, v) - AmountAt(payments, v)
        /\ supply'.total_bonded = SumFunction(bonded')
        /\ supply'.total_unbonding = CleanSupply.total_unbonding + amount
        /\ delegations' \in [Validators -> Nat]
        /\ \A v \in Validators : delegations'[v] = delegations[v] - AmountAt(payments, v)
        /\ rewards' \in [Validators -> Nat] /\ extra \in Nat
    BY UndelegateTypes
  <1>5. /\ IsPending(unbonding') /\ IsPending(queue')
        /\ Total(unbonding') = Total(unbonding) - Freed + amount
        /\ next_unbond' \in Nat /\ ExpiriesBehind'
        /\ (NoSlash => UnbondingIsQueued')
    BY UndelegatePending
  <1> HIDE DEF payments, extra, amount
  <1>6. balance' \in Nat
    BY <1>1, <1>3, <1>4
  <1>7. TypeOK'
    BY <1>1, <1>2, <1>3, <1>4, <1>5, <1>6, TypeIs, TypeIsNext
  <1>8. TotalBondedIsSum'
    BY <1>4 DEF TotalBondedIsSum
  <1>9. UnbondingAccounted'
    <2>1. CleanSupply.total_unbonding = supply.total_unbonding - Freed
      BY <1>2, <1>3, CleanedSupply
    <2>2. /\ Total(unbonding) \in Nat /\ Freed \in Nat /\ supply.total_unbonding \in Nat
          /\ forgotten \in Nat
      <3>1. IsPending(unbonding)
        BY <1>2, TypeIs
      <3> QED
        BY <1>2, <3>1, StateTypes, PendingSums
    <2>3. Total(unbonding)' = Total(unbonding') /\ forgotten' = forgotten
      BY <1>1
    <2> QED
      BY <1>2, <1>4, <1>5, <2>1, <2>2, <2>3 DEF UnbondingAccounted
  <1>10. SlashingsFair'
    BY <1>1, BooksInvIs, SameSlashings
  <1>11. NoSlash' => StakeKnown' /\ UnbondingIsQueued'
    BY <1>1, <1>4, <1>5, BooksInvIs DEF StakeKnown, NoSlash
  <1> QED
    BY <1>5, <1>7, <1>8, <1>9, <1>10, <1>11, BooksInvIsNext

-----------------------------------------------------------------------------
(* CheckSlash and SetValidators *)

\* Reducing what is on slashed validators, when every one of them has a stake.
LEMMA ReducedAmounts ==
    ASSUME TypeOK, SlashedValidators \subseteq {v \in DOMAIN bonded : bonded[v] > 0},
           NEW f, IsAmounts(f)
    PROVE  /\ IsAmounts(Reduce(f)) /\ DOMAIN Reduce(f) = DOMAIN f
           /\ NoSlash /\ StakeKnown => Reduce(f) = f
  <1>1. IsAmounts(bonded) /\ delegations \in [Validators -> Nat]
    BY TypeIs
  <1>2. \A v \in SlashedValidators :
            /\ v \in Validators /\ bonded[v] \in Nat \ {0} /\ delegations[v] \in Nat
            /\ AmountAt(bonded, v) = bonded[v]
    BY <1>1 DEF IsAmounts, SlashedValidators, AmountAt
  <1>3. \A v \in SlashedValidators : Multiplier(v) \in Nat
    BY <1>2, FromRatioType DEF Multiplier
  <1>4. DOMAIN Reduce(f) = DOMAIN f
    BY DEF Reduce
  <1>5. \A v \in DOMAIN f : Reduce(f)[v] \in Nat
    <2> SUFFICES ASSUME NEW v \in DOMAIN f PROVE Reduce(f)[v] \in Nat
      OBVIOUS
    <2>1. f[v] \in Nat
      BY DEF IsAmounts
    <2>2. v \in SlashedValidators => MulFloor(f[v], Multiplier(v)) \in Nat
      BY <1>3, <2>1, MulFloorType
    <2> QED
      BY <2>1, <2>2 DEF Reduce
  <1>6. IsAmounts(Reduce(f))
    <2>1. Reduce(f) \in [DOMAIN f -> Nat]
      BY <1>5 DEF Reduce
    <2> QED
      BY <1>4, <2>1 DEF IsAmounts
  <1>7. ASSUME NoSlash, StakeKnown PROVE Reduce(f) = f
    <2>1. \A v \in SlashedValidators : Multiplier(v) = DecimalOne
      BY <1>2, <1>7, OneIsOne DEF Multiplier, StakeKnown
    <2>2. \A v \in DOMAIN f : Reduce(f)[v] = f[v]
      <3> SUFFICES ASSUME NEW v \in DOMAIN f PROVE Reduce(f)[v] = f[v]
        OBVIOUS
      <3>1. f[v] \in Nat
        BY DEF IsAmounts
      <3>2. v \in SlashedValidators => MulFloor(f[v], Multiplier(v)) = f[v]
        BY <2>1, <3>1, OneIsOne
      <3> QED
        BY <3>2 DEF Reduce
    <2>3. f \in [DOMAIN f -> Nat] /\ Reduce(f) \in [DOMAIN f -> Nat]
      BY <1>4, <1>6 DEF IsAmounts
    <2> HIDE DEF Reduce
    <2> QED
      BY <2>2, <2>3
  <1> QED
    BY <1>4, <1>6, <1>7

\* What check_slash counts when it finds a slash.
Counted == [t \in DOMAIN CleanUnbonding |-> Reduce(CleanUnbonding[t])]

LEMMA CountedPending ==
    ASSUME TypeOK, SlashedValidators \subseteq {v \in DOMAIN bonded : bonded[v] > 0}
    PROVE  /\ IsPending(Counted) /\ DOMAIN Counted \subseteq DOMAIN unbonding
           /\ Total(Counted) \in Nat
           /\ NoSlash /\ StakeKnown => Counted = CleanUnbonding
  <1> DEFINE c == CleanUnbonding
  <1>1. c = After(unbonding, now) /\ IsPending(c) /\ IsPending(unbonding) /\ now \in Nat
    BY StateTypes, TypeIs
  <1>2. c = [t \in DOMAIN c |-> c[t]]
    BY DEF CleanUnbonding, Immature, Restrict
  <1>3. DOMAIN c \subseteq DOMAIN unbonding
    BY DEF CleanUnbonding, Immature, Restrict
  <1>4. DOMAIN Counted = DOMAIN c /\ \A t \in DOMAIN c : Counted[t] = Reduce(c[t])
    BY DEF Counted
  <1>5. Counted = [t \in DOMAIN c |-> Counted[t]]
    BY DEF Counted
  <1> HIDE DEF c
  <1>6. \A t \in DOMAIN c : IsAmounts(c[t])
    BY <1>1 DEF IsPending
  <1>7. \A t \in DOMAIN c : /\ IsAmounts(Counted[t]) /\ DOMAIN Counted[t] = DOMAIN c[t]
                            /\ NoSlash /\ StakeKnown => Counted[t] = c[t]
    BY <1>4, <1>6, ReducedAmounts
  <1>8. IsPending(Counted)
    BY <1>1, <1>4, <1>7, LesserPending
  <1>9. NoSlash /\ StakeKnown => Counted = c
    BY <1>2, <1>5, <1>7
  <1>10. Total(Counted) \in Nat
    BY <1>8, PendingSums
  <1> QED
    BY <1>3, <1>4, <1>8, <1>9, <1>10 DEF c

\* What it saves.
LEMMA FoundTypes ==
    ASSUME BooksInv, CheckSlashFound
    PROVE  LET old == CleanSupply.total_unbonding
               new == Total(Counted)
           IN  /\ Loads /\ old \in Nat /\ new \in Nat /\ new <= old
               /\ unbonding' = Counted /\ IsPending(Counted) /\ bonded' = Reduce(bonded)
               /\ IsAmounts(bonded') /\ supply' \in SupplyType
               /\ supply'.total_bonded = SumFunction(bonded') /\ supply'.total_unbonding = new
               /\ SumFunction(bonded') <= supply.total_bonded
               /\ old # 0 => /\ supply.claims >= old
                             /\ supply' = [CleanSupply EXCEPT
                                                !.total_bonded = SumFunction(bonded'),
                                                !.total_unbonding = new,
                                                !.claims = (@ - old) + new]
                             /\ slashings' = Append(slashings,
                                    [start |-> now, end |-> now + UnbondPeriod,
                                     multiplier |-> FromRatio(new, old)])
               /\ old = 0 => /\ supply' = [CleanSupply EXCEPT
                                                !.total_bonded = SumFunction(bonded'),
                                                !.total_unbonding = new]
                             /\ UNCHANGED slashings
               /\ NoSlash => bonded' = bonded /\ Counted = CleanUnbonding
               /\ UNCHANGED forgotten
  <1> DEFINE old == CleanSupply.total_unbonding
             new == Total(Counted)
             counted == [CleanSupply EXCEPT !.total_bonded = SumFunction(Reduce(bonded)),
                                            !.total_unbonding = new]
  <1>1. /\ Loads /\ new <= old /\ counted.total_bonded <= supply.total_bonded
        /\ SlashedValidators \subseteq {v \in DOMAIN bonded : bonded[v] > 0}
        /\ bonded' = Reduce(bonded) /\ unbonding' = Counted
        /\ IF old = 0
           THEN SaveSupply(counted) /\ UNCHANGED slashings
           ELSE /\ supply.claims >= old
                /\ SaveSupply([counted EXCEPT !.claims = ClaimsAfterSlash(@, old, new)])
                /\ slashings' = Append(slashings,
                        [start |-> now, end |-> now + UnbondPeriod,
                         multiplier |-> FromRatio(new, old)])
    BY DEF CheckSlashFound, CheckSlashLoads, Counted
  <1>2. TypeOK /\ (NoSlash => StakeKnown)
    BY BooksInvIs
  <1>3. /\ IsPending(Counted) /\ new \in Nat
        /\ NoSlash => Counted = CleanUnbonding
    BY <1>1, <1>2, CountedPending
  <1>4. IsAmounts(Reduce(bonded)) /\ (NoSlash => Reduce(bonded) = bonded)
    <2>1. IsAmounts(bonded)
      BY <1>2, TypeIs
    <2> QED
      BY <1>1, <1>2, <2>1, ReducedAmounts
  <1>5. SumFunction(Reduce(bonded)) \in Nat
    BY <1>4, AmountsSum
  <1>6. CleanSupply \in SupplyType /\ CleanSupply.claims = supply.claims /\ supply.claims \in Nat
    BY <1>1, <1>2, CleanedSupply, StateTypes
  <1>7. old \in Nat
    BY <1>6 DEF SupplyType
  <1> HIDE DEF new
  <1>8. counted \in SupplyType /\ counted.total_bonded = SumFunction(Reduce(bonded))
        /\ counted.total_unbonding = new /\ counted.claims = supply.claims
    BY <1>3, <1>5, <1>6 DEF SupplyType
  <1>11. SumFunction(Reduce(bonded)) <= supply.total_bonded
    BY <1>1, <1>8
  <1>9. CASE old = 0
    <2>1. supply' = counted /\ UNCHANGED <<slashings, forgotten>>
      BY <1>1, <1>9 DEF SaveSupply
    <2>2. supply' = [CleanSupply EXCEPT !.total_bonded = SumFunction(bonded'),
                                        !.total_unbonding = new]
      BY <1>1, <2>1
    <2> HIDE DEF counted, old
    <2> QED
      BY <1>1, <1>3, <1>4, <1>7, <1>8, <1>9, <1>11, <2>1, <2>2 DEF new, old
  <1>10. CASE old # 0
    <2>1. /\ supply' = [counted EXCEPT !.claims = ClaimsAfterSlash(@, old, new)]
          /\ forgotten' = forgotten /\ supply.claims >= old
          /\ slashings' = Append(slashings,
                        [start |-> now, end |-> now + UnbondPeriod,
                         multiplier |-> FromRatio(new, old)])
      BY <1>1, <1>10 DEF SaveSupply
    <2>2. ClaimsAfterSlash(counted.claims, old, new) = (CleanSupply.claims - old) + new
          /\ (CleanSupply.claims - old) + new \in Nat
      <3> HIDE DEF old, counted
      <3> QED
        BY <1>3, <1>6, <1>7, <1>8, <2>1 DEF ClaimsAfterSlash
    <2>3. /\ supply' \in SupplyType /\ supply'.total_bonded = SumFunction(bonded')
          /\ supply'.total_unbonding = new
      <3> HIDE DEF counted, old
      <3> QED
        BY <1>1, <1>8, <2>1, <2>2 DEF SupplyType
    <2>4. supply' = [CleanSupply EXCEPT !.total_bonded = SumFunction(bonded'),
                                        !.total_unbonding = new,
                                        !.claims = (@ - old) + new]
      BY <1>1, <1>6, <2>1, <2>2 DEF SupplyType
    <2> HIDE DEF counted, old
    <2> QED
      BY <1>1, <1>3, <1>4, <1>7, <1>10, <1>11, <2>1, <2>3, <2>4 DEF new, old
  <1> QED
    BY <1>9, <1>10

\* The slash that is recorded is a loss, or none.
LEMMA FoundFair ==
    ASSUME BooksInv, CheckSlashFound, UNCHANGED slashes
    PROVE  SlashingsFair' /\ slashings' \in Seq(Slashing)
  <1> DEFINE old == CleanSupply.total_unbonding
             new == Total(Counted)
             s == [start |-> now, end |-> now + UnbondPeriod, multiplier |-> FromRatio(new, old)]
  <1>1. /\ Loads /\ old \in Nat /\ new \in Nat /\ new <= old
        /\ old # 0 => slashings' = Append(slashings, s)
        /\ old = 0 => slashings' = slashings
        /\ NoSlash => Counted = CleanUnbonding
        /\ forgotten' = forgotten
    BY FoundTypes
  <1>2. TypeOK /\ SlashingsFair /\ UnbondingAccounted
    BY BooksInvIs
  <1>3. slashings \in Seq(Slashing)
    BY <1>2, TypeIs
  <1>4. CASE old = 0
    <2>1. slashings' = slashings
      BY <1>1, <1>4
    <2> QED
      BY <1>1, <1>2, <1>3, <2>1, SameSlashings
  <1>5. CASE old # 0
    <2> DEFINE m == FromRatio(new, old)
    <2>1. old = supply.total_unbonding - Freed
      BY <1>1, <1>2, CleanedSupply
    <2>2. NoSlash /\ forgotten = 0 => new = old
      <3>1. /\ Total(CleanUnbonding) \in Nat /\ Total(unbonding) = Freed + Total(CleanUnbonding)
            /\ Freed \in Nat /\ supply.total_unbonding \in Nat
        BY <1>2, StateTypes
      <3> HIDE DEF old
      <3> QED
        BY <1>1, <1>2, <2>1, <3>1 DEF UnbondingAccounted
    <2>3. now \in Nat /\ UnbondPeriod \in Nat
      BY <1>2, StateTypes, Constants
    <2> HIDE DEF old, new
    <2>4. m \in 0..DecimalOne /\ (NoSlash /\ forgotten = 0 => m = DecimalOne)
      <3>1. old \in Nat \ {0} /\ new \in 0..old
        BY <1>1, <1>5
      <3>2. new = old => m = DecimalOne
        BY <3>1, OneIsOne
      <3> QED
        BY <2>2, <3>1, <3>2, RatioAtMostOne
    <2>5. s.multiplier = m /\ s \in Slashing
      <3>1. m \in Nat
        BY <2>4, Constants, SMT
      <3> HIDE DEF m
      <3>2. s = [start |-> now, end |-> now + UnbondPeriod, multiplier |-> m]
        BY DEF m
      <3> QED
        BY <2>3, <3>1, <3>2 DEF Slashing
    <2> HIDE DEF m, s
    <2>6. slashings' = Append(slashings, s)
      BY <1>1, <1>5
    <2>7. /\ slashings' \in Seq(Slashing)
          /\ \A i \in DOMAIN slashings' :
               \/ i \in DOMAIN slashings /\ slashings'[i] = slashings[i]
               \/ slashings'[i] = s
      BY <1>3, <2>5, <2>6
    <2>8. \A i \in DOMAIN slashings' :
            /\ slashings'[i].multiplier <= DecimalOne
            /\ NoSlash /\ forgotten = 0 => slashings'[i].multiplier = DecimalOne
      <3>1. m <= DecimalOne
        BY <2>4, Constants, SMT
      <3> QED
        BY <1>2, <2>4, <2>5, <2>7, <3>1 DEF SlashingsFair
    <2>9. SlashingsFair'
      BY <1>1, <2>8 DEF SlashingsFair, NoSlash
    <2> QED
      BY <2>7, <2>9
  <1> QED
    BY <1>4, <1>5

LEMMA FoundBooks ==
    ASSUME BooksInv, CheckSlashFound
    PROVE  BooksInv'
  <1>1. /\ UNCHANGED <<now, next_epoch, next_unbond, stake_info, user_claims>>
        /\ UNCHANGED <<balance, delegations, queue, rewards, tokens, slashes>>
    BY DEF CheckSlashFound, staking
  <1>2. TypeOK /\ UnbondingAccounted /\ ExpiriesBehind
    BY BooksInvIs
  <1>3. /\ unbonding' = Counted /\ IsPending(Counted) /\ Total(Counted) \in Nat
        /\ IsAmounts(bonded') /\ supply' \in SupplyType
        /\ supply'.total_bonded = SumFunction(bonded')
        /\ supply'.total_unbonding = Total(Counted)
        /\ NoSlash => bonded' = bonded /\ Counted = CleanUnbonding
        /\ forgotten' = forgotten
    BY FoundTypes
  <1>4. slashings' \in Seq(Slashing) /\ SlashingsFair'
    BY <1>1, FoundFair
  <1>5. TypeOK'
    BY <1>1, <1>2, <1>3, <1>4, TypeIs, TypeIsNext
  <1>6. TotalBondedIsSum'
    BY <1>3 DEF TotalBondedIsSum
  <1>7. UnbondingAccounted'
    <2>1. Total(unbonding)' = Total(Counted) /\ supply'.total_unbonding = Total(Counted)
          /\ forgotten' \in Nat
      BY <1>2, <1>3, StateTypes
    <2> QED
      BY <1>3, <2>1 DEF UnbondingAccounted
  <1>8. ExpiriesBehind'
    <2>1. DOMAIN unbonding' \subseteq DOMAIN unbonding
      <3>1. DOMAIN Counted = DOMAIN CleanUnbonding
        BY DEF Counted
      <3>2. DOMAIN CleanUnbonding \subseteq DOMAIN unbonding
        BY DEF CleanUnbonding, Immature, Restrict
      <3> QED
        BY <1>3, <3>1, <3>2
    <2> QED
      BY <1>1, <1>2, <2>1 DEF ExpiriesBehind
  <1>9. NoSlash' => StakeKnown' /\ UnbondingIsQueued'
    <2> SUFFICES ASSUME NoSlash' PROVE StakeKnown' /\ UnbondingIsQueued'
      OBVIOUS
    <2>1. NoSlash
      BY <1>1 DEF NoSlash
    <2>2. StakeKnown'
      BY <1>1, <1>3, <2>1, SameStake
    <2>3. UnbondingIsQueued'
      BY <1>1, <1>3, <2>1, CleanedQueue
    <2> QED
      BY <2>2, <2>3
  <1> QED
    BY <1>5, <1>4, <1>6, <1>7, <1>8, <1>9, BooksInvIsNext

\* The validators some redelegations touch.
TouchedBy(messages) == UNION {{m.src, m.dst} : m \in ToSet(messages)}

\* What set_validators changes when there is stake to move.
LEMMA SetBondedTypes ==
    ASSUME BooksInv, NEW valset \in Valsets, SetValidatorsBonded(valset)
    PROVE  \E touched \in SUBSET Validators :
              /\ Loads
              /\ IsAmounts(bonded') /\ supply' = CleanSupply /\ supply' \in SupplyType
              /\ supply'.total_bonded = SumFunction(bonded')
              /\ supply'.total_unbonding = CleanSupply.total_unbonding
              /\ delegations' \in [Validators -> Nat] /\ AllDelegations' = AllDelegations
              /\ NoSlash => \A v \in Validators : AmountAt(bonded', v) = delegations'[v]
              /\ PayRewards(touched) /\ RewardsOf(touched) \in Nat
              /\ balance' = balance + RewardsOf(touched)
              /\ UNCHANGED forgotten
  <1>1. PICK change \in ValsetChanges(supply.total_bonded, bonded, valset) :
             /\ RedelegationsFit(change.messages)
             /\ bonded' = change.new_balances
             /\ SaveSupply([CleanSupply EXCEPT !.total_bonded = SumFunction(change.new_balances)])
             /\ delegations' = FoldLeft(AfterRedelegation, delegations, change.messages)
             /\ PayRewards(TouchedBy(change.messages))
             /\ balance' = balance + RewardsOf(TouchedBy(change.messages))
    BY Zenon DEF SetValidatorsBonded, TouchedBy
  <1> DEFINE messages == change.messages
             touched == TouchedBy(messages)
  <1>2. TypeOK /\ (NoSlash => StakeKnown) /\ supply.total_bonded = SumFunction(bonded)
    BY BooksInvIs DEF TotalBondedIsSum
  <1>3. /\ IsAmounts(bonded) /\ delegations \in [Validators -> Nat] /\ IsValset(valset)
        /\ supply.total_bonded \in Nat /\ rewards \in [Validators -> Nat]
    BY <1>2, TypeIs, StateTypes, Constants
  <1>4. /\ messages \in Seq(Redelegation)
        /\ IsAmounts(bonded') /\ SumFunction(bonded') = SumFunction(bonded)
        /\ \A v \in Validators :
             AmountAt(bonded', v) = Redelegated(StakeBefore(bonded), messages)[v]
    BY <1>1, <1>3, ValsetChange
  <1>5. delegations' = Redelegated(delegations, messages) /\ delegations' \in [Validators -> Nat]
        /\ AllDelegations' = AllDelegations
    BY <1>1, <1>3, <1>4, RedelegationsLeave DEF Redelegated, AllDelegations
  <1>6. NoSlash => \A v \in Validators : AmountAt(bonded', v) = delegations'[v]
    <2> SUFFICES ASSUME NoSlash
                 PROVE  \A v \in Validators : AmountAt(bonded', v) = delegations'[v]
      OBVIOUS
    <2>1. StakeBefore(bonded) = delegations
      BY <1>2, <1>3 DEF StakeBefore, StakeKnown
    <2> QED
      BY <1>4, <1>5, <2>1
  <1>7. touched \in SUBSET Validators
    <2>1. \A m \in ToSet(messages) : m \in Redelegation
      BY <1>4 DEF ToSet
    <2>2. \A m \in ToSet(messages) : {m.src, m.dst} \subseteq Validators
      BY <2>1 DEF Redelegation
    <2> HIDE DEF messages
    <2> QED
      BY <2>2 DEF TouchedBy
  <1>8. RewardsOf(touched) \in Nat
    BY <1>1, <1>3, <1>7, RewardsPaid
  <1>9. Loads
    BY DEF SetValidatorsBonded
  <1>10. CleanSupply \in SupplyType /\ CleanSupply.total_bonded = SumFunction(bonded)
    BY <1>2, <1>9, CleanedSupply
  <1>11. supply' = CleanSupply /\ forgotten' = forgotten
    <2>1. supply' = [CleanSupply EXCEPT !.total_bonded = SumFunction(bonded)]
          /\ forgotten' = forgotten
      BY <1>1, <1>4 DEF SaveSupply
    <2> QED
      BY <1>10, <2>1 DEF SupplyType
  <1>12. /\ supply' \in SupplyType /\ supply'.total_bonded = SumFunction(bonded')
         /\ supply'.total_unbonding = CleanSupply.total_unbonding
    BY <1>4, <1>10, <1>11
  <1>13. PayRewards(touched) /\ balance' = balance + RewardsOf(touched)
    BY <1>1
  <1> HIDE DEF touched
  <1> QED
    BY <1>4, <1>5, <1>6, <1>7, <1>8, <1>9, <1>11, <1>12, <1>13

LEMMA SetBondedBooks ==
    ASSUME BooksInv, NEW valset \in Valsets, SetValidatorsBonded(valset)
    PROVE  BooksInv'
  <1>1. /\ UNCHANGED <<now, next_epoch, next_unbond, user_claims, slashings>>
        /\ UNCHANGED <<queue, tokens, slashes>>
        /\ unbonding' = CleanUnbonding /\ stake_info' = valset
    BY DEF SetValidatorsBonded
  <1>2. PICK touched \in SUBSET Validators :
              /\ Loads
              /\ IsAmounts(bonded') /\ supply' = CleanSupply /\ supply' \in SupplyType
              /\ supply'.total_bonded = SumFunction(bonded')
              /\ supply'.total_unbonding = CleanSupply.total_unbonding
              /\ delegations' \in [Validators -> Nat]
              /\ NoSlash => \A v \in Validators : AmountAt(bonded', v) = delegations'[v]
              /\ PayRewards(touched) /\ RewardsOf(touched) \in Nat
              /\ balance' = balance + RewardsOf(touched)
              /\ UNCHANGED forgotten
    BY SetBondedTypes
  <1>3. TypeOK
    BY BooksInvIs
  <1>4. IsPending(unbonding') /\ IsPending(queue') /\ ExpiriesBehind'
        /\ (NoSlash' => NoSlash /\ UnbondingIsQueued')
    BY <1>1, CleanedQueue
  <1>5. balance' \in Nat /\ rewards' \in [Validators -> Nat]
    <2>1. balance \in Nat /\ rewards \in [Validators -> Nat]
      BY <1>3, TypeIs
    <2>2. balance' \in Nat
      BY <1>2, <2>1
    <2> QED
      BY <1>2, <2>1, <2>2, RewardsPaid
  <1>6. IsValset(stake_info')
    BY <1>1, Constants
  <1>7. TypeOK'
    BY <1>1, <1>2, <1>3, <1>4, <1>5, <1>6, TypeIs, TypeIsNext
  <1>8. TotalBondedIsSum'
    BY <1>2 DEF TotalBondedIsSum
  <1>9. UnbondingAccounted'
    BY <1>1, <1>2, SavedUnbonding
  <1>10. SlashingsFair'
    BY <1>1, <1>2, BooksInvIs, SameSlashings
  <1>11. NoSlash' => StakeKnown'
    BY <1>2, <1>4 DEF StakeKnown
  <1> QED
    BY <1>4, <1>7, <1>8, <1>9, <1>10, <1>11, BooksInvIsNext

-----------------------------------------------------------------------------
(* The chain, and all steps *)

LEMMA EarnBooks ==
    ASSUME BooksInv, NEW v \in Validators, NEW amount \in Rewards, Earn(v, amount)
    PROVE  BooksInv'
  <1>1. /\ UNCHANGED <<now, next_epoch, next_unbond, stake_info, supply, bonded, unbonding>>
        /\ UNCHANGED <<user_claims, slashings, balance, delegations, queue, tokens>>
        /\ UNCHANGED <<slashes, forgotten>>
        /\ rewards' = [rewards EXCEPT ![v] = @ + amount]
    BY DEF Earn, storage
  <1>2. TypeOK
    BY BooksInvIs
  <1>3. rewards' \in [Validators -> Nat]
    <2>1. amount \in Nat /\ rewards \in [Validators -> Nat]
      BY <1>2, TypeIs, Constants
    <2> QED
      BY <1>1, <2>1
  <1>4. IsPending(unbonding') /\ IsPending(queue') /\ ExpiriesBehind'
        /\ (NoSlash' => NoSlash /\ UnbondingIsQueued')
    BY <1>1, CleanedQueue
  <1>5. TypeOK'
    BY <1>1, <1>2, <1>3, TypeIs, TypeIsNext
  <1>6. TotalBondedIsSum' /\ UnbondingAccounted'
    BY <1>1, BooksInvIs DEF TotalBondedIsSum, UnbondingAccounted
  <1>7. SlashingsFair'
    BY <1>1, BooksInvIs, SameSlashings
  <1>8. NoSlash' => StakeKnown'
    BY <1>1, SameStake
  <1> QED
    BY <1>4, <1>5, <1>6, <1>7, <1>8, BooksInvIsNext

LEMMA SlashBooks ==
    ASSUME BooksInv, NEW v \in Validators, NEW keep \in SlashKeeps, Slash(v, keep)
    PROVE  BooksInv'
  <1>1. /\ UNCHANGED <<now, next_epoch, next_unbond, stake_info, supply, bonded, unbonding>>
        /\ UNCHANGED <<user_claims, slashings, balance, rewards, tokens, forgotten>>
        /\ slashes < MaxSlashes /\ slashes' = slashes + 1
        /\ delegations' = [delegations EXCEPT ![v] = MulFloor(@, keep)]
        /\ queue' = [t \in DOMAIN queue |->
                       [w \in DOMAIN queue[t] |->
                          IF w = v THEN MulFloor(queue[t][w], keep) ELSE queue[t][w]]]
    BY DEF Slash, storage
  <1>2. TypeOK
    BY BooksInvIs
  <1>3. keep \in Nat
    BY Constants, SMT
  <1>4. delegations' \in [Validators -> Nat]
    <2>1. delegations \in [Validators -> Nat]
      BY <1>2, TypeIs
    <2>2. MulFloor(delegations[v], keep) \in Nat
      BY <1>3, <2>1, MulFloorType
    <2> QED
      BY <1>1, <2>1, <2>2
  <1>5. IsPending(queue') /\ DOMAIN queue' = DOMAIN queue
    <2>1. IsPending(queue)
      BY <1>2, TypeIs
    <2>2. DOMAIN queue' = DOMAIN queue
      BY <1>1
    <2>3. \A t \in DOMAIN queue : IsAmounts(queue'[t]) /\ DOMAIN queue'[t] = DOMAIN queue[t]
      <3> SUFFICES ASSUME NEW t \in DOMAIN queue
                   PROVE  IsAmounts(queue'[t]) /\ DOMAIN queue'[t] = DOMAIN queue[t]
        OBVIOUS
      <3> DEFINE a == queue[t]
                 less == [w \in DOMAIN a |-> IF w = v THEN MulFloor(a[w], keep) ELSE a[w]]
      <3>1. IsAmounts(a)
        BY <2>1 DEF IsPending
      <3>2. queue'[t] = less
        BY <1>1
      <3> HIDE DEF a
      <3>3. \A w \in DOMAIN a : a[w] \in Nat /\ MulFloor(a[w], keep) \in Nat
        BY <1>3, <3>1, MulFloorType DEF IsAmounts
      <3>4. IsAmounts(less) /\ DOMAIN less = DOMAIN a
        BY <3>1, <3>3 DEF IsAmounts
      <3> HIDE DEF less
      <3> QED
        BY <3>2, <3>4 DEF a
    <2> QED
      BY <2>1, <2>2, <2>3, LesserPending
  <1>6. slashes' \in 0..MaxSlashes /\ ~NoSlash'
    <2>1. slashes \in 0..MaxSlashes /\ MaxSlashes \in Nat
      BY <1>2, TypeIs, Constants
    <2> QED
      BY <1>1, <2>1 DEF NoSlash
  <1>7. TypeOK'
    BY <1>1, <1>2, <1>4, <1>5, <1>6, TypeIs, TypeIsNext
  <1>8. TotalBondedIsSum' /\ UnbondingAccounted'
    BY <1>1, BooksInvIs DEF TotalBondedIsSum, UnbondingAccounted
  <1>9. SlashingsFair' /\ ExpiriesBehind'
    BY <1>1, <1>5, <1>6, BooksInvIs DEF SlashingsFair, ExpiriesBehind
  <1> QED
    BY <1>6, <1>7, <1>8, <1>9, BooksInvIsNext

\* Time goes on: what was due is paid, and more has matured.
LEMMA BlockTypes ==
    ASSUME BooksInv, NextBlock
    PROVE  /\ now' \in 0..MaxTime /\ now' = now + 1 /\ IsPending(queue')
           /\ queue' = After(queue, now) /\ Total(queue') = Total(queue) - Total(Mature(queue))
           /\ balance' \in Nat /\ balance' = balance + Total(Mature(queue))
           /\ DOMAIN queue' \subseteq DOMAIN queue
           /\ After(queue', now') = After(After(queue, now), now')
           /\ After(unbonding, now') = After(After(unbonding, now), now')
           /\ Freed' = Freed + Total(Before(After(unbonding, now), now'))
           /\ Total(Before(After(unbonding, now), now')) \in Nat
           /\ UNCHANGED <<next_epoch, next_unbond, stake_info, supply, bonded, unbonding>>
           /\ UNCHANGED <<user_claims, slashings, rewards, delegations, tokens, slashes, forgotten>>
  <1>1. /\ now + 1 <= MaxTime /\ balance' = balance + Total(Mature(queue))
        /\ queue' = Immature(queue) /\ now' = now + 1
        /\ UNCHANGED <<next_epoch, next_unbond, stake_info, supply, bonded, unbonding>>
        /\ UNCHANGED <<user_claims, slashings, rewards, delegations, tokens, slashes, forgotten>>
    BY DEF NextBlock, EndBlock, storage
  <1>2. TypeOK
    BY BooksInvIs
  <1>3. now' \in 0..MaxTime /\ now \in Nat /\ now' \in Nat /\ now <= now'
    <2>1. now \in Nat /\ MaxTime \in Nat
      BY <1>2, StateTypes, Constants
    <2> QED
      BY <1>1, <2>1
  <1>4. /\ queue' = After(queue, now) /\ Mature(queue) = Before(queue, now)
        /\ Total(Mature(queue)) \in Nat /\ balance \in Nat
        /\ IsPending(queue) /\ IsPending(unbonding)
    BY <1>1, <1>2, StateTypes, TypeIs
  <1>5. /\ IsPending(After(queue, now)) /\ Total(After(queue, now)) \in Nat
        /\ Total(queue) = Total(Before(queue, now)) + Total(After(queue, now))
        /\ DOMAIN After(queue, now) \subseteq DOMAIN queue
    BY <1>3, <1>4, TotalSplits, AfterIsAfter
  <1>6. /\ Total(Before(unbonding, now')) =
                Total(Before(unbonding, now)) + Total(Before(After(unbonding, now), now'))
        /\ After(unbonding, now') = After(After(unbonding, now), now')
        /\ Total(Before(After(unbonding, now), now')) \in Nat
    BY <1>3, <1>4, ExpiresLater
  <1>7. Freed = Total(Before(unbonding, now)) /\ Freed' = Total(Before(unbonding, now'))
    BY <1>1 DEF Freed, Mature, Before
  <1>8. /\ Total(queue') = Total(queue) - Total(Mature(queue)) /\ balance' \in Nat
    BY <1>1, <1>4, <1>5
  <1> QED
    BY <1>1, <1>3, <1>4, <1>5, <1>6, <1>7, <1>8

LEMMA BlockBooks ==
    ASSUME BooksInv, NextBlock
    PROVE  BooksInv'
  <1>1. /\ now' \in 0..MaxTime /\ IsPending(queue') /\ balance' \in Nat
        /\ queue' = After(queue, now) /\ DOMAIN queue' \subseteq DOMAIN queue
        /\ After(queue', now') = After(After(queue, now), now')
        /\ After(unbonding, now') = After(After(unbonding, now), now')
        /\ UNCHANGED <<next_epoch, next_unbond, stake_info, supply, bonded, unbonding>>
        /\ UNCHANGED <<user_claims, slashings, rewards, delegations, tokens, slashes, forgotten>>
    BY BlockTypes
  <1>2. TypeOK
    BY BooksInvIs
  <1>3. TypeOK'
    BY <1>1, <1>2, TypeIs, TypeIsNext
  <1>4. TotalBondedIsSum' /\ UnbondingAccounted'
    BY <1>1, BooksInvIs DEF TotalBondedIsSum, UnbondingAccounted
  <1>5. SlashingsFair' /\ ExpiriesBehind'
    BY <1>1, BooksInvIs DEF SlashingsFair, ExpiriesBehind, NoSlash
  <1>6. NoSlash' => StakeKnown'
    BY <1>1, SameStake
  <1>7. NoSlash' => UnbondingIsQueued'
    <2>1. /\ Immature(unbonding)' = After(unbonding, now') /\ Immature(queue)' = After(queue', now')
      BY <1>1 DEF Immature, After
    <2>2. Immature(unbonding) = After(unbonding, now) /\ Immature(queue) = After(queue, now)
      BY <1>2, StateTypes
    <2> QED
      BY <1>1, <2>1, <2>2, BooksInvIs DEF UnbondingIsQueued, NoSlash
  <1> QED
    BY <1>3, <1>4, <1>5, <1>6, <1>7, BooksInvIsNext

\* The sums of nothing.
LEMMA NothingPending ==
    /\ IsPending(<<>>) /\ Total(<<>>) = 0 /\ IsAmounts(<<>>) /\ SumFunction(<<>>) = 0
    /\ DOMAIN <<>> = {}
  <1>1. DOMAIN <<>> = {}
    OBVIOUS
  <1>2. IsPending(<<>>) /\ IsAmounts(<<>>)
    <2>1. \A f : DOMAIN f = {} /\ f = [x \in {} |-> 0] => f \in [DOMAIN f -> Nat]
      OBVIOUS
    <2>2. <<>> \in [DOMAIN <<>> -> Nat]
      BY <1>1
    <2> QED
      BY <1>1, <2>2, FS_EmptySet DEF IsPending, IsAmounts
  <1>3. SumFunction(<<>>) = 0
    <2>1. SumFunction(<<>>) = SumFunctionOnSet(<<>>, DOMAIN <<>>)
      BY <1>2, AmountsSum
    <2> QED
      BY <1>1, <2>1, SumEmpty
  <1>4. Total(<<>>) = 0
    <2>1. Total(<<>>) = SumFunctionOnSet(SumsOf(<<>>), DOMAIN <<>>)
      BY <1>2, PendingSums
    <2> QED
      BY <1>1, <2>1, SumEmpty
  <1> QED
    BY <1>1, <1>2, <1>3, <1>4

\* The state instantiate leaves, whoever holds the first LSD tokens.
LEMMA InitBooks ==
    ASSUME NEW initial_balances \in [Users -> Nat], InitWith(InitialValset, initial_balances)
    PROVE  BooksInv
  <1>1. /\ now = 0 /\ next_epoch = now + EpochPeriod /\ next_unbond = next_epoch
        /\ stake_info = InitialValset /\ unbonding = <<>> /\ slashings = <<>>
        /\ user_claims = [u \in Users |-> <<>>] /\ balance = 0 /\ queue = <<>>
        /\ rewards = [v \in Validators |-> 0] /\ slashes = 0 /\ forgotten = 0
        /\ supply = NewSupply /\ bonded = <<>>
        /\ delegations = [v \in Validators |-> 0] /\ tokens = initial_balances
    BY DEF InitWith, InitLists
  <1>2. now \in 0..MaxTime /\ next_epoch \in Nat /\ next_unbond \in Nat /\ slashes \in 0..MaxSlashes
    <2>1. MaxTime \in Nat /\ MaxSlashes \in Nat /\ EpochPeriod \in Nat
      BY Constants
    <2> QED
      BY <1>1, <2>1
  <1>3. /\ IsPending(unbonding) /\ IsPending(queue) /\ Total(unbonding) = 0
        /\ IsAmounts(bonded) /\ SumFunction(bonded) = 0
        /\ DOMAIN unbonding = {} /\ DOMAIN queue = {} /\ DOMAIN bonded = {}
    BY <1>1, NothingPending
  <1>4. supply \in SupplyType /\ supply.total_bonded = 0 /\ supply.total_unbonding = 0
    BY <1>1 DEF SupplyType, NewSupply
  <1>5. slashings \in Seq(Slashing) /\ DOMAIN slashings = {}
    BY <1>1, NothingPending
  <1>6. user_claims \in [Users -> Seq(Claim)]
    BY <1>1, ClaimSumEmpty
  <1>7. delegations \in [Validators -> Nat] /\ rewards \in [Validators -> Nat]
    BY <1>1
  <1>8. TypeOK
    BY <1>1, <1>2, <1>3, <1>4, <1>5, <1>6, <1>7, Constants, TypeIs
  <1>9. TotalBondedIsSum /\ UnbondingAccounted
    BY <1>1, <1>3, <1>4 DEF TotalBondedIsSum, UnbondingAccounted
  <1>10. ExpiriesBehind /\ SlashingsFair
    BY <1>3, <1>5 DEF ExpiriesBehind, SlashingsFair
  <1>11. StakeKnown
    BY <1>1, <1>3 DEF StakeKnown, AmountAt
  <1>12. UnbondingIsQueued
    BY <1>1 DEF UnbondingIsQueued
  <1> QED
    BY <1>8, <1>9, <1>10, <1>11, <1>12, BooksInvIs

\* No step at all.
LEMMA SameBooks ==
    ASSUME BooksInv, UNCHANGED vars
    PROVE  BooksInv'
  <1>1. /\ UNCHANGED <<now, next_epoch, next_unbond, stake_info, supply, bonded, unbonding>>
        /\ UNCHANGED <<user_claims, slashings, balance, delegations, queue, rewards>>
        /\ UNCHANGED <<tokens, slashes, forgotten>>
    BY DEF vars, storage, staking
  <1>2. IsPending(unbonding') /\ IsPending(queue') /\ ExpiriesBehind'
        /\ (NoSlash' => NoSlash /\ UnbondingIsQueued')
    BY <1>1, CleanedQueue
  <1>3. TypeOK'
    BY <1>1, BooksInvIs, TypeIs, TypeIsNext
  <1>4. TotalBondedIsSum' /\ UnbondingAccounted'
    BY <1>1, BooksInvIs DEF TotalBondedIsSum, UnbondingAccounted
  <1>5. SlashingsFair'
    BY <1>1, BooksInvIs, SameSlashings
  <1>6. NoSlash' => StakeKnown'
    BY <1>1, SameStake
  <1> QED
    BY <1>2, <1>3, <1>4, <1>5, <1>6, BooksInvIsNext

\* What the owner, the keeper of reinvest and check_slash, and the chain do.
LEMMA OthersBooks ==
    ASSUME BooksInv,
           \/ Reinvest \/ CheckSlash \/ (\E valset \in Valsets : SetValidators(valset))
           \/ ChainNext \/ (\E u \in Users : ClaimMature(u))
    PROVE  BooksInv'
  <1>1. CASE Reinvest
    BY <1>1, NothingListedBooks, NoBalanceBooks, DelegateBooks, UndelegateBooks, WaitBooks
       DEF Reinvest
  <1>2. CASE CheckSlash
    BY <1>2, CheckSlashNoneBooks, FoundBooks DEF CheckSlash
  <1>3. CASE \E valset \in Valsets : SetValidators(valset)
    BY <1>3, SetBondedBooks, SetUnbondedBooks DEF SetValidators
  <1>4. CASE ChainNext
    BY <1>4, BlockBooks, EarnBooks, SlashBooks DEF ChainNext
  <1>5. CASE \E u \in Users : ClaimMature(u)
    BY <1>5, ClaimBooks
  <1> QED
    BY <1>1, <1>2, <1>3, <1>4, <1>5

LEMMA NextBooks == BooksInv /\ [Next]_vars => BooksInv'
  <1> SUFFICES ASSUME BooksInv, [Next]_vars PROVE BooksInv'
    OBVIOUS
  <1>1. ASSUME NEW u \in Users, NEW paid \in Deposits, Bond(u, paid) PROVE BooksInv'
    BY <1>1, BondBooks
  <1>2. ASSUME NEW u \in Users, NEW amount, Unbond(u, amount) PROVE BooksInv'
    BY <1>2, UnbondBooks
  <1>3. CASE UNCHANGED vars
    BY <1>3, SameBooks
  <1> QED
    BY <1>1, <1>2, <1>3, OthersBooks DEF Next, UserNext

\* In every state, with any slashes, the books keep these promises: types, the
\* sums of BONDED and of UNBONDING, and what the staking module has.
THEOREM BooksInvariant == Spec => []BooksInv
  <1>1. Init => BooksInv
    <2>1. [u \in Users |-> 0] \in [Users -> Nat]
      OBVIOUS
    <2> QED
      BY <2>1, InitBooks DEF Init
  <1>2. BooksInv /\ [Next]_vars => BooksInv'
    BY NextBooks
  <1> QED
    BY <1>1, <1>2, PTL DEF Spec

-----------------------------------------------------------------------------
(* The contract implements the ledger *)

\* The ledger computes with the same operators.
LEMMA SameArithmetic ==
    /\ \A a, d : Ledger!MulFloor(a, d) = MulFloor(a, d)
    /\ \A n, d : Ledger!FromRatio(n, d) = FromRatio(n, d)
    /\ \A s, freed : Ledger!Cleaned(s, freed) = Cleaned(s, freed)
    /\ \A s, b : Ledger!Assets(s, b) = Assets(s, b)
    /\ \A s, b : Ledger!RateFits(s, b) <=> RateFits(s, b)
    /\ \A s, b, a : Ledger!SharesFor(s, b, a) = SharesFor(s, b, a)
    /\ \A s, b, a : Ledger!NativeFor(s, b, a) = NativeFor(s, b, a)
    /\ Ledger!SupplyType = SupplyType /\ Ledger!NewSupply = NewSupply
  <1>1. \A a, d : Ledger!MulFloor(a, d) = MulFloor(a, d)
    BY DEF Ledger!MulFloor, MulFloor
  <1>2. \A n, d : Ledger!FromRatio(n, d) = FromRatio(n, d)
    BY DEF Ledger!FromRatio, FromRatio
  <1>3. \A s, freed : Ledger!Cleaned(s, freed) = Cleaned(s, freed)
    BY DEF Ledger!Cleaned, Cleaned
  <1>4. \A s, b : Ledger!Assets(s, b) = Assets(s, b)
    BY DEF Ledger!Assets, Assets
  <1>5. \A s, b : Ledger!RateFits(s, b) <=> RateFits(s, b)
    BY <1>4 DEF Ledger!RateFits, RateFits
  <1>6. \A s, b, a : Ledger!SharesFor(s, b, a) = SharesFor(s, b, a)
    BY <1>1, <1>2, <1>4 DEF Ledger!SharesFor, SharesFor, Ledger!SharesPerToken, SharesPerToken
  <1>7. \A s, b, a : Ledger!NativeFor(s, b, a) = NativeFor(s, b, a)
    BY <1>1, <1>2, <1>4 DEF Ledger!NativeFor, NativeFor, Ledger!TokensPerShare, TokensPerShare
  <1>8. Ledger!SupplyType = SupplyType /\ Ledger!NewSupply = NewSupply
    BY DEF Ledger!SupplyType, SupplyType, Ledger!NewSupply, NewSupply
  <1> QED
    BY <1>1, <1>2, <1>3, <1>4, <1>5, <1>6, <1>7, <1>8

LEMMA SameOperations ==
    /\ \A s, b, a : Ledger!AfterBond(s, b, a) = AfterBond(s, b, a)
    /\ \A s, b, a : Ledger!AfterUnbond(s, b, a) = AfterUnbond(s, b, a)
    /\ \A s, a : Ledger!AfterClaim(s, a) = AfterClaim(s, a)
  <1>1. \A s, b, a : Ledger!AfterBond(s, b, a) = AfterBond(s, b, a)
    BY SameArithmetic DEF Ledger!AfterBond, AfterBond
  <1>2. \A s, b, a : Ledger!AfterUnbond(s, b, a) = AfterUnbond(s, b, a)
    BY SameArithmetic DEF Ledger!AfterUnbond, AfterUnbond
  <1>3. \A s, a : Ledger!AfterClaim(s, a) = AfterClaim(s, a)
    BY DEF Ledger!AfterClaim, AfterClaim
  <1> QED
    BY <1>1, <1>2, <1>3

\* The totals the ledger works with.
LEMMA SameTotals ==
    /\ Ledger!Loads <=> Loads
    /\ Ledger!CleanSupply = CleanSupply
    /\ Ledger!AllTokens = AllTokens
    /\ Ledger!QueryAssets = QueryAssets
    /\ Ledger!Liquid(Withdrawn) = Liquid
    /\ Ledger!Coverage(Withdrawn) = ClaimCoverage
  <1>1. Ledger!Loads <=> Loads
    BY DEF Ledger!Loads, Loads
  <1>2. Ledger!CleanSupply = CleanSupply
    BY SameArithmetic DEF Ledger!CleanSupply, CleanSupply
  <1>3. Ledger!AllTokens = AllTokens
    BY DEF Ledger!AllTokens, AllTokens, AllDelegations
  <1>4. Ledger!QueryAssets = QueryAssets
    BY <1>2, SameArithmetic DEF Ledger!QueryAssets, QueryAssets
  <1>5. Ledger!Liquid(Withdrawn) = Liquid
    BY SameArithmetic DEF Ledger!Liquid, Liquid
  <1>6. Ledger!Coverage(Withdrawn) = ClaimCoverage
    BY <1>2, <1>5 DEF Ledger!Coverage, ClaimCoverage
  <1> QED
    BY <1>1, <1>2, <1>3, <1>4, <1>5, <1>6

\* Cleaning up UNBONDING is what the ledger calls so.
LEMMA CleanedTotals ==
    ASSUME TypeOK, unbonding' = CleanUnbonding, UNCHANGED now
    PROVE  Ledger!DropMature
  <1>1. Total(unbonding') = Total(unbonding) - Freed /\ Freed' = 0
    BY CleanedUnbonding
  <1>2. Total(unbonding)' = Total(unbonding')
    OBVIOUS
  <1> QED
    BY <1>1, <1>2 DEF Ledger!DropMature

\* What is not touched keeps its sum.
LEMMA SameSums ==
    /\ UNCHANGED tokens => UNCHANGED SumFunction(tokens)
    /\ UNCHANGED user_claims => UNCHANGED Owed
    /\ UNCHANGED <<now, unbonding>> => UNCHANGED <<Total(unbonding), Freed>>
    /\ UNCHANGED <<now, queue>> => UNCHANGED <<Total(queue), Total(Mature(queue))>>
    /\ UNCHANGED delegations => UNCHANGED AllDelegations
    /\ UNCHANGED rewards => UNCHANGED SumFunction(rewards)
  <1>1. UNCHANGED user_claims => UNCHANGED Owed
    BY DEF Owed, OwedTo
  <1>2. UNCHANGED <<now, unbonding>> => UNCHANGED <<Total(unbonding), Freed>>
    BY DEF Freed, Mature
  <1>3. UNCHANGED <<now, queue>> => UNCHANGED <<Total(queue), Total(Mature(queue))>>
    BY DEF Mature
  <1>4. UNCHANGED delegations => UNCHANGED AllDelegations
    BY DEF AllDelegations
  <1> QED
    BY <1>1, <1>2, <1>3, <1>4

\* The tokens of one user change the sum by as much.
LEMMA TokensChange ==
    ASSUME tokens \in [Users -> Nat], NEW u \in Users, NEW x \in Int,
           tokens' = [tokens EXCEPT ![u] = x]
    PROVE  SumFunction(tokens') = SumFunction(tokens) - tokens[u] + x
  <1>1. IsFiniteSet(Users) /\ DOMAIN tokens = Users /\ Ints(tokens, Users)
    BY Constants DEF Ints
  <1>2. SumFunction([tokens EXCEPT ![u] = x]) = SumFunction(tokens) - tokens[u] + x
    BY <1>1, SumExcept
  <1> QED
    BY <1>2

\* Bonds, unbonds and claims of users.
LEMMA BondLedger ==
    ASSUME BooksInv, NEW u \in Users, NEW paid \in Deposits, Bond(u, paid)
    PROVE  Ledger!Operation
  <1> DEFINE shares == SharesFor(CleanSupply, balance, paid)
             owns == tokens[u] + Minted(paid)
  <1>1. /\ AllTokens + paid <= MaxTokens /\ Loads /\ Assets(CleanSupply, balance) >= 0
        /\ supply' = AfterBond(CleanSupply, balance, paid)
        /\ UNCHANGED <<now, user_claims, queue, delegations, rewards, slashes, forgotten>>
        /\ unbonding' = CleanUnbonding /\ balance' = balance + paid
        /\ tokens' = [tokens EXCEPT ![u] = owns] /\ HubBond(paid)
    BY DEF Bond, HubBond, SaveSupply, staking
  <1>2. TypeOK /\ paid \in Nat
    BY BooksInvIs, Constants
  <1>3. Minted(paid) \in Nat /\ Minted(paid) = shares
    BY <1>1, <1>2, MintedType DEF Minted
  <1>4. SumFunction(tokens') = SumFunction(tokens) + shares
    <2>1. tokens \in [Users -> Nat] /\ tokens[u] \in Nat
      BY <1>2, TypeIs
    <2>2. owns \in Int
      BY <1>3, <2>1
    <2>3. SumFunction(tokens) \in Nat
      BY <1>2, StateTypes
    <2> HIDE DEF shares
    <2>4. owns = tokens[u] + shares
      BY <1>3
    <2> HIDE DEF owns
    <2>5. SumFunction(tokens') = SumFunction(tokens) - tokens[u] + owns
      BY <1>1, <2>1, <2>2, TokensChange
    <2> QED
      BY <1>3, <2>1, <2>3, <2>4, <2>5
  <1>5. Ledger!DropMature
    BY <1>1, <1>2, CleanedTotals
  <1>6. Ledger!Bond(paid)
    <2>1. Ledger!Loads /\ Ledger!Assets(Ledger!CleanSupply, balance) >= 0
      BY <1>1, SameArithmetic, SameTotals
    <2>2. supply' = Ledger!AfterBond(Ledger!CleanSupply, balance, paid)
      BY <1>1, SameOperations, SameTotals
    <2>3. SumFunction(tokens') = SumFunction(tokens) + Ledger!SharesFor(Ledger!CleanSupply, balance, paid)
      BY <1>4, SameArithmetic, SameTotals
    <2>4. UNCHANGED <<Owed, forgotten, AllDelegations, Total(queue), Total(Mature(queue)),
                      SumFunction(rewards)>>
      BY <1>1, SameSums
    <2> QED
      BY <1>1, <1>5, <2>1, <2>2, <2>3, <2>4 DEF Ledger!Bond, Ledger!chain
  <1>7. Ledger!AllTokens + paid <= MaxTokens
    BY <1>1, SameTotals
  <1> QED
    BY <1>6, <1>7 DEF Ledger!Operation

LEMMA UnbondLedger ==
    ASSUME BooksInv, NEW u \in Users, NEW amount, Unbond(u, amount)
    PROVE  Ledger!Operation
  <1> DEFINE native == NativeFor(CleanSupply, balance, amount)
             c == [amount |-> native, release_at |-> ReleaseAt(next_epoch, next_unbond, UnbondPeriod)]
             s == Append(user_claims[u], c)
             keeps == tokens[u] - amount
  <1>1. /\ Loads /\ RateFits(CleanSupply, balance) /\ amount <= supply.issued
        /\ supply' = AfterUnbond(CleanSupply, balance, amount)
        /\ UNCHANGED <<now, balance, queue, delegations, rewards, slashes, forgotten>>
        /\ unbonding' = CleanUnbonding
        /\ user_claims' = [user_claims EXCEPT ![u] = s]
        /\ tokens' = [tokens EXCEPT ![u] = keeps]
    BY DEF Unbond, SaveSupply, staking
  <1>2. TypeOK
    BY BooksInvIs
  <1>3. amount \in Nat /\ amount \in 1..tokens[u] /\ native \in Nat /\ c \in Claim
    BY <1>2, UnbondTypes DEF Claim
  <1>4. tokens \in [Users -> Nat] /\ tokens[u] \in Nat /\ user_claims \in [Users -> Seq(Claim)]
        /\ SumFunction(tokens) \in Nat
    BY <1>2, TypeIs, StateTypes
  <1>5. SumFunction(tokens') = SumFunction(tokens) - amount
    <2>1. keeps \in Int
      BY <1>3, <1>4
    <2>2. SumFunction(tokens') = SumFunction(tokens) - tokens[u] + keeps
      <3> HIDE DEF keeps
      <3> QED
        BY <1>1, <1>4, <2>1, TokensChange
    <2> QED
      BY <1>3, <1>4, <2>2
  <1>6. amount \in 1..SumFunction(tokens)
    <2>1. Nats(tokens, Users) /\ SumFunction(tokens) = SumFunctionOnSet(tokens, Users)
      BY <1>4 DEF Nats, SumFunction, SumFunctionOnSet
    <2>2. tokens[u] <= SumFunction(tokens)
      BY <2>1, Constants, SumAtLeast
    <2> QED
      BY <1>3, <1>4, <2>2
  <1>7. Owed' = Owed + native
    <2>1. c.amount = native
      OBVIOUS
    <2> HIDE DEF c, native
    <2>2. s \in Seq(Claim) /\ ClaimSum(s) = ClaimSum(user_claims[u]) + native
      BY <1>3, <1>4, <2>1, ClaimSumAppend
    <2> HIDE DEF s
    <2>3. /\ Owed \in Nat /\ ClaimSum(user_claims[u]) \in Nat
          /\ Owed' = Owed - ClaimSum(user_claims[u]) + ClaimSum(s)
      BY <1>1, <1>4, <2>2, OwedChanges
    <2> QED
      BY <1>3, <2>2, <2>3
  <1>8. Ledger!DropMature
    BY <1>1, <1>2, CleanedTotals
  <1> HIDE DEF s, keeps
  <1>9. Ledger!Unbond(amount)
    <2>1. Ledger!Loads /\ Ledger!RateFits(Ledger!CleanSupply, balance)
      BY <1>1, SameArithmetic, SameTotals
    <2>2. supply' = Ledger!AfterUnbond(Ledger!CleanSupply, balance, amount)
      BY <1>1, SameOperations, SameTotals
    <2>3. Owed' = Owed + Ledger!NativeFor(Ledger!CleanSupply, balance, amount)
      BY <1>7, SameArithmetic, SameTotals
    <2>4. UNCHANGED <<forgotten, balance, AllDelegations, Total(queue), Total(Mature(queue)),
                      SumFunction(rewards)>>
      BY <1>1, SameSums
    <2> QED
      BY <1>1, <1>5, <1>8, <2>1, <2>2, <2>3, <2>4 DEF Ledger!Unbond, Ledger!chain
  <1> QED
    BY <1>6, <1>9 DEF Ledger!Operation

LEMMA ClaimLedger ==
    ASSUME BooksInv, NEW u \in Users, ClaimMature(u)
    PROVE  Ledger!Operation
  <1> DEFINE sent == ClaimTokens(u).to_send
             settled == ClaimSum(user_claims[u]) - ClaimSum(ClaimTokens(u).waiting)
  <1>1. /\ UNCHANGED <<now, unbonding, tokens, queue, delegations, rewards, slashes, forgotten>>
        /\ balance' = balance - sent /\ supply' = AfterClaim(supply, sent)
    BY DEF ClaimMature, SaveSupply, staking
  <1>2. TypeOK /\ SlashingsFair
    BY BooksInvIs
  <1>3. /\ sent \in 1..balance /\ sent <= supply.claims
        /\ settled \in Nat /\ sent <= settled /\ settled <= Owed
        /\ Owed \in Nat /\ Owed' = Owed - settled
        /\ Ledger!NoSlash /\ forgotten = 0 => settled = sent
    BY <1>2, ClaimTypes DEF Ledger!NoSlash, NoSlash
  <1> HIDE DEF sent, settled
  <1>4. balance \in Nat
    BY <1>2, StateTypes
  <1>5. sent <= balance /\ settled \in sent..Owed
    BY <1>3, <1>4
  <1>6. Ledger!Claim(sent, settled)
    <2>1. supply' = Ledger!AfterClaim(supply, sent)
      BY <1>1, SameOperations
    <2>2. UNCHANGED <<SumFunction(tokens), Total(unbonding), Freed, forgotten,
                      AllDelegations, Total(queue), Total(Mature(queue)), SumFunction(rewards)>>
      BY <1>1, SameSums
    <2> QED
      BY <1>1, <1>3, <1>5, <2>1, <2>2 DEF Ledger!Claim, Ledger!chain
  <1> QED
    BY <1>3, <1>5, <1>6 DEF Ledger!Operation

\* Transactions that do not save the supply.
LEMMA ForgetLedger ==
    ASSUME BooksInv, Loads, ForgetMature,
           UNCHANGED <<now, user_claims, balance, delegations, queue, rewards, tokens, slashes>>
    PROVE  Ledger!Operation
  <1>1. TypeOK /\ unbonding' = CleanUnbonding /\ supply' = supply /\ forgotten' = forgotten + Freed
    BY BooksInvIs DEF ForgetMature
  <1>2. Ledger!DropMature
    BY <1>1, CleanedTotals
  <1>3. UNCHANGED <<SumFunction(tokens), Owed, AllDelegations, Total(queue),
                    Total(Mature(queue)), SumFunction(rewards)>>
    BY SameSums
  <1>4. Ledger!Forget
    BY <1>1, <1>2, <1>3, SameTotals DEF Ledger!Forget, Ledger!chain
  <1> QED
    BY <1>4 DEF Ledger!Operation

\* No transaction at all.
LEMMA SameLedger ==
    ASSUME UNCHANGED <<now, supply, unbonding, user_claims, balance, delegations, queue>>,
           UNCHANGED <<rewards, tokens, slashes, forgotten>>
    PROVE  UNCHANGED Ledger!vars
  <1>1. UNCHANGED <<SumFunction(tokens), Owed, Total(unbonding), Freed, AllDelegations,
                    Total(queue), Total(Mature(queue)), SumFunction(rewards)>>
    BY SameSums
  <1> QED
    BY <1>1 DEF Ledger!vars, Ledger!books, Ledger!chain

\* Reinvest.
LEMMA DelegateLedger ==
    ASSUME BooksInv, ReinvestDelegate
    PROVE  Ledger!Operation
  <1> DEFINE payments == ByValidator(DelegatePayments)
             extra == RewardsOf(DOMAIN payments \ WithdrawnFrom)
  <1>1. /\ UNCHANGED <<now, user_claims, queue, tokens, slashes, forgotten>>
        /\ unbonding' = CleanUnbonding /\ balance' = Liquid - Surplus + extra /\ Withdraws
    BY DEF ReinvestDelegate, SaveBonded, SaveSupply
  <1>2. TypeOK
    BY BooksInvIs
  <1>3. Loads /\ Surplus = ClaimCoverage - supply.claims /\ Withdrawn \in Nat
    BY <1>1, <1>2, ReinvestTypes
  <1>4. /\ Surplus \in Nat \ {0} /\ Surplus <= Liquid
        /\ supply' = [CleanSupply EXCEPT !.total_bonded = supply.total_bonded + Surplus]
        /\ AllDelegations' = AllDelegations + Surplus
        /\ extra \in Nat /\ Withdrawn + extra <= SumFunction(rewards)
        /\ SumFunction(rewards') = SumFunction(rewards) - Withdrawn - extra
    BY DelegateTypes
  <1> HIDE DEF extra
  <1>5. Ledger!DropMature
    BY <1>1, <1>2, CleanedTotals
  <1>6. Ledger!Collect(Withdrawn, extra)
    BY <1>3, <1>4, SameTotals DEF Ledger!Collect
  <1>7. UNCHANGED <<SumFunction(tokens), Owed, forgotten, Total(queue), Total(Mature(queue))>>
    BY <1>1, SameSums
  <1>8. CleanSupply.total_bonded = supply.total_bonded
    BY <1>2, <1>3, CleanedSupply
  <1>9. Ledger!Delegate(Withdrawn, extra)
    <2>1. Ledger!Coverage(Withdrawn) - supply.claims = Surplus
          /\ Ledger!Liquid(Withdrawn) = Liquid /\ Ledger!CleanSupply = CleanSupply
      BY <1>3, SameTotals
    <2>2. Surplus > 0
      BY <1>4
    <2>3. supply' = [CleanSupply EXCEPT !.total_bonded = @ + Surplus]
      BY <1>4, <1>8
    <2> QED
      BY <1>1, <1>4, <1>5, <1>6, <1>7, <2>1, <2>2, <2>3 DEF Ledger!Delegate
  <1>10. Withdrawn \in 0..SumFunction(rewards) /\ extra \in 0..(SumFunction(rewards) - Withdrawn)
    <2>1. SumFunction(rewards) \in Nat
      BY <1>2, StateTypes
    <2> QED
      BY <1>3, <1>4, <2>1
  <1> QED
    BY <1>9, <1>10 DEF Ledger!Operation

LEMMA UndelegateLedger ==
    ASSUME BooksInv, ReinvestUndelegate
    PROVE  Ledger!Operation
  <1> DEFINE payments == ByValidator(UndelegatePayments)
             amount == SumFunction(payments)
             extra == RewardsOf(DOMAIN payments \ WithdrawnFrom)
  <1>1. /\ UNCHANGED <<now, user_claims, tokens, slashes, forgotten>>
        /\ balance' = Liquid + extra /\ Withdraws
    BY DEF ReinvestUndelegate, SaveBonded, SaveSupply
  <1>2. TypeOK
    BY BooksInvIs
  <1>3. Loads /\ Missing = supply.claims - ClaimCoverage /\ Withdrawn \in Nat
    BY <1>1, <1>2, ReinvestTypes
  <1>4. /\ amount \in Nat /\ amount <= Missing
        /\ amount <= supply.total_bonded /\ amount <= AllDelegations
        /\ supply' = [CleanSupply EXCEPT !.total_bonded = supply.total_bonded - amount,
                                         !.total_unbonding = @ + amount]
        /\ AllDelegations' = AllDelegations - amount
        /\ extra \in Nat /\ Withdrawn + extra <= SumFunction(rewards)
        /\ SumFunction(rewards') = SumFunction(rewards) - Withdrawn - extra
    BY UndelegateTypes
  <1>5. /\ Total(unbonding') = Total(unbonding) - Freed + amount /\ Freed' = 0
        /\ Total(queue') = Total(queue) + amount
        /\ Total(Mature(queue))' = Total(Mature(queue))
    BY UndelegatePending
  <1> HIDE DEF amount, extra
  <1>6. Ledger!Collect(Withdrawn, extra)
    BY <1>3, <1>4, SameTotals DEF Ledger!Collect
  <1>7. UNCHANGED <<SumFunction(tokens), Owed, forgotten>>
    BY <1>1, SameSums
  <1>8. CleanSupply.total_bonded = supply.total_bonded
    BY <1>2, <1>3, CleanedSupply
  <1>9. Ledger!Undelegate(Withdrawn, extra, amount)
    <2>1. supply.claims - Ledger!Coverage(Withdrawn) = Missing
          /\ Ledger!Liquid(Withdrawn) = Liquid /\ Ledger!CleanSupply = CleanSupply
      BY <1>3, SameTotals
    <2>2. supply' = [CleanSupply EXCEPT !.total_bonded = @ - amount, !.total_unbonding = @ + amount]
      BY <1>4, <1>8
    <2> QED
      BY <1>1, <1>4, <1>5, <1>6, <1>7, <2>1, <2>2 DEF Ledger!Undelegate
  <1>10. /\ Withdrawn \in 0..SumFunction(rewards) /\ extra \in 0..(SumFunction(rewards) - Withdrawn)
         /\ amount \in 0..supply.total_bonded
    <2>1. SumFunction(rewards) \in Nat /\ supply.total_bonded \in Nat
      BY <1>2, StateTypes
    <2> QED
      BY <1>3, <1>4, <2>1
  <1> QED
    BY <1>9, <1>10 DEF Ledger!Operation

LEMMA WaitLedger ==
    ASSUME BooksInv, ReinvestWait
    PROVE  Ledger!Operation
  <1>1. /\ UNCHANGED <<now, user_claims, delegations, queue, tokens, slashes, forgotten>>
        /\ unbonding' = CleanUnbonding /\ balance' = Liquid /\ Withdraws
    BY DEF ReinvestWait, SaveBonded, SaveSupply
  <1>2. TypeOK
    BY BooksInvIs
  <1>3. Loads /\ Withdrawn \in Nat /\ Liquid \in Nat
    BY <1>1, <1>2, ReinvestTypes
  <1>4. /\ supply' = CleanSupply
        /\ SumFunction(rewards') = SumFunction(rewards) - Withdrawn
        /\ Withdrawn <= SumFunction(rewards)
    BY WaitTypes
  <1>5. SumFunction(rewards) \in Nat
    BY <1>2, StateTypes
  <1>6. Ledger!DropMature
    BY <1>1, <1>2, CleanedTotals
  <1>7. UNCHANGED <<SumFunction(tokens), Owed, forgotten, AllDelegations, Total(queue),
                    Total(Mature(queue))>>
    BY <1>1, SameSums
  <1>8. Ledger!Keep(Withdrawn, 0)
    <2>1. Ledger!Collect(Withdrawn, 0)
      BY <1>3, <1>4, <1>5, SameTotals DEF Ledger!Collect
    <2>2. balance' = Ledger!Liquid(Withdrawn) + 0 /\ supply' = Ledger!CleanSupply
      BY <1>1, <1>3, <1>4, SameTotals
    <2> QED
      BY <1>1, <1>6, <1>7, <2>1, <2>2 DEF Ledger!Keep
  <1>9. Withdrawn \in 0..SumFunction(rewards) /\ 0 \in 0..(SumFunction(rewards) - Withdrawn)
    BY <1>3, <1>4, <1>5
  <1> QED
    BY <1>8, <1>9 DEF Ledger!Operation

\* A transaction without commission leaves the balance as it is.
LEMMA NoCommission ==
    ASSUME balance \in Nat
    PROVE  Ledger!Liquid(0) = balance
  <1>1. MulFloor(0, Commission) = 0
    <2>1. Commission \in 0..DecimalOne /\ Commission \in Nat /\ 0 \in Nat
      BY Constants, SMT
    <2>2. MulFloor(0, Commission) \in Nat /\ MulFloor(0, Commission) <= 0
      BY <2>1, MulFloorAtMost, MulFloorType
    <2> QED
      BY <2>2
  <1> QED
    BY <1>1, SameArithmetic DEF Ledger!Liquid

\* A new validator set.
LEMMA SetBondedLedger ==
    ASSUME BooksInv, NEW valset \in Valsets, SetValidatorsBonded(valset)
    PROVE  Ledger!Operation
  <1>1. /\ UNCHANGED <<now, user_claims, queue, tokens, slashes>>
        /\ unbonding' = CleanUnbonding
    BY DEF SetValidatorsBonded
  <1>2. PICK touched \in SUBSET Validators :
              /\ Loads
              /\ supply' = CleanSupply /\ AllDelegations' = AllDelegations
              /\ PayRewards(touched) /\ RewardsOf(touched) \in Nat
              /\ balance' = balance + RewardsOf(touched)
              /\ UNCHANGED forgotten
    BY SetBondedTypes
  <1> DEFINE extra == RewardsOf(touched)
  <1>3. TypeOK
    BY BooksInvIs
  <1>4. balance \in Nat /\ rewards \in [Validators -> Nat]
    BY <1>3, TypeIs
  <1>5. /\ extra \in Nat /\ extra <= SumFunction(rewards) /\ SumFunction(rewards) \in Nat
        /\ SumFunction(rewards') = SumFunction(rewards) - extra
    BY <1>2, <1>4, RewardsPaid
  <1> HIDE DEF extra
  <1>6. Ledger!DropMature
    BY <1>1, <1>3, CleanedTotals
  <1>7. UNCHANGED <<SumFunction(tokens), Owed, forgotten, Total(queue), Total(Mature(queue))>>
    BY <1>1, <1>2, SameSums
  <1>8. Ledger!Keep(0, extra)
    <2>1. Ledger!Collect(0, extra)
      BY <1>2, <1>5, SameTotals DEF Ledger!Collect
    <2>2. balance' = Ledger!Liquid(0) + extra /\ supply' = Ledger!CleanSupply
      BY <1>2, <1>4, SameTotals, NoCommission DEF extra
    <2> QED
      BY <1>1, <1>2, <1>6, <1>7, <2>1, <2>2 DEF Ledger!Keep
  <1>9. 0 \in 0..SumFunction(rewards) /\ extra \in 0..(SumFunction(rewards) - 0)
    BY <1>5
  <1> QED
    BY <1>8, <1>9 DEF Ledger!Operation

\* A check that finds a slash books it.
LEMMA FoundLedger ==
    ASSUME BooksInv, CheckSlashFound
    PROVE  Ledger!AnyBook
  <1> DEFINE old == CleanSupply.total_unbonding
             left == SumFunction(bonded')
             new == Total(Counted)
  <1>1. /\ UNCHANGED <<now, user_claims, balance, delegations, queue, rewards, tokens, slashes>>
    BY DEF CheckSlashFound, staking
  <1>2. TypeOK /\ supply.total_bonded = SumFunction(bonded)
    BY BooksInvIs DEF TotalBondedIsSum
  <1>3. /\ Loads /\ old \in Nat /\ new \in Nat /\ new <= old
        /\ unbonding' = Counted /\ IsPending(Counted)
        /\ IsAmounts(bonded') /\ left <= supply.total_bonded
        /\ old # 0 => /\ supply.claims >= old
                      /\ supply' = [CleanSupply EXCEPT
                                        !.total_bonded = left, !.total_unbonding = new,
                                        !.claims = (@ - old) + new]
        /\ old = 0 => supply' = [CleanSupply EXCEPT
                                        !.total_bonded = left, !.total_unbonding = new]
        /\ NoSlash => bonded' = bonded /\ Counted = CleanUnbonding
        /\ forgotten' = forgotten
    BY FoundTypes
  <1>4. left \in Nat /\ supply.total_bonded \in Nat /\ supply.total_unbonding \in Nat
        /\ Freed \in Nat /\ old = supply.total_unbonding - Freed
    BY <1>2, <1>3, AmountsSum, StateTypes, CleanedSupply
  <1>5. NoSlash => left = supply.total_bonded /\ new = Total(unbonding) - Freed
    <2>1. Total(CleanUnbonding) \in Nat /\ Total(unbonding) = Freed + Total(CleanUnbonding)
      BY <1>2, StateTypes
    <2> QED
      BY <1>2, <1>3, <1>4, <2>1
  <1>6. Freed' = 0 /\ Total(unbonding)' = new
    <2>1. now' = now /\ now \in Nat /\ IsPending(unbonding)
      BY <1>1, <1>2, StateTypes, TypeIs
    <2>2. Freed' = Total(Before(Counted, now))
      BY <1>3, <2>1 DEF Freed, Mature, Before
    <2>3. DOMAIN Counted = DOMAIN After(unbonding, now)
      BY DEF Counted, CleanUnbonding, Immature, After
    <2>4. DOMAIN Before(Counted, now) = {}
      <3>1. \A t \in DOMAIN After(unbonding, now) : t \in Nat /\ t > now
        BY <2>1 DEF After, Restrict, IsPending
      <3> QED
        BY <2>1, <2>3, <3>1 DEF Before, Restrict
    <2> DEFINE b == Before(Counted, now)
    <2>5. Total(b) = SumFunctionOnSet(SumsOf(b), DOMAIN b)
      BY DEF Total, SumsOf, SumFunction, SumFunctionOnSet
    <2> HIDE DEF b
    <2>6. Total(b) = 0
      BY <2>4, <2>5, SumEmpty DEF b
    <2> QED
      BY <1>3, <2>2, <2>6 DEF b
  <1>7. UNCHANGED <<SumFunction(tokens), Owed, AllDelegations, Total(queue), Total(Mature(queue)),
                    SumFunction(rewards)>>
    BY <1>1, SameSums
  <1> HIDE DEF left, new
  <1>8. Ledger!Book(left, new)
    <2>1. Ledger!CleanSupply = CleanSupply /\ (Ledger!Loads <=> Loads)
      BY SameTotals
    <2>2. Ledger!NoSlash => NoSlash
      BY DEF Ledger!NoSlash, NoSlash
    <2>3. supply' = IF old = 0
                    THEN [CleanSupply EXCEPT !.total_bonded = left, !.total_unbonding = new]
                    ELSE [[CleanSupply EXCEPT !.total_bonded = left, !.total_unbonding = new]
                              EXCEPT !.claims = (@ - old) + new]
      <3>1. CleanSupply \in SupplyType
        BY <1>2, <1>3, CleanedSupply
      <3> HIDE DEF old
      <3> QED
        BY <1>3, <3>1 DEF SupplyType
    <2>4. old <= supply.claims \/ old = 0
      BY <1>3
    <2> HIDE DEF old
    <2> QED
      BY <1>1, <1>3, <1>5, <1>6, <1>7, <2>1, <2>2, <2>3, <2>4 DEF Ledger!Book, Ledger!chain, old
  <1>9. left \in 0..supply.total_bonded /\ new \in 0..supply.total_unbonding
    <2> HIDE DEF old
    <2> QED
      BY <1>3, <1>4
  <1> QED
    BY <1>8, <1>9 DEF Ledger!AnyBook

\* The chain.
LEMMA EarnLedger ==
    ASSUME BooksInv, NEW v \in Validators, NEW amount \in Rewards, Earn(v, amount)
    PROVE  Ledger!Operation
  <1> DEFINE earned == rewards[v] + amount
  <1>1. /\ UNCHANGED <<now, supply, unbonding, user_claims, balance, delegations, queue, tokens>>
        /\ UNCHANGED <<slashes, forgotten>>
        /\ rewards' = [rewards EXCEPT ![v] = earned] /\ AllTokens + amount <= MaxTokens
    BY DEF Earn, storage
  <1>2. TypeOK /\ amount \in Nat \ {0} /\ MaxTokens \in Nat
    BY BooksInvIs, Constants
  <1>3. rewards \in [Validators -> Nat] /\ rewards[v] \in Nat /\ SumFunction(rewards) \in Nat
    BY <1>2, TypeIs, StateTypes
  <1>4. SumFunction(rewards') = SumFunction(rewards) + amount
    <2>1. IsFiniteSet(Validators) /\ DOMAIN rewards = Validators /\ Ints(rewards, Validators)
      BY <1>3, Constants DEF Ints
    <2>2. earned \in Int /\ earned = rewards[v] + amount
      BY <1>2, <1>3
    <2> HIDE DEF earned
    <2>3. SumFunction([rewards EXCEPT ![v] = earned]) = SumFunction(rewards) - rewards[v] + earned
      BY <2>1, <2>2, SumExcept
    <2> QED
      BY <1>1, <1>2, <1>3, <2>2, <2>3
  <1>5. amount \in 1..MaxTokens
    <2>1. /\ balance \in Nat /\ Total(queue) \in Nat /\ AllDelegations \in Nat
      BY <1>2, StateTypes
    <2>2. AllTokens = balance + Total(queue) + AllDelegations + SumFunction(rewards)
      BY DEF AllTokens, AllDelegations
    <2> QED
      BY <1>1, <1>2, <1>3, <2>1, <2>2
  <1>6. UNCHANGED <<SumFunction(tokens), Owed, Total(unbonding), Freed, AllDelegations, Total(queue),
                    Total(Mature(queue))>>
    BY <1>1, SameSums
  <1>7. Ledger!Earn(amount)
    BY <1>1, <1>4, <1>6, SameTotals DEF Ledger!Earn, Ledger!books
  <1> QED
    BY <1>5, <1>7 DEF Ledger!Operation

\* A slash takes stake, and a part of what is in the queue, due or not.
LEMMA SlashLedger ==
    ASSUME BooksInv, NEW v \in Validators, NEW keep \in SlashKeeps, Slash(v, keep)
    PROVE  Ledger!AnySlash
  <1> DEFINE waiting == Total(After(queue', now))
             paying == Total(Before(queue', now))
  <1>1. /\ UNCHANGED <<now, supply, unbonding, user_claims, balance, rewards, tokens, forgotten>>
        /\ slashes < MaxSlashes /\ slashes' = slashes + 1
        /\ delegations' = [delegations EXCEPT ![v] = MulFloor(@, keep)]
        /\ queue' = [t \in DOMAIN queue |->
                       [w \in DOMAIN queue[t] |->
                          IF w = v THEN MulFloor(queue[t][w], keep) ELSE queue[t][w]]]
    BY DEF Slash, storage
  <1>2. TypeOK /\ TypeOK'
    BY SlashBooks, BooksInvIs, BooksInvIsNext
  <1>3. keep \in 0..DecimalOne
    BY Constants
  <1>4. /\ delegations \in [Validators -> Nat] /\ delegations' \in [Validators -> Nat]
        /\ IsPending(queue) /\ IsPending(queue') /\ now \in Nat
    BY <1>2, TypeIs, TypeIsNext, StateTypes
  <1>5. AllDelegations' <= AllDelegations /\ AllDelegations' \in Nat /\ AllDelegations \in Nat
    <2>1. IsAmounts(delegations) /\ IsAmounts(delegations') /\ DOMAIN delegations = Validators
          /\ DOMAIN delegations' = Validators
      BY <1>4 DEF IsAmounts
    <2>2. \A w \in Validators : delegations'[w] <= delegations[w]
      <3>1. MulFloor(delegations[v], keep) <= delegations[v]
        BY <1>3, <1>4, MulFloorAtMost
      <3> QED
        BY <1>1, <1>4, <3>1
    <2> QED
      BY <2>1, <2>2, AmountsSum, SumMonotone DEF AllDelegations
  <1>6. /\ DOMAIN queue' = DOMAIN queue
        /\ \A t \in DOMAIN queue : IsAmounts(queue'[t]) /\ DOMAIN queue'[t] = DOMAIN queue[t]
        /\ \A t \in DOMAIN queue : \A w \in DOMAIN queue[t] : queue'[t][w] <= queue[t][w]
    <2>1. DOMAIN queue' = DOMAIN queue
      BY <1>1
    <2>2. \A t \in DOMAIN queue : IsAmounts(queue'[t]) /\ DOMAIN queue'[t] = DOMAIN queue[t]
      BY <1>1, <1>4, <2>1 DEF IsPending
    <2>3. ASSUME NEW t \in DOMAIN queue, NEW w \in DOMAIN queue[t]
          PROVE  queue'[t][w] <= queue[t][w]
      <3> DEFINE a == queue[t][w]
      <3>1. a \in Nat
        BY <1>4 DEF IsPending, IsAmounts
      <3>2. queue'[t][w] = IF w = v THEN MulFloor(a, keep) ELSE a
        BY <1>1
      <3> HIDE DEF a
      <3>3. MulFloor(a, keep) <= a
        BY <1>3, <3>1, MulFloorAtMost
      <3> QED
        BY <3>1, <3>2, <3>3 DEF a
    <2> QED
      BY <2>1, <2>2, <2>3
  <1>7. /\ waiting <= Total(After(queue, now)) /\ paying <= Total(Before(queue, now))
    BY <1>4, <1>6, LesserParts
  <1>8. /\ waiting \in Nat /\ paying \in Nat /\ Total(queue') = paying + waiting
        /\ Total(After(queue, now)) \in Nat /\ Total(Before(queue, now)) \in Nat
        /\ Total(queue) = Total(Before(queue, now)) + Total(After(queue, now))
    BY <1>4, TotalSplits
  <1>9. Total(Mature(queue)) = Total(Before(queue, now)) /\ Total(Mature(queue))' = paying
    BY <1>1 DEF Mature, Before
  <1> HIDE DEF waiting, paying
  <1>10. /\ waiting <= Total(queue) - Total(Mature(queue)) /\ paying <= Total(Mature(queue))
         /\ Total(queue)' = waiting + paying
    BY <1>7, <1>8, <1>9
  <1>11. UNCHANGED <<SumFunction(tokens), Owed, Total(unbonding), Freed, SumFunction(rewards)>>
    BY <1>1, SameSums
  <1>12. Ledger!Slash(AllDelegations', waiting, paying)
    BY <1>1, <1>5, <1>9, <1>10, <1>11 DEF Ledger!Slash, Ledger!books
  <1>13. /\ AllDelegations' \in 0..AllDelegations /\ paying \in 0..Total(Mature(queue))
         /\ waiting \in 0..(Total(queue) - Total(Mature(queue)))
    BY <1>5, <1>8, <1>9, <1>10
  <1> QED
    BY <1>12, <1>13 DEF Ledger!AnySlash

\* The end of a block.
LEMMA BlockLedger ==
    ASSUME BooksInv, NextBlock
    PROVE  Ledger!AnyBlock
  <1> DEFINE u == After(unbonding, now)
             q == After(queue, now)
             maturing == Total(Before(u, now'))
             coming == Total(Before(q, now'))
  <1>1. /\ now' \in 0..MaxTime
        /\ queue' = q /\ Total(queue') = Total(queue) - Total(Mature(queue))
        /\ balance' = balance + Total(Mature(queue))
        /\ Freed' = Freed + maturing /\ maturing \in Nat
        /\ UNCHANGED <<supply, unbonding, user_claims, rewards, delegations, tokens, slashes>>
        /\ UNCHANGED forgotten
    BY BlockTypes
  <1>2. TypeOK /\ (NoSlash => UnbondingIsQueued)
    BY BooksInvIs
  <1>3. IsPending(u) /\ Total(u) = Total(unbonding) - Freed /\ (NoSlash => q = u)
    BY <1>2, StateTypes DEF UnbondingIsQueued
  <1>4. now' \in Nat /\ now \in Nat
    BY <1>1, <1>2, StateTypes, Constants, SMT
  <1>5. IsPending(q) /\ Total(q) = Total(queue) - Total(Mature(queue))
    <2>1. IsPending(queue) /\ Mature(queue) = Before(queue, now)
      BY <1>2, TypeIs, StateTypes
    <2> QED
      BY <1>4, <2>1, TotalSplits
  <1>6. Total(Mature(queue))' = coming
    <2>1. Total(Mature(queue))' = Total(Before(queue', now'))
      BY DEF Mature, Before
    <2> QED
      BY <1>1, <2>1
  <1>7. NoSlash => coming = maturing
    BY <1>3
  <1> HIDE DEF u, q
  <1>8. /\ maturing <= Total(u) /\ Total(u) \in Nat
        /\ coming <= Total(q) /\ Total(q) \in Nat /\ coming \in Nat
    <2>1. /\ Total(Before(u, now')) \in Nat /\ Total(After(u, now')) \in Nat
          /\ Total(u) = Total(Before(u, now')) + Total(After(u, now'))
          /\ Total(Before(q, now')) \in Nat /\ Total(After(q, now')) \in Nat
          /\ Total(q) = Total(Before(q, now')) + Total(After(q, now'))
      BY <1>3, <1>4, <1>5, TotalSplits
    <2> QED
      BY <2>1
  <1> HIDE DEF maturing, coming
  <1>9. UNCHANGED <<SumFunction(tokens), Owed, Total(unbonding), AllDelegations,
                    SumFunction(rewards)>>
    BY <1>1, SameSums
  <1>10. Ledger!NextBlock(maturing, coming)
    <2>1. Ledger!NoSlash => NoSlash
      BY DEF Ledger!NoSlash, NoSlash
    <2>2. Total(queue)' = Total(queue) - Total(Mature(queue))
      BY <1>1
    <2> QED
      BY <1>1, <1>3, <1>5, <1>6, <1>7, <1>8, <1>9, <2>1, <2>2 DEF Ledger!NextBlock
  <1>11. /\ maturing \in 0..(Total(unbonding) - Freed)
         /\ coming \in 0..(Total(queue) - Total(Mature(queue)))
    BY <1>1, <1>3, <1>5, <1>8
  <1> QED
    BY <1>10, <1>11 DEF Ledger!AnyBlock

\* A step of the contract is an operation of the ledger, a slash or a check that
\* books one, a block, or nothing the ledger sees.
LedgerStep ==
    \/ now' = now /\ (Ledger!Operation \/ Ledger!AnySlash \/ UNCHANGED Ledger!vars)
    \/ now' = now /\ CheckSlashFound /\ Ledger!AnyBook
    \/ now' # now /\ Ledger!AnyBlock

LEMMA ReinvestLedger ==
    ASSUME BooksInv, Reinvest
    PROVE  now' = now /\ (Ledger!Operation \/ UNCHANGED Ledger!vars)
  <1>1. CASE ReinvestNothingListed
    <2>1. /\ UNCHANGED <<now, supply, unbonding, user_claims, balance, delegations, queue>>
          /\ UNCHANGED <<rewards, tokens, slashes, forgotten>>
      BY <1>1 DEF ReinvestNothingListed, staking
    <2> QED
      BY <2>1, SameLedger
  <1>2. CASE ReinvestNoBalance
    <2>1. /\ UNCHANGED <<now, user_claims, balance, delegations, queue, rewards, tokens, slashes>>
          /\ ForgetMature /\ Loads
      BY <1>2 DEF ReinvestNoBalance, Withdraws, staking
    <2> QED
      BY <2>1, ForgetLedger
  <1>3. CASE ReinvestDelegate
    <2>1. now' = now
      BY <1>3 DEF ReinvestDelegate
    <2> QED
      BY <1>3, <2>1, DelegateLedger
  <1>4. CASE ReinvestUndelegate
    <2>1. now' = now
      BY <1>4 DEF ReinvestUndelegate
    <2> QED
      BY <1>4, <2>1, UndelegateLedger
  <1>5. CASE ReinvestWait
    <2>1. now' = now
      BY <1>5 DEF ReinvestWait
    <2> QED
      BY <1>5, <2>1, WaitLedger
  <1> QED
    BY <1>1, <1>2, <1>3, <1>4, <1>5 DEF Reinvest

LEMMA CheckSlashLedger ==
    ASSUME BooksInv, CheckSlash
    PROVE  now' = now /\ (Ledger!Operation \/ (CheckSlashFound /\ Ledger!AnyBook))
  <1>1. CASE CheckSlashNone
    <2>1. /\ UNCHANGED <<now, user_claims, balance, delegations, queue, rewards, tokens, slashes>>
          /\ ForgetMature /\ Loads
      BY <1>1 DEF CheckSlashNone, CheckSlashLoads, staking
    <2> QED
      BY <2>1, ForgetLedger
  <1>2. CASE CheckSlashFound
    <2>1. now' = now
      BY <1>2 DEF CheckSlashFound
    <2> QED
      BY <1>2, <2>1, FoundLedger
  <1> QED
    BY <1>1, <1>2 DEF CheckSlash

LEMMA SetValidatorsLedger ==
    ASSUME BooksInv, NEW valset \in Valsets, SetValidators(valset)
    PROVE  now' = now /\ Ledger!Operation
  <1>1. CASE SetValidatorsBonded(valset)
    <2>1. now' = now
      BY <1>1 DEF SetValidatorsBonded
    <2> QED
      BY <1>1, <2>1, SetBondedLedger
  <1>2. CASE SetValidatorsUnbonded(valset)
    <2>1. /\ UNCHANGED <<now, user_claims, balance, delegations, queue, rewards, tokens, slashes>>
          /\ ForgetMature /\ Loads
      BY <1>2 DEF SetValidatorsUnbonded, staking
    <2> QED
      BY <2>1, ForgetLedger
  <1> QED
    BY <1>1, <1>2 DEF SetValidators

LEMMA ChainLedger ==
    ASSUME BooksInv, ChainNext
    PROVE  LedgerStep
  <1>1. CASE NextBlock
    <2>1. now' = now + 1 /\ now \in Nat
      BY <1>1, BooksInvIs, StateTypes DEF NextBlock, EndBlock
    <2>2. now' # now
      BY <2>1
    <2> QED
      BY <1>1, <2>2, BlockLedger DEF LedgerStep
  <1>2. ASSUME NEW v \in Validators, NEW amount \in Rewards, Earn(v, amount)
        PROVE  LedgerStep
    <2>1. now' = now
      BY <1>2 DEF Earn
    <2> QED
      BY <1>2, <2>1, EarnLedger DEF LedgerStep
  <1>3. ASSUME NEW v \in Validators, NEW keep \in SlashKeeps, Slash(v, keep)
        PROVE  LedgerStep
    <2>1. now' = now
      BY <1>3 DEF Slash
    <2> QED
      BY <1>3, <2>1, SlashLedger DEF LedgerStep
  <1> QED
    BY <1>1, <1>2, <1>3 DEF ChainNext

LEMMA UserLedger ==
    ASSUME BooksInv, UserNext
    PROVE  now' = now /\ Ledger!Operation
  <1>1. ASSUME NEW u \in Users, NEW paid \in Deposits, Bond(u, paid)
        PROVE  now' = now /\ Ledger!Operation
    <2>1. now' = now
      BY <1>1 DEF Bond, HubBond
    <2> QED
      BY <1>1, <2>1, BondLedger
  <1>2. ASSUME NEW u \in Users, NEW amount, Unbond(u, amount)
        PROVE  now' = now /\ Ledger!Operation
    <2>1. now' = now
      BY <1>2 DEF Unbond
    <2> QED
      BY <1>2, <2>1, UnbondLedger
  <1>3. ASSUME NEW u \in Users, ClaimMature(u)
        PROVE  now' = now /\ Ledger!Operation
    <2>1. now' = now
      BY <1>3 DEF ClaimMature
    <2> QED
      BY <1>3, <2>1, ClaimLedger
  <1> QED
    BY <1>1, <1>2, <1>3 DEF UserNext

LEMMA NextLedger ==
    ASSUME BooksInv, [Next]_vars
    PROVE  LedgerStep
  <1>1. CASE UNCHANGED vars
    <2>1. /\ UNCHANGED <<now, supply, unbonding, user_claims, balance, delegations, queue>>
          /\ UNCHANGED <<rewards, tokens, slashes, forgotten>>
      BY <1>1 DEF vars, storage, staking
    <2> QED
      BY <2>1, SameLedger DEF LedgerStep
  <1>2. CASE UserNext
    BY <1>2, UserLedger DEF LedgerStep
  <1>3. CASE Reinvest
    BY <1>3, ReinvestLedger DEF LedgerStep
  <1>4. CASE CheckSlash
    BY <1>4, CheckSlashLedger DEF LedgerStep
  <1>5. ASSUME NEW valset \in Valsets, SetValidators(valset) PROVE LedgerStep
    BY <1>5, SetValidatorsLedger DEF LedgerStep
  <1>6. CASE ChainNext
    BY <1>6, ChainLedger
  <1> QED
    BY <1>1, <1>2, <1>3, <1>4, <1>5, <1>6 DEF Next

-----------------------------------------------------------------------------
(* The invariants of the contract *)

\* The hub of instantiate is the ledger at its beginning.
LEMMA InitLedger == Init => Ledger!Init
  <1> SUFFICES ASSUME Init PROVE Ledger!Init
    OBVIOUS
  <1>1. /\ now = 0 /\ unbonding = <<>> /\ user_claims = [u \in Users |-> <<>>]
        /\ balance = 0 /\ queue = <<>> /\ rewards = [v \in Validators |-> 0]
        /\ forgotten = 0 /\ slashes = 0 /\ supply = NewSupply
        /\ delegations = [v \in Validators |-> 0] /\ tokens = [u \in Users |-> 0]
    BY DEF Init, InitWith, InitLists
  <1>2. ASSUME NEW S, IsFiniteSet(S) PROVE SumFunction([x \in S |-> 0]) = 0
    <2> DEFINE f == [x \in S |-> 0]
    <2>1. SumFunction(f) = SumFunctionOnSet(f, S)
      BY DEF SumFunction, SumFunctionOnSet
    <2>2. {} \in SUBSET S /\ Ints(f, S) /\ \A x \in S \ {} : f[x] = 0
      BY DEF Ints
    <2> HIDE DEF f
    <2>3. SumFunctionOnSet(f, S) = SumFunctionOnSet(f, {})
      BY <1>2, <2>2, SumZeros
    <2> QED
      BY <2>1, <2>3, SumEmpty DEF f
  <1>3. SumFunction(tokens) = 0 /\ AllDelegations = 0 /\ SumFunction(rewards) = 0
    BY <1>1, <1>2, Constants DEF AllDelegations
  <1>4. Owed = 0
    <2>1. \A u \in Users : ClaimSum(user_claims[u]) = 0
      BY <1>1, ClaimSumEmpty
    <2>2. [u \in Users |-> ClaimSum(user_claims[u])] = [u \in Users |-> 0]
      BY <2>1
    <2>3. ClaimsTotal(user_claims) = SumFunction([u \in Users |-> 0])
      BY <2>2 DEF ClaimsTotal
    <2> QED
      BY <1>2, <2>3, Constants, OwedIsTotal
  <1>5. Total(unbonding) = 0 /\ Total(queue) = 0
    BY <1>1, NothingPending
  <1>6. \A pending : DOMAIN pending = {} => Mature(pending) = Restrict(pending, {})
    BY DEF Mature
  <1>7. Freed = 0 /\ Total(Mature(queue)) = 0
    <2>1. Restrict(<<>>, {}) = <<>>
      BY DEF Restrict
    <2>2. Mature(unbonding) = <<>> /\ Mature(queue) = <<>>
      BY <1>1, <1>6, <2>1, NothingPending
    <2> QED
      BY <2>2, NothingPending DEF Freed
  <1>8. supply = Ledger!NewSupply
    BY <1>1, SameArithmetic
  <1> QED
    BY <1>1, <1>3, <1>4, <1>5, <1>7, <1>8 DEF Ledger!Init

LEMMA InitHub == Init => HubInv
  <1>1. Init => BooksInv
    <2>1. [u \in Users |-> 0] \in [Users -> Nat]
      OBVIOUS
    <2> QED
      BY <2>1, InitBooks DEF Init
  <1>2. Ledger!Init => Ledger!LedgerInv
    BY LedgerConstants, Ledger!InitInv
  <1> QED
    BY <1>1, <1>2, InitLedger DEF HubInv

\* What the ledger allows is an operation, a slash, a check, a block, or nothing;
\* the bound on its amounts bounds none of the contract.
LEMMA StepOfLedger ==
    ASSUME LedgerStep, Ledger!LedgerTypeOK'
    PROVE  [Ledger!Next]_(Ledger!vars)
  <1>1. Ledger!Bounded'
    <2>1. supply' \in SupplyType /\ Owed' \in Nat /\ forgotten' \in Nat
      BY SameArithmetic DEF Ledger!LedgerTypeOK
    <2>2. \A field \in DOMAIN supply' : supply'[field] \in Nat
      BY <2>1 DEF SupplyType
    <2> QED
      BY <2>1, <2>2 DEF Ledger!Bounded
  <1> QED
    BY <1>1 DEF LedgerStep, Ledger!Next

LEMMA NextHub == HubInv /\ [Next]_vars => HubInv'
  <1> SUFFICES ASSUME HubInv, [Next]_vars PROVE HubInv'
    OBVIOUS
  <1>1. BooksInv /\ BooksInv' /\ Ledger!LedgerInv
    BY NextBooks DEF HubInv
  <1>2. LedgerStep
    BY <1>1, NextLedger
  <1>3. CASE UNCHANGED Ledger!vars
    BY <1>1, <1>3, LedgerConstants, Ledger!NextInv DEF HubInv
  <1>4. CASE Ledger!Operation \/ Ledger!AnySlash \/ Ledger!AnyBook \/ Ledger!AnyBlock
    BY <1>1, <1>4, LedgerConstants, Ledger!StepInv DEF HubInv
  <1> QED
    BY <1>2, <1>3, <1>4 DEF LedgerStep

\* The inductive invariant: the books agree with the chain as far as slashes let
\* them, and the totals are those of the ledger.
THEOREM HubInvariant == Spec => []HubInv
  BY InitHub, NextHub, PTL DEF Spec

\* What HubInv says in the words of the properties.
LEMMA HubFacts ==
    ASSUME HubInv
    PROVE  /\ TypeOK /\ TotalBondedIsSum /\ UnbondingAccounted /\ UnbondingIsQueued
           /\ BondedIsDelegated /\ ClaimsAreOwed /\ Solvent
  <1>1. BooksInv /\ Ledger!LedgerInv
    BY DEF HubInv
  <1>2. TypeOK /\ TotalBondedIsSum /\ UnbondingAccounted
    BY <1>1, BooksInvIs
  <1>3. UnbondingIsQueued
    BY <1>1, BooksInvIs DEF UnbondingIsQueued
  <1>4. Ledger!BooksMatch /\ Ledger!LedgerSolvent /\ (Ledger!NoSlash <=> NoSlash)
    BY <1>1 DEF Ledger!LedgerInv, Ledger!NoSlash, NoSlash
  <1>5. BondedIsDelegated
    BY <1>1, <1>4, BooksInvIs DEF BondedIsDelegated, StakeKnown, Ledger!BooksMatch
  <1>6. ClaimsAreOwed
    <2>1. NoSlash => Owed <= supply.claims + forgotten
      <3>1. NoSlash => Owed + (supply.total_unbonding - Total(unbonding)) <= supply.claims + forgotten
        BY <1>4 DEF Ledger!BooksMatch
      <3>2. Total(unbonding) <= supply.total_unbonding
        BY <1>2 DEF UnbondingAccounted
      <3>3. /\ Owed \in Nat /\ supply.claims \in Nat /\ supply.total_unbonding \in Nat
            /\ forgotten \in Nat /\ Total(unbonding) \in Nat
        <4>1. Owed \in Nat /\ Total(unbonding) \in Nat
          BY <1>1 DEF Ledger!LedgerInv, Ledger!LedgerTypeOK
        <4> QED
          BY <1>2, <4>1, StateTypes
      <3> QED
        BY <3>1, <3>2, <3>3
    <2> QED
      BY <1>4, <2>1 DEF ClaimsAreOwed, Ledger!BooksMatch
  <1>7. Solvent
    BY <1>4 DEF Solvent, Ledger!LedgerSolvent
  <1> QED
    BY <1>2, <1>3, <1>5, <1>6, <1>7

\* Every state has the types of the code: no subtraction of amounts goes below
\* zero, whatever was bonded, slashed or set.
THEOREM TypeCorrect == Spec => []TypeOK
  BY HubInvariant, HubFacts, PTL

\* SUPPLY.total_unbonding is the sum of UNBONDING but for what was forgotten, so
\* no handler underflows when it subtracts what matured.
THEOREM UnbondingAlwaysAccounted == Spec => []UnbondingAccounted
  BY HubInvariant, HubFacts, PTL

\* The unbondings the hub waits for are those in the staking module's queue.
THEOREM UnbondingAlwaysQueued == Spec => []UnbondingIsQueued
  BY HubInvariant, HubFacts, PTL

\* BONDED is what the hub has on each validator.
THEOREM BondedAlwaysDelegated == Spec => []BondedIsDelegated
  BY HubInvariant, HubFacts, PTL

\* SUPPLY.issued is the tokens of the users, and until a slash SUPPLY.claims what
\* their claims add up to, but for what was forgotten.
THEOREM ClaimsAlwaysOwed == Spec => []ClaimsAreOwed
  BY HubInvariant, HubFacts, PTL

\* Until a slash, what users were promised is backed.
THEOREM AlwaysSolvent == Spec => []Solvent
  BY HubInvariant, HubFacts, PTL

\* No handler panics on the subtraction of what has matured.
THEOREM AlwaysLoads == Spec => []Loads
  <1>1. HubInv => Loads
    <2> SUFFICES ASSUME HubInv PROVE Loads
      OBVIOUS
    <2>1. TypeOK /\ UnbondingAccounted
      BY HubFacts
    <2>2. /\ Freed \in Nat /\ Total(CleanUnbonding) \in Nat /\ supply.total_unbonding \in Nat
          /\ Total(unbonding) = Freed + Total(CleanUnbonding)
      BY <2>1, StateTypes
    <2> QED
      BY <2>1, <2>2 DEF Loads, UnbondingAccounted
  <1> QED
    BY <1>1, HubInvariant, PTL

\* The rate of the contract is that of the ledger.
LEMMA RateOfStep ==
    ASSUME HubInv, HubInv', [Next]_vars, now' = now, CheckSlashFound => NoSlash
    PROVE  QueryAssets' * supply.issued >= QueryAssets * supply.issued'
  <1>1. BooksInv /\ TypeOK
    BY BooksInvIs DEF HubInv
  <1>2. Ledger!LedgerInv /\ Ledger!LedgerInv'
    BY DEF HubInv
  <1>3. \/ Ledger!Operation \/ Ledger!AnySlash
        \/ Ledger!NoSlash /\ Ledger!AnyBook
        \/ UNCHANGED Ledger!vars
    BY <1>1, NextLedger DEF LedgerStep, Ledger!NoSlash, NoSlash
  <1>4. Ledger!QueryAssets = QueryAssets /\ Ledger!QueryAssets' = QueryAssets'
    BY SameArithmetic DEF Ledger!QueryAssets, QueryAssets, Ledger!CleanSupply, CleanSupply
  <1>5. CASE Ledger!Operation \/ Ledger!AnySlash \/ (Ledger!NoSlash /\ Ledger!AnyBook)
    <2>1. Ledger!RateStep
      BY <1>2, <1>5, LedgerConstants, Ledger!OperationRate, Ledger!SlashRate, Ledger!BookRate
    <2> QED
      BY <1>4, <2>1 DEF Ledger!RateStep
  <1>6. CASE UNCHANGED Ledger!vars
    <2>1. UNCHANGED <<supply, balance, Freed>>
      BY <1>6 DEF Ledger!vars, Ledger!books
    <2>2. QueryAssets' = QueryAssets /\ supply' = supply
      BY <2>1 DEF QueryAssets, CleanSupply
    <2>3. QueryAssets * supply.issued \in Int
      <3>1. /\ supply.issued \in Nat /\ supply.total_bonded \in Nat /\ supply.claims \in Nat
            /\ supply.total_unbonding \in Nat /\ Freed \in Nat /\ balance \in Nat
        BY <1>1, StateTypes
      <3>2. UnbondingAccounted
        BY <1>1, BooksInvIs
      <3>3. Loads
        <4>1. Total(CleanUnbonding) \in Nat /\ Total(unbonding) = Freed + Total(CleanUnbonding)
          BY <1>1, StateTypes
        <4> QED
          BY <3>1, <3>2, <4>1 DEF Loads, UnbondingAccounted
      <3>4. /\ CleanSupply.total_bonded \in Nat /\ CleanSupply.total_unbonding \in Nat
            /\ CleanSupply.claims \in Nat
        BY <1>1, <3>1, <3>3, CleanedSupply
      <3>5. QueryAssets \in Int
        BY <3>1, <3>4 DEF QueryAssets, Assets
      <3> QED
        BY <3>1, <3>5
    <2> QED
      BY <2>2, <2>3
  <1> QED
    BY <1>3, <1>5, <1>6

\* No transaction lowers the assets per issued LSD token, but for the check that
\* books a slash: every rounding of every handler favours the tokens that stay.
THEOREM RateAlwaysKept == Spec => RateKept
  <1>1. HubInv /\ HubInv' /\ [Next]_vars
          => [now' = now /\ (CheckSlashFound => NoSlash)
                => QueryAssets' * supply.issued >= QueryAssets * supply.issued']_vars
    BY RateOfStep
  <1> QED
    BY <1>1, HubInvariant, PTL DEF Spec, RateKept

\* Every behaviour of the contract, slashes included, is one of the ledger.
THEOREM LedgerImplemented == Spec => ImplementsLedger
  <1>1. HubInv /\ HubInv' /\ [Next]_vars => [Ledger!Next]_(Ledger!vars)
    BY NextLedger, StepOfLedger DEF HubInv, Ledger!LedgerInv
  <1> QED
    BY <1>1, InitLedger, HubInvariant, PTL DEF Spec, ImplementsLedger, Ledger!Spec

-----------------------------------------------------------------------------
(* The contract implements the schedule *)

\* The constants are those of the schedule.
LEMMA ScheduleConstants == Schedule!ScheduleAssumption
  BY Constants DEF Schedule!ScheduleAssumption

\* The expiry times of the unbondings the hub waits for.
Expiries == {t \in DOMAIN unbonding : t > now}

LEMMA ExpiriesKept ==
    ASSUME TypeOK, UNCHANGED now,
           DOMAIN unbonding' \in {DOMAIN unbonding, DOMAIN CleanUnbonding}
    PROVE  Expiries' = Expiries
  <1>1. DOMAIN CleanUnbonding = {t \in DOMAIN unbonding : t > now}
    BY DEF CleanUnbonding, Immature, Restrict
  <1> QED
    BY <1>1 DEF Expiries

LEMMA InitOfSchedule == Init => Schedule!Init
  <1> SUFFICES ASSUME Init PROVE Schedule!Init
    OBVIOUS
  <1>1. now = 0 /\ next_epoch = now + EpochPeriod /\ next_unbond = next_epoch /\ unbonding = <<>>
    BY DEF Init, InitWith, InitLists
  <1>2. DOMAIN unbonding = {}
    BY <1>1, NothingPending
  <1> QED
    BY <1>1, <1>2 DEF Schedule!Init

\* A reinvest that does not undelegate.
LEMMA ReinvestOfSchedule ==
    ASSUME TypeOK, EpochReached, UNCHANGED <<now, next_unbond>>,
           unbonding' \in {unbonding, CleanUnbonding}
    PROVE  Schedule!Reinvest
  <1>1. Expiries' = Expiries
    BY ExpiriesKept
  <1>2. now >= next_epoch /\ next_epoch' = NextAfter(next_epoch, EpochPeriod, now)
    BY DEF EpochReached
  <1>3. Schedule!NextAfter(next_epoch, EpochPeriod, now) = NextAfter(next_epoch, EpochPeriod, now)
    BY DEF Schedule!NextAfter, NextAfter
  <1> QED
    BY <1>1, <1>2, <1>3 DEF Schedule!Reinvest, Expiries

\* One that does.
LEMMA UndelegateOfSchedule ==
    ASSUME TypeOK, ReinvestUndelegate
    PROVE  Schedule!ReinvestUndelegate
  <1>1. /\ EpochReached /\ now >= next_unbond /\ now' = now
        /\ next_unbond' = NextAfter(next_unbond,
                                UnbondEpoch(UnbondPeriod, MaxConcurrentUnbondings), now)
        /\ unbonding' = Entered(CleanUnbonding, now + UnbondPeriod,
                                ByValidator(UndelegatePayments))
    BY DEF ReinvestUndelegate, Withdraws, UndelegationDue
  <1>2. DOMAIN unbonding' = Expiries \cup {now + UnbondPeriod}
    BY <1>1 DEF Entered, CleanUnbonding, Immature, Restrict, Expiries
  <1>3. Expiries' = Expiries \cup {now + UnbondPeriod}
    <2>1. now \in Nat /\ UnbondPeriod \in Nat \ {0}
      BY StateTypes, Constants
    <2>2. now + UnbondPeriod > now /\ \A t \in Expiries : t > now
      BY <2>1 DEF Expiries
    <2>3. Expiries' = {t \in DOMAIN unbonding' : t > now}
      BY <1>1 DEF Expiries
    <2> QED
      BY <1>2, <2>2, <2>3
  <1>4. /\ now >= next_epoch /\ next_epoch' = NextAfter(next_epoch, EpochPeriod, now)
    BY <1>1 DEF EpochReached
  <1>5. Schedule!UnbondEpochLength = UnbondEpoch(UnbondPeriod, MaxConcurrentUnbondings)
    BY DEF Schedule!UnbondEpochLength, Schedule!UnbondEpoch, UnbondEpoch, Schedule!DivCeil, DivCeil
  <1>6. \A next, period : Schedule!NextAfter(next, period, now) = NextAfter(next, period, now)
    BY DEF Schedule!NextAfter, NextAfter
  <1> QED
    BY <1>1, <1>3, <1>4, <1>5, <1>6 DEF Schedule!ReinvestUndelegate, Expiries

\* A block.
LEMMA BlockOfSchedule ==
    ASSUME TypeOK, NextBlock
    PROVE  Schedule!NextBlock
  <1>1. /\ now + 1 <= MaxTime /\ now' = now + 1
        /\ UNCHANGED <<next_epoch, next_unbond, unbonding>>
    BY DEF NextBlock, EndBlock, storage
  <1>2. now \in Nat /\ MaxTime \in Nat /\ \A t \in DOMAIN unbonding : t \in Nat
    BY StateTypes, Constants, TypeIs DEF IsPending
  <1>3. Expiries' = {t \in Expiries : t > now'}
    <2>1. Expiries' = {t \in DOMAIN unbonding : t > now'}
      BY <1>1 DEF Expiries
    <2>2. \A t \in DOMAIN unbonding : t > now' => t > now
      BY <1>1, <1>2
    <2> QED
      BY <2>1, <2>2 DEF Expiries
  <1>4. now < MaxTime
    BY <1>1, <1>2
  <1> QED
    BY <1>1, <1>3, <1>4 DEF Schedule!NextBlock, Expiries

\* Anything else.
LEMMA OtherOfSchedule ==
    ASSUME TypeOK, UNCHANGED <<now, next_epoch, next_unbond>>,
           DOMAIN unbonding' \in {DOMAIN unbonding, DOMAIN CleanUnbonding}
    PROVE  UNCHANGED Schedule!vars
  <1>1. Expiries' = Expiries
    BY ExpiriesKept
  <1> QED
    BY <1>1 DEF Schedule!vars, Expiries

LEMMA StepOfSchedule ==
    ASSUME TypeOK, [Next]_vars
    PROVE  [Schedule!Next]_(Schedule!vars)
  <1> DEFINE Kept == /\ UNCHANGED <<now, next_epoch, next_unbond>>
                     /\ DOMAIN unbonding' \in {DOMAIN unbonding, DOMAIN CleanUnbonding}
  <1>1. ASSUME Kept PROVE UNCHANGED Schedule!vars
    BY <1>1, OtherOfSchedule
  <1>2. CASE UNCHANGED vars
    <2>1. Kept
      BY <1>2 DEF vars, storage
    <2> QED
      BY <1>1, <2>1
  <1>3. CASE UserNext
    <2>1. Kept
      BY <1>3 DEF UserNext, Bond, HubBond, Unbond, ClaimMature
    <2> QED
      BY <1>1, <2>1
  <1>4. CASE CheckSlash
    <2>1. CASE CheckSlashNone
      <3>1. Kept
        BY <2>1 DEF CheckSlashNone, ForgetMature
      <3> QED
        BY <1>1, <3>1
    <2>2. CASE CheckSlashFound
      <3>1. /\ UNCHANGED <<now, next_epoch, next_unbond>>
            /\ unbonding' = [t \in DOMAIN CleanUnbonding |-> Reduce(CleanUnbonding[t])]
        BY <2>2 DEF CheckSlashFound
      <3>2. Kept
        BY <3>1
      <3> QED
        BY <1>1, <3>2
    <2> QED
      BY <1>4, <2>1, <2>2 DEF CheckSlash
  <1>5. ASSUME NEW valset \in Valsets, SetValidators(valset)
        PROVE  UNCHANGED Schedule!vars
    <2>1. Kept
      BY <1>5 DEF SetValidators, SetValidatorsBonded, SetValidatorsUnbonded, ForgetMature
    <2> QED
      BY <1>1, <2>1
  <1>6. CASE Reinvest
    <2>1. CASE ReinvestUndelegate
      BY <2>1, UndelegateOfSchedule DEF Schedule!Next
    <2>2. CASE ~ReinvestUndelegate
      <3>1. /\ EpochReached /\ UNCHANGED <<now, next_unbond>>
            /\ unbonding' \in {unbonding, CleanUnbonding}
        BY <1>6, <2>2 DEF Reinvest, ReinvestNothingListed, ReinvestNoBalance, ReinvestDelegate,
                          ReinvestWait, Withdraws, ForgetMature
      <3> QED
        BY <3>1, ReinvestOfSchedule DEF Schedule!Next
    <2> QED
      BY <2>1, <2>2
  <1>7. CASE ChainNext
    <2>1. CASE NextBlock
      BY <2>1, BlockOfSchedule DEF Schedule!Next
    <2>2. CASE ~NextBlock
      <3>1. Kept
        BY <1>7, <2>2 DEF ChainNext, Earn, Slash, storage
      <3> QED
        BY <1>1, <3>1
    <2> QED
      BY <2>1, <2>2
  <1> HIDE DEF Kept
  <1> QED
    BY <1>2, <1>3, <1>4, <1>5, <1>6, <1>7 DEF Next

\* Every behaviour of the contract, slashes included, is one of the schedule.
THEOREM ScheduleImplemented == Spec => ImplementsSchedule
  <1>1. TypeOK /\ [Next]_vars => [Schedule!Next]_(Schedule!vars)
    BY StepOfSchedule
  <1> QED
    BY <1>1, InitOfSchedule, TypeCorrect, PTL DEF Spec, ImplementsSchedule, Schedule!Spec

\* So the unbonding queue of the hub never holds more than one undelegation
\* above max_concurrent_unbondings.
THEOREM UnbondingsAlwaysBounded == Spec => []Schedule!QueueBounded
  BY ScheduleImplemented, ScheduleConstants, Schedule!QueueAlwaysBounded, PTL
     DEF ImplementsSchedule

-----------------------------------------------------------------------------
(* Slashes *)

\* Finding a slash takes it from the assets, and from the claims what was
\* unbonding for them.
LEMMA FoundCosts ==
    ASSUME BooksInv, CheckSlashFound
    PROVE  QueryAssets' - QueryAssets = supply'.total_bonded - supply.total_bonded
  <1> DEFINE old == CleanSupply.total_unbonding
             new == Total(Counted)
             b == SumFunction(bonded')
  <1>1. now' = now /\ balance' = balance
    BY DEF CheckSlashFound
  <1>2. TypeOK
    BY BooksInvIs
  <1>3. /\ Loads /\ old \in Nat /\ new \in Nat /\ new <= old
        /\ unbonding' = Counted /\ IsPending(Counted) /\ IsAmounts(bonded')
        /\ old # 0 => supply' = [CleanSupply EXCEPT !.total_bonded = b,
                                                    !.total_unbonding = new,
                                                    !.claims = (@ - old) + new]
        /\ old = 0 => supply' = [CleanSupply EXCEPT !.total_bonded = b, !.total_unbonding = new]
        /\ supply' \in SupplyType
    BY FoundTypes
  <1>4. Freed' = 0
    <2>1. DOMAIN Counted = {t \in DOMAIN unbonding : t > now}
      BY DEF Counted, CleanUnbonding, Immature, Restrict
    <2>2. now \in Nat /\ \A t \in DOMAIN Counted : t \in Nat
      BY <1>2, <1>3, StateTypes DEF IsPending
    <2>3. {t \in DOMAIN unbonding' : t <= now'} = {}
      BY <1>1, <1>3, <2>1, <2>2, SMT
    <2> DEFINE q == Mature(unbonding)'
    <2>4. DOMAIN q = {}
      BY <2>3 DEF Mature, Restrict
    <2>5. Total(q) = SumFunctionOnSet(SumsOf(q), DOMAIN q)
      BY DEF Total, SumsOf, SumFunction, SumFunctionOnSet
    <2>6. Freed' = Total(q)
      BY DEF Freed
    <2> HIDE DEF q
    <2> QED
      BY <2>4, <2>5, <2>6, SumEmpty
  <1>5. CleanSupply \in SupplyType /\ CleanSupply.total_bonded = supply.total_bonded
    BY <1>2, <1>3, CleanedSupply
  <1>6. b \in Nat /\ balance \in Nat
    BY <1>2, <1>3, AmountsSum, StateTypes
  <1>7. CleanSupply' = supply'
    <2>1. CleanSupply' = [supply' EXCEPT !.total_unbonding = @ - 0]
      BY <1>4 DEF CleanSupply, Cleaned
    <2> QED
      BY <1>3, <2>1 DEF SupplyType
  <1>8. supply'.total_bonded = b /\ supply'.total_unbonding - supply'.claims = old - CleanSupply.claims
    <2>1. CleanSupply.claims \in Nat
      BY <1>5 DEF SupplyType
    <2> HIDE DEF b, new, old
    <2>2. CASE old = 0
      <3>1. supply' = [CleanSupply EXCEPT !.total_bonded = b, !.total_unbonding = new]
        BY <1>3, <2>2
      <3>2. /\ supply'.total_bonded = b /\ supply'.total_unbonding = new
            /\ supply'.claims = CleanSupply.claims
        BY <1>5, <3>1 DEF SupplyType
      <3> QED
        BY <1>3, <2>2, <3>2
    <2>3. CASE old # 0
      <3>1. supply' = [CleanSupply EXCEPT !.total_bonded = b, !.total_unbonding = new,
                                          !.claims = (@ - old) + new]
        BY <1>3, <2>3
      <3>2. /\ supply'.total_bonded = b /\ supply'.total_unbonding = new
            /\ supply'.claims = (CleanSupply.claims - old) + new
        BY <1>5, <3>1 DEF SupplyType
      <3> QED
        BY <1>3, <2>1, <3>2
    <2> QED
      BY <2>2, <2>3
  <1> QED
    BY <1>1, <1>3, <1>5, <1>6, <1>7, <1>8 DEF QueryAssets, Assets, SupplyType

\* What was slashed of the unbonding tokens is borne by the claims alone, in
\* every state of the contract.
THEOREM SlashAlwaysCostsBonded == Spec => SlashCostsBonded
  <1>1. BooksInv /\ [Next]_vars =>
          [CheckSlashFound =>
              QueryAssets' - QueryAssets = supply'.total_bonded - supply.total_bonded]_vars
    BY FoundCosts
  <1> QED
    BY <1>1, BooksInvariant, PTL DEF Spec, SlashCostsBonded

\* The stake check_slash reports for a validator, or the loss it leaves alone.
LEMMA SlashBooked ==
    ASSUME BooksInv, CheckSlash, NEW v \in Validators, delegations[v] > 0
    PROVE  \/ /\ AmountAt(bonded', v) <= delegations[v]
              /\ delegations[v] <= AmountAt(bonded', v) + 1 + bonded[v] \div DecimalOne
           \/ /\ AmountAt(bonded', v) = AmountAt(bonded, v)
              /\ bonded[v] - delegations[v] < MulFloor(bonded[v], SlashingThreshold)
  <1>1. IsAmounts(bonded) /\ delegations \in [Validators -> Nat]
    BY BooksInvIs, TypeIs
  <1>2. DecimalOne \in Nat \ {0} /\ SlashingThreshold \in 0..DecimalOne
    BY Constants
  <1>3. /\ SlashedValidators \subseteq {w \in DOMAIN bonded : bonded[w] > 0}
        /\ bonded' = Reduce(bonded) \/ (SlashedValidators = {} /\ bonded' = bonded)
    BY DEF CheckSlash, CheckSlashNone, CheckSlashFound
  <1>4. DOMAIN bonded' = DOMAIN bonded
    BY <1>3 DEF Reduce
  <1>5. CASE v \in SlashedValidators
    <2>1. v \in DOMAIN bonded /\ bonded[v] \in Nat \ {0} /\ delegations[v] \in Nat
      BY <1>1, <1>3, <1>5 DEF IsAmounts
    <2>2. bonded'[v] = MulFloor(bonded[v], FromRatio(delegations[v], bonded[v]))
      BY <1>3, <1>5, <2>1 DEF Reduce, Multiplier
    <2>3. AmountAt(bonded', v) = bonded'[v]
      BY <1>4, <2>1 DEF AmountAt
    <2>4. bonded'[v] \in Nat /\ bonded[v] * bonded'[v] <= bonded[v] * delegations[v]
      BY <2>1, <2>2, MulRatioAtMost
    <2>5. bonded'[v] <= delegations[v]
      BY <2>1, <2>4, MulCancels
    <2>6. delegations[v] <= bonded'[v] + 1 + bonded[v] \div DecimalOne
      BY <2>1, <2>2, MulRatioAtLeast
    <2> QED
      BY <2>3, <2>5, <2>6
  <1>6. CASE v \notin SlashedValidators
    <2>1. ~(SaturatingSub(AmountAt(bonded, v), delegations[v])
                >= MulFloor(AmountAt(bonded, v), SlashingThreshold))
      BY <1>6 DEF SlashedValidators
    <2>2. v \in DOMAIN bonded
      <3> SUFFICES ASSUME v \notin DOMAIN bonded PROVE FALSE
        OBVIOUS
      <3>1. AmountAt(bonded, v) = 0
        BY DEF AmountAt
      <3>2. MulFloor(0, SlashingThreshold) \in Nat /\ MulFloor(0, SlashingThreshold) <= 0
        <4>1. SlashingThreshold \in Nat /\ 0 \in Nat
          BY <1>2, SMT
        <4> QED
          BY <1>2, <4>1, MulFloorAtMost, MulFloorType
      <3>3. SaturatingSub(0, delegations[v]) = 0
        BY <1>1 DEF SaturatingSub
      <3> QED
        BY <2>1, <3>1, <3>2, <3>3
    <2>3. bonded[v] \in Nat /\ AmountAt(bonded, v) = bonded[v] /\ delegations[v] \in Nat
      BY <1>1, <2>2 DEF IsAmounts, AmountAt
    <2>4. MulFloor(bonded[v], SlashingThreshold) \in Nat
      <3>1. SlashingThreshold \in Nat
        BY <1>2, SMT
      <3> QED
        BY <2>3, <3>1, MulFloorType
    <2>5. SaturatingSub(bonded[v], delegations[v]) \in Nat
          /\ bonded[v] - delegations[v] <= SaturatingSub(bonded[v], delegations[v])
      BY <2>3 DEF SaturatingSub
    <2>6. AmountAt(bonded', v) = bonded[v]
      BY <1>3, <1>4, <1>6, <2>2 DEF AmountAt, Reduce
    <2> QED
      BY <2>1, <2>3, <2>4, <2>5, <2>6
  <1> QED
    BY <1>5, <1>6

\* No slash is booked twice, in part or for the wrong validator, whatever the
\* chain did since the last check.
THEOREM SlashAlwaysBooked == Spec => SlashIsBooked
  <1>1. BooksInv /\ [Next]_vars =>
          [CheckSlash => \A v \in Validators : delegations[v] > 0 =>
              \/ /\ AmountAt(bonded', v) <= delegations[v]
                 /\ delegations[v] <= AmountAt(bonded', v) + 1 + bonded[v] \div DecimalOne
              \/ /\ AmountAt(bonded', v) = AmountAt(bonded, v)
                 /\ bonded[v] - delegations[v] < MulFloor(bonded[v], SlashingThreshold)]_vars
    BY SlashBooked
  <1> QED
    BY <1>1, BooksInvariant, PTL DEF Spec, SlashIsBooked

\* What a function has at the listed validators is a part of its sum.
LEMMA ListedAtMost ==
    ASSUME IsValset(stake_info), NEW f, IsAmounts(f)
    PROVE  LET listed == SumFunction([i \in DOMAIN stake_info |->
                                        AmountAt(f, stake_info[i].validator)])
           IN  listed \in Nat /\ listed <= SumFunction(f)
  <1> DEFINE at == [i \in DOMAIN stake_info |-> AmountAt(f, stake_info[i].validator)]
             b == ByValidator(at)
             rest == [v \in Validators |-> AmountAt(f, v) - AmountAt(b, v)]
  <1>1. \A v \in Validators : AmountAt(f, v) \in Nat
    BY DEF AmountAt, IsAmounts
  <1>2. at \in [DOMAIN stake_info -> Nat]
    BY <1>1, ListedValidators
  <1>3. /\ IsAmounts(b) /\ SumFunction(b) = SumFunction(at)
        /\ \A i \in DOMAIN stake_info : AmountAt(b, stake_info[i].validator) = at[i]
        /\ \A v \in DOMAIN b : \E i \in DOMAIN stake_info : v = stake_info[i].validator
    BY <1>2, PaymentsByValidator
  <1> HIDE DEF b
  <1>4. \A v \in Validators : AmountAt(b, v) \in {0, AmountAt(f, v)}
    BY <1>3 DEF AmountAt
  <1>5. IsAmounts(rest) /\ \A v \in Validators : AmountAt(rest, v) = AmountAt(f, v) - AmountAt(b, v)
    <2>1. \A v \in Validators : rest[v] \in Nat
      BY <1>1, <1>4
    <2>2. DOMAIN rest = Validators
      OBVIOUS
    <2> QED
      BY <2>1, <2>2 DEF IsAmounts, AmountAt
  <1> HIDE DEF rest
  <1>6. \A v \in Validators : AmountAt(f, v) = AmountAt(b, v) + AmountAt(rest, v)
    BY <1>1, <1>4, <1>5
  <1>7. SumFunction(f) = SumFunction(b) + SumFunction(rest)
    BY <1>3, <1>5, <1>6, AddAmounts
  <1>8. SumFunction(b) \in Nat /\ SumFunction(rest) \in Nat
    BY <1>3, <1>5, AmountsSum
  <1> QED
    BY <1>3, <1>7, <1>8

\* What reinvest undelegates, with what is liquid and unbonding already, covers
\* the claims; or it leaves nothing on the listed validators, and the assets
\* that are left are dust on others.
LEMMA UndelegateCovered ==
    ASSUME BooksInv, ReinvestUndelegate, QueryAssets >= 0
    PROVE  balance' + supply'.total_unbonding + Stray' >= supply'.claims
  <1> DEFINE payments == ByValidator(UndelegatePayments)
             amount == SumFunction(payments)
             extra == RewardsOf(DOMAIN payments \ WithdrawnFrom)
             listed == SumFunction([i \in DOMAIN stake_info |->
                                      AmountAt(bonded', stake_info[i].validator)])
             left == SumFunction(bonded')
  <1>1. /\ Withdraws /\ UndelegationFits /\ stake_info' = stake_info /\ balance' = Liquid + extra
    BY DEF ReinvestUndelegate
  <1>2. TypeOK /\ IsValset(stake_info) /\ IsAmounts(bonded) /\ IsValset(stake_info)
    BY BooksInvIs, TypeIs
  <1>3. /\ Loads /\ Liquid \in Nat /\ Liquid >= balance /\ balance \in Nat
        /\ Missing = supply.claims - ClaimCoverage
        /\ ClaimCoverage = Liquid + CleanSupply.total_unbonding
    BY <1>1, <1>2, ReinvestTypes, StateTypes DEF ClaimCoverage
  <1>4. /\ amount \in Nat /\ Missing \in Nat /\ IsAmounts(bonded')
        /\ supply' = [CleanSupply EXCEPT !.total_bonded = supply.total_bonded - amount,
                                         !.total_unbonding = @ + amount]
        /\ supply'.total_bonded = left
        /\ supply'.total_unbonding = CleanSupply.total_unbonding + amount
        /\ \A v \in Validators :
             AmountAt(bonded', v) = AmountAt(bonded, v) - AmountAt(payments, v)
        /\ extra \in Nat
    BY UndelegateTypes
  <1>5. /\ CleanSupply \in SupplyType /\ CleanSupply.claims = supply.claims
        /\ CleanSupply.total_bonded = supply.total_bonded
    BY <1>2, <1>3, CleanedSupply
  <1>6. listed \in Nat /\ listed <= left
    BY <1>2, <1>4, ListedAtMost
  <1>7. Stray' = left - listed
    BY <1>1 DEF Stray
  <1>8. /\ UndelegatePayments \in [DOMAIN stake_info -> Nat]
        /\ \A i \in DOMAIN stake_info : stake_info[i].validator \in DOMAIN bonded
        /\ \/ SumFunction(UndelegatePayments) = Missing
           \/ \A i \in DOMAIN stake_info :
                UndelegatePayments[i] = bonded[stake_info[i].validator]
    BY <1>1, <1>2, <1>4, UndelegatedMissing
  <1>9. /\ \A i \in DOMAIN stake_info :
             AmountAt(payments, stake_info[i].validator) = UndelegatePayments[i]
        /\ amount = SumFunction(UndelegatePayments)
    BY <1>2, <1>8, PaymentsByValidator
  <1>10. left \in Nat
    BY <1>4, AmountsSum
  <1>11. /\ CleanSupply.claims \in Nat /\ CleanSupply.total_unbonding \in Nat
         /\ supply.total_bonded \in Nat
         /\ supply'.claims = CleanSupply.claims
         /\ left = supply.total_bonded - amount
    <2> HIDE DEF amount, left
    <2> QED
      BY <1>4, <1>5 DEF SupplyType
  <1>12. supply.total_bonded + CleanSupply.total_unbonding + balance - CleanSupply.claims >= 0
    BY <1>5 DEF QueryAssets, Assets
  <1>13. CASE amount = Missing
    <2> HIDE DEF amount, left, extra, listed
    <2> QED
      BY <1>1, <1>3, <1>4, <1>5, <1>6, <1>7, <1>10, <1>11, <1>13
  <1>14. CASE \A i \in DOMAIN stake_info :
                UndelegatePayments[i] = bonded[stake_info[i].validator]
    <2>1. \A i \in DOMAIN stake_info : AmountAt(bonded', stake_info[i].validator) = 0
      <3> SUFFICES ASSUME NEW i \in DOMAIN stake_info
                   PROVE  AmountAt(bonded', stake_info[i].validator) = 0
        OBVIOUS
      <3> DEFINE v == stake_info[i].validator
      <3>1. v \in Validators /\ v \in DOMAIN bonded
        BY <1>2, <1>8, ListedValidators
      <3>2. AmountAt(bonded, v) = bonded[v] /\ bonded[v] \in Nat
        BY <1>2, <3>1 DEF AmountAt, IsAmounts
      <3>3. AmountAt(payments, v) = bonded[v]
        BY <1>9, <1>14
      <3> HIDE DEF v, payments
      <3>4. AmountAt(bonded', v) = 0
        BY <1>4, <3>1, <3>2, <3>3
      <3> QED
        BY <3>4 DEF v
    <2>2. listed = 0
      <3> DEFINE D == DOMAIN stake_info
                 z == [i \in D |-> AmountAt(bonded', stake_info[i].validator)]
      <3>1. {} \in SUBSET D /\ IsFiniteSet(D) /\ Ints(z, D) /\ \A i \in D \ {} : z[i] = 0
        BY <1>2, <2>1, ListedValidators DEF Ints
      <3>2. SumFunction(z) = SumFunctionOnSet(z, D)
        BY DEF SumFunction, SumFunctionOnSet
      <3> HIDE DEF z, D
      <3>3. SumFunctionOnSet(z, D) = SumFunctionOnSet(z, {})
        BY <3>1, SumZeros
      <3>4. SumFunction(z) = 0
        BY <3>2, <3>3, SumEmpty
      <3> QED
        BY <3>4 DEF z, D
    <2> HIDE DEF amount, left, extra, listed
    <2> QED
      BY <1>1, <1>3, <1>4, <1>5, <1>7, <1>10, <1>11, <1>12, <2>2
  <1> QED
    BY <1>8, <1>9, <1>13, <1>14

\* No other step undelegates.
LEMMA OnlyUndelegation ==
    ASSUME Next, next_unbond' # next_unbond
    PROVE  ReinvestUndelegate
  <1>1. ~UserNext
    BY DEF UserNext, Bond, HubBond, Unbond, ClaimMature
  <1>2. ~CheckSlash
    BY DEF CheckSlash, CheckSlashNone, CheckSlashFound
  <1>3. \A valset \in Valsets : ~SetValidators(valset)
    BY DEF SetValidators, SetValidatorsBonded, SetValidatorsUnbonded
  <1>4. ~ChainNext
    BY DEF ChainNext, NextBlock, EndBlock, Earn, Slash, storage
  <1>5. Reinvest
    BY <1>1, <1>2, <1>3, <1>4 DEF Next
  <1> QED
    BY <1>5 DEF Reinvest, ReinvestNothingListed, ReinvestNoBalance, ReinvestDelegate, ReinvestWait

\* An undelegation covers the claims, but for the dust on validators no longer
\* listed, whatever the weights add up to and whatever was slashed.
THEOREM UndelegationsCover == Spec => UndelegationCovers
  <1>1. BooksInv /\ [Next]_vars =>
          [next_unbond' # next_unbond /\ QueryAssets >= 0 =>
              balance' + supply'.total_unbonding + Stray' >= supply'.claims]_vars
    BY UndelegateCovered, OnlyUndelegation
  <1> QED
    BY <1>1, BooksInvariant, PTL DEF Spec, UndelegationCovers

LEMMA SlashingTypes ==
    ASSUME slashings \in Seq(Slashing)
    PROVE  \A i \in DOMAIN slashings : slashings[i].end \in Nat
  <1>1. \A i \in DOMAIN slashings : slashings[i] \in Slashing
    OBVIOUS
  <1> QED
    BY <1>1 DEF Slashing

\* No recorded slash lasts longer than the unbonding that starts now.
SlashingsPast == \A i \in DOMAIN slashings : slashings[i].end <= now + UnbondPeriod

LEMMA SlashingsStay ==
    ASSUME BooksInv, SlashingsPast, [Next]_vars
    PROVE  SlashingsPast'
  <1>1. TypeOK
    BY BooksInvIs
  <1>2. now \in Nat /\ UnbondPeriod \in Nat /\ slashings \in Seq(Slashing)
    BY <1>1, StateTypes, Constants, TypeIs
  <1>3. \A i \in DOMAIN slashings : slashings[i].end \in Nat
    BY <1>2, SlashingTypes
  <1>4. CASE slashings' = slashings /\ now' \in {now, now + 1}
    BY <1>2, <1>3, <1>4 DEF SlashingsPast
  <1>5. CASE CheckSlashFound
    <2>1. now' = now
      BY <1>5 DEF CheckSlashFound
    <2> DEFINE s == [start |-> now, end |-> now + UnbondPeriod,
                     multiplier |-> FromRatio(Total(Counted), CleanSupply.total_unbonding)]
    <2>2. slashings' = slashings \/ slashings' = Append(slashings, s)
      BY <1>5, FoundTypes
    <2>3. s.end = now + UnbondPeriod
      OBVIOUS
    <2> HIDE DEF s
    <2>4. \A i \in DOMAIN slashings' :
            \/ i \in DOMAIN slashings /\ slashings'[i] = slashings[i]
            \/ slashings'[i] = s
      BY <1>2, <2>2
    <2> QED
      BY <2>1, <2>3, <2>4, <1>2 DEF SlashingsPast
  <1>6. CheckSlashFound \/ (slashings' = slashings /\ now' \in {now, now + 1})
    <2>1. CASE UNCHANGED vars
      BY <2>1 DEF vars, storage
    <2>2. CASE UserNext
      BY <2>2 DEF UserNext, Bond, HubBond, Unbond, ClaimMature
    <2>3. CASE Reinvest
      BY <2>3 DEF Reinvest, ReinvestNothingListed, ReinvestNoBalance, ReinvestDelegate,
                  ReinvestUndelegate, ReinvestWait
    <2>4. CASE CheckSlash
      BY <2>4 DEF CheckSlash, CheckSlashNone
    <2>5. CASE \E valset \in Valsets : SetValidators(valset)
      BY <2>5 DEF SetValidators, SetValidatorsBonded, SetValidatorsUnbonded
    <2>6. CASE ChainNext
      BY <2>6 DEF ChainNext, NextBlock, EndBlock, Earn, Slash, storage
    <2> QED
      BY <2>1, <2>2, <2>3, <2>4, <2>5, <2>6 DEF Next
  <1> QED
    BY <1>4, <1>5, <1>6

\* A claim released after all of them pays for none.
LEMMA SlashedWhole ==
    ASSUME slashings \in Seq(Slashing), NEW claim \in Claim,
           \A i \in DOMAIN slashings : slashings[i].end <= claim.release_at
    PROVE  Slashed(claim) = claim.amount
  <1> DEFINE n == Len(slashings)
             p == <<claim, slashings>>
             I == (0..n) \X {claim.amount}
  <1>1. n \in Nat /\ DOMAIN slashings = 1..n
    OBVIOUS
  <1>2. \A i \in 1..n : slashings[i].end \in Nat /\ slashings[i].end <= claim.release_at
    BY <1>1, SlashingTypes
  <1>3. claim.release_at \in Nat
    BY DEF Claim
  <1> HIDE DEF n
  <1>4. <<0, SlashStart(p)>> \in I
    BY <1>1 DEF SlashStart
  <1>5. ASSUME NEW k \in 1..n, NEW a, <<k - 1, a>> \in I
        PROVE  <<k, SlashRound(p, ElementOf(p, k), a)>> \in I
    <2>1. a = claim.amount /\ k \in 0..n
      BY <1>1, <1>5
    <2>2. ~(slashings[k].end > claim.release_at)
      BY <1>2, <1>3
    <2> QED
      BY <2>1, <2>2 DEF SlashRound, ElementOf
  <1>6. SlashLoop!InOrder /\ Slashed(claim) = SlashLoop!Fold(p, 1..n)
    BY <1>1, SlashedIsLoop
  <1> HIDE DEF I, p
  <1>7. <<n, SlashLoop!Fold(p, 1..n)>> \in I
    BY <1>1, <1>4, <1>5, <1>6, SlashLoop!LoopKeeps
  <1> QED
    BY <1>6, <1>7 DEF I

\* The only step that gives a user one more claim is Unbond.
LEMMA NewClaim ==
    ASSUME BooksInv, [Next]_vars, NEW u \in Users, Len(user_claims'[u]) > Len(user_claims[u])
    PROVE  \E amount : Unbond(u, amount)
  <1>1. TypeOK /\ SlashingsFair
    BY BooksInvIs
  <1>2. user_claims \in [Users -> Seq(Claim)] /\ slashings \in Seq(Slashing) /\ balance \in Nat
    BY <1>1, TypeIs
  <1>3. Len(user_claims[u]) \in Nat
    BY <1>2
  <1>4. user_claims'[u] # user_claims[u]
    BY <1>3
  <1>5. ASSUME NEW w \in Users, ClaimMature(w) PROVE FALSE
    <2>1. user_claims' = [user_claims EXCEPT ![w] = ClaimTokens(w).waiting]
      BY <1>5 DEF ClaimMature
    <2>2. /\ ClaimTokens(w).waiting \in Seq(Claim)
          /\ Len(ClaimTokens(w).waiting) <= Len(user_claims[w])
      BY <1>1, <1>2, FairMultipliers, ClaimTokensBounds
    <2>3. w = u
      BY <1>2, <1>4, <2>1
    <2>4. user_claims'[u] = ClaimTokens(u).waiting
      BY <1>2, <2>1, <2>3
    <2> QED
      BY <1>3, <2>2, <2>3, <2>4
  <1>6. ASSUME NEW w \in Users, NEW amount, Unbond(w, amount) PROVE w = u
    <2>1. \E claim : user_claims' = [user_claims EXCEPT ![w] = Append(@, claim)]
      BY <1>6 DEF Unbond
    <2> QED
      BY <1>2, <1>4, <2>1
  <1>7. CASE UNCHANGED user_claims
    BY <1>4, <1>7
  <1>8. UNCHANGED user_claims \/ UserNext
    <2>1. CASE UNCHANGED vars
      BY <2>1 DEF vars, storage
    <2>3. CASE Reinvest
      BY <2>3 DEF Reinvest, ReinvestNothingListed, ReinvestNoBalance, ReinvestDelegate,
                  ReinvestUndelegate, ReinvestWait
    <2>4. CASE CheckSlash
      BY <2>4 DEF CheckSlash, CheckSlashNone, CheckSlashFound
    <2>5. CASE \E valset \in Valsets : SetValidators(valset)
      BY <2>5 DEF SetValidators, SetValidatorsBonded, SetValidatorsUnbonded
    <2>6. CASE ChainNext
      BY <2>6 DEF ChainNext, NextBlock, EndBlock, Earn, Slash, storage
    <2> QED
      BY <2>1, <2>3, <2>4, <2>5, <2>6 DEF Next
  <1>9. CASE UserNext
    <2>1. ASSUME NEW w \in Users, NEW paid, Bond(w, paid) PROVE UNCHANGED user_claims
      BY <2>1 DEF Bond, HubBond
    <2> QED
      BY <1>5, <1>6, <1>7, <1>9, <2>1 DEF UserNext
  <1> QED
    BY <1>7, <1>8, <1>9

LEMMA NewClaimWhole ==
    ASSUME BooksInv, SlashingsPast, NEW u \in Users, NEW amount, Unbond(u, amount),
           now <= next_epoch
    PROVE  Slashed(Last(user_claims'[u])) = Last(user_claims'[u]).amount
  <1> DEFINE native == NativeFor(CleanSupply, balance, amount)
             claim == [amount |-> native,
                       release_at |-> ReleaseAt(next_epoch, next_unbond, UnbondPeriod)]
  <1>1. TypeOK
    BY BooksInvIs
  <1>2. /\ user_claims \in [Users -> Seq(Claim)] /\ slashings \in Seq(Slashing)
        /\ next_epoch \in Nat /\ next_unbond \in Nat
    BY <1>1, TypeIs
  <1>3. now \in Nat /\ UnbondPeriod \in Nat
    BY <1>1, StateTypes, Constants
  <1>4. native \in Nat
    BY <1>1, UnbondTypes
  <1>5. ReleaseAt(next_epoch, next_unbond, UnbondPeriod) \in Nat
        /\ now + UnbondPeriod <= ReleaseAt(next_epoch, next_unbond, UnbondPeriod)
    BY <1>2, <1>3 DEF ReleaseAt
  <1>6. user_claims' = [user_claims EXCEPT ![u] = Append(@, claim)]
    BY DEF Unbond
  <1> HIDE DEF native
  <1>7. claim \in Claim /\ now + UnbondPeriod <= claim.release_at /\ claim.release_at \in Nat
    BY <1>4, <1>5 DEF Claim
  <1> HIDE DEF claim
  <1>8. user_claims'[u] = Append(user_claims[u], claim)
    BY <1>2, <1>6
  <1>9. Last(user_claims'[u]) = claim
    BY <1>2, <1>7, <1>8 DEF Last
  <1>10. \A i \in DOMAIN slashings : slashings[i].end \in Nat
    BY <1>2, SlashingTypes
  <1>11. \A i \in DOMAIN slashings : slashings[i].end <= claim.release_at
    BY <1>3, <1>7, <1>10 DEF SlashingsPast
  <1> QED
    BY <1>2, <1>7, <1>9, <1>11, SlashedWhole

\* A claim made while reinvest is not overdue pays for none of the slashes
\* recorded before it.
THEOREM FreshClaimsAlwaysWhole == Spec => FreshClaimsWhole
  <1>1. Init => SlashingsPast
    BY DEF Init, InitWith, InitLists, SlashingsPast
  <1>2. BooksInv /\ SlashingsPast /\ [Next]_vars => SlashingsPast'
    BY SlashingsStay
  <1>3. BooksInv /\ SlashingsPast /\ [Next]_vars =>
          [\A u \in Users :
              /\ Len(user_claims'[u]) > Len(user_claims[u])
              /\ now <= next_epoch
              => Slashed(Last(user_claims'[u])) = Last(user_claims'[u]).amount]_vars
    BY NewClaim, NewClaimWhole
  <1> QED
    BY <1>1, <1>2, <1>3, BooksInvariant, PTL DEF Spec, FreshClaimsWhole

=============================================================================
