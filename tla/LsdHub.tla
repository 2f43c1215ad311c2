------------------------------- MODULE LsdHub -------------------------------
(***************************************************************************)
(* The lsd-hub contract together with the chain it runs on.                *)
(*                                                                         *)
(* Every entry point is a transaction: it runs to the end, including the   *)
(* replies and the messages it emits, or it is reverted.  A transaction    *)
(* that fails (an error, a panic, or an emitted message the chain rejects) *)
(* changes nothing, so an action below is guarded by everything that has   *)
(* to succeed.  What the chain does between transactions (rewards, slashes,*)
(* the end of a block) are actions of their own, marked external.          *)
(***************************************************************************)
EXTENDS Supply, Epochs, Valset, FiniteSets

CONSTANTS
    Users,               \* holders of native and of LSD tokens
    Validators,
    Commission,          \* Config.commission, atoms of a Decimal
    EpochPeriod,         \* Config.epoch_period
    UnbondPeriod,        \* Config.unbond_period, also the chain's unbonding time
    MaxConcurrentUnbondings,
    SafetyMargin,        \* Config.slashing_safety_margin
    SlashingThreshold,   \* SLASHING_THRESHOLD of check_slash, atoms of a Decimal
    InitialValset,       \* InstantiateMsg.validators
    Valsets,             \* the validator lists the owner may set
    Deposits,            \* amounts a user pays into Bond
    UnbondAmounts,       \* amounts of LSD tokens a user sends, besides all of them
    Rewards,             \* amounts a validator may earn at once
    SlashKeeps,          \* fractions of the stake a slash may leave
    ChainMaxEntries,     \* the staking module's MaxEntries
    MaxTime,             \* bound: last block time
    MaxTokens,           \* bound: tokens of the hub after a deposit or a reward
    MaxSlashes,          \* bound: slashes by the chain
    MaxSlashings         \* bound: slashing events recorded

WeightSum(valset) == SumFunction([i \in DOMAIN valset |-> valset[i].weight])

IsValset(valset) ==
    /\ valset \in Seq([validator : Validators, weight : 0..DecimalOne])
    /\ \A i, j \in DOMAIN valset : valset[i].validator = valset[j].validator => i = j

\* the checks of instantiate
ASSUME HubAssumption ==
    /\ Commission \in 0..(DecimalOne \div 2)
    /\ IsValset(InitialValset) /\ WeightSum(InitialValset) = DecimalOne
    /\ EpochPeriod \in Nat \ {0} /\ UnbondPeriod \in Nat \ {0}
    /\ MaxConcurrentUnbondings \in Nat \ {0}
    /\ IsFiniteSet(Users) /\ IsFiniteSet(Validators)

\* set_validators itself checks no weights: the governance sends what is listed
ASSUME InputAssumption ==
    /\ \A valset \in Valsets : IsValset(valset)
    /\ Deposits \subseteq Nat \ {0} /\ UnbondAmounts \subseteq Nat \ {0}
    /\ Rewards \subseteq Nat \ {0} /\ SlashKeeps \subseteq 0..DecimalOne
    /\ SafetyMargin \in Nat /\ SlashingThreshold \in 0..DecimalOne
    /\ ChainMaxEntries \in Nat
    /\ MaxTime \in Nat /\ MaxTokens \in Nat /\ MaxSlashes \in Nat /\ MaxSlashings \in Nat

VARIABLES
    now,          \* block time, in seconds
    next_epoch, next_unbond,   \* the changing part of CONFIG
    stake_info,   \* STAKE_INFO.validators
    supply,       \* SUPPLY
    bonded,       \* BONDED: stake by validator
    unbonding,    \* UNBONDING: time it expires -> amount by validator
    user_claims,  \* CLAIMS: the claims of each user
    slashings,    \* SLASHINGS
    \* the chain
    balance,      \* the hub's bank balance
    delegations,  \* the hub's stake on each validator
    queue,        \* the staking module's unbonding queue
    rewards,      \* rewards not withdrawn yet
    tokens,       \* LSD tokens of each user
    slashes,      \* slashes so far
    \* bookkeeping of the model, read by no action
    forgotten     \* unbonding deleted by transactions that did not save SUPPLY

storage == <<next_epoch, next_unbond, stake_info, supply, bonded, unbonding, user_claims, slashings>>
staking == <<delegations, queue, rewards>>
vars == <<now, storage, balance, staking, tokens, slashes, forgotten>>

NoSlash == slashes = 0

Claim == [amount : Nat, release_at : Nat]
Slashing == [start : Nat, end : Nat, multiplier : Nat]

TypeOK ==
    /\ now \in 0..MaxTime /\ next_epoch \in Nat /\ next_unbond \in Nat
    /\ IsValset(stake_info)
    /\ supply \in SupplyType
    /\ DOMAIN bonded \subseteq Validators /\ bonded \in [DOMAIN bonded -> Nat]
    /\ \A pending \in {unbonding, queue} : \A t \in DOMAIN pending :
         /\ t \in Nat
         /\ DOMAIN pending[t] \subseteq Validators /\ pending[t] \in [DOMAIN pending[t] -> Nat]
    /\ IsFiniteSet(DOMAIN unbonding) /\ IsFiniteSet(DOMAIN queue)
    /\ user_claims \in [Users -> Seq(Claim)]
    /\ slashings \in Seq(Slashing)
    /\ balance \in Nat
    /\ delegations \in [Validators -> Nat] /\ rewards \in [Validators -> Nat]
    /\ tokens \in [Users -> Nat]
    /\ slashes \in 0..MaxSlashes
    /\ forgotten \in Nat

\* the hub before any time has passed, whatever it has on the validators
InitLists(valset) ==
    /\ now = 0
    /\ next_epoch = now + EpochPeriod
    /\ next_unbond = next_epoch
    /\ stake_info = valset
    /\ unbonding = <<>> /\ slashings = <<>>
    /\ user_claims = [u \in Users |-> <<>>]
    /\ balance = 0 /\ queue = <<>>
    /\ rewards = [v \in Validators |-> 0]
    /\ slashes = 0
    /\ forgotten = 0

\* the state instantiate leaves; the LSD tokens start with
\* cw20_init.initial_balances
InitWith(valset, initial_balances) ==
    /\ InitLists(valset)
    /\ supply = NewSupply
    /\ bonded = <<>>
    /\ delegations = [v \in Validators |-> 0]
    /\ tokens = initial_balances

Init == InitWith(InitialValset, [u \in Users |-> 0])

-----------------------------------------------------------------------------
(* Unbondings, by the time they expire *)

Total(pending) == SumFunction([t \in DOMAIN pending |-> SumFunction(pending[t])])
Mature(pending) == Restrict(pending, {t \in DOMAIN pending : t <= now})
Immature(pending) == Restrict(pending, {t \in DOMAIN pending : t > now})

\* an entry for a time replaces the one there may be
Entered(pending, time, amounts) ==
    [t \in DOMAIN pending \cup {time} |-> IF t = time THEN amounts ELSE pending[t]]

\* external: the staking module adds to what ends in the same second
Queued(pending, time, amounts) ==
    Entered(pending, time,
            IF time \in DOMAIN pending
            THEN [v \in DOMAIN pending[time] \cup DOMAIN amounts |->
                    AmountAt(pending[time], v) + AmountAt(amounts, v)]
            ELSE amounts)

Freed == Total(Mature(unbonding))

\* CleanedSupply::load: what it deletes is left out of `CleanUnbonding`
CleanSupply == Cleaned(supply, Freed)

\* the ExchangeRate query, which deletes nothing
ExchangeRate == TokensPerShare(CleanSupply, balance)

\* mutants
MutCleanUnbonding == unbonding
MutCleanUnbondingEarly == Restrict(unbonding, {t \in DOMAIN unbonding : t > now + 1})

CleanUnbonding == Immature(unbonding)

\* the load succeeded, and its u128 subtraction did
Loads == Freed <= supply.total_unbonding

\* a transaction that loaded the supply but returned before saving it
ForgetMature ==
    /\ unbonding' = CleanUnbonding
    /\ forgotten' = forgotten + Freed
    /\ UNCHANGED supply

SaveSupply(new) ==
    /\ supply' = new
    /\ UNCHANGED forgotten

-----------------------------------------------------------------------------
(* The chain *)

\* any change of a delegation pays out its rewards
Touched(vals) == {v \in vals : delegations[v] > 0}
RewardsOf(vals) == SumFunctionOnSet(rewards, Touched(vals))
PayRewards(vals) == rewards' = [v \in Validators |-> IF v \in Touched(vals) THEN 0 ELSE rewards[v]]

AllTokens == balance + Total(queue) + SumFunction(delegations) + SumFunction(rewards)

\* external: a validator earns rewards for the hub's stake
Earn(v, amount) ==
    /\ delegations[v] > 0
    /\ AllTokens + amount <= MaxTokens
    /\ rewards' = [rewards EXCEPT ![v] = @ + amount]
    /\ UNCHANGED <<now, storage, balance, delegations, queue, tokens, slashes, forgotten>>

\* external: a slash takes its part of the stake and of what is unbonding from it
Slash(v, keep) ==
    /\ slashes < MaxSlashes
    /\ delegations[v] > 0 \/ \E t \in DOMAIN queue : v \in DOMAIN queue[t]
    /\ delegations' = [delegations EXCEPT ![v] = MulFloor(@, keep)]
    /\ queue' = [t \in DOMAIN queue |->
                   [w \in DOMAIN queue[t] |->
                      IF w = v THEN MulFloor(queue[t][w], keep) ELSE queue[t][w]]]
    /\ slashes' = slashes + 1
    /\ UNCHANGED <<now, storage, balance, rewards, tokens, forgotten>>

\* external: the EndBlocker pays the unbondings that are due, after all
\* transactions of the block; then the next block begins
EndBlock(seconds) ==
    /\ now + seconds <= MaxTime
    /\ balance' = balance + Total(Mature(queue))
    /\ queue' = Immature(queue)
    /\ now' = now + seconds
    /\ UNCHANGED <<storage, delegations, rewards, tokens, slashes, forgotten>>

NextBlock == EndBlock(1)

-----------------------------------------------------------------------------
(* Users: bond, unbond, claim *)

\* Bond: shares for the payment, at the rate before it came in
HubBond(paid) ==
    /\ AllTokens + paid <= MaxTokens
    /\ Loads /\ Assets(CleanSupply, balance) >= 0
    /\ SaveSupply(AfterBond(CleanSupply, balance, paid))
    /\ unbonding' = CleanUnbonding
    /\ balance' = balance + paid
    /\ UNCHANGED <<now, next_epoch, next_unbond, stake_info, bonded, user_claims, slashings,
                   staking, slashes>>

\* what the cw20 contract mints for the payment
Minted(paid) == SharesFor(CleanSupply, balance, paid)

Bond(u, paid) ==
    /\ HubBond(paid)
    /\ tokens' = [tokens EXCEPT ![u] = @ + Minted(paid)]

\* Receive(Unbond): the cw20 contract has taken the shares, the hub burns them
Unbond(u, amount) ==
    /\ amount \in 1..tokens[u]
    /\ Loads /\ RateFits(CleanSupply, balance) /\ amount <= supply.issued
    /\ SaveSupply(AfterUnbond(CleanSupply, balance, amount))
    /\ unbonding' = CleanUnbonding
    /\ user_claims' = [user_claims EXCEPT ![u] = Append(@,
            [amount |-> NativeFor(CleanSupply, balance, amount),
             release_at |-> ReleaseAt(next_epoch, next_unbond, UnbondPeriod)])]
    /\ tokens' = [tokens EXCEPT ![u] = @ - amount]
    /\ UNCHANGED <<now, next_epoch, next_unbond, stake_info, bonded, slashings,
                   balance, staking, slashes>>

\* mutant
MutSlashed(claim) ==
    FoldLeft(LAMBDA amount, s :
                IF s.start < claim.release_at /\ s.end >= claim.release_at
                THEN MulFloor(amount, s.multiplier) ELSE amount,
             claim.amount, slashings)

\* a claim pays every slash recorded while it was unbonding
Slashed(claim) ==
    FoldLeft(LAMBDA amount, s :
                IF s.start < claim.release_at /\ s.end > claim.release_at
                THEN MulFloor(amount, s.multiplier) ELSE amount,
             claim.amount, slashings)

\* mutants
MutClaimTokensAll(u) ==
    FoldLeft(LAMBDA acc, claim :
                IF claim.release_at <= now
                THEN [acc EXCEPT !.to_send = @ + Slashed(claim)]
                ELSE [acc EXCEPT !.waiting = Append(@, claim)],
             [to_send |-> 0, waiting |-> <<>>], user_claims[u])
MutClaimTokensBelow(u) ==
    FoldLeft(LAMBDA acc, claim :
                IF claim.release_at <= now /\ acc.to_send + Slashed(claim) < balance
                THEN [acc EXCEPT !.to_send = @ + Slashed(claim)]
                ELSE [acc EXCEPT !.waiting = Append(@, claim)],
             [to_send |-> 0, waiting |-> <<>>], user_claims[u])

\* the claims in order: those that are mature and still fit into the balance
\* are paid, the others wait
ClaimTokens(u) ==
    FoldLeft(LAMBDA acc, claim :
                IF claim.release_at <= now /\ acc.to_send + Slashed(claim) <= balance
                THEN [acc EXCEPT !.to_send = @ + Slashed(claim)]
                ELSE [acc EXCEPT !.waiting = Append(@, claim)],
             [to_send |-> 0, waiting |-> <<>>], user_claims[u])

\* Claim: the unbondings are not cleaned up here
ClaimMature(u) ==
    LET result == ClaimTokens(u)
    IN  /\ result.to_send > 0 /\ result.to_send <= supply.claims
        /\ user_claims' = [user_claims EXCEPT ![u] = result.waiting]
        /\ SaveSupply(AfterClaim(supply, result.to_send))
        /\ balance' = balance - result.to_send
        /\ UNCHANGED <<now, next_epoch, next_unbond, stake_info, bonded, unbonding, slashings,
                       staking, tokens, slashes>>

-----------------------------------------------------------------------------
(* Reinvest: withdraw the rewards, then after_withdraw_rewards in the reply *)

Listed == {stake_info[i].validator : i \in {j \in DOMAIN stake_info : stake_info[j].weight # 0}}
WithdrawnFrom == IF supply.total_bonded = 0 THEN {} ELSE Touched(Listed)
Withdrawn == RewardsOf(WithdrawnFrom)

\* mutant
MutLiquid == balance + Withdrawn

\* what is left of the balance and the rewards once the commission is paid
Liquid == balance + Withdrawn - MulFloor(Withdrawn, Commission)
ClaimCoverage == Liquid + CleanSupply.total_unbonding
Surplus == ClaimCoverage - supply.claims
Missing == supply.claims - ClaimCoverage

\* by position in the validator list
Pay(amount) == [i \in DOMAIN stake_info |-> MulFloor(amount, stake_info[i].weight)]
Remainder(amount) == amount - SumFunction(Pay(amount))

\* the first validator gets what is rounded off
DelegatePayments == [Pay(Surplus) EXCEPT ![1] = @ + Remainder(Surplus)]

\* mutant
MutUndelegatePayments == Pay(Missing)

\* the first validators that have the stake give what is rounded off
UndelegatePayments ==
    FoldLeft(LAMBDA acc, i :
                LET spare == bonded[stake_info[i].validator] - acc.pay[i]
                    extra == IF spare < acc.remainder THEN spare ELSE acc.remainder
                IN  [pay |-> [acc.pay EXCEPT ![i] = @ + extra],
                     remainder |-> acc.remainder - extra],
             [pay |-> Pay(Missing), remainder |-> Remainder(Missing)],
             [i \in DOMAIN stake_info |-> i]).pay

\* a payment by position as a payment by validator, without the zeros
ByValidator(payments) ==
    NonZero([v \in {stake_info[i].validator : i \in DOMAIN stake_info} |->
                payments[CHOOSE i \in DOMAIN stake_info : stake_info[i].validator = v]])

\* mutant
MutEpochReached == now >= next_epoch /\ next_epoch' = next_epoch + EpochPeriod

EpochReached ==
    /\ now >= next_epoch
    /\ next_epoch' = NextAfter(next_epoch, EpochPeriod, now)

SaveBonded(new_bonded, new_supply) ==
    /\ bonded' = NonZero(new_bonded)
    /\ SaveSupply([new_supply EXCEPT !.total_bonded = SumFunction(NonZero(new_bonded))])

\* every listed validator has weight zero: no withdrawal, so no reply
ReinvestNothingListed ==
    /\ EpochReached
    /\ supply.total_bonded # 0 /\ Listed = {}
    /\ UNCHANGED <<now, next_unbond, stake_info, supply, bonded, unbonding, user_claims,
                   slashings, balance, staking, tokens, slashes, forgotten>>

Withdraws == EpochReached /\ Loads /\ (supply.total_bonded = 0 \/ Listed # {})

\* the early return if nothing to delegate
ReinvestNoBalance ==
    /\ Withdraws
    /\ balance + Withdrawn = 0
    /\ ForgetMature
    /\ UNCHANGED <<now, next_unbond, stake_info, bonded, user_claims, slashings,
                   balance, staking, tokens, slashes>>

\* Ordering::Greater; delegating more than the hub has is rejected by the chain
ReinvestDelegate ==
    LET payments == ByValidator(DelegatePayments)
    IN  /\ Withdraws /\ balance + Withdrawn # 0
        /\ ClaimCoverage > supply.claims
        /\ stake_info # <<>> /\ Remainder(Surplus) >= 0
        /\ Surplus <= Liquid
        /\ SaveBonded([v \in DOMAIN bonded \cup DOMAIN payments |->
                            AmountAt(bonded, v) + AmountAt(payments, v)], CleanSupply)
        /\ unbonding' = CleanUnbonding
        /\ delegations' = [v \in Validators |-> delegations[v] + AmountAt(payments, v)]
        /\ PayRewards(WithdrawnFrom \cup DOMAIN payments)
        /\ balance' = Liquid - Surplus + RewardsOf(DOMAIN payments \ WithdrawnFrom)
        /\ UNCHANGED <<now, next_unbond, stake_info, user_claims, slashings, queue, tokens, slashes>>

\* Ordering::Less at a time when undelegating is allowed
UndelegationDue == ClaimCoverage < supply.claims /\ now >= next_unbond

\* none of the panics of the branch: every listed validator has a balance in
\* BONDED, and at least its part of what is missing
UndelegationFits ==
    /\ Remainder(Missing) >= 0
    /\ \A i \in DOMAIN stake_info :
         /\ stake_info[i].validator \in DOMAIN bonded
         /\ Pay(Missing)[i] <= bonded[stake_info[i].validator]

\* the chain has the stake and a free slot in its unbonding queue
ChainUndelegates(payments) ==
    \A v \in DOMAIN payments :
        /\ payments[v] <= delegations[v]
        /\ Cardinality({t \in DOMAIN queue : v \in DOMAIN queue[t]}) < ChainMaxEntries

ReinvestUndelegate ==
    /\ Withdraws /\ balance + Withdrawn # 0
    /\ UndelegationDue /\ UndelegationFits
    /\ LET payments == ByValidator(UndelegatePayments)
       IN  /\ ChainUndelegates(payments)
           /\ next_unbond' = NextAfter(next_unbond,
                                UnbondEpoch(UnbondPeriod, MaxConcurrentUnbondings), now)
           /\ SaveBonded([v \in DOMAIN bonded |-> bonded[v] - AmountAt(payments, v)],
                         [CleanSupply EXCEPT !.total_unbonding = @ + SumFunction(payments)])
           /\ unbonding' = Entered(CleanUnbonding, now + UnbondPeriod, payments)
           /\ queue' = Queued(queue, now + UnbondPeriod, payments)
           /\ delegations' = [v \in Validators |-> delegations[v] - AmountAt(payments, v)]
           /\ PayRewards(WithdrawnFrom \cup DOMAIN payments)
           /\ balance' = Liquid + RewardsOf(DOMAIN payments \ WithdrawnFrom)
    /\ UNCHANGED <<now, stake_info, user_claims, slashings, tokens, slashes>>

\* Ordering::Equal, or too early to undelegate: only the rewards come in
ReinvestWait ==
    /\ Withdraws /\ balance + Withdrawn # 0
    /\ ClaimCoverage <= supply.claims /\ ~UndelegationDue
    /\ SaveBonded(bonded, CleanSupply)
    /\ unbonding' = CleanUnbonding
    /\ PayRewards(WithdrawnFrom)
    /\ balance' = Liquid
    /\ UNCHANGED <<now, next_unbond, stake_info, user_claims, slashings,
                   delegations, queue, tokens, slashes>>

Reinvest ==
    \/ ReinvestNothingListed \/ ReinvestNoBalance
    \/ ReinvestDelegate \/ ReinvestUndelegate \/ ReinvestWait

-----------------------------------------------------------------------------
(* CheckSlash and SetValidators *)

UnbondingTooClose ==
    \E t \in DOMAIN unbonding : now - SafetyMargin < t /\ t < now + SafetyMargin

\* the chain lists the validators the hub has stake on; one with no stored
\* stake counts as slashed (0 >= 0), and its multiplier divides by zero
SlashedValidators ==
    {v \in Validators :
        /\ delegations[v] > 0
        /\ SaturatingSub(AmountAt(bonded, v), delegations[v])
              >= MulFloor(AmountAt(bonded, v), SlashingThreshold)}

\* mutant
MutMultiplier(v) == DecimalOne - FromRatio(delegations[v], bonded[v])

Multiplier(v) == FromRatio(delegations[v], bonded[v])

Reduce(amounts) ==
    [v \in DOMAIN amounts |->
        IF v \in SlashedValidators THEN MulFloor(amounts[v], Multiplier(v)) ELSE amounts[v]]

CheckSlashLoads == ~UnbondingTooClose /\ Loads

\* no slash found: the mature unbondings are deleted, SUPPLY is not saved
CheckSlashNone ==
    /\ CheckSlashLoads
    /\ SlashedValidators = {}
    /\ ForgetMature
    /\ UNCHANGED <<now, next_epoch, next_unbond, stake_info, bonded, user_claims, slashings,
                   balance, staking, tokens, slashes>>

\* mutant
MutClaimsAfterSlash(claims, old, new) == MulFloor(claims, FromRatio(new, old))

\* the part of the claims that is unbonding pays for what was slashed of it
ClaimsAfterSlash(claims, old, new) == (claims - old) + new

CheckSlashFound ==
    LET reduced == [t \in DOMAIN CleanUnbonding |-> Reduce(CleanUnbonding[t])]
        old == CleanSupply.total_unbonding
        new == Total(reduced)
        counted == [CleanSupply EXCEPT !.total_bonded = SumFunction(Reduce(bonded)),
                                       !.total_unbonding = new]
    IN  /\ CheckSlashLoads
        /\ SlashedValidators # {} /\ SlashedValidators \subseteq {v \in DOMAIN bonded : bonded[v] > 0}
        \* the losses are reported as Uint128 differences
        /\ counted.total_bonded <= supply.total_bonded /\ new <= old
        /\ Len(slashings) < MaxSlashings
        /\ bonded' = Reduce(bonded)
        /\ unbonding' = reduced
        /\ IF old = 0
           THEN SaveSupply(counted) /\ UNCHANGED slashings
           ELSE /\ supply.claims >= old
                /\ SaveSupply([counted EXCEPT !.claims = ClaimsAfterSlash(@, old, new)])
                /\ slashings' = Append(slashings,
                        [start |-> now, end |-> now + UnbondPeriod,
                         multiplier |-> FromRatio(new, old)])
        /\ UNCHANGED <<now, next_epoch, next_unbond, stake_info, user_claims,
                       balance, staking, tokens, slashes>>

CheckSlash == CheckSlashNone \/ CheckSlashFound

\* external: the staking module has the stake.  It also refuses to redelegate what
\* a redelegation has brought too recently: a limit GaugeAdapter has, and without
\* which the owner may set more lists here.
RedelegationsFit(messages) ==
    \A v \in Validators :
        delegations[v] >= SumFunction([i \in {j \in DOMAIN messages : messages[j].src = v} |->
                                            messages[i].amount])

SetValidatorsBonded(valset) ==
    /\ Loads /\ supply.total_bonded # 0
    /\ stake_info' = valset
    /\ \E change \in ValsetChanges(supply.total_bonded, bonded, valset) :
         LET touched == UNION {{m.src, m.dst} : m \in ToSet(change.messages)}
         IN  /\ RedelegationsFit(change.messages)
             /\ bonded' = change.new_balances
             /\ SaveSupply([CleanSupply EXCEPT !.total_bonded = SumFunction(change.new_balances)])
             /\ delegations' = FoldLeft(AfterRedelegation, delegations, change.messages)
             /\ PayRewards(touched)
             /\ balance' = balance + RewardsOf(touched)
    /\ unbonding' = CleanUnbonding
    /\ UNCHANGED <<now, next_epoch, next_unbond, user_claims, slashings, queue, tokens, slashes>>

\* nothing bonded: the mature unbondings are deleted, SUPPLY is not saved
SetValidatorsUnbonded(valset) ==
    /\ Loads /\ supply.total_bonded = 0
    /\ stake_info' = valset
    /\ ForgetMature
    /\ UNCHANGED <<now, next_epoch, next_unbond, bonded, user_claims, slashings,
                   balance, staking, tokens, slashes>>

SetValidators(valset) == SetValidatorsBonded(valset) \/ SetValidatorsUnbonded(valset)

-----------------------------------------------------------------------------

UserNext ==
    \E u \in Users :
        \/ \E paid \in Deposits : Bond(u, paid)
        \/ \E amount \in UnbondAmounts \cup {tokens[u]} : Unbond(u, amount)
        \/ ClaimMature(u)

ChainNext ==
    \/ NextBlock
    \/ \E v \in Validators :
        \/ \E amount \in Rewards : Earn(v, amount)
        \/ \E keep \in SlashKeeps : Slash(v, keep)

Next ==
    \/ UserNext
    \/ Reinvest
    \/ CheckSlash
    \/ \E valset \in Valsets : SetValidators(valset)
    \/ ChainNext

Spec == Init /\ [][Next]_vars

=============================================================================
