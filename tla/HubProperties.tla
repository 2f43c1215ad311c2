--------------------------- MODULE HubProperties ---------------------------
(***************************************************************************)
(* What makes LsdHub correct.  Invariants first, then what a step may      *)
(* never do.                                                               *)
(***************************************************************************)
EXTENDS LsdHub

\* the first block at or after the end of an unbonding: the hub counts it as
\* matured, the EndBlocker has not paid it
Lagging == Mature(queue) # <<>>

QueryAssets == Assets(CleanSupply, balance)
AllDelegations == SumFunction(delegations)
OwedTo(u) == SumFunction([i \in DOMAIN user_claims[u] |-> user_claims[u][i].amount])
Owed == SumFunction([u \in Users |-> OwedTo(u)])

\* BONDED, the total in SUPPLY and the staking module agree on every validator,
\* whatever was delegated, undelegated, rounded off or redelegated
\* (after_withdraw_rewards, set_validators).
BondedIsDelegated ==
    NoSlash => /\ \A v \in Validators : AmountAt(bonded, v) = delegations[v]
               /\ supply.total_bonded = AllDelegations

\* SUPPLY.total_bonded is the sum of BONDED, slashes included: every writer of
\* BONDED also saves SUPPLY (after_withdraw_rewards, set_validators,
\* check_slash).  A part of HubInv: the subtractions of the contract need it.
TotalBondedIsSum == supply.total_bonded = SumFunction(bonded)

\* SUPPLY.total_unbonding is never less than the sum of UNBONDING, so the
\* subtraction of what matured cannot underflow (CleanedSupply::load), and it
\* exceeds the sum by no more than what transactions deleted without saving.
UnbondingAccounted ==
    /\ Total(unbonding) <= supply.total_unbonding
    /\ supply.total_unbonding <= Total(unbonding) + forgotten

\* The unbondings the hub still waits for are those in the staking module's
\* queue: no entry is overwritten, dropped early or invented.
UnbondingIsQueued == NoSlash => Immature(unbonding) = Immature(queue)

\* SUPPLY.issued is the LSD tokens the users hold, and until a slash SUPPLY.claims
\* is what their claims add up to (bond, unbond, claim), or less by what
\* transactions deleted without saving and check_slash took for a loss.
ClaimsAreOwed ==
    /\ supply.issued = SumFunction(tokens)
    /\ NoSlash => Owed <= supply.claims + forgotten
    /\ NoSlash /\ forgotten = 0 => supply.claims = Owed

\* What the users were promised is backed by what the hub has in the bank, on
\* validators or in the unbonding queue, even in the blocks in which the
\* staking module has not paid yet what the hub counts as matured, and but for
\* what transactions deleted without saving.
Solvent ==
    NoSlash => supply.claims <= balance + AllDelegations + Total(queue) + forgotten

\* No transaction lowers the assets per issued share (tokens_per_share: "only
\* modify (increase) on reinvest"): every rounding favours the shares that
\* stay, whatever was slashed and not booked yet.  The check that books a slash
\* and the passage of time are excluded.
RateKept ==
    [][now' = now /\ (CheckSlashFound => NoSlash) =>
        QueryAssets' * supply.issued >= QueryAssets * supply.issued']_vars

\* what the hub has bonded where reinvest does not reach it
Stray ==
    SumFunction(bonded)
    - SumFunction([i \in DOMAIN stake_info |-> AmountAt(bonded, stake_info[i].validator)])

\* A reinvest that undelegates leaves all claims covered by what is liquid or
\* unbonding (after_withdraw_rewards, Ordering::Less), whatever the weights add
\* up to, or has nothing left to undelegate but the dust that set_validators
\* left on validators no longer listed.
UndelegationCovers ==
    [][next_unbond' # next_unbond /\ QueryAssets >= 0 =>
        balance' + supply'.total_unbonding + Stray' >= supply'.claims]_vars

-----------------------------------------------------------------------------
(* With slashes *)

\* What check_slash leaves in BONDED is what the chain still has, less what the
\* rounding of its multiplier may take, or what was there when less than the
\* threshold is missing: no loss is booked twice, in part, or for the wrong
\* validator.
SlashIsBooked ==
    [][CheckSlash => \A v \in Validators : delegations[v] > 0 =>
        \/ /\ AmountAt(bonded', v) <= delegations[v]
           /\ delegations[v] <= AmountAt(bonded', v) + 1 + bonded[v] \div DecimalOne
        \/ /\ AmountAt(bonded', v) = AmountAt(bonded, v)
           /\ bonded[v] - delegations[v] < MulFloor(bonded[v], SlashingThreshold)]_vars

\* A slash of what is unbonding is borne by the claims alone: the assets of the
\* LSD tokens change by the slashed bonded stake and nothing else
\* ("SU decreases both unbonding_tokens and claims and thus cancels itself out").
SlashCostsBonded ==
    [][CheckSlashFound =>
        QueryAssets' - QueryAssets = supply'.total_bonded - supply.total_bonded]_vars

\* A claim made while reinvest is not overdue pays for none of the slashes
\* recorded before it: its rate had already paid for them.
FreshClaimsWhole ==
    [][\A u \in Users :
        /\ Len(user_claims'[u]) > Len(user_claims[u])
        /\ now <= next_epoch
        => Slashed(Last(user_claims'[u])) = Last(user_claims'[u]).amount]_vars

-----------------------------------------------------------------------------
(* What the documents and comments say, and the code does not keep *)

\* contract.rs: "tried to undelegate non-existent stake" (an expect) and the
\* subtraction it guards cannot fail when reinvest undelegates by weight.
NoUndelegationPanic ==
    NoSlash /\ ~Lagging /\ now >= next_epoch /\ Loads /\ balance + Withdrawn # 0 /\ UndelegationDue
        => UndelegationFits

\* contract.rs, check_slash: it updates the pending claims, "but only the part
\* that is actually unbonding": when a slash is found, what is unbonding is part
\* of the claims, so subtracting it from them cannot underflow.
UnbondingIsClaimed ==
    CheckSlashLoads /\ slashes > 0 /\ SlashedValidators # {} => CleanSupply.total_unbonding <= supply.claims
=============================================================================
