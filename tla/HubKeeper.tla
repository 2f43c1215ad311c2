------------------------------ MODULE HubKeeper ------------------------------
(***************************************************************************)
(* LsdHub with somebody who calls reinvest: at most KeeperDelay after every *)
(* epoch is reached.  Users bond and unbond up to a time, then only claim. *)
(***************************************************************************)
EXTENDS MCHub

CONSTANTS
    KeeperDelay,     \* how late reinvest may be called
    LastRequest,     \* the last time users bond or unbond
    MaxBonded,       \* bound: tokens of the hub after a deposit, so that rewards fit MaxTokens
    Prudent          \* whether the keeper waits for the EndBlocker and for rewards

ASSUME KeeperAssumption ==
    /\ KeeperDelay \in Nat /\ LastRequest \in Nat /\ MaxBonded \in Nat
    /\ Prudent \in BOOLEAN

Request ==
    /\ now <= LastRequest
    /\ \E u \in Users :
        \/ \E paid \in Deposits : AllTokens + paid <= MaxBonded /\ Bond(u, paid)
        \/ \E amount \in UnbondAmounts \cup {tokens[u]} : Unbond(u, amount)

Settle(u) == ClaimMature(u)

Keep ==
    /\ Prudent => ~Lagging /\ balance + Withdrawn > 0
    /\ Reinvest

\* one reward at a time: what matters is whether there is any
Accrue ==
    /\ SumFunction(rewards) = 0
    /\ \E v \in Validators : \E amount \in Rewards : Earn(v, amount)

\* time passes as far as the keeper's promise lets it: a call that fails does
\* not hold it up; a prudent keeper can count on rewards in every block
Block ==
    /\ Prudent /\ AllDelegations > 0 => SumFunction(rewards) > 0
    /\ now < next_epoch + KeeperDelay \/ ~ENABLED Keep
    /\ NextBlock

KeeperNext == Request \/ (\E u \in Users : Settle(u)) \/ Keep \/ Accrue \/ Block

\* Blocks go on, validators earn, the keeper keeps its promise and users come
\* for their claims.
KeeperFairness ==
    /\ SF_vars(Block) /\ WF_vars(Accrue) /\ WF_vars(Keep)
    /\ \A u \in Users : WF_vars(Settle(u))

KeeperSpec == Init /\ [][KeeperNext]_vars /\ KeeperFairness

-----------------------------------------------------------------------------

\* the longest a claim can wait for its unbonding after it was released: the
\* first epoch at which unbonding is allowed, a late call, the EndBlocker
Slack == EpochPeriod + KeeperDelay

AmountOf(claims) == SumFunction([i \in DOMAIN claims |-> claims[i].amount])
Released(u) == SelectSeq(user_claims[u], LAMBDA c : c.release_at <= now)
ReleasedAmount == SumFunction([u \in Users |-> AmountOf(Released(u))])

\* what the staking module pays within that time
ComingSoon == Total(Restrict(queue, {t \in DOMAIN queue : t <= now + Slack}))

\* The claims that are released, those of all users together, are covered by
\* what is liquid and what is unbonding and arrives within Slack: claims that
\* compete for the balance (unbond: "this might be a little tight") compete for
\* time only, whoever is paid first.
ReleasedClaimsComing == ReleasedAmount <= balance + ComingSoon

\* Once users stop asking, every claim of every user is paid.
ClaimsSettle == <>[](Owed = 0)
=============================================================================
