---------------------------- MODULE HubRefinement ----------------------------
(***************************************************************************)
(* LsdHub implements HubLedger: adding up the validators, the users and    *)
(* the unbondings turns every step of the contract and of the chain,       *)
(* slashes included, into a step of the ledger or into no step at all.     *)
(***************************************************************************)
EXTENDS HubProperties

\* the ledger, with what is proved about it
Ledger == INSTANCE LedgerProofs WITH
    BookedAmounts <- Nat,
    MaxAmount <- MaxTokens,
    shares <- SumFunction(tokens),
    owed <- Owed,
    stored <- Total(unbonding),
    mature <- Freed,
    delegated <- AllDelegations,
    queued <- Total(queue),
    due <- Total(Mature(queue)),
    unclaimed <- SumFunction(rewards)

\* Every behaviour of the contract is one of the ledger: its transactions move
\* the totals in no other way, before a slash and after it, so the theorems about
\* the ledger apply to the contract.
ImplementsLedger == Ledger!Spec

\* the schedule of the epochs, with what is proved about it
Schedule == INSTANCE EpochProofs WITH pending <- {t \in DOMAIN unbonding : t > now}

\* The contract reinvests and undelegates on the grids of the schedule, and the
\* unbondings it waits for are those the schedule started: what is checked of
\* the schedule holds for the contract.
ImplementsSchedule == Schedule!Spec

-----------------------------------------------------------------------------
(* The inductive invariant of the contract, slashes included *)

\* an undelegation that starts now gets an expiry time of its own
ExpiriesBehind ==
    \A t \in DOMAIN unbonding \cup DOMAIN queue : t < next_unbond + UnbondPeriod

\* a recorded slash is a loss, and one found without a slash is none, unless
\* the totals went wrong before
SlashingsFair ==
    \A i \in DOMAIN slashings :
        /\ slashings[i].multiplier <= DecimalOne
        /\ NoSlash /\ forgotten = 0 => slashings[i].multiplier = DecimalOne

StakeKnown == \A v \in Validators : AmountAt(bonded, v) = delegations[v]

\* What the books and the chain have in common in every state: inductive by
\* itself, and whoever holds the LSD tokens.
BooksInv ==
    /\ TypeOK
    /\ TotalBondedIsSum /\ UnbondingAccounted
    /\ ExpiriesBehind /\ SlashingsFair
    /\ NoSlash => StakeKnown /\ UnbondingIsQueued

\* Together with the ledger.
HubInv == BooksInv /\ Ledger!LedgerInv

=============================================================================
