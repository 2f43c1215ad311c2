---------------------------- MODULE EpochSchedule ----------------------------
(***************************************************************************)
(* When the hub may reinvest and undelegate, without the amounts.  Both    *)
(* happen on grids of times that keep their rhythm however late somebody   *)
(* calls reinvest; LsdHub is checked to implement this module.             *)
(***************************************************************************)
EXTENDS Epochs, FiniteSets

CONSTANTS
    EpochPeriod, UnbondPeriod, MaxConcurrentUnbondings,
    MaxTime              \* bound: last block time

\* the checks of instantiate
ASSUME ScheduleAssumption ==
    /\ EpochPeriod \in Nat \ {0}
    /\ UnbondPeriod \in Nat \ {0}
    /\ MaxConcurrentUnbondings \in Nat \ {0}
    /\ MaxTime \in Nat

VARIABLES
    now,
    next_epoch, next_unbond,
    pending     \* when the undelegations that have not matured will do so
vars == <<now, next_epoch, next_unbond, pending>>

UnbondEpochLength == UnbondEpoch(UnbondPeriod, MaxConcurrentUnbondings)

Init ==
    /\ now = 0
    /\ next_epoch = now + EpochPeriod
    /\ next_unbond = next_epoch
    /\ pending = {}

NextBlock ==
    /\ now < MaxTime
    /\ now' = now + 1
    /\ pending' = {t \in pending : t > now'}
    /\ UNCHANGED <<next_epoch, next_unbond>>

Reinvest ==
    /\ now >= next_epoch
    /\ next_epoch' = NextAfter(next_epoch, EpochPeriod, now)
    /\ UNCHANGED <<now, next_unbond, pending>>

\* a reinvest that misses liquidity
ReinvestUndelegate ==
    /\ now >= next_epoch /\ now >= next_unbond
    /\ next_epoch' = NextAfter(next_epoch, EpochPeriod, now)
    /\ next_unbond' = NextAfter(next_unbond, UnbondEpochLength, now)
    /\ pending' = pending \cup {now + UnbondPeriod}
    /\ UNCHANGED now

Next == NextBlock \/ Reinvest \/ ReinvestUndelegate

Spec == Init /\ [][Next]_vars

-----------------------------------------------------------------------------

\* the cell of the unbonding grid an undelegation was started in
Cell(t) == (t - UnbondPeriod - EpochPeriod) \div UnbondEpochLength

\* The grids keep their rhythm (next_epoch_after, next_unbond_after: "making
\* sure it keeps the same rythm even if we don't call immediately"), whatever
\* blocks and epochs went by without a call.
RhythmKept ==
    /\ next_epoch % EpochPeriod = 0
    /\ (next_unbond - EpochPeriod) % UnbondEpochLength = 0

\* No two undelegations start in the same cell of the unbonding grid, and the
\* next one may not start in the cell of one that is pending.
OnePerCell ==
    \A s \in pending :
        /\ \A t \in pending : Cell(s) = Cell(t) => s = t
        /\ s - UnbondPeriod < next_unbond
        /\ (next_unbond - EpochPeriod) \div UnbondEpochLength > Cell(s)

\* The unbonding queue never holds more than one undelegation above
\* max_concurrent_unbondings: that many cells an unbonding period can touch.
QueueBounded == Cardinality(pending) <= MaxConcurrentUnbondings + 1

=============================================================================
