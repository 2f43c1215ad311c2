------------------------------- MODULE Epochs -------------------------------
(***************************************************************************)
(* The two grids of times at which the hub may act (lsd-hub/src/state.rs,  *)
(* Config::next_epoch_after, next_unbond_after, unbond_epoch, div_ceil).   *)
(***************************************************************************)
EXTENDS Integers

\* mutant
MutDivCeil(numerator, denominator) == numerator \div denominator

DivCeil(numerator, denominator) ==
    (numerator \div denominator) + IF numerator % denominator > 0 THEN 1 ELSE 0

\* mutants
MutNextAfterDrift(next, period, now) == now + period
MutNextAfterShort(next, period, now) == next + ((now - next) \div period) * period

\* the point of the grid next, next + period, ... that is the first after now;
\* both methods return EpochNotReached when now < next
NextAfter(next, period, now) == next + ((now - next) \div period + 1) * period

UnbondEpoch(unbond_period, max_concurrent_unbondings) ==
    DivCeil(unbond_period, max_concurrent_unbondings)

\* mutant
MutReleaseAt(next_epoch, next_unbond, unbond_period) == next_unbond + unbond_period

\* when a claim made now is released: next_unbond is only moved by an
\* undelegation, so it may lie behind next_epoch
ReleaseAt(next_epoch, next_unbond, unbond_period) ==
    (IF next_unbond >= next_epoch THEN next_unbond ELSE next_epoch) + unbond_period

=============================================================================
