------------------------------ MODULE Decimals ------------------------------
(***************************************************************************)
(* The fixed point arithmetic the contracts take from cosmwasm_std: a      *)
(* Decimal is a natural number of atoms, DecimalOne of them being 1.       *)
(* cosmwasm_std has 10^18 atoms; the model keeps the number of atoms a     *)
(* parameter, so that what is proved holds for 10^18 and TLC's 32 bit      *)
(* integers can still run it.                                              *)
(***************************************************************************)
EXTENDS Integers

CONSTANT DecimalOne   \* atoms of the decimal 1 (10^18 in cosmwasm_std)

ASSUME DecimalOneAssumption == DecimalOne \in Nat \ {0}

\* Uint128::mul_floor: the product, rounded down
MulFloor(amount, decimal) == (amount * decimal) \div DecimalOne

\* Decimal::from_ratio: the quotient, rounded down to an atom (panics on 0)
FromRatio(numerator, denominator) == (numerator * DecimalOne) \div denominator

\* Uint128::saturating_sub
SaturatingSub(a, b) == IF a > b THEN a - b ELSE 0

=============================================================================
