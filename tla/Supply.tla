------------------------------- MODULE Supply -------------------------------
(***************************************************************************)
(* The accounting record of the hub (lsd-hub/src/state.rs, Supply and      *)
(* CleanedSupply) and the exchange rate computed from it.  Every operator  *)
(* is pure; the bank balance is the hub's liquid balance of the staking    *)
(* token, queried from the chain.                                          *)
(***************************************************************************)
EXTENDS Decimals

\* bond_denom never changes and is left out
SupplyType == [issued : Nat, total_bonded : Nat, claims : Nat, total_unbonding : Nat]

NewSupply == [issued |-> 0, total_bonded |-> 0, claims |-> 0, total_unbonding |-> 0]

\* mutant
MutAssets(supply, balance) == supply.total_bonded + supply.total_unbonding + balance

\* what backs the LSD tokens; in the code a Uint128, so a negative value panics
Assets(supply, balance) ==
    supply.total_bonded + supply.total_unbonding + balance - supply.claims

TokensPerShare(supply, balance) ==
    IF supply.issued = 0 THEN DecimalOne
                         ELSE FromRatio(Assets(supply, balance), supply.issued)

SharesPerToken(supply, balance) ==
    IF Assets(supply, balance) = 0 THEN DecimalOne
                                   ELSE FromRatio(supply.issued, Assets(supply, balance))

\* the supply without the unbondings that have matured
Cleaned(supply, freed) == [supply EXCEPT !.total_unbonding = @ - freed]

\* mutant
MutSharesFor(supply, balance, paid) == MulFloor(paid, SharesPerToken(supply, balance)) + 1

\* Bond: the shares minted for `paid` tokens, at the rate before they came in
SharesFor(supply, balance, paid) == MulFloor(paid, SharesPerToken(supply, balance))

\* Unbond: the native amount promised for `amount` shares
NativeFor(supply, balance, amount) == MulFloor(amount, TokensPerShare(supply, balance))

\* tokens_per_share only reads the assets when shares have been issued
RateFits(supply, balance) == supply.issued = 0 \/ Assets(supply, balance) >= 0

\* mutant: the payment is counted, not the shares
MutAfterBond(supply, balance, paid) == [supply EXCEPT !.issued = @ + paid]

AfterBond(supply, balance, paid) ==
    [supply EXCEPT !.issued = @ + SharesFor(supply, balance, paid)]

\* mutant: the shares are burnt before the rate is read
MutAfterUnbond(supply, balance, amount) ==
    LET burnt == [supply EXCEPT !.issued = @ - amount]
    IN  [burnt EXCEPT !.claims = @ + NativeFor(burnt, balance, amount)]

\* Unbond: the native amount is owed, the shares are gone
AfterUnbond(supply, balance, amount) ==
    [supply EXCEPT !.issued = @ - amount,
                   !.claims = @ + NativeFor(supply, balance, amount)]

AfterClaim(supply, amount) == [supply EXCEPT !.claims = @ - amount]

=============================================================================
