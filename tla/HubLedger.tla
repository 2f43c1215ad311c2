----------------------------- MODULE HubLedger -----------------------------
(***************************************************************************)
(* What lsd-hub promises, stated on totals only: which validator, user or  *)
(* unbonding an amount belongs to, and when each operation is allowed, is  *)
(* left open.  Once a validator has been slashed, what the chain has and   *)
(* what the contract has stored of it go ways of their own.  LsdHub        *)
(* implements this module (module HubRefinement), and the theorems of      *)
(* module LedgerProofs hold for it with any amounts.                       *)
(***************************************************************************)
EXTENDS Supply

CONSTANTS
    Commission,       \* Config.commission
    Deposits,         \* amounts that may be bonded
    MaxAmount,        \* bound: tokens of the hub after a deposit or a reward
    BookedAmounts,    \* bound: amounts in the books
    MaxSlashes        \* bound: slashes

ASSUME LedgerAssumption ==
    /\ Commission \in 0..DecimalOne
    /\ Deposits \subseteq Nat /\ BookedAmounts \subseteq Nat
    /\ MaxAmount \in Nat /\ MaxSlashes \in Nat

VARIABLES
    supply,      \* SUPPLY
    shares,      \* LSD tokens in the hands of users
    owed,        \* sum of the users' claims
    stored,      \* sum of UNBONDING
    mature,      \* the part of it that has expired
    forgotten,   \* sum of what was deleted from it without saving SUPPLY
    balance,     \* the hub's bank balance
    delegated,   \* its stake on the chain
    queued,      \* what the chain has in its unbonding queue
    due,         \* the part of it that has expired and is paid with the block
    unclaimed,   \* rewards not withdrawn
    slashes      \* slashes by the chain

books == <<supply, shares, owed, stored, mature, forgotten>>
chain == <<delegated, queued, due, unclaimed, slashes>>
vars == <<books, balance, chain>>

NoSlash == slashes = 0

LedgerTypeOK ==
    /\ supply \in SupplyType
    /\ shares \in Nat /\ owed \in Nat
    /\ stored \in Nat /\ mature \in Nat /\ forgotten \in Nat
    /\ balance \in Nat /\ delegated \in Nat
    /\ queued \in Nat /\ due \in Nat /\ unclaimed \in Nat
    /\ slashes \in Nat

Init ==
    /\ supply = NewSupply
    /\ shares = 0 /\ owed = 0
    /\ stored = 0 /\ mature = 0 /\ forgotten = 0
    /\ balance = 0 /\ delegated = 0 /\ queued = 0 /\ due = 0 /\ unclaimed = 0
    /\ slashes = 0

-----------------------------------------------------------------------------

Loads == mature <= supply.total_unbonding
CleanSupply == Cleaned(supply, mature)
AllTokens == balance + queued + delegated + unclaimed

\* mutant
MutDropMature == stored' = stored - mature /\ UNCHANGED mature

DropMature == stored' = stored - mature /\ mature' = 0

Bond(paid) ==
    /\ Loads /\ Assets(CleanSupply, balance) >= 0
    /\ supply' = AfterBond(CleanSupply, balance, paid)
    /\ shares' = shares + SharesFor(CleanSupply, balance, paid)
    /\ balance' = balance + paid
    /\ DropMature
    /\ UNCHANGED <<owed, forgotten, chain>>

Unbond(amount) ==
    /\ Loads /\ RateFits(CleanSupply, balance)
    /\ amount <= supply.issued
    /\ supply' = AfterUnbond(CleanSupply, balance, amount)
    /\ shares' = shares - amount
    /\ owed' = owed + NativeFor(CleanSupply, balance, amount)
    /\ DropMature
    /\ UNCHANGED <<forgotten, balance, chain>>

\* pays `amount` for claims of `settled`: less only after a slash, or after the
\* totals went wrong
Claim(amount, settled) ==
    /\ amount <= balance /\ amount <= supply.claims
    /\ amount <= settled /\ settled <= owed
    /\ NoSlash /\ forgotten = 0 => settled = amount
    /\ supply' = AfterClaim(supply, amount)
    /\ owed' = owed - settled
    /\ balance' = balance - amount
    /\ UNCHANGED <<shares, stored, mature, forgotten, chain>>

\* a transaction that deletes the mature unbondings and does not save SUPPLY
Forget ==
    /\ Loads
    /\ DropMature
    /\ forgotten' = forgotten + mature
    /\ UNCHANGED <<supply, shares, owed, balance, chain>>

\* Reinvest, `withdrawn` of the rewards by its messages, `extra` by the chain
Liquid(withdrawn) == balance + withdrawn - MulFloor(withdrawn, Commission)
Coverage(withdrawn) == Liquid(withdrawn) + CleanSupply.total_unbonding

Collect(withdrawn, extra) ==
    /\ Loads
    /\ withdrawn + extra <= unclaimed
    /\ unclaimed' = unclaimed - withdrawn - extra

Delegate(withdrawn, extra) ==
    LET surplus == Coverage(withdrawn) - supply.claims
    IN  /\ Collect(withdrawn, extra)
        /\ surplus > 0 /\ surplus <= Liquid(withdrawn)
        /\ supply' = [CleanSupply EXCEPT !.total_bonded = @ + surplus]
        /\ balance' = Liquid(withdrawn) - surplus + extra
        /\ delegated' = delegated + surplus
        /\ DropMature
        /\ UNCHANGED <<shares, owed, forgotten, queued, due, slashes>>

Undelegate(withdrawn, extra, amount) ==
    /\ Collect(withdrawn, extra)
    /\ amount <= supply.claims - Coverage(withdrawn)
    /\ amount <= supply.total_bonded /\ amount <= delegated
    /\ supply' = [CleanSupply EXCEPT !.total_bonded = @ - amount, !.total_unbonding = @ + amount]
    /\ balance' = Liquid(withdrawn) + extra
    /\ delegated' = delegated - amount
    /\ queued' = queued + amount
    /\ stored' = stored - mature + amount /\ mature' = 0
    /\ UNCHANGED <<shares, owed, forgotten, due, slashes>>

\* Reinvest that only collects, SetValidators with its redelegations
Keep(withdrawn, extra) ==
    /\ Collect(withdrawn, extra)
    /\ supply' = CleanSupply
    /\ balance' = Liquid(withdrawn) + extra
    /\ DropMature
    /\ UNCHANGED <<shares, owed, forgotten, delegated, queued, due, slashes>>

\* CheckSlash with a finding: `left` is what it counts of the stake, `new` of
\* UNBONDING.  Without a slash (on dust) it only counts UNBONDING again.
Book(left, new) ==
    LET old == CleanSupply.total_unbonding
        counted == [CleanSupply EXCEPT !.total_bonded = left, !.total_unbonding = new]
    IN  /\ Loads
        /\ left <= supply.total_bonded /\ new <= old
        /\ NoSlash => left = supply.total_bonded /\ new = stored - mature
        /\ supply' = IF old = 0 THEN counted ELSE [counted EXCEPT !.claims = (@ - old) + new]
        /\ old <= supply.claims \/ old = 0
        /\ stored' = new /\ mature' = 0
        /\ UNCHANGED <<shares, owed, forgotten, balance, chain>>

Earn(amount) ==
    /\ AllTokens + amount <= MaxAmount
    /\ unclaimed' = unclaimed + amount
    /\ UNCHANGED <<books, balance, delegated, queued, due, slashes>>

\* the chain takes a part of the stake, and of what it has in the queue
Slash(stake, waiting, paying) ==
    /\ slashes < MaxSlashes
    /\ stake <= delegated /\ waiting <= queued - due /\ paying <= due
    /\ delegated' = stake
    /\ queued' = waiting + paying /\ due' = paying
    /\ slashes' = slashes + 1
    /\ UNCHANGED <<books, balance, unclaimed>>

\* the end of a block pays what is due; in the next one `maturing` expires, which
\* the chain has as `coming`
NextBlock(maturing, coming) ==
    /\ maturing <= stored - mature /\ coming <= queued - due
    /\ NoSlash => coming = maturing
    /\ balance' = balance + due
    /\ queued' = queued - due
    /\ due' = coming
    /\ mature' = mature + maturing
    /\ UNCHANGED <<supply, shares, owed, stored, forgotten, delegated, unclaimed, slashes>>

-----------------------------------------------------------------------------

\* a transaction or a reward
Operation ==
    \/ \E paid \in Deposits : AllTokens + paid <= MaxAmount /\ Bond(paid)
    \/ \E amount \in 1..shares : Unbond(amount)
    \/ \E amount \in 1..balance : \E settled \in amount..owed : Claim(amount, settled)
    \/ Forget
    \/ \E withdrawn \in 0..unclaimed : \E extra \in 0..(unclaimed - withdrawn) :
          \/ Delegate(withdrawn, extra)
          \/ \E amount \in 0..supply.total_bonded : Undelegate(withdrawn, extra, amount)
          \/ Keep(withdrawn, extra)
    \/ \E amount \in 1..MaxAmount : Earn(amount)

\* a slash, and a check that books one
AnySlash ==
    \E stake \in 0..delegated, waiting \in 0..(queued - due), paying \in 0..due :
        Slash(stake, waiting, paying)

AnyBook ==
    \E left \in 0..supply.total_bonded, new \in 0..supply.total_unbonding : Book(left, new)

AnyBlock ==
    \E maturing \in 0..(stored - mature), coming \in 0..(queued - due) : NextBlock(maturing, coming)

\* the bound: after a slash the chain pays what the books still wait for, so they
\* could grow for ever
Bounded ==
    /\ \A field \in DOMAIN supply : supply[field] \in BookedAmounts
    /\ owed \in BookedAmounts /\ forgotten \in BookedAmounts

Next == (Operation \/ AnySlash \/ AnyBook \/ AnyBlock) /\ Bounded'

Spec == Init /\ [][Next]_vars

-----------------------------------------------------------------------------

\* The shares are those of the users, and the total kept for UNBONDING is never
\* below its sum, nor above it by more than what was forgotten.  While nobody
\* was slashed the totals are also those of the chain, and what users are owed is
\* in `claims` but for what was forgotten.
BooksMatch ==
    /\ supply.issued = shares
    /\ stored <= supply.total_unbonding /\ supply.total_unbonding <= stored + forgotten
    /\ NoSlash =>
        /\ supply.total_bonded = delegated
        /\ stored - mature = queued - due
        /\ owed + (supply.total_unbonding - stored) <= supply.claims + forgotten
        /\ forgotten = 0 => owed = supply.claims

\* Everything promised to users who unbonded is backed by tokens of the hub, but
\* for what transactions deleted from UNBONDING without saving the total.
LedgerSolvent ==
    NoSlash => supply.claims <= balance + delegated + queued + forgotten

QueryAssets == Assets(CleanSupply, balance)

\* No operation lowers the assets per share, whatever was slashed before and
\* is not booked yet; a slash itself does not, nor a check that has none to book.
\* Booking a slash may, and the passage of time.
RateStep == QueryAssets' * supply.issued >= QueryAssets * supply.issued'
LedgerRateKept == [][Operation \/ AnySlash \/ (NoSlash /\ AnyBook) => RateStep]_vars

\* the inductive invariant
LedgerInv ==
    /\ LedgerTypeOK
    /\ BooksMatch
    /\ mature <= stored /\ due <= queued
    /\ LedgerSolvent

=============================================================================
