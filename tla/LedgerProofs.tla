---------------------------- MODULE LedgerProofs ----------------------------
(***************************************************************************)
(* Proofs about HubLedger, for all deposits, rewards and roundings: the    *)
(* inductive invariant LedgerInv, from it the type invariant and solvency, *)
(* and that no operation lowers the assets per share.                      *)
(***************************************************************************)
EXTENDS HubLedger, SupplyLemmas

\* The constants have the types their assumptions say.
LEMMA ConstantTypes ==
    /\ DecimalOne \in Nat \ {0} /\ Commission \in 0..DecimalOne
    /\ Deposits \subseteq Nat
  BY DecimalOneAssumption, LedgerAssumption

\* The supply a handler loads: the matured amounts are taken off, nothing else.
LEMMA CleanedType ==
    ASSUME LedgerTypeOK, Loads
    PROVE  /\ CleanSupply \in SupplyType
           /\ CleanSupply.issued = supply.issued
           /\ CleanSupply.total_bonded = supply.total_bonded
           /\ CleanSupply.claims = supply.claims
           /\ CleanSupply.total_unbonding = supply.total_unbonding - mature
  BY SMT DEF LedgerTypeOK, Loads, CleanSupply, Cleaned, SupplyType

\* The commission never takes more than what was withdrawn.
LEMMA LiquidAtLeast ==
    ASSUME NEW withdrawn \in Nat, balance \in Nat
    PROVE  Liquid(withdrawn) \in Nat /\ Liquid(withdrawn) >= balance
  <1>1. MulFloor(withdrawn, Commission) \in Nat
    BY MulFloorType, ConstantTypes, Commission \in Nat, SMT
  <1>2. MulFloor(withdrawn, Commission) <= withdrawn
    BY MulFloorAtMost, ConstantTypes
  <1> QED
    BY <1>1, <1>2, SMT DEF Liquid

\* The initial state satisfies the invariant.
LEMMA InitInv == Init => LedgerInv
  BY SMT DEF Init, LedgerInv, LedgerTypeOK, BooksMatch, LedgerSolvent, NewSupply, SupplyType

\* Bonding issues shares and changes neither claims nor stake.
LEMMA BondInv ==
    ASSUME LedgerInv, NEW paid \in Deposits, Bond(paid)
    PROVE  LedgerInv'
  <1> DEFINE minted == SharesFor(CleanSupply, balance, paid)
  <1>1. paid \in Nat /\ balance \in Nat
    BY ConstantTypes DEF LedgerInv, LedgerTypeOK
  <1>2. CleanSupply \in SupplyType /\ CleanSupply.total_bonded = supply.total_bonded
        /\ CleanSupply.claims = supply.claims /\ CleanSupply.issued = supply.issued
        /\ CleanSupply.total_unbonding = supply.total_unbonding - mature
    BY CleanedType DEF LedgerInv, Bond
  <1>3. minted \in Nat
    BY <1>1, <1>2, SharesForBounds DEF Bond
  <1>4. supply' = [CleanSupply EXCEPT !.issued = @ + minted] /\ shares' = shares + minted
    BY DEF Bond, AfterBond
  <1> HIDE DEF minted
  <1>5. supply' \in SupplyType /\ supply'.issued = supply.issued + minted
        /\ supply'.total_bonded = supply.total_bonded /\ supply'.claims = supply.claims
        /\ supply'.total_unbonding = supply.total_unbonding - mature
    BY <1>2, <1>3, <1>4, SMT DEF SupplyType
  <1> QED
    BY <1>1, <1>3, <1>4, <1>5, SMT
    DEF LedgerInv, LedgerTypeOK, BooksMatch, LedgerSolvent, Bond, DropMature, Loads, SupplyType, NoSlash,
        chain

\* Unbonding promises at most the assets, so the claims stay backed.
LEMMA UnbondInv ==
    ASSUME LedgerInv, NEW amount \in 1..shares, Unbond(amount)
    PROVE  LedgerInv'
  <1> DEFINE native == NativeFor(CleanSupply, balance, amount)
  <1>1. amount \in Nat /\ balance \in Nat /\ supply \in SupplyType
    BY ConstantTypes DEF LedgerInv, LedgerTypeOK
  <1>2. CleanSupply \in SupplyType /\ CleanSupply.total_bonded = supply.total_bonded
        /\ CleanSupply.claims = supply.claims /\ CleanSupply.issued = supply.issued
        /\ CleanSupply.total_unbonding = supply.total_unbonding - mature
    BY CleanedType DEF LedgerInv, Unbond
  <1>3. amount \in 0..CleanSupply.issued
    BY <1>1, <1>2, SMT DEF Unbond, SupplyType
  <1>4. native \in Nat
    BY <1>1, <1>2, <1>3, NativeForBounds DEF Unbond
  <1>5. native <= Assets(CleanSupply, balance) \/ native = 0
    <2>1. CASE CleanSupply.issued > 0
      BY <2>1, <1>1, <1>2, <1>3, NativeForBounds DEF Unbond
    <2>2. CASE CleanSupply.issued = 0
      <3>1. native = MulFloor(0, DecimalOne)
        BY <2>2, <1>3, SMT DEF NativeFor, TokensPerShare
      <3>2. MulFloor(0, DecimalOne) \in Nat /\ MulFloor(0, DecimalOne) <= 0
        <4>1. 0 \in Nat /\ DecimalOne \in Nat /\ DecimalOne \in 0..DecimalOne
          BY ConstantTypes, SMT
        <4> QED
          BY <4>1, MulFloorType, MulFloorAtMost
      <3> HIDE DEF native
      <3> QED
        BY <3>1, <3>2, SMT
    <2> QED
      BY <2>1, <2>2, <1>2, SMT DEF SupplyType
  <1>6. supply' = [CleanSupply EXCEPT !.issued = @ - amount, !.claims = @ + native]
        /\ owed' = owed + native
    BY DEF Unbond, AfterUnbond
  <1> HIDE DEF native
  <1>7. supply' \in SupplyType /\ supply'.issued = supply.issued - amount
        /\ supply'.total_bonded = supply.total_bonded /\ supply'.claims = supply.claims + native
        /\ supply'.total_unbonding = supply.total_unbonding - mature
    <2> DEFINE x == CleanSupply.issued - amount
               y == CleanSupply.claims + native
    <2>1. x \in Nat /\ y \in Nat
      BY <1>2, <1>3, <1>4, SMT DEF SupplyType
    <2>2. supply' = [CleanSupply EXCEPT !.issued = x, !.claims = y]
      BY <1>6
    <2> HIDE DEF x, y
    <2>3. supply' \in SupplyType /\ supply'.issued = x /\ supply'.claims = y
          /\ supply'.total_bonded = CleanSupply.total_bonded /\ supply'.total_unbonding = CleanSupply.total_unbonding
      BY <1>2, <2>1, <2>2 DEF SupplyType
    <2> QED
      BY <1>2, <2>3, SMT DEF x, y
  <1>8. LedgerTypeOK' /\ BooksMatch' /\ mature' <= stored' /\ due' <= queued'
    BY <1>1, <1>4, <1>6, <1>7, SMT
    DEF LedgerInv, LedgerTypeOK, BooksMatch, Unbond, DropMature, Loads, SupplyType, NoSlash, chain
  <1>9. LedgerSolvent'
    <2> SUFFICES ASSUME NoSlash
                 PROVE  supply'.claims <= balance + delegated + queued + forgotten
      BY SMT DEF LedgerSolvent, Unbond, chain, NoSlash
    <2>1. supply.total_unbonding - mature <= queued + forgotten
      BY SMT DEF LedgerInv, LedgerTypeOK, BooksMatch, SupplyType
    <2>2. supply.total_bonded = delegated /\ supply.claims <= balance + delegated + queued + forgotten
      BY DEF LedgerInv, BooksMatch, LedgerSolvent
    <2>3. Assets(CleanSupply, balance) =
            supply.total_bonded + (supply.total_unbonding - mature) + balance - supply.claims
      BY <1>2 DEF Assets
    <2> QED
      BY <1>1, <1>4, <1>5, <1>7, <2>1, <2>2, <2>3, SMT DEF LedgerInv, LedgerTypeOK, SupplyType
  <1> QED
    BY <1>8, <1>9 DEF LedgerInv

\* A claim takes what it pays from the balance and from the claims.
LEMMA ClaimInv ==
    ASSUME LedgerInv, NEW amount \in 1..balance, NEW settled \in amount..owed,
           Claim(amount, settled)
    PROVE  LedgerInv'
  <1>1. supply' \in SupplyType /\ supply'.issued = supply.issued
        /\ supply'.total_bonded = supply.total_bonded /\ supply'.claims = supply.claims - amount
        /\ supply'.total_unbonding = supply.total_unbonding
    BY SMT DEF LedgerInv, LedgerTypeOK, Claim, AfterClaim, SupplyType
  <1>2. /\ owed' = owed - settled /\ balance' = balance - amount
        /\ amount <= balance /\ amount <= settled /\ settled <= owed /\ amount <= supply.claims
        /\ NoSlash /\ forgotten = 0 => settled = amount
        /\ UNCHANGED <<shares, stored, mature, forgotten, delegated, queued, due, unclaimed, slashes>>
    BY DEF Claim, chain
  <1>3. amount \in Nat /\ settled \in Nat
    BY <1>2, SMT DEF LedgerInv, LedgerTypeOK
  <1>4. LedgerTypeOK' /\ mature' <= stored' /\ due' <= queued'
    BY <1>1, <1>2, <1>3, SMT DEF LedgerInv, LedgerTypeOK, SupplyType
  <1>5. LedgerSolvent'
    BY <1>1, <1>2, <1>3, SMT DEF LedgerInv, LedgerTypeOK, LedgerSolvent, SupplyType, NoSlash
  <1>6. BooksMatch'
    BY <1>1, <1>2, <1>3, SMT DEF LedgerInv, LedgerTypeOK, BooksMatch, SupplyType, NoSlash
  <1> QED
    BY <1>4, <1>5, <1>6 DEF LedgerInv

\* What a transaction deletes without saving is what `forgotten` counts.
LEMMA ForgetInv ==
    ASSUME LedgerInv, Forget
    PROVE  LedgerInv'
  BY SMT DEF LedgerInv, LedgerTypeOK, BooksMatch, LedgerSolvent, Forget, DropMature, Loads,
             SupplyType, NoSlash, chain

\* Delegating moves the surplus from the balance to the stake.
LEMMA DelegateInv ==
    ASSUME LedgerInv, NEW withdrawn \in Nat, NEW extra \in Nat, Delegate(withdrawn, extra)
    PROVE  LedgerInv'
  <1> DEFINE surplus == Coverage(withdrawn) - supply.claims
  <1>1. Liquid(withdrawn) \in Nat /\ Liquid(withdrawn) >= balance
    BY LiquidAtLeast DEF LedgerInv, LedgerTypeOK
  <1>2. CleanSupply \in SupplyType /\ CleanSupply.total_bonded = supply.total_bonded
        /\ CleanSupply.claims = supply.claims /\ CleanSupply.issued = supply.issued
        /\ CleanSupply.total_unbonding = supply.total_unbonding - mature
    BY CleanedType DEF LedgerInv, Delegate, Collect
  <1>3. surplus \in Nat /\ surplus <= Liquid(withdrawn)
    BY <1>1, <1>2, SMT DEF Delegate, Coverage, SupplyType
  <1>4. supply' = [CleanSupply EXCEPT !.total_bonded = @ + surplus]
        /\ delegated' = delegated + surplus /\ balance' = Liquid(withdrawn) - surplus + extra
    BY DEF Delegate
  <1> HIDE DEF surplus
  <1>5. supply' \in SupplyType /\ supply'.issued = supply.issued
        /\ supply'.total_bonded = supply.total_bonded + surplus
        /\ supply'.claims = supply.claims
        /\ supply'.total_unbonding = supply.total_unbonding - mature
    BY <1>2, <1>3, <1>4, SMT DEF SupplyType
  <1> QED
    BY <1>1, <1>3, <1>4, <1>5, SMT
    DEF LedgerInv, LedgerTypeOK, BooksMatch, LedgerSolvent, Delegate, Collect, DropMature, Loads,
        SupplyType, NoSlash

\* Undelegating moves stake to the unbonding queue and to its total.
LEMMA UndelegateInv ==
    ASSUME LedgerInv, NEW withdrawn \in Nat, NEW extra \in Nat, NEW amount \in Nat,
           Undelegate(withdrawn, extra, amount)
    PROVE  LedgerInv'
  <1>1. Liquid(withdrawn) \in Nat /\ Liquid(withdrawn) >= balance
    BY LiquidAtLeast DEF LedgerInv, LedgerTypeOK
  <1>2. CleanSupply \in SupplyType /\ CleanSupply.total_bonded = supply.total_bonded
        /\ CleanSupply.claims = supply.claims /\ CleanSupply.issued = supply.issued
        /\ CleanSupply.total_unbonding = supply.total_unbonding - mature
    BY CleanedType DEF LedgerInv, Undelegate, Collect
  <1>3. supply' \in SupplyType /\ supply'.issued = supply.issued
        /\ supply'.total_bonded = supply.total_bonded - amount
        /\ supply'.claims = supply.claims
        /\ supply'.total_unbonding = supply.total_unbonding - mature + amount
    <2> DEFINE x == CleanSupply.total_bonded - amount
               y == CleanSupply.total_unbonding + amount
    <2>1. x \in Nat /\ y \in Nat
      BY <1>2, SMT DEF SupplyType, Undelegate
    <2>2. supply' = [CleanSupply EXCEPT !.total_bonded = x, !.total_unbonding = y]
      BY DEF Undelegate
    <2> HIDE DEF x, y
    <2>3. supply' \in SupplyType /\ supply'.total_bonded = x /\ supply'.total_unbonding = y
          /\ supply'.issued = CleanSupply.issued /\ supply'.claims = CleanSupply.claims
      BY <1>2, <2>1, <2>2 DEF SupplyType
    <2> QED
      BY <1>2, <2>3, SMT DEF x, y
  <1> QED
    BY <1>1, <1>3, SMT
    DEF LedgerInv, LedgerTypeOK, BooksMatch, LedgerSolvent, Undelegate, Collect, Loads, SupplyType, NoSlash

\* Collecting rewards only adds to the balance.
LEMMA KeepInv ==
    ASSUME LedgerInv, NEW withdrawn \in Nat, NEW extra \in Nat, Keep(withdrawn, extra)
    PROVE  LedgerInv'
  <1>1. Liquid(withdrawn) \in Nat /\ Liquid(withdrawn) >= balance
    BY LiquidAtLeast DEF LedgerInv, LedgerTypeOK
  <1>2. supply' \in SupplyType /\ supply'.issued = supply.issued
        /\ supply'.total_bonded = supply.total_bonded /\ supply'.claims = supply.claims
        /\ supply'.total_unbonding = supply.total_unbonding - mature
    BY CleanedType DEF LedgerInv, Keep, Collect
  <1> QED
    BY <1>1, <1>2, SMT
    DEF LedgerInv, LedgerTypeOK, BooksMatch, LedgerSolvent, Keep, Collect, DropMature, Loads,
        SupplyType, NoSlash

\* Booking a slash takes the same from the claims and from the total of what is
\* unbonding.
LEMMA BookTypes ==
    ASSUME LedgerTypeOK, NEW left \in Nat, NEW new \in Nat, Book(left, new)
    PROVE  LET old == supply.total_unbonding - mature
           IN  /\ old \in Nat /\ new <= old /\ left <= supply.total_bonded
               /\ supply' \in SupplyType /\ supply'.issued = supply.issued
               /\ supply'.total_bonded = left /\ supply'.total_unbonding = new
               /\ old # 0 => supply.claims >= old
               /\ supply'.claims = (supply.claims - old) + new
               /\ stored' = new /\ mature' = 0
               /\ UNCHANGED <<shares, owed, forgotten, balance, chain>>
  <1> DEFINE old == CleanSupply.total_unbonding
  <1>1. CleanSupply \in SupplyType /\ CleanSupply.total_bonded = supply.total_bonded
        /\ CleanSupply.claims = supply.claims /\ CleanSupply.issued = supply.issued
        /\ old = supply.total_unbonding - mature
    BY CleanedType DEF Book
  <1>2. /\ left <= supply.total_bonded /\ new <= old
        /\ supply' = IF old = 0
                     THEN [CleanSupply EXCEPT !.total_bonded = left, !.total_unbonding = new]
                     ELSE [CleanSupply EXCEPT !.total_bonded = left, !.total_unbonding = new,
                                              !.claims = (@ - old) + new]
        /\ old <= supply.claims \/ old = 0
        /\ stored' = new /\ mature' = 0
        /\ UNCHANGED <<shares, owed, forgotten, balance, chain>>
    BY DEF Book
  <1>3. old \in Nat
    BY <1>1 DEF SupplyType
  <1> DEFINE y == (CleanSupply.claims - old) + new
  <1>4. CASE old = 0
    <2>1. supply' = [CleanSupply EXCEPT !.total_bonded = left, !.total_unbonding = new] /\ new = 0
      BY <1>2, <1>3, <1>4, SMT
    <2>2. supply' \in SupplyType /\ supply'.issued = CleanSupply.issued
          /\ supply'.claims = CleanSupply.claims
          /\ supply'.total_bonded = left /\ supply'.total_unbonding = new
      BY <1>1, <2>1 DEF SupplyType
    <2>3. supply.claims \in Nat
      BY DEF LedgerTypeOK, SupplyType
    <2> HIDE DEF old
    <2> QED
      BY <1>1, <1>2, <1>3, <1>4, <2>1, <2>2, <2>3, SMT
  <1>5. CASE old # 0
    <2>1. y \in Nat /\ supply.claims >= old
      <3>1. CleanSupply.claims \in Nat
        BY <1>1 DEF SupplyType
      <3> HIDE DEF old
      <3> QED
        BY <1>1, <1>2, <1>3, <1>5, <3>1, SMT
    <2>2. supply' = [CleanSupply EXCEPT !.total_bonded = left, !.total_unbonding = new, !.claims = y]
      BY <1>2, <1>5
    <2> HIDE DEF y
    <2>3. supply' \in SupplyType /\ supply'.issued = CleanSupply.issued /\ supply'.claims = y
          /\ supply'.total_bonded = left /\ supply'.total_unbonding = new
      BY <1>1, <2>1, <2>2 DEF SupplyType
    <2> HIDE DEF old
    <2> QED
      BY <1>1, <1>2, <1>3, <2>1, <2>3 DEF y
  <1> QED
    BY <1>4, <1>5

LEMMA BookInv ==
    ASSUME LedgerInv, NEW left \in Nat, NEW new \in Nat, Book(left, new)
    PROVE  LedgerInv'
  <1> DEFINE old == supply.total_unbonding - mature
  <1>1. /\ old \in Nat /\ new <= old
        /\ supply' \in SupplyType /\ supply'.issued = supply.issued
        /\ supply'.total_bonded = left /\ supply'.total_unbonding = new
        /\ supply'.claims = (supply.claims - old) + new
        /\ stored' = new /\ mature' = 0
        /\ UNCHANGED <<shares, owed, forgotten, balance, chain>>
    BY BookTypes DEF LedgerInv
  <1>2. NoSlash => left = supply.total_bonded /\ new = stored - mature
    BY DEF Book
  <1>3. /\ LedgerTypeOK' /\ mature' <= stored' /\ due' <= queued'
        /\ supply'.issued = shares' /\ stored' = supply'.total_unbonding
    BY <1>1, SMT DEF LedgerInv, LedgerTypeOK, BooksMatch, SupplyType, chain
  <1>4. ASSUME NoSlash'
        PROVE  /\ supply'.total_bonded = delegated' /\ stored' - mature' = queued' - due'
               /\ owed' <= supply'.claims + forgotten'
               /\ forgotten' = 0 => owed' = supply'.claims
               /\ supply'.claims <= balance' + delegated' + queued' + forgotten'
    <2>1. NoSlash
      BY <1>1, <1>4 DEF NoSlash, chain
    <2> QED
      BY <1>1, <1>2, <2>1, SMT
      DEF LedgerInv, LedgerTypeOK, BooksMatch, LedgerSolvent, SupplyType, chain
  <1> QED
    BY <1>3, <1>4, SMT DEF LedgerInv, LedgerTypeOK, BooksMatch, LedgerSolvent, SupplyType

\* A slash touches no book.
LEMMA SlashInv ==
    ASSUME LedgerInv, NEW stake \in Nat, NEW waiting \in Nat, NEW paying \in Nat,
           Slash(stake, waiting, paying)
    PROVE  LedgerInv'
  <1>1. ~NoSlash'
    BY SMT DEF LedgerInv, LedgerTypeOK, Slash, NoSlash
  <1> QED
    BY <1>1, SMT DEF LedgerInv, LedgerTypeOK, BooksMatch, LedgerSolvent, Slash, SupplyType, books

\* Rewards are in no book until they are withdrawn.
LEMMA EarnInv ==
    ASSUME LedgerInv, NEW amount \in Nat, Earn(amount)
    PROVE  LedgerInv'
  BY SMT DEF LedgerInv, LedgerTypeOK, BooksMatch, LedgerSolvent, Earn, SupplyType, NoSlash, books

\* The end of a block pays what is due from the queue to the balance.
LEMMA NextBlockInv ==
    ASSUME LedgerInv, NEW maturing \in Nat, NEW coming \in Nat, NextBlock(maturing, coming)
    PROVE  LedgerInv'
  BY SMT DEF LedgerInv, LedgerTypeOK, BooksMatch, LedgerSolvent, NextBlock, SupplyType, NoSlash

\* Every step keeps the inductive invariant, whatever bounds the amounts.
LEMMA StepInv ==
    ASSUME LedgerInv, Operation \/ AnySlash \/ AnyBook \/ AnyBlock
    PROVE  LedgerInv'
  <1> USE DEF LedgerInv, LedgerTypeOK
  <1>1. CASE \E paid \in Deposits : AllTokens + paid <= MaxAmount /\ Bond(paid)
    BY <1>1, BondInv
  <1>2. CASE \E amount \in 1..shares : Unbond(amount)
    BY <1>2, UnbondInv
  <1>3. CASE \E amount \in 1..balance : \E settled \in amount..owed : Claim(amount, settled)
    BY <1>3, ClaimInv
  <1>4. CASE Forget
    BY <1>4, ForgetInv
  <1>5. ASSUME NEW withdrawn \in 0..unclaimed, NEW extra \in 0..(unclaimed - withdrawn),
               \/ Delegate(withdrawn, extra)
               \/ \E amount \in 0..supply.total_bonded : Undelegate(withdrawn, extra, amount)
               \/ Keep(withdrawn, extra)
        PROVE  LedgerInv'
    <2>1. withdrawn \in Nat /\ extra \in Nat
      BY SMT
    <2>2. \A amount \in 0..supply.total_bonded : amount \in Nat
      BY SMT DEF SupplyType
    <2> QED
      BY <1>5, <2>1, <2>2, DelegateInv, UndelegateInv, KeepInv
  <1>6. CASE \E amount \in 1..MaxAmount : Earn(amount)
    <2>1. \A amount \in 1..MaxAmount : amount \in Nat
      BY LedgerAssumption, SMT
    <2> QED
      BY <1>6, <2>1, EarnInv
  <1>7. CASE AnySlash
    <2>1. PICK stake \in 0..delegated, waiting \in 0..(queued - due), paying \in 0..due :
              Slash(stake, waiting, paying)
      BY <1>7 DEF AnySlash
    <2>2. stake \in Nat /\ waiting \in Nat /\ paying \in Nat
      BY SMT
    <2> QED
      BY <2>1, <2>2, SlashInv
  <1>8. CASE AnyBook
    <2>1. PICK left \in 0..supply.total_bonded, new \in 0..supply.total_unbonding : Book(left, new)
      BY <1>8 DEF AnyBook
    <2>2. left \in Nat /\ new \in Nat
      BY SMT DEF SupplyType
    <2> QED
      BY <2>1, <2>2, BookInv
  <1>9. CASE AnyBlock
    <2>1. PICK maturing \in 0..(stored - mature), coming \in 0..(queued - due) :
              NextBlock(maturing, coming)
      BY <1>9 DEF AnyBlock
    <2>2. maturing \in Nat /\ coming \in Nat
      BY SMT
    <2> QED
      BY <2>1, <2>2, NextBlockInv
  <1> QED
    BY <1>1, <1>2, <1>3, <1>4, <1>5, <1>6, <1>7, <1>8, <1>9 DEF Operation

LEMMA NextInv == LedgerInv /\ [Next]_vars => LedgerInv'
  <1>1. ASSUME LedgerInv, UNCHANGED vars PROVE LedgerInv'
    BY <1>1, SMT DEF vars, books, chain, LedgerInv, LedgerTypeOK, BooksMatch, LedgerSolvent, NoSlash
  <1> QED
    BY <1>1, StepInv DEF Next

\* The inductive invariant holds in every reachable state.
THEOREM LedgerInvariant == Spec => []LedgerInv
  BY InitInv, NextInv, PTL DEF Spec

\* Every amount of the ledger stays a natural number: no subtraction the
\* handlers make without a check of their own goes below zero.
THEOREM LedgerTypeCorrect == Spec => []LedgerTypeOK
  <1>1. LedgerInv => LedgerTypeOK
    BY DEF LedgerInv
  <1> QED
    BY <1>1, LedgerInvariant, PTL

\* Until a slash, claims are backed by the hub's own tokens.
THEOREM LedgerSolvency == Spec => []LedgerSolvent
  <1>1. LedgerInv => LedgerSolvent
    BY DEF LedgerInv
  <1> QED
    BY <1>1, LedgerInvariant, PTL

-----------------------------------------------------------------------------
(* The exchange rate *)

\* The assets a handler computes, in terms of the stored supply.
LEMMA QueryAssetsIs ==
    /\ LedgerTypeOK => /\ QueryAssets \in Int
                       /\ QueryAssets = supply.total_bonded + (supply.total_unbonding - mature)
                                           + balance - supply.claims
    /\ LedgerTypeOK' => /\ QueryAssets' \in Int
                        /\ QueryAssets' = supply'.total_bonded + (supply'.total_unbonding - mature')
                                             + balance' - supply'.claims
  BY SMT DEF LedgerTypeOK, QueryAssets, Assets, CleanSupply, Cleaned, SupplyType

\* An operation that keeps the issued shares and does not lower the assets.
LEMMA AssetsGrow ==
    ASSUME LedgerTypeOK, LedgerTypeOK', supply'.issued = supply.issued, QueryAssets' >= QueryAssets
    PROVE  RateStep
  <1>1. supply.issued \in Nat
    BY DEF LedgerTypeOK, SupplyType
  <1>2. QueryAssets \in Int /\ QueryAssets' \in Int
    BY QueryAssetsIs
  <1>3. QueryAssets * supply.issued <= QueryAssets' * supply.issued
    BY <1>1, <1>2, MulKeepsOrder
  <1>4. QueryAssets * supply.issued \in Int /\ QueryAssets' * supply.issued \in Int
    BY <1>1, <1>2, SMT
  <1> QED
    BY <1>3, <1>4, SMT DEF RateStep

\* Bond: the payment is worth at least the shares issued for it.
LEMMA BondRate ==
    ASSUME LedgerInv, LedgerInv', NEW paid \in Deposits, Bond(paid)
    PROVE  RateStep
  <1> DEFINE minted == SharesFor(CleanSupply, balance, paid)
             A == QueryAssets
             n == supply.issued
  <1>1. paid \in Nat /\ balance \in Nat /\ LedgerTypeOK /\ LedgerTypeOK'
    BY ConstantTypes DEF LedgerInv, LedgerTypeOK
  <1>2. CleanSupply \in SupplyType /\ CleanSupply.total_bonded = supply.total_bonded
        /\ CleanSupply.claims = supply.claims /\ CleanSupply.issued = supply.issued
        /\ CleanSupply.total_unbonding = supply.total_unbonding - mature
    BY <1>1, CleanedType DEF Bond
  <1>3. minted \in Nat /\ A * minted <= paid * n /\ A \in Int /\ n \in Nat
    BY <1>1, <1>2, SharesForBounds, QueryAssetsIs DEF Bond, QueryAssets, SupplyType
  <1>4. supply' = [CleanSupply EXCEPT !.issued = CleanSupply.issued + minted]
    BY DEF Bond, AfterBond
  <1> HIDE DEF minted
  <1>5. supply'.issued = n + minted /\ supply'.total_bonded = supply.total_bonded
        /\ supply'.claims = supply.claims
        /\ supply'.total_unbonding = supply.total_unbonding - mature
    BY <1>2, <1>3, <1>4, SMT DEF SupplyType
  <1>6. QueryAssets' = A + paid
    <2>1. mature' = 0 /\ balance' = balance + paid
      BY DEF Bond, DropMature
    <2> QED
      BY <1>1, <1>5, <2>1, QueryAssetsIs, SMT DEF LedgerTypeOK, SupplyType
  <1> HIDE DEF A, n
  <1>7. (A + paid) * n >= A * (n + minted)
    BY <1>1, <1>3, SMTT(30)
  <1> QED
    BY <1>5, <1>6, <1>7 DEF RateStep, A, n

\* Unbond: the claim is worth at most the shares burnt for it.
LEMMA UnbondRate ==
    ASSUME LedgerInv, LedgerInv', NEW amount \in 1..shares, Unbond(amount)
    PROVE  RateStep
  <1> DEFINE native == NativeFor(CleanSupply, balance, amount)
             A == QueryAssets
             n == supply.issued
  <1>1. amount \in Nat /\ balance \in Nat /\ LedgerTypeOK /\ LedgerTypeOK'
    BY ConstantTypes DEF LedgerInv, LedgerTypeOK
  <1>2. CleanSupply \in SupplyType /\ CleanSupply.total_bonded = supply.total_bonded
        /\ CleanSupply.claims = supply.claims /\ CleanSupply.issued = supply.issued
        /\ CleanSupply.total_unbonding = supply.total_unbonding - mature
    BY <1>1, CleanedType DEF Unbond
  <1>3. amount \in 0..CleanSupply.issued /\ n \in Nat
    BY <1>1, <1>2, SMT DEF Unbond, SupplyType
  <1>4. native \in Nat /\ n * native <= amount * A /\ A \in Int
    BY <1>1, <1>2, <1>3, NativeForBounds, QueryAssetsIs DEF Unbond, QueryAssets
  <1>5. supply' = [CleanSupply EXCEPT !.issued = CleanSupply.issued - amount,
                                      !.claims = CleanSupply.claims + native]
    BY DEF Unbond, AfterUnbond
  <1> HIDE DEF native
  <1>6. supply'.issued = n - amount /\ supply'.total_bonded = supply.total_bonded
        /\ supply'.claims = supply.claims + native
        /\ supply'.total_unbonding = supply.total_unbonding - mature
    BY <1>2, <1>3, <1>4, <1>5, SMT DEF SupplyType
  <1>7. QueryAssets' = A - native
    <2>1. mature' = 0 /\ balance' = balance
      BY DEF Unbond, DropMature
    <2> QED
      BY <1>1, <1>4, <1>6, <2>1, QueryAssetsIs, SMT DEF LedgerTypeOK, SupplyType
  <1> HIDE DEF A, n
  <1>8. (A - native) * n >= A * (n - amount)
    BY <1>1, <1>3, <1>4, SMTT(30)
  <1> QED
    BY <1>6, <1>7, <1>8 DEF RateStep, A, n

\* Reinvest, SetValidators and Claim keep the issued shares.
LEMMA OtherRate ==
    ASSUME LedgerInv, LedgerInv', Operation
    PROVE  \/ \E paid \in Deposits : Bond(paid)
           \/ \E amount \in 1..shares : Unbond(amount)
           \/ supply'.issued = supply.issued /\ QueryAssets' >= QueryAssets
  <1> DEFINE Same == supply'.issued = supply.issued /\ QueryAssets' >= QueryAssets
  <1>0. LedgerTypeOK /\ LedgerTypeOK'
    BY DEF LedgerInv
  <1>1. ASSUME NEW amount \in 1..balance, NEW settled \in amount..owed, Claim(amount, settled)
        PROVE  Same
    BY <1>0, <1>1, QueryAssetsIs, SMT DEF Claim, AfterClaim, LedgerTypeOK, SupplyType
  <1>2. ASSUME Forget PROVE Same
    BY <1>0, <1>2, QueryAssetsIs, SMT DEF Forget, DropMature, LedgerTypeOK, SupplyType
  <1>3. ASSUME NEW withdrawn \in 0..unclaimed, NEW extra \in 0..(unclaimed - withdrawn)
        PROVE  /\ Delegate(withdrawn, extra) => Same
               /\ \A amount \in 0..supply.total_bonded :
                    Undelegate(withdrawn, extra, amount) => Same
               /\ Keep(withdrawn, extra) => Same
    <2>1. withdrawn \in Nat /\ extra \in Nat /\ balance \in Nat
      BY <1>0, SMT DEF LedgerTypeOK
    <2>2. Liquid(withdrawn) \in Nat /\ Liquid(withdrawn) >= balance
      BY <2>1, LiquidAtLeast
    <2>3. Loads => /\ CleanSupply \in SupplyType /\ CleanSupply.issued = supply.issued
                   /\ CleanSupply.total_bonded = supply.total_bonded
                   /\ CleanSupply.claims = supply.claims
                   /\ CleanSupply.total_unbonding = supply.total_unbonding - mature
      BY <1>0, CleanedType
    <2>4. ASSUME Delegate(withdrawn, extra) PROVE Same
      <3> DEFINE surplus == Coverage(withdrawn) - supply.claims
      <3>1. Loads /\ surplus \in Nat
        BY <1>0, <2>2, <2>3, <2>4, SMT DEF Delegate, Collect, Coverage, SupplyType
      <3>2. supply' = [CleanSupply EXCEPT !.total_bonded = CleanSupply.total_bonded + surplus]
            /\ balance' = Liquid(withdrawn) - surplus + extra /\ mature' = 0
        BY <2>4 DEF Delegate, DropMature
      <3> HIDE DEF surplus
      <3>3. supply'.issued = supply.issued /\ supply'.total_bonded = supply.total_bonded + surplus
            /\ supply'.claims = supply.claims
            /\ supply'.total_unbonding = supply.total_unbonding - mature
        BY <2>3, <3>1, <3>2, SMT DEF SupplyType
      <3> QED
        BY <1>0, <2>1, <2>2, <3>1, <3>2, <3>3, QueryAssetsIs, SMT DEF LedgerTypeOK, SupplyType
    <2>5. ASSUME NEW amount \in 0..supply.total_bonded, Undelegate(withdrawn, extra, amount)
          PROVE  Same
      <3> DEFINE x == CleanSupply.total_bonded - amount
                 y == CleanSupply.total_unbonding + amount
      <3>1. Loads /\ amount \in Nat /\ x \in Nat /\ y \in Nat
        BY <1>0, <2>3, <2>5, SMT DEF Undelegate, Collect, LedgerTypeOK, SupplyType
      <3>2. supply' = [CleanSupply EXCEPT !.total_bonded = x, !.total_unbonding = y]
            /\ balance' = Liquid(withdrawn) + extra /\ mature' = 0
        BY <2>5 DEF Undelegate
      <3> HIDE DEF x, y
      <3>3. supply'.issued = supply.issued /\ supply'.total_bonded = x
            /\ supply'.claims = supply.claims /\ supply'.total_unbonding = y
        BY <2>3, <3>1, <3>2 DEF SupplyType
      <3> QED
        BY <1>0, <2>1, <2>2, <2>3, <3>1, <3>2, <3>3, QueryAssetsIs, SMT
        DEF LedgerTypeOK, SupplyType, x, y
    <2>6. ASSUME Keep(withdrawn, extra) PROVE Same
      BY <1>0, <2>1, <2>2, <2>3, <2>6, QueryAssetsIs, SMT
      DEF Keep, Collect, DropMature, LedgerTypeOK, SupplyType
    <2> QED
      BY <2>4, <2>5, <2>6
  <1>4. ASSUME NEW amount \in 1..MaxAmount, Earn(amount) PROVE Same
    BY <1>0, <1>4, QueryAssetsIs, SMT DEF Earn, books, LedgerTypeOK, SupplyType
  <1> QED
    BY <1>1, <1>2, <1>3, <1>4 DEF Operation

\* An operation does not lower the assets per share.
LEMMA OperationRate ==
    ASSUME LedgerInv, LedgerInv', Operation
    PROVE  RateStep
  <1>1. LedgerTypeOK /\ LedgerTypeOK'
    BY DEF LedgerInv
  <1> QED
    BY <1>1, BondRate, UnbondRate, OtherRate, AssetsGrow

\* Nor does a slash, which no book shows, nor a check that has no slash to book.
LEMMA SlashRate ==
    ASSUME LedgerInv, LedgerInv', AnySlash
    PROVE  RateStep
  <1>1. LedgerTypeOK /\ LedgerTypeOK' /\ UNCHANGED <<supply, mature, balance>>
    BY DEF LedgerInv, AnySlash, Slash, books
  <1> QED
    BY <1>1, QueryAssetsIs, AssetsGrow, SMT DEF LedgerTypeOK, SupplyType

LEMMA BookRate ==
    ASSUME LedgerInv, LedgerInv', NoSlash, AnyBook
    PROVE  RateStep
  <1>1. LedgerTypeOK /\ LedgerTypeOK' /\ balance \in Nat /\ supply \in SupplyType
    BY DEF LedgerInv, LedgerTypeOK
  <1>2. PICK left \in 0..supply.total_bonded, new \in 0..supply.total_unbonding : Book(left, new)
    BY DEF AnyBook
  <1>3. left \in Nat /\ new \in Nat
    BY <1>1, SMT DEF SupplyType
  <1> DEFINE old == supply.total_unbonding - mature
  <1>4. /\ old \in Nat /\ supply'.issued = supply.issued
        /\ supply'.total_bonded = left /\ supply'.total_unbonding = new
        /\ supply'.claims = (supply.claims - old) + new
        /\ mature' = 0 /\ balance' = balance
    BY <1>1, <1>2, <1>3, BookTypes
  <1>5. left = supply.total_bonded
    BY <1>2 DEF Book
  <1>6. supply.claims \in Nat /\ supply.total_bonded \in Nat
    BY <1>1 DEF SupplyType
  <1>7. QueryAssets = supply.total_bonded + old + balance - supply.claims
        /\ QueryAssets' = supply'.total_bonded + (supply'.total_unbonding - mature')
                            + balance' - supply'.claims
        /\ QueryAssets \in Int /\ QueryAssets' \in Int
    BY <1>1, QueryAssetsIs
  <1> HIDE DEF old
  <1>8. QueryAssets' = QueryAssets
    BY <1>1, <1>3, <1>4, <1>5, <1>6, <1>7, SMT
  <1> QED
    BY <1>1, <1>4, <1>7, <1>8, AssetsGrow, SMT

\* No operation lowers the assets per share; only a check that books a slash may,
\* and the passage of time, when what has matured has not been paid yet.
THEOREM LedgerRate == Spec => LedgerRateKept
  <1>1. LedgerInv /\ LedgerInv' /\ [Next]_vars
          => [Operation \/ AnySlash \/ (NoSlash /\ AnyBook) => RateStep]_vars
    BY OperationRate, SlashRate, BookRate
  <1> QED
    BY <1>1, LedgerInvariant, PTL DEF Spec, LedgerRateKept

=============================================================================
