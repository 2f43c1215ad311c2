---------------------------- MODULE SupplyLemmas ----------------------------
(***************************************************************************)
(* What the rounding of the exchange rate guarantees, for every number of  *)
(* atoms of a Decimal and every amount.                                    *)
(***************************************************************************)
EXTENDS Supply, TLAPS

\* Integer division rounds down.
LEMMA DivBounds ==
    ASSUME NEW a \in Nat, NEW b \in Nat \ {0}
    PROVE  /\ a \div b \in Nat
           /\ b * (a \div b) <= a
           /\ a < b * ((a \div b) + 1)
  BY SMTT(30)

\* Multiplication by a natural number keeps the order.
LEMMA MulKeepsOrder ==
    ASSUME NEW a \in Int, NEW b \in Int, NEW c \in Nat, a <= b
    PROVE  a * c <= b * c
  BY SMTT(30)

\* A positive factor can be cancelled.
LEMMA MulCancels ==
    ASSUME NEW a \in Int, NEW b \in Int, NEW c \in Nat \ {0}, c * a <= c * b
    PROVE  a <= b
  BY SMTT(30)

\* mul_floor (cosmwasm_std) yields a natural number.
LEMMA MulFloorType ==
    ASSUME NEW amount \in Nat, NEW decimal \in Nat
    PROVE  MulFloor(amount, decimal) \in Nat
  <1>1. amount * decimal \in Nat
    BY SMT
  <1> QED
    BY <1>1, DivBounds, DecimalOneAssumption DEF MulFloor

\* from_ratio (cosmwasm_std) yields a natural number of atoms.
LEMMA FromRatioType ==
    ASSUME NEW n \in Nat, NEW d \in Nat \ {0}
    PROVE  FromRatio(n, d) \in Nat
  <1>1. n * DecimalOne \in Nat
    BY DecimalOneAssumption, SMT
  <1> QED
    BY <1>1, DivBounds DEF FromRatio

\* A fraction of at most one takes at most the amount (commission, slashes).
LEMMA MulFloorAtMost ==
    ASSUME NEW amount \in Nat, NEW decimal \in 0..DecimalOne
    PROVE  MulFloor(amount, decimal) <= amount
  <1> DEFINE m == MulFloor(amount, decimal)
  <1>1. m \in Nat /\ DecimalOne * m <= amount * decimal
    BY DivBounds, DecimalOneAssumption, SMT DEF MulFloor
  <1>2. amount * decimal <= DecimalOne * amount
    BY DecimalOneAssumption, SMTT(30)
  <1>3. DecimalOne * m <= DecimalOne * amount
    BY <1>1, <1>2, DecimalOneAssumption, SMT
  <1> HIDE DEF m
  <1>4. m <= amount
    BY <1>1, <1>3, MulCancels, DecimalOneAssumption
  <1> QED
    BY <1>4 DEF m

\* Multiplying by a ratio rounds down twice, so it never exceeds the ratio.
LEMMA MulRatioAtMost ==
    ASSUME NEW a \in Nat, NEW n \in Nat, NEW d \in Nat \ {0}
    PROVE  /\ MulFloor(a, FromRatio(n, d)) \in Nat
           /\ d * MulFloor(a, FromRatio(n, d)) <= a * n
  <1> DEFINE r == FromRatio(n, d)
             m == MulFloor(a, r)
  <1>1. r \in Nat /\ d * r <= n * DecimalOne
    <2>1. n * DecimalOne \in Nat
      BY DecimalOneAssumption, SMT
    <2> QED
      BY <2>1, DivBounds DEF FromRatio
  <1> HIDE DEF r
  <1>2. m \in Nat /\ DecimalOne * m <= a * r
    <2>1. a * r \in Nat
      BY <1>1, SMT
    <2> QED
      BY <2>1, DivBounds, DecimalOneAssumption DEF MulFloor
  <1> HIDE DEF m
  <1>3. DecimalOne * (d * m) <= DecimalOne * (a * n)
    <2>1. (DecimalOne * m) * d <= (a * r) * d
      BY <1>1, <1>2, MulKeepsOrder, DecimalOneAssumption, SMT
    <2>2. (d * r) * a <= (n * DecimalOne) * a
      BY <1>1, MulKeepsOrder, DecimalOneAssumption, SMT
    <2>3. (a * r) * d = (d * r) * a
      BY <1>1, SMT
    <2>4. (DecimalOne * m) * d = DecimalOne * (d * m) /\ (n * DecimalOne) * a = DecimalOne * (a * n)
      BY <1>2, DecimalOneAssumption, SMT
    <2>5. (DecimalOne * m) * d \in Nat /\ (a * r) * d \in Nat /\ (n * DecimalOne) * a \in Nat
      BY <1>1, <1>2, DecimalOneAssumption, SMT
    <2> QED
      BY <2>1, <2>2, <2>3, <2>4, <2>5, SMT
  <1>4. d * m \in Nat /\ a * n \in Nat
    BY <1>2, SMT
  <1>5. d * m <= a * n
    BY <1>3, <1>4, MulCancels, DecimalOneAssumption
  <1> QED
    BY <1>2, <1>5 DEF m, r

\* ... and what the two roundings take is less than two and one for every
\* DecimalOne of the amount (check_slash: the stake of one validator times what
\* is left of it).
LEMMA MulRatioAtLeast ==
    ASSUME NEW n \in Nat, NEW d \in Nat \ {0}
    PROVE  n <= MulFloor(d, FromRatio(n, d)) + 1 + d \div DecimalOne
  <1> DEFINE r == FromRatio(n, d)
             m == MulFloor(d, r)
             q == d \div DecimalOne
  <1>1. DecimalOne \in Nat \ {0} /\ n * DecimalOne \in Nat
    BY DecimalOneAssumption, SMT
  <1>2. r \in Nat /\ n * DecimalOne < d * (r + 1)
    BY <1>1, FromRatioType, DivBounds DEF FromRatio
  <1> HIDE DEF r
  <1>3. d * r \in Nat /\ d * (r + 1) = d * r + d
    BY <1>2, SMT
  <1>4. m \in Nat /\ d * r < DecimalOne * (m + 1)
    BY <1>1, <1>2, <1>3, MulFloorType, DivBounds DEF MulFloor
  <1>5. q \in Nat /\ d < DecimalOne * (q + 1)
    BY <1>1, DivBounds
  <1> HIDE DEF m, q
  <1>6. /\ DecimalOne * (m + 1) = DecimalOne * m + DecimalOne
        /\ DecimalOne * (q + 1) = DecimalOne * q + DecimalOne
        /\ DecimalOne * (m + 1 + q) = DecimalOne * m + DecimalOne + DecimalOne * q
        /\ DecimalOne * m \in Nat /\ DecimalOne * q \in Nat
    BY <1>1, <1>4, <1>5, SMT
  <1>7. CASE n <= m + 1 + q
    BY <1>7 DEF m, q, r
  <1>8. CASE m + 1 + q + 1 <= n
    <2>1. (m + 1 + q + 1) * DecimalOne <= n * DecimalOne
      BY <1>1, <1>4, <1>5, <1>8, MulKeepsOrder
    <2>2. (m + 1 + q + 1) * DecimalOne = DecimalOne * (m + 1 + q) + DecimalOne
      BY <1>1, <1>4, <1>5, SMT
    <2>3. FALSE
      BY <1>1, <1>2, <1>3, <1>4, <1>5, <1>6, <2>1, <2>2, SMT
    <2> QED
      BY <2>3
  <1> QED
    BY <1>4, <1>5, <1>7, <1>8

\* Unbond never promises more than all assets, and what it promises per share
\* is at most the rate before it (CleanedSupply::unbond).
LEMMA NativeForBounds ==
    ASSUME NEW s \in SupplyType, NEW balance \in Nat, NEW amount \in 0..s.issued,
           RateFits(s, balance)
    PROVE  /\ NativeFor(s, balance, amount) \in Nat
           /\ s.issued * NativeFor(s, balance, amount) <= amount * Assets(s, balance)
           /\ s.issued > 0 => NativeFor(s, balance, amount) <= Assets(s, balance)
  <1> DEFINE native == NativeFor(s, balance, amount)
             A == Assets(s, balance)
  <1>1. s.issued \in Nat /\ A \in Int /\ amount \in Nat
    BY DEF SupplyType, Assets
  <1>2. CASE s.issued = 0
    <2>1. amount = 0
      BY <1>2
    <2>2. native = (0 * DecimalOne) \div DecimalOne
      BY <1>2, <2>1 DEF NativeFor, TokensPerShare, MulFloor
    <2>3. native = 0
      BY <2>2, DecimalOneAssumption, SMT
    <2> QED
      BY <1>1, <1>2, <2>1, <2>3, SMT
  <1>3. CASE s.issued > 0
    <2>1. A \in Nat
      BY <1>1, <1>3 DEF RateFits
    <2>2. native = MulFloor(amount, FromRatio(A, s.issued))
      BY <1>3 DEF NativeFor, TokensPerShare
    <2> HIDE DEF native, A
    <2>3. native \in Nat /\ s.issued * native <= amount * A
      BY <1>1, <1>3, <2>1, <2>2, MulRatioAtMost
    <2>4. amount * A <= s.issued * A
      BY <1>1, <2>1, MulKeepsOrder
    <2>5. s.issued * native <= s.issued * A
      BY <1>1, <2>1, <2>3, <2>4, SMT
    <2>6. native <= A
      BY <1>1, <1>3, <2>1, <2>3, <2>5, MulCancels
    <2> QED
      BY <2>3, <2>6 DEF native, A
  <1> QED
    BY <1>1, <1>2, <1>3, SMT

\* Bond issues at most the shares the payment is worth at the rate before it.
LEMMA SharesForBounds ==
    ASSUME NEW s \in SupplyType, NEW balance \in Nat, NEW paid \in Nat,
           Assets(s, balance) >= 0
    PROVE  /\ SharesFor(s, balance, paid) \in Nat
           /\ Assets(s, balance) * SharesFor(s, balance, paid) <= paid * s.issued
  <1> DEFINE shares == SharesFor(s, balance, paid)
             A == Assets(s, balance)
  <1>1. s.issued \in Nat /\ A \in Nat
    BY DEF SupplyType, Assets
  <1>2. CASE A = 0
    <2>1. shares = MulFloor(paid, DecimalOne)
      BY <1>2 DEF SharesFor, SharesPerToken
    <2>2. shares \in Nat
      BY <2>1, MulFloorType, DecimalOneAssumption
    <2> HIDE DEF shares, A
    <2>3. A * shares <= paid * s.issued
      BY <1>1, <1>2, <2>2, SMT
    <2> QED
      BY <2>2, <2>3 DEF shares, A
  <1>3. CASE A # 0
    <2>1. shares = MulFloor(paid, FromRatio(s.issued, A))
      BY <1>3 DEF SharesFor, SharesPerToken
    <2> HIDE DEF shares, A
    <2>2. shares \in Nat /\ A * shares <= paid * s.issued
      BY <1>1, <1>3, <2>1, MulRatioAtMost
    <2> QED
      BY <2>2 DEF shares, A
  <1> QED
    BY <1>2, <1>3

\* A product divided by one of its factors is the other one.
LEMMA DivCancels ==
    ASSUME NEW a \in Nat, NEW b \in Nat \ {0}
    PROVE  (a * b) \div b = a
  <1> DEFINE q == (a * b) \div b
  <1>1. a * b \in Nat /\ b * a = a * b
    BY SMT
  <1>2. q \in Nat /\ b * q <= a * b /\ a * b < b * (q + 1)
    BY <1>1, DivBounds
  <1> HIDE DEF q
  <1>3. q <= a
    BY <1>1, <1>2, MulCancels
  <1>4. ~(q + 1 <= a)
    <2> SUFFICES ASSUME q + 1 <= a PROVE FALSE
      OBVIOUS
    <2>1. (q + 1) * b <= a * b
      BY <1>2, MulKeepsOrder
    <2>2. (q + 1) * b = b * (q + 1) /\ b * (q + 1) \in Nat
      BY <1>2, SMT
    <2> QED
      BY <1>1, <1>2, <2>1, <2>2
  <1> QED
    BY <1>2, <1>3, <1>4 DEF q

\* One is one, and the ratio of an amount to itself is one.
LEMMA OneIsOne ==
    /\ \A amount \in Nat : MulFloor(amount, DecimalOne) = amount
    /\ \A d \in Nat \ {0} : FromRatio(d, d) = DecimalOne
  <1>1. \A amount \in Nat : MulFloor(amount, DecimalOne) = amount
    BY DivCancels, DecimalOneAssumption DEF MulFloor
  <1>2. ASSUME NEW d \in Nat \ {0} PROVE FromRatio(d, d) = DecimalOne
    <2>1. d * DecimalOne = DecimalOne * d
      BY DecimalOneAssumption, SMT
    <2> QED
      BY <2>1, DivCancels, DecimalOneAssumption DEF FromRatio
  <1> QED
    BY <1>1, <1>2

\* The ratio of a part is at most one.
LEMMA RatioAtMostOne ==
    ASSUME NEW d \in Nat \ {0}, NEW n \in 0..d
    PROVE  FromRatio(n, d) \in 0..DecimalOne
  <1> DEFINE q == FromRatio(n, d)
  <1>1. n * DecimalOne \in Nat
    BY DecimalOneAssumption, SMT
  <1>2. q \in Nat /\ d * q <= n * DecimalOne
    BY <1>1, DivBounds DEF FromRatio
  <1>3. n * DecimalOne <= d * DecimalOne
    BY MulKeepsOrder, DecimalOneAssumption
  <1> HIDE DEF q
  <1>4. d * q <= d * DecimalOne
    BY <1>1, <1>2, <1>3, DecimalOneAssumption, SMT
  <1>5. q <= DecimalOne
    BY <1>2, <1>4, MulCancels, DecimalOneAssumption
  <1> QED
    BY <1>2, <1>5, DecimalOneAssumption DEF q

=============================================================================
