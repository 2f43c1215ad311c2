----------------------------- MODULE EpochProofs -----------------------------
(***************************************************************************)
(* Proofs about EpochSchedule, for all periods: the grids keep their       *)
(* rhythm, undelegations start in different cells of the unbonding grid,   *)
(* and the queue holds at most one more than the maximum.                  *)
(***************************************************************************)
EXTENDS EpochSchedule, FiniteSetTheorems, TLAPS

U == UnbondEpochLength

\* Integer division rounds down.
LEMMA DivIs ==
    ASSUME NEW a \in Int, NEW b \in Nat \ {0}
    PROVE  /\ a \div b \in Int /\ b * (a \div b) <= a /\ a < b * (a \div b) + b
           /\ a % b \in 0..(b - 1) /\ a = b * (a \div b) + (a % b)
  BY SMTT(30)

\* A multiple divides without a remainder.
LEMMA MultipleDivides ==
    ASSUME NEW k \in Int, NEW b \in Nat \ {0}
    PROVE  (b * k) \div b = k /\ (b * k) % b = 0
  <1> DEFINE q == (b * k) \div b
             r == (b * k) % b
  <1>1. b * k \in Int
    BY SMT
  <1>2. q \in Int /\ r \in 0..(b - 1) /\ b * k = b * q + r
    BY <1>1, DivIs
  <1> HIDE DEF q, r
  <1>3. q = k
    <2>1. CASE q < k
      <3>1. b * (k - q) >= b
        BY <1>2, <2>1, SMTT(30)
      <3> QED
        BY <1>2, <3>1, SMTT(30)
    <2>2. CASE q > k
      <3>1. b * (q - k) >= b
        BY <1>2, <2>2, SMTT(30)
      <3> QED
        BY <1>2, <3>1, SMTT(30)
    <2> QED
      BY <1>2, <2>1, <2>2, SMT
  <1>4. r = 0
    BY <1>2, <1>3, SMT
  <1> QED
    BY <1>3, <1>4 DEF q, r

\* Later times are in later cells, or in the same.
LEMMA DivKeepsOrder ==
    ASSUME NEW a \in Int, NEW c \in Int, NEW b \in Nat \ {0}, a <= c
    PROVE  a \div b <= c \div b
  <1> DEFINE p == a \div b
             q == c \div b
  <1>1. p \in Int /\ q \in Int /\ b * p <= a /\ c < b * q + b
    BY DivIs
  <1> HIDE DEF p, q
  <1>2. ASSUME p > q PROVE FALSE
    <2>1. b * p >= b * (q + 1)
      BY <1>1, <1>2, SMTT(30)
    <2> QED
      BY <1>1, <2>1, SMTT(30)
  <1> QED
    BY <1>1, <1>2, SMT DEF p, q

\* unbond_epoch is positive, and max_concurrent_unbondings of them fill the
\* unbonding period.
LEMMA UnbondEpochFits ==
    U \in Nat \ {0} /\ MaxConcurrentUnbondings * U >= UnbondPeriod
  <1> DEFINE n == UnbondPeriod
             m == MaxConcurrentUnbondings
             q == n \div m
             r == n % m
  <1>1. n \in Nat \ {0} /\ m \in Nat \ {0}
    BY ScheduleAssumption
  <1>2. q \in Int /\ r \in 0..(m - 1) /\ n = m * q + r
    BY <1>1, DivIs
  <1>3. U = q + IF r > 0 THEN 1 ELSE 0
    BY DEF U, UnbondEpochLength, UnbondEpoch, DivCeil
  <1> HIDE DEF n, m, q, r
  <1>4. q >= 0
    <2>1. ASSUME q < 0 PROVE FALSE
      <3>1. m * q <= -m
        BY <1>1, <1>2, <2>1, SMTT(30)
      <3> QED
        BY <1>1, <1>2, <3>1, SMT
    <2> QED
      BY <1>2, <2>1, SMT
  <1>5. q = 0 => r > 0
    BY <1>1, <1>2, SMT
  <1>6. CASE r > 0
    BY <1>1, <1>2, <1>3, <1>4, <1>6, SMTT(30) DEF n, m
  <1>7. CASE r = 0
    BY <1>1, <1>2, <1>3, <1>4, <1>5, <1>7, SMTT(30) DEF n, m
  <1> QED
    BY <1>2, <1>6, <1>7, SMT

-----------------------------------------------------------------------------

\* the points of a grid
OnGrid(t, start, period) == \E k \in Nat : t = start + period * k

\* The first point of a grid after a time is on the grid, later than the time,
\* and at most one period later.
LEMMA NextAfterOnGrid ==
    ASSUME NEW start \in Nat, NEW period \in Nat \ {0}, NEW next \in Nat, NEW t \in Nat,
           OnGrid(next, start, period), t >= next
    PROVE  /\ NextAfter(next, period, t) \in Nat
           /\ OnGrid(NextAfter(next, period, t), start, period)
           /\ NextAfter(next, period, t) > t
           /\ NextAfter(next, period, t) <= t + period
  <1> DEFINE q == (t - next) \div period
  <1>1. PICK k \in Nat : next = start + period * k
    BY DEF OnGrid
  <1>2. q \in Int /\ period * q <= t - next /\ t - next < period * q + period
    BY DivIs
  <1>3. NextAfter(next, period, t) = next + (q + 1) * period
    BY DEF NextAfter
  <1> HIDE DEF q
  <1>4. q >= 0
    <2>1. ASSUME q < 0 PROVE FALSE
      <3>1. period * q <= -period
        BY <1>2, <2>1, SMTT(30)
      <3> QED
        BY <1>2, <3>1, SMT
    <2> QED
      BY <1>2, <2>1, SMT
  <1>5. (q + 1) * period = period * q + period /\ period * q \in Nat
    BY <1>2, <1>4, SMTT(30)
  <1>6. next + (q + 1) * period = start + period * (k + q + 1)
    BY <1>1, <1>2, <1>5, SMTT(30)
  <1>7. k + q + 1 \in Nat
    BY <1>2, <1>4, SMT
  <1>8. OnGrid(NextAfter(next, period, t), start, period)
    BY <1>3, <1>6, <1>7 DEF OnGrid
  <1> QED
    BY <1>2, <1>3, <1>5, <1>8, SMT

-----------------------------------------------------------------------------

\* the inductive invariant: both clocks are on their grids, and every pending
\* undelegation was started at a time the unbonding grid allows, after which
\* next_unbond was moved past its cell
ScheduleInv ==
    /\ now \in Nat /\ next_epoch \in Nat /\ next_unbond \in Nat
    /\ OnGrid(next_epoch, 0, EpochPeriod)
    /\ OnGrid(next_unbond, EpochPeriod, U)
    /\ \A t \in pending :
         /\ t \in Nat /\ now < t /\ t <= now + UnbondPeriod
         /\ t - UnbondPeriod < next_unbond
    /\ \A s, t \in pending : Cell(s) = Cell(t) => s = t

\* The unbonding grid starts with the first epoch, so next_unbond divides.
LEMMA CellOfNextUnbond ==
    ASSUME ScheduleInv
    PROVE  /\ (next_unbond - EpochPeriod) \div U \in Int
           /\ next_unbond - EpochPeriod = U * ((next_unbond - EpochPeriod) \div U)
           /\ (next_unbond - EpochPeriod) % U = 0
  <1>1. PICK k \in Nat : next_unbond = EpochPeriod + U * k
    BY DEF ScheduleInv, OnGrid
  <1>2. U \in Nat \ {0} /\ EpochPeriod \in Nat
    BY UnbondEpochFits, ScheduleAssumption
  <1>3. U * k \in Nat
    BY <1>2, SMT
  <1>4. next_unbond - EpochPeriod = U * k
    BY <1>1, <1>2, <1>3, SMT
  <1>5. k \in Int
    BY SMT
  <1>6. (U * k) \div U = k /\ (U * k) % U = 0
    BY <1>2, <1>5, MultipleDivides
  <1> QED
    BY <1>4, <1>5, <1>6

\* An undelegation started before next_unbond lies in an earlier cell.
LEMMA EarlierCell ==
    ASSUME ScheduleInv, NEW t \in Nat, t - UnbondPeriod < next_unbond
    PROVE  Cell(t) \in Int /\ Cell(t) < (next_unbond - EpochPeriod) \div U
  <1> DEFINE c == (next_unbond - EpochPeriod) \div U
             d == t - UnbondPeriod - EpochPeriod
             e == d \div U
  <1>1. c \in Int /\ next_unbond - EpochPeriod = U * c
    BY CellOfNextUnbond
  <1>2. U \in Nat \ {0} /\ EpochPeriod \in Nat /\ UnbondPeriod \in Nat /\ next_unbond \in Nat
    BY UnbondEpochFits, ScheduleAssumption DEF ScheduleInv
  <1>3. d \in Int /\ d < U * c
    BY <1>1, <1>2, SMT
  <1>4. e \in Int /\ U * e <= d
    BY <1>2, <1>3, DivIs
  <1>5. Cell(t) = e
    BY DEF Cell, U
  <1> HIDE DEF c, d, e
  <1>6. ASSUME e >= c PROVE FALSE
    <2>1. U * e >= U * c
      BY <1>1, <1>2, <1>4, <1>6, SMTT(30)
    <2> QED
      BY <1>1, <1>2, <1>3, <1>4, <2>1, SMT
  <1> QED
    BY <1>1, <1>4, <1>5, <1>6, SMT DEF c

\* Initially both clocks are one epoch ahead and nothing is pending.
LEMMA InitSchedule == Init => ScheduleInv
  <1> SUFFICES ASSUME Init PROVE ScheduleInv
    OBVIOUS
  <1>1. EpochPeriod \in Nat \ {0} /\ U \in Nat \ {0}
    BY ScheduleAssumption, UnbondEpochFits
  <1>2. next_epoch = EpochPeriod /\ next_unbond = EpochPeriod
    BY <1>1, SMT DEF Init
  <1>3. EpochPeriod = 0 + EpochPeriod * 1 /\ EpochPeriod = EpochPeriod + U * 0
    BY <1>1, SMT
  <1>4. OnGrid(next_epoch, 0, EpochPeriod) /\ OnGrid(next_unbond, EpochPeriod, U)
    BY <1>2, <1>3 DEF OnGrid
  <1> QED
    BY <1>1, <1>2, <1>4, SMT DEF Init, ScheduleInv

\* A block takes away what has matured.
LEMMA NextBlockSchedule ==
    ASSUME ScheduleInv, NextBlock
    PROVE  ScheduleInv'
  <1>1. OnGrid(next_epoch, 0, EpochPeriod)' /\ OnGrid(next_unbond, EpochPeriod, U)'
    BY DEF NextBlock, ScheduleInv, OnGrid, U, UnbondEpochLength
  <1>2. \A t \in pending' : t \in pending /\ t > now'
    BY DEF NextBlock
  <1>3. now' \in Nat /\ now' = now + 1 /\ next_epoch' = next_epoch /\ next_unbond' = next_unbond
    BY SMT DEF NextBlock, ScheduleInv
  <1>4. \A t \in pending' : t \in Nat /\ now' < t /\ t <= now' + UnbondPeriod
                            /\ t - UnbondPeriod < next_unbond'
    BY <1>2, <1>3, ScheduleAssumption, SMT DEF ScheduleInv
  <1>5. \A s, t \in pending' : Cell(s)' = Cell(t)' => s = t
    BY <1>2 DEF ScheduleInv, Cell, UnbondEpochLength
  <1> QED
    BY <1>1, <1>3, <1>4, <1>5 DEF ScheduleInv

\* Reinvest moves next_epoch along its grid.
LEMMA ReinvestEpoch ==
    ASSUME ScheduleInv, now >= next_epoch, next_epoch' = NextAfter(next_epoch, EpochPeriod, now)
    PROVE  next_epoch' \in Nat /\ OnGrid(next_epoch, 0, EpochPeriod)'
  <1>1. 0 \in Nat /\ EpochPeriod \in Nat \ {0} /\ next_epoch \in Nat /\ now \in Nat
    BY ScheduleAssumption, SMT DEF ScheduleInv
  <1>2. OnGrid(next_epoch, 0, EpochPeriod)
    BY DEF ScheduleInv
  <1>3. next_epoch' \in Nat /\ OnGrid(next_epoch', 0, EpochPeriod)
    BY <1>1, <1>2, NextAfterOnGrid
  <1> QED
    BY <1>3 DEF OnGrid

\* An undelegation starts in a cell of its own, and next_unbond moves past it.
LEMMA UndelegateSchedule ==
    ASSUME ScheduleInv, ReinvestUndelegate
    PROVE  ScheduleInv'
  <1> DEFINE new == now + UnbondPeriod
             c == (next_unbond - EpochPeriod) \div U
  <1>1. U \in Nat \ {0} /\ EpochPeriod \in Nat /\ UnbondPeriod \in Nat \ {0} /\ now \in Nat
        /\ next_unbond \in Nat /\ now >= next_unbond
    BY UnbondEpochFits, ScheduleAssumption DEF ScheduleInv, ReinvestUndelegate
  <1>2. next_epoch' \in Nat /\ OnGrid(next_epoch, 0, EpochPeriod)'
    BY ReinvestEpoch DEF ReinvestUndelegate
  <1>3. next_unbond' = NextAfter(next_unbond, U, now)
    BY DEF ReinvestUndelegate, U
  <1>4. next_unbond' \in Nat /\ OnGrid(next_unbond', EpochPeriod, U) /\ next_unbond' > now
    BY <1>1, <1>3, NextAfterOnGrid DEF ScheduleInv
  <1>5. OnGrid(next_unbond, EpochPeriod, U)'
    BY <1>4 DEF OnGrid, U, UnbondEpochLength
  <1>6. pending' = pending \cup {new} /\ now' = now
    BY DEF ReinvestUndelegate
  <1>7. Cell(new) \in Int /\ Cell(new) >= c
    <2>1. new - UnbondPeriod - EpochPeriod = now - EpochPeriod
      BY <1>1, SMT
    <2>2. next_unbond - EpochPeriod <= now - EpochPeriod
          /\ next_unbond - EpochPeriod \in Int /\ now - EpochPeriod \in Int
      BY <1>1, SMT
    <2>3. Cell(new) = (now - EpochPeriod) \div U
      BY <2>1 DEF Cell, U
    <2>4. (now - EpochPeriod) \div U \in Int
      BY <1>1, <2>2, DivIs
    <2> QED
      BY <1>1, <2>2, <2>3, <2>4, DivKeepsOrder
  <1>8. \A t \in pending : Cell(t) \in Int /\ Cell(t) < c /\ t \in Nat
    BY EarlierCell DEF ScheduleInv
  <1>9. c \in Int
    BY CellOfNextUnbond
  <1> HIDE DEF c
  <1>10. \A s, t \in pending' : Cell(s) = Cell(t) => s = t
    <2>1. \A t \in pending : Cell(t) # Cell(new)
      BY <1>7, <1>8, <1>9, SMT
    <2> HIDE DEF new
    <2> QED
      BY <1>6, <2>1 DEF ScheduleInv
  <1>11. \A s, t \in pending' : Cell(s)' = Cell(t)' => s = t
    BY <1>10 DEF Cell, UnbondEpochLength
  <1>12. \A t \in pending : t - UnbondPeriod < next_unbond'
    BY <1>1, <1>4, SMT DEF ScheduleInv
  <1>13. new \in Nat /\ now < new /\ new <= now + UnbondPeriod /\ new - UnbondPeriod < next_unbond'
    BY <1>1, <1>4, SMT
  <1> HIDE DEF new
  <1>14. \A t \in pending' : t \in Nat /\ now' < t /\ t <= now' + UnbondPeriod
                             /\ t - UnbondPeriod < next_unbond'
    BY <1>6, <1>12, <1>13 DEF ScheduleInv
  <1> QED
    BY <1>1, <1>2, <1>4, <1>5, <1>6, <1>11, <1>14 DEF ScheduleInv

\* Every step keeps the inductive invariant.
LEMMA NextSchedule == ScheduleInv /\ [Next]_vars => ScheduleInv'
  <1> SUFFICES ASSUME ScheduleInv, [Next]_vars PROVE ScheduleInv'
    OBVIOUS
  <1>1. CASE NextBlock
    BY <1>1, NextBlockSchedule
  <1>2. CASE Reinvest
    <2>1. next_epoch' \in Nat /\ OnGrid(next_epoch, 0, EpochPeriod)'
      BY <1>2, ReinvestEpoch DEF Reinvest
    <2>2. now' = now /\ next_unbond' = next_unbond /\ pending' = pending
      BY <1>2 DEF Reinvest
    <2> QED
      BY <2>1, <2>2 DEF ScheduleInv, OnGrid, Cell, U, UnbondEpochLength
  <1>3. CASE ReinvestUndelegate
    BY <1>3, UndelegateSchedule
  <1>4. CASE UNCHANGED vars
    BY <1>4 DEF vars, ScheduleInv, OnGrid, Cell, U, UnbondEpochLength
  <1> QED
    BY <1>1, <1>2, <1>3, <1>4 DEF Next

\* The inductive invariant holds in every reachable state.
THEOREM ScheduleInvariant == Spec => []ScheduleInv
  BY InitSchedule, NextSchedule, PTL DEF Spec

-----------------------------------------------------------------------------

\* However late reinvest is called, both grids keep the rhythm that was set
\* when the contract was instantiated.
THEOREM RhythmAlwaysKept == Spec => []RhythmKept
  <1>1. ScheduleInv => RhythmKept
    <2> SUFFICES ASSUME ScheduleInv PROVE RhythmKept
      OBVIOUS
    <2>1. PICK k \in Nat : next_epoch = 0 + EpochPeriod * k
      BY DEF ScheduleInv, OnGrid
    <2>2. EpochPeriod \in Nat \ {0}
      BY ScheduleAssumption
    <2>3. next_epoch = EpochPeriod * k
      BY <2>1, <2>2, SMT
    <2>4. next_epoch % EpochPeriod = 0
      BY <2>2, <2>3, MultipleDivides
    <2> QED
      BY <2>4, CellOfNextUnbond DEF RhythmKept, U
  <1> QED
    BY <1>1, ScheduleInvariant, PTL

\* No two pending undelegations were started in the same cell of the unbonding
\* grid, and the next one will be in a later cell.
THEOREM AlwaysOnePerCell == Spec => []OnePerCell
  <1>1. ScheduleInv => OnePerCell
    <2> SUFFICES ASSUME ScheduleInv, NEW s \in pending
                 PROVE  /\ \A t \in pending : Cell(s) = Cell(t) => s = t
                        /\ s - UnbondPeriod < next_unbond
                        /\ (next_unbond - EpochPeriod) \div UnbondEpochLength > Cell(s)
      BY DEF OnePerCell
    <2>1. s \in Nat /\ s - UnbondPeriod < next_unbond
      BY DEF ScheduleInv
    <2>2. Cell(s) \in Int /\ Cell(s) < (next_unbond - EpochPeriod) \div U
      BY <2>1, EarlierCell
    <2>3. (next_unbond - EpochPeriod) \div U \in Int
      BY CellOfNextUnbond
    <2>4. (next_unbond - EpochPeriod) \div U > Cell(s)
      BY <2>2, <2>3, SMT
    <2> QED
      BY <2>1, <2>4 DEF ScheduleInv, U
  <1> QED
    BY <1>1, ScheduleInvariant, PTL

\* An unbonding period touches at most max_concurrent_unbondings + 1 cells.
LEMMA CellsOfPending ==
    ASSUME ScheduleInv, NEW t \in pending
    PROVE  Cell(t) \in ((now + 1 - UnbondPeriod - EpochPeriod) \div U) ..
                       ((now + 1 - UnbondPeriod - EpochPeriod) \div U + MaxConcurrentUnbondings)
  <1> DEFINE a == now + 1 - UnbondPeriod - EpochPeriod
             b == t - UnbondPeriod - EpochPeriod
             p == a \div U
             q == b \div U
             m == MaxConcurrentUnbondings
  <1>1. U \in Nat \ {0} /\ m \in Nat \ {0} /\ m * U >= UnbondPeriod
        /\ EpochPeriod \in Nat /\ UnbondPeriod \in Nat /\ now \in Nat
    BY UnbondEpochFits, ScheduleAssumption DEF ScheduleInv
  <1>2. t \in Nat /\ now < t /\ t <= now + UnbondPeriod
    BY DEF ScheduleInv
  <1>3. a \in Int /\ b \in Int /\ a <= b /\ b < a + UnbondPeriod
    BY <1>1, <1>2, SMT
  <1>4. p \in Int /\ q \in Int /\ a < U * p + U /\ U * q <= b
    BY <1>1, <1>3, DivIs
  <1>5. p <= q
    BY <1>1, <1>3, DivKeepsOrder
  <1>6. Cell(t) = q
    BY DEF Cell, U
  <1> HIDE DEF a, b, p, q, m
  <1>7. ASSUME q > p + m PROVE FALSE
    <2>1. U * q >= U * (p + m + 1)
      BY <1>1, <1>4, <1>7, SMTT(30)
    <2>2. U * (p + m + 1) = U * p + m * U + U
      BY <1>1, <1>4, SMTT(30)
    <2> QED
      BY <1>1, <1>3, <1>4, <2>1, <2>2, SMTT(30)
  <1>8. q \in p..(p + m)
    BY <1>1, <1>4, <1>5, <1>7, SMT
  <1> QED
    BY <1>6, <1>8 DEF a, p, m

\* The unbonding queue never holds more than max_concurrent_unbondings + 1
\* undelegations: their cells are different, and there are no more cells.
THEOREM QueueAlwaysBounded == Spec => []QueueBounded
  <1>1. ScheduleInv => QueueBounded
    <2> SUFFICES ASSUME ScheduleInv PROVE QueueBounded
      OBVIOUS
    <2> DEFINE first == (now + 1 - UnbondPeriod - EpochPeriod) \div U
               cells == first..(first + MaxConcurrentUnbondings)
               f == [t \in pending |-> Cell(t)]
    <2>1. first \in Int /\ MaxConcurrentUnbondings \in Nat
      <3>1. U \in Nat \ {0} /\ now + 1 - UnbondPeriod - EpochPeriod \in Int
        BY UnbondEpochFits, ScheduleAssumption, SMT DEF ScheduleInv
      <3> QED
        BY <3>1, DivIs, ScheduleAssumption
    <2>2. f \in [pending -> cells]
      BY CellsOfPending
    <2>3. \A s, t \in pending : f[s] = f[t] => s = t
      BY DEF ScheduleInv
    <2> HIDE DEF first
    <2>4. IsFiniteSet(cells) /\ Cardinality(cells) = MaxConcurrentUnbondings + 1
      <3>1. first + MaxConcurrentUnbondings \in Int
        BY <2>1, SMT
      <3>2. IsFiniteSet(cells) /\ Cardinality(cells) =
                IF first > first + MaxConcurrentUnbondings THEN 0
                ELSE first + MaxConcurrentUnbondings - first + 1
        BY <2>1, <3>1, FS_Interval
      <3> QED
        BY <2>1, <3>2, SMT
    <2> HIDE DEF f, cells
    <2>5. f \in Injection(pending, cells)
      BY <2>2, <2>3 DEF Injection, IsInjective
    <2>6. Cardinality(pending) <= Cardinality(cells)
      BY <2>4, <2>5, FS_Injection
    <2> QED
      BY <2>4, <2>6 DEF QueueBounded
  <1> QED
    BY <1>1, ScheduleInvariant, PTL

=============================================================================
