# wynd-lsd in TLA+

TLA+ models, TLC runs and TLAPS proofs for the contracts of this repository: a liquid staking
derivative on a Cosmos SDK chain. The core is `contracts/lsd-hub`, which takes the chain's staking
token, delegates it, and issues a cw20 LSD token whose exchange rate grows with the rewards.

Contents: [inventory](#inventory), [modules](#modules), [runs](#runs), [proofs](#proofs),
[where code and documents disagree](#where-code-and-documents-disagree),
[not modelled](#not-modelled), [plan](#plan).

Run a model with `tlc -workers 2 -config HubBooks.cfg MCHub`, check proofs with
`tlapm HubProofs.tla`. `PROJECT.json` lists the runs, the source lines behind each definition,
the hazards and which properties cover them.

## Inventory

### lsd-hub (`contracts/lsd-hub/src`)

State: `CONFIG` (periods, commission, and the two clocks `next_epoch`, `next_unbond`), `STAKE_INFO`
(the validators and their weights), `SUPPLY` (`issued`, `total_bonded`, `claims`,
`total_unbonding`), `BONDED` (stake by validator), `UNBONDING` (by expiry time, the amounts by
validator), `CLAIMS` (by user, amount and release time), `SLASHINGS` (recorded slashing events).

| operation | who | what it does |
|---|---|---|
| `Bond` | user | mints LSD tokens for the payment, at the rate before it |
| `Receive(Unbond)` | cw20 contract, for a user | burns the tokens, promises native tokens for later |
| `Claim` | user | pays the mature claims that fit into the bank balance |
| `Reinvest` + reply | anybody, once an epoch | withdraws rewards, pays the commission, then delegates the surplus or undelegates what claims miss |
| `CheckSlash` | anybody | compares stored with actual delegations and books the loss |
| `SetValidators` | owner (gauges) | redelegates to the new weights |
| `UpdateLiquidityDiscount` | owner | changes a number only the target value depends on |
| `instantiate`, token reply | | checks the parameters, creates the cw20 token, gives its admin rights to the hub's admin |
| `migrate` | admin | may name a new owner; moves the storage of before 1.1.0 unless something is unbonding |

The chain interacts in ways the contract does not see: rewards accrue, validators are slashed,
the staking module pays finished unbondings in its EndBlocker, and every change of a delegation
pays out its rewards without a message to the contract.

Every entry point is one transaction with its replies and messages: it happens entirely or not
at all, so there is no concurrency inside it. What is hard is between transactions:

* the order of users, the reinvest job, the owner and the chain;
* the clock: an unbonding matures by the clock in a block, but is paid at its end;
* reinvest called late, or not for several epochs, while claims get release times that assume it
  is punctual;
* slashes detected late, with everything else going on with stale numbers;
* totals (`SUPPLY`) and details (`BONDED`, `UNBONDING`, `CLAIMS`) that are changed by different
  handlers, some of which return early;
* fixed point arithmetic that rounds down twice, and weights that do not divide the amounts.

Correctness: the totals are the sums of the details and what the chain has; claims are backed;
no operation takes value from the shares that stay; undelegations respect the limit of the staking
module; mature claims are paid; a loss is booked once and on those who have to bear it.

### bond-router (`contracts/bond-router/src`)

State: the configuration, and for the length of a transaction `REPLY_INFO`, the sender. `Bond`
queries the hub's exchange rate, asks the pool how much of the payment it takes until its price
reaches that rate, swaps this much (the pool pays the sender directly), and bonds the rest on the hub. The
hub mints for the router, whose reply sends its LSD balance to the sender. `Simulate` announces the
outcome. Hard: the pool's price and the hub's rate move independently; the simulation rounds
differently from the hub; the reply sends all there is, not what was minted. Correctness: the sender
gets all that was minted, at least what bonding would have brought, and what was announced.

### gauge-adapter (`contracts/gauge-adapter/src`)

State: the version of the contract and the configuration (`hub`, `max_commission`). It answers the gauge orchestrator:
`all_options` are the validators with a commission it allows, `check_option` says whether a
validator exists, `sample_gauge_msgs` turns what the votes selected into `SetValidators`. The orchestrator,
as the hub's owner, executes that message. `migrate` turns a placeholder into the contract, or
rewrites a configuration of before 1.2.0. Hard: the weights are rounded, so they need not add up to
one; executions follow one another and each starts from the stake the last one left; stake that was just
redelegated cannot go on. Correctness: whatever is selected when the gauge's time has come can be executed,
no stake gets lost, the weights are reached with few redelegations.

### packages, scripts

`packages/utils` is a helper, `node_ci_test` and `scripts` are deployment and end-to-end tests.

## Modules

| module | models | source |
|---|---|---|
| `Decimals` | `mul_floor`, `from_ratio` (external, cosmwasm_std) | used by all |
| `Supply` | the accounting record, the exchange rate | `state.rs` |
| `Epochs` | the two grids of times, release times | `state.rs`, `contract.rs` |
| `Valset` | redelegations for new weights | `valset.rs` |
| `LsdHub` | the contract and the chain around it | `contract.rs`, `claim.rs`, `state.rs` |
| `HubProperties` | the properties of `LsdHub` | |
| `HubAdmin` | `LsdHub` with owner, token contract, discount, `instantiate`, `migrate` | `contract.rs`, `msg.rs` |
| `HubScenarios` | the hub's own tests, as scripts that run on `HubAdmin` | `multitest/deposit.rs`, `valset.rs` |
| `BondRouter` | the router on top of `LsdHub`, with a pool | `bond-router/src/contract.rs` |
| `GaugeAdapter` | the adapter on top of `HubAdmin`, with a gauge | `gauge-adapter/src/contract.rs`, `valset.rs` |
| `MCHub`, `MCRefinement`, `MCRouter`, `MCGauge` | instances for TLC | |
| `HubLedger` | abstract: the totals only, without time, validators and users; slashes and their booking by any amount | |
| `EpochSchedule` | abstract: when reinvest and undelegation may happen | |
| `HubRefinement` | `LsdHub` implements both; its inductive invariant | |
| `HubKeeper` | `LsdHub` with a reinvest job that keeps a promise, liveness | |
| `FoldTheory` | proofs: folds over finite sets, loops | |
| `SupplyLemmas`, `HubLemmas` | proofs: rounding; sums, unbondings, claims, payments, redelegations | |
| `LedgerProofs`, `EpochProofs` | proofs: the ledger, the schedule | |
| `HubProofs` | proofs: invariants and step properties of `LsdHub`, both refinements | |
| `RouterProofs`, `GaugeProofs` | proofs: the router; the adapter and `valset.rs` | |

How `LsdHub` corresponds to the code. Each handler is one action (or one for each of its
outcomes: the branches of `after_withdraw_rewards` and its early return, `CheckSlash` with and
without a finding, `SetValidators` with and without stake). A guard collects everything that has to
succeed: error returns, `Uint128` subtractions that panic when negative, `expect`s, the division in
`from_ratio`, and what the staking module rejects. A call that fails changes nothing and is
therefore no step. Losses are also reported in event attributes as differences; these
subtractions are guards too. `CleanedSupply::load` deletes matured unbondings from storage as a side
effect: in the model it is `CleanSupply` (the loaded record) together with
`unbonding' = CleanUnbonding` in every action that calls it, and the actions that return before
`SUPPLY.save` use `ForgetMature`. The variable `forgotten` adds up what those deleted. It is read
by properties only.

Abstractions. Tokens are natural numbers, a Decimal has `DecimalOne` atoms (10 to 10000 in the runs, a
parameter in the proofs). Time counts seconds as far as the periods tell them apart: the model's
periods are one to a few units, where the code requires at least an hour. Addresses, denoms, other
bank accounts (the commission leaves the model), messages and attributes are left out. The order
`sort_unstable` leaves to equal amounts is a nondeterministic choice. Weights and amounts are
model-sized, so that rounding happens in almost every step rather than in the 18th digit.
What a composition needs of a handler is an operator of its own in `LsdHub`: `HubBond` is Bond without the
token balance, `EndBlock` a block of any length, `InitWith` the initial state with any LSD balances.
The chain is external: a reward is any of `Rewards` for a validator with stake, a slash keeps one
of the fractions `SlashKeeps` of both stake and unbonding tokens, `NextBlock` is the EndBlocker and
the advance of the clock. A slash is modelled on the hub's stake at once, and unbonding entries of
a slashed validator always lose (the staking module spares those started after the infraction).

`BondRouter` makes the router and the pool users of the hub, so a route is one step: the swap moves LSD
tokens of the pool, the bond is the hub's handler, the reply moves all the tokens the router has. The
pool is external. All that is known of it is what the router asks of it: a quote trades at least
`target_price` LSD tokens per native token, for as much of the payment as it likes, or nothing
(`Quotes`). A swap the pool refuses makes the whole transaction fail and is no step.

`GaugeAdapter` leaves out the hub's operations other than `SetValidatorsBy` and `MigrateHub`, so that
executions follow one another on three validators and many weights; `hub_slash` has
`SetValidators` among all the others on two. The gauge is external: its options begin as `all_options`,
grow by what passes `check_option`, and its votes select any of them with `Weights` that add up to one
but for `RoundingError`, at most once in `GaugeEpoch` (`due`). The order in a list does not matter to `SetValidators`.
`GaugeAdapter` also has what `LsdHub` leaves out of the staking module: stake that was redelegated stays for
an unbonding period (`held`, from which `ChainRedelegates` refuses to redelegate), and is free when the EndBlocker of
the block in which that ends has run (`GaugeBlock`), so one block later than by the clock. Nothing unbonds in this
module, the hub's own clock stands still.

`HubScenarios` replays 33 of the hub's tests. A script is the sequence of calls and assertions of
a test, in the names of its suite. Amounts are divided by 100 (by 1000 in `change_valset_dust`) to fit
10000 atoms of a Decimal; epochs of a day became the 23 hours of the others; the
rewards, which the tests' chain computes from its APR, are inputs (`Earned`). After a maturity, a test's
`process_native_unbonding` is one more second, because the model's EndBlocker pays what ended
before its block. Assertions on rates and rewards are kept as far as the scaled amounts allow: equal,
above or below.

Definitions named `Mut...` are changed copies of the definition that follows them, each with one
plausible mistake. No specification uses them. They document which mistake each property detects.

## Runs

The `doc_` runs each show a statement of a document or comment that the code does not keep.

| run | module, cfg | shows | bounds |
|---|---|---|---|
| `hub_books` | `MCHub`, `HubBooks` | `UnbondingAccounted`, `UnbondingIsQueued`, `ClaimsAreOwed`, `Solvent`, `RateKept`, `UndelegationCovers`, `TypeOK` | two symmetric users, two validators, weights that round; the owner may set both weights to zero |
| `hub_slash` | `MCRefinement`, `HubSlash` | `HubInv` (the inductive invariant of the proofs), `BondedIsDelegated`, `SlashIsBooked`, `SlashCostsBonded`, `FreshClaimsWhole`, `ImplementsLedger`, `ImplementsSchedule` | one user, one slash, found at any later time or never, with redelegations before and after to a list whose weights leave dust behind; partial unbonding, so that unbondings overlap the slash and claims follow it |
| `hub_keeper` | `HubKeeper`, `HubKeeper` | `ReleasedClaimsComing`, `ClaimsSettle` (liveness) | two users, one validator, delay of one block |
| `ledger` | `HubLedger`, `HubLedger` | `LedgerInv`, `LedgerRateKept` | deposits and rewards as long as there are 2 tokens, amounts in the books up to 3, one slash; proved for all |
| `epochs` | `EpochSchedule` | `RhythmKept`, `OnePerCell`, `QueueBounded` | 40 seconds, three concurrent unbondings; proved for all |
| `gauge` | `MCGauge`, `GaugeAdapter` | `ExecutionAccepted`, `BalancesFollowMessages`, `WeightsReached`, `RedelegationsFew` | three validators, any sequence of executions, two blocks in a gauge epoch |
| `router` | `MCRouter`, `BondRouter` | `CirculationIsIssued`, `BestPriceAtPar`, `SimulationKept`, `SimulationClose`, `RouterPassesOn` | a person, the router, the pool, one validator |
| `scenarios` | `HubScenarios` | `AssertionsHold`, no deadlock | 33 scripts with the periods of the tests |
| `doc_undelegation` | `MCHub`, `DocUndelegation` | violated: `NoUndelegationPanic` | |
| `doc_unbonding_claimed` | `MCHub`, `DocUnbondingClaimed` | violated: `UnbondingIsClaimed` | one slash |
| `doc_best_price` | `MCRouter`, `DocBestPrice` | violated: `BestPrice` | one slash |
| `doc_simulation` | `MCRouter`, `DocSimulation` | violated: `SimulationHolds` | all shares burnt, one reward |

Why the bounds are enough to matter. `MaxTime` (4 or more, with periods of 1 to 3) covers an
undelegation, its maturity, the lag of the EndBlocker, and another epoch after it; `MaxTokens`
covers a deposit with rewards and, in most runs, a second deposit; every action and every branch of reinvest,
check_slash and set_validators is taken in the passing runs. `MaxSlashes`, `MaxSlashings` bound the
slashes. `CHECK_DEADLOCK FALSE` is set because the bounds on time and tokens end every behaviour.
`EpochSchedule` reaches `max_concurrent_unbondings + 1` with its bounds, so `QueueBounded` is tight.

`gauge`: weights {0, 2, 3, 5, 8, 10} of 10 and totals up to 18 make every list round, the sums fall short
of one by at most 1, the stake the hub starts with need not fit its list, and there is no bound on the number of
executions or blocks: the states are all reached. The gauge's epoch is the unbonding period, two blocks long: the least
`ExecutionAccepted` can have. `router`: with `MaxTime` 3 and 5 tokens there is an
undelegation and its payment, with a reward and a claim around it; the pool has 3 LSD tokens (`InitialShares`, the cw20's
initial balances) and somebody may send the router one (`Gifts`).
`scenarios` is the only run that checks for deadlock: a call a test unwraps has to be possible, so
a script that cannot go on is an error. It is what ties the hand-made bounds of the other runs
to real periods: 23 hours, 28 days, a safety margin of 600 seconds, seven concurrent unbondings.

`ledger` needs a bound on the books as well: after a slash the chain pays what the books still wait
for, so they may grow without end (`BookedAmounts`, all natural numbers in the refinement).

Conditions in the properties. `NoSlash` is the time before the chain slashes: from then on the books are
ahead of the chain until a check, and claims are not backed in full. `Solvent`, `BondedIsDelegated`,
`UnbondingIsQueued` and half of `ClaimsAreOwed` end with it; `RateKept`, `UndelegationCovers` and both
refinements do not. Transactions that delete unbondings without saving the total (see below) are not
excluded: `forgotten` says by how much the total is off, and `UnbondingAccounted`, `Solvent` and
`ClaimsAreOwed` have it in their bounds; only that the claims are exactly what users are owed needs it to be zero. `RateKept` leaves out the check that books a slash, and the passage of time:
`Lagging` is the block between the maturity by the clock and the payment, when the rate dips.

`UndelegationCovers` has a term for what no undelegation reaches. `set_validators` rounds the new
targets down and leaves the rest where it is, so a validator that leaves the list may keep dust in `BONDED`:
of five tokens on `v1`, two each go to `v2` and `v3`, and one stays. Reinvest undelegates from listed
validators only, so claims that need this token wait for the next redelegation (`Stray`). The weights
do not matter: what they round off, or fall short of one by, is taken from the first validators that have stake.

Fairness (`HubKeeper`). The code promises nothing by itself: claims are only paid if somebody calls
reinvest, as `docs/ALGORITHMS.md` expects of a job. `Block` has strong fairness: a block
contains finitely many transactions and the chain keeps producing them. `Keep` has weak fairness and
`Block` cannot pass `next_epoch + KeeperDelay` while reinvest can be called: that is the promise of
the job, and reinvest needs no permission. `Accrue` is the chain's income, `Settle` the user coming
for the claim. The job is `Prudent`: it does not call in the block before the EndBlocker pays,
nor when there is no balance (in either case reinvest would use up the epoch without undelegating).
Users stop after `LastRequest`, otherwise claims never end.

`BestPriceAtPar`, `SimulationKept` and `SimulationClose` speak of every quote the pool may make in a state,
whether or not it is taken. The simulation has an answer (`Simulates`) whenever the exchange rate can be computed
and is not zero, also when nothing is issued: the rate is one then. `SimulationClose` leaves out one kind of state,
`Stranded`: all shares are burnt and assets are left. There the announcement is wrong, which `doc_simulation` shows
(see below). `BestPrice` without the condition on the rate fails as well.

`ReleasedClaimsComing` and `ClaimsSettle` have two users. A claim whose tokens were undelegated late is
released before they arrive and may be paid with the tokens of the other user, who then waits in turn
(the comment in `unbond`: "the claiming will just fail until the funds are available"). So it is not true that each single claim
is covered some bounded time after its release. What is true is that all released claims together are covered by the
balance and by what the staking module pays within `Slack`, an epoch and the delay of the job: users compete
for time only, and in the end all of them are paid. `ReleasedClaimsComing` needs an unbonding period longer than
`Slack`, as any real one is: claims made between two undelegations must not be released before the second.

## Proofs

Checked by TLAPS for every value of the constants: any finite sets of users and validators, any
amounts, periods and number of atoms. The assumptions are those of `LsdHub` (`HubAssumption` is what
`instantiate` checks, `InputAssumption` types the inputs) and, for the adapter, `GaugeAssumption`
(weights are at most one each). The bounds of the runs (`MaxTime`, `MaxTokens`, ...) are arbitrary numbers.

**Foundations.** `FoldTheory` is about one fold, whose operation, start value, elements and choice of the
next element are constants. Its recursive function is never unfolded beyond one element:
`FoldUnfolds` takes an element off a finite set, everything else is induction over finite sets. `LoopRuns` and
`LoopKeeps` are for loops: a set of pairs (number of rounds, state) that holds the start and
is closed under a round holds the result. Each sum and each `FoldLeft` of the models is an instance:
the sums of the community modules, `Slashed`, `ClaimTokens`, `UndelegatePayments`, the redelegations, and the
two nested loops of `valset.rs`.

`SupplyLemmas` is about double rounding: `MulRatioAtMost` (`mul_floor` of a `from_ratio` never exceeds the
exact quotient; `MulRatioAtLeast` says how far it stays below) gives `NativeForBounds` and `SharesForBounds`, that Unbond and Bond never pay more than the rate.
`HubLemmas` has one lemma for each computation of the contract: what cleaning up, entering, and reducing
unbondings does to their total, that payments by weight add up (`DelegatedSurplus`, `UndelegatedMissing`), what
`ClaimTokens` pays and leaves, and `ValsetChange`: after the greedy matching the redelegations lead from the
old balances to the new ones, which have the same sum.

**The ledger** (`LedgerProofs`). `LedgerSolvency` (claims are backed) is not inductive: Unbond adds a claim
that is bounded by the assets the contract computes, so these have to be related to the tokens that
exist. `LedgerInv` adds `BooksMatch`: `total_bonded` is the stake, the stored unbonding and the queue differ
exactly by what has matured and is not paid, the total for unbonding exceeds its sum by at most
`forgotten`, and what users are owed is in the claims but for what was forgotten. With a slash (`Slash`) the chain
goes its own way: what is left of the invariant is that shares, total and sums fit, which is what keeps
every subtraction above zero, until and after a check (`Book`) has found it. `LedgerRate`: no operation
lowers the assets per share, and the slash itself does not, since the books do not know of it.

**The contract** (`HubProofs`). `HubInvariant` is `Spec => []HubInv`, from which the invariants follow. Its parts:

* `TypeOK`, `TotalBondedIsSum` and `UnbondingAccounted`, which need each other: a subtraction stays above zero
  because the total is the sum of details of which one is subtracted;
* `StakeKnown` and `UnbondingIsQueued` while nobody was slashed: reinvest undelegates and
  `set_validators` redelegates by what is stored, the chain by what it has;
* `ExpiriesBehind`: an entry in `UNBONDING` replaces the one for the same time, and the
  staking module adds to it; that no expiry time is used twice is what keeps them equal;
* `SlashingsFair`: a claim pays for the recorded slashes, so a claim is worth its amount only if none was recorded
  without a slash;
* the invariant of the ledger, read through the sums (`Ledger!LedgerInv`). It
  bounds what a claim may promise, and gives `Solvent`, `ClaimsAreOwed`, `BondedIsDelegated`.

`LedgerImplemented` proves the refinement for every behaviour: each handler is an operation of the
ledger or leaves its totals alone, a slash of the chain takes a part of the stake and of both parts of the
queue (`SlashLedger`), a check that finds one is `Book` (`FoundLedger`), the rest is the clock
(`BlockLedger`, `LedgerStep`). `RateAlwaysKept` follows from it and from `LedgerRate`. `ScheduleImplemented`
proves the other refinement, and `UnbondingsAlwaysBounded` carries the bound on the queue over to the contract.

About single handlers, in any state the invariant allows:

* `SlashAlwaysBooked`: a slashed validator keeps the part `from_ratio` computes, so the two roundings bound
  what `BONDED` has below the chain; for the others the loss is below the threshold, and one without stored
  stake but with stake on the chain would have stopped the check.
* `SlashAlwaysCostsBonded`, and `FreshClaimsAlwaysWhole`, whose additional invariant `SlashingsPast` says that no
  recorded slash ends later than an unbonding that would start now.
* `UndelegationsCover`: the loop over the validators ends with nothing left to find or with every listed one
  emptied (`UndelegatedMissing`). In the second case all of `BONDED` that is left is on others, and the assets
  (`QueryAssets`, at least zero) are what covers the claims.

**The schedule** (`EpochProofs`). `ScheduleInv` says that both clocks are on their grids and that every pending
undelegation was started before `next_unbond`. A time before a grid point lies in an earlier cell, so a
new undelegation has a cell of its own, and an unbonding period touches at most
`max_concurrent_unbondings + 1` cells: `Cell` is an injection from the queue into them.

**The router** (`RouterProofs`). `BooksInv` is inductive for the router's steps as well
(`RouterBooksInvariant`), since it does not mention who holds the tokens; circulation follows with one more
conjunct, `CirculationInv`. `BestPriceAlwaysAtPar` and
`SimulationAlwaysKept` are about rounding: the chain of floors in both rates, for any quote (`RouteAsSimulated`); with nothing
issued both rates are one, or the hub mints nothing (`RouteUnissued`). `SimulationAlwaysClose`
bounds the same floors from below: the product of the two rates, each one atom higher, is above one (`RatesBelow`), so
the announcement exceeds what arrives by one token and `RateRounding`, which is zero for amounts far
below 10^18. `RouterAlwaysPassesOn` is what the reply guarantees.

**The adapter and `valset.rs`** (`GaugeProofs`). `GaugeSafe` has the inductive invariant `GaugeInv`: stored
balances, stake and total agree, every list but the first has reached its targets, and each of the last redelegations
was the last of its source or destination. The work is in what the matching keeps, move by move (`MatchInduction`):

* `GaugeExecutes`: what was taken from a validator and what it has still to give is what it has above its
  target (`Taken`), so the chain has the stake. Nobody both gives and
  gets, and no redelegation takes longer than the gauge's epoch (`HeldInv`), so all the stake is free to move, if this
  epoch is at least the unbonding period as the documents demand: that is the theorem's hypothesis.
* `GaugeMovesLittle`: each move is the last one of the giver or of the taker, the last of all is of both (`FewSoFar`), so
  that there are fewer moves than validators. Fewer still may do: see below;
* `GaugeReaches`: after the loops every taker and every giver have met, so one of the two has nothing left
  (`MatchMeets`). A taker left with less than its target would mean that nobody has more than his, and the
  sum would be below the sum of the targets. That sum is at most what is bonded, because
  the weights are at most one together (`PartsFit`).

Before they were proved, TLC checked the inductive invariants: `HubInv` and `LedgerInv` are properties of runs,
`GaugeInv` and `HeldInv` hold in all 116576 states of the `gauge` run.

**Only model-checked.**

* Liveness (`ClaimsSettle`), and `ReleasedClaimsComing`: the promise of the job is stated with `ENABLED`, which
  the provers do not have, like the fairness that `ClaimsSettle` needs.
* `AssertionsHold`: the tests, one by one.

## Where code and documents disagree

With a run that shows it:

* `NoUndelegationPanic` (`contract.rs:719`). A listed validator of weight zero that never had stake
  is not in `BONDED`: reinvest panics as long as liquidity is missing.
* `UnbondingIsClaimed` (`contract.rs:527-529`). A claim that was paid from a later deposit
  leaves more unbonding than claims; `check_slash` underflows when it finds a slash, which then stays
  unbooked.
* `BestPrice` (`bond-router/src/contract.rs:105`). The router hands the pool the exchange rate, in native
  tokens per LSD token, as a price in LSD tokens per native token. At a rate above one it swaps less than it
  could; below one, it swaps where bonding brings more. A slash lowers the rate below one, and so does
  the block before the EndBlocker pays; at one and above `BestPriceAtPar` is proved.
* `SimulationHolds` (`bond-router/src/contract.rs:238`). The hub's two rates (lsd-hub `state.rs:286`, `state.rs:297`) are not each
  other's inverse when all LSD tokens have been burnt and assets are left, which rewards do: `tokens_per_share` is one,
  `shares_per_token` zero. The simulation announces the payment, the hub takes it and mints nothing.

Found with TLC while modelling, not kept as runs:

* `check_slash` without a finding, reinvest with no balance, and `set_validators` with nothing
  bonded delete matured unbondings and return without saving `SUPPLY`, which `state.rs:210` expects to be
  their sum. `total_unbonding` keeps them for ever, so reinvest believes that claims are covered and
  delegates the tokens they need, and the assets exceed what exists. `UnbondingAccounted` bounds by how much.
* In the block before the EndBlocker pays, the exchange rate dips (DESIGN.md:89 "monotonically
  increasing"); `RateKept` states what holds instead.
* The queue may hold one undelegation more than `max_concurrent_unbondings` (`state.rs:26`):
  `QueueBounded`.
* "sufficient liquid balance to cover any mature claims" (DESIGN.md:107) does not hold. With a job that does not look at
  the balance (`Prudent = FALSE`, `KeeperDelay = 0`, one user), a reinvest without balance returns before it undelegates
  (`contract.rs:615`) and has used up the epoch: the claim is released long before its tokens are back. With two users
  and a prudent job one block late, a claim is paid with what was undelegated for the other one (`claim.rs:69`), who has then waited
  for more than `Slack` and finds less than the claim in the balance.
* "they cannot be updated more often than once per `unbonding_period`" (DESIGN.md:112, ALGORITHMS.md:103): `set_validators`
  (`contract.rs:175`) keeps no time and accepts an update at any time; with a `GaugeEpoch` below the unbonding period TLC finds
  updates while redelegations are in progress, and selections the staking module refuses. `ExecutionAccepted` is about slower gauges.
* "the minimum set of redelgations" (DESIGN.md:117): the greedy matching of `valset.rs:74` does not compute it. From 3, 2 and 2
  to 4 and 3 on two other validators it sends four redelegations (3 to the first, 1 to complete it, 1 and 2 for the second), and three do: 3
  to the second, 2 and 2 to the first. The comment at `valset.rs:68` only says "(probably) reduce"; `RedelegationsFew` is what holds.
* A claim released before the slash whose tokens were undelegated late keeps its amount while
  `claims` is reduced for it: the last claim fails on `checked_sub`. A claim made after the slash, while
  reinvest is overdue, pays for the slash a second time; `FreshClaimsWhole` states when it does not.
* A slash of stake that backs claims not undelegated yet makes claims exceed everything else:
  the assets underflow and no rate can be computed.
* A slash of a validator with only unbonding stake of the hub is not found.
* `check_slash` rounds what is left of a validator's stake down. When that leaves zero in `BONDED` and one
  token on the chain (three tokens, of which the slash leaves one), or when a redelegation leaves
  such a token on a validator `BONDED` does not list, the next `check_slash` takes the validator for slashed,
  because zero is not below a threshold of zero, and divides by zero (`contract.rs:456`).

## Not modelled

* Lists that name a validator twice, the staking module's ban on redelegating again what was just
  redelegated in `LsdHub` itself (`GaugeAdapter` has it), `now - slashing_safety_margin` below zero (block times are far above it).
* `debug_assert`s (not in the release build), the tombstone threshold (unused), events and attributes,
  the queries that only read storage, other accounts' balances outside `HubScenarios`.
* `parse_reply_instantiate_data` (the new token's address is `LsdToken`), the router's `instantiate` (it
  stores addresses), its maximal spread and `ITERATIONS` (left to the pool's choice of quotes).
* Changes of a validator's commission while a gauge runs: `Commissions` is a constant, any function.
  A change would matter to `all_options` only, since `check_option` and `sample_gauge_msgs` do not
  look at commissions, and the model already selects validators above `max_commission`.
* The tests of the router and the adapter, `packages/utils`, `node_ci_test`, `scripts`: they call the
  contracts with one input each, or need a node.

## Plan

1. (done) `Decimals`, `Supply`, `Epochs`, `Valset`, `LsdHub` with the invariants of the books;
   `HubLedger` with its proofs; `HubRefinement`; `HubKeeper`; `EpochSchedule` with its proofs.
2. (done) `HubAdmin`, `BondRouter` composed with the hub and a pool, `GaugeAdapter` with the gauge and
   `SetValidators`, `HubScenarios`.
3. (done) Proofs about the contract itself: folds and loops, the inductive invariant, both refinements, the
   step properties about the rate and about slashes; the router; the adapter and `valset.rs`.
4. (done) Slashes in the ledger, so that the refinement covers every behaviour; `UndelegationCovers`,
   `SlashIsBooked` and `SimulationClose` with bounds that hold for all amounts, and their proofs.
5. (done) Redelegations in progress and the gauge's epoch, two users in `HubKeeper`, the simulation with nothing
   issued, a list whose weights round together with slashes.
