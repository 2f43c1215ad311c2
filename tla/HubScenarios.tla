----------------------------- MODULE HubScenarios -----------------------------
(***************************************************************************)
(* The hub's own tests, replayed on the model: each test is a script of    *)
(* the calls it makes and of what it asserts in between.  Amounts are      *)
(* scaled down to the atoms a Decimal has here, tests with epochs of a     *)
(* day run with the 23 hours of the others, and the rewards, which the     *)
(* tests' chain computes from its APR, are part of the script.             *)
(***************************************************************************)
EXTENDS HubAdmin

CONSTANTS
    Owner, Anyone,     \* accounts; Owner is the owner of every hub
    OtherToken,        \* a cw20 contract that is not the hub's
    Funds              \* native tokens of each user at first

VARIABLES
    test,     \* the test that runs
    pc,       \* its next step
    wallet    \* native tokens of the users and of the treasury

scenarioVars == <<adminVars, test, pc, wallet>>

-----------------------------------------------------------------------------
(* What a script is made of: the methods of Suite and the assertions *)

bond(u, paid) == [do |-> "bond", user |-> u, amount |-> paid]
unbond(u, contract, shares) == [do |-> "unbond", user |-> u, contract |-> contract, amount |-> shares]
unbond_all(u) == [do |-> "unbond_all", user |-> u]
claim(u) == [do |-> "claim", user |-> u]
reinvest == [do |-> "reinvest"]
check_slash == [do |-> "check_slash"]
set_validators(sender, valset) == [do |-> "set_validators", sender |-> sender, valset |-> valset]
update_liquidity_discount(sender, discount) ==
    [do |-> "update_liquidity_discount", sender |-> sender, discount |-> discount]
update_time(seconds) == [do |-> "update_time", seconds |-> seconds]
update_time_to_release(u) == [do |-> "update_time_to_release", user |-> u]
slash(v, keep) == [do |-> "slash", validator |-> v, keep |-> keep]
earn(v, amount) == [do |-> "earn", validator |-> v, amount |-> amount]

\* a path into what a test can query, and the value it should have
is(path, value) == [do |-> "is", path |-> path, value |-> value]
above(path, value) == [do |-> "above", path |-> path, value |-> value]
below(path, value) == [do |-> "below", path |-> path, value |-> value]
fails(step) == [do |-> "fails", step |-> step]
accepts(msg) == [do |-> "accepts", msg |-> msg]
rejects(msg) == [do |-> "rejects", msg |-> msg]
simulate_valset(total, from, to) == [do |-> "simulate_valset", total |-> total, from |-> from, to |-> to]
simulates_to(total, from, to, balances) ==
    [do |-> "simulates_to", total |-> total, from |-> from, to |-> to, balances |-> balances]

Repeat(n, steps) == FlattenSeq([i \in 1..n |-> steps])

\* rewards of v1, v2, ... since the last step
Earned(amounts) ==
    SelectSeq([i \in DOMAIN amounts |-> earn(<<"v1", "v2", "v3", "v4">>[i], amounts[i])],
              LAMBDA step : step.amount > 0)

List(vals, weights) == [i \in DOMAIN vals |-> [validator |-> vals[i], weight |-> weights[i]]]
Split(vals, percents) == List(vals, [i \in DOMAIN vals |-> Percent(percents[i])])

Whole == Split(<<"v1">>, <<100>>)
Halves == Split(<<"v1", "v2">>, <<50, 50>>)
Thirds == Split(<<"v1", "v2", "v3">>, <<50, 30, 20>>)

Script(validators, steps) ==
    [validators |-> validators, liquidity_discount |-> Percent(4), steps |-> steps]

Day == 24 * Hour
Epoch == 23 * Hour
\* the chain pays in the block after the one in which an unbonding ends
process_native_unbonding == update_time(1)

\* InstantiateMsg of SuiteBuilder::build
Message(script) ==
    [commission |-> Commission, validators |-> script.validators, owner |-> Owner,
     liquidity_discount |-> script.liquidity_discount, epoch_period |-> EpochPeriod,
     unbond_period |-> UnbondPeriod, max_concurrent_unbondings |-> MaxConcurrentUnbondings]

-----------------------------------------------------------------------------
(* multitest/deposit.rs *)

proper_init == Script(Whole, <<is(<<"token", "admin">>, ChainAdmin)>>)

basic_minting_case == Script(Whole, <<
    bond("delegator1", 10000), bond("delegator2", 10000),
    is(<<"tokens">>, [delegator1 |-> 10000, delegator2 |-> 10000]),
    update_time(Day), reinvest,
    is(<<"delegations">>, [v1 |-> 20000]), is(<<"supply", "total_bonded">>, 20000)>>)

change_valset_dust == Script(Halves, <<
    bond("delegator1", 3333), update_time(Epoch), reinvest,
    is(<<"delegations">>, [v1 |-> 1667, v2 |-> 1666]),
    is(<<"supply", "total_bonded">>, 3333), is(<<"bonded">>, [v1 |-> 1667, v2 |-> 1666]),
    update_time(27 * Day + Hour),
    set_validators(Owner, Split(<<"v2", "v3">>, <<50, 50>>)),
    is(<<"delegations">>, [v1 |-> 1, v2 |-> 1666, v3 |-> 1666]),
    is(<<"supply", "total_bonded">>, 3333), is(<<"bonded">>, [v1 |-> 1, v2 |-> 1666, v3 |-> 1666])>>)

set_new_valset_more_validators ==
    LET Quarters == Split(<<"v1", "v2", "v3", "v4">>, <<25, 25, 25, 25>>)
    IN  Script(Halves,
          <<bond("delegator1", 10000), update_time(Day), reinvest,
            is(<<"delegations">>, [v1 |-> 5000, v2 |-> 5000]),
            set_validators(Owner, Quarters),
            is(<<"delegations">>, [v1 |-> 2500, v2 |-> 2500, v3 |-> 2500, v4 |-> 2500]),
            update_time(Day)>> \o Earned(<<13, 13, 12, 12>>) \o
          <<reinvest, is(<<"delegations", "v1">>, 2512), is(<<"validator_set">>, Quarters)>>)

set_new_valset_less_validators ==
    LET Rest == Split(<<"v2", "v3">>, <<50, 50>>)
    IN  Script(Split(<<"v1", "v2", "v3">>, <<33, 33, 34>>),
          <<bond("delegator1", 10000), update_time(Day), reinvest,
            is(<<"delegations">>, [v1 |-> 3300, v2 |-> 3300, v3 |-> 3400]),
            set_validators(Owner, Rest),
            is(<<"delegations">>, [v2 |-> 5000, v3 |-> 5000]),
            update_time(Day)>> \o Earned(<<0, 17, 16>>) \o
          <<reinvest, is(<<"validator_set">>, Rest), is(<<"delegations">>, [v2 |-> 5016, v3 |-> 5016])>>)

deposit_reinvest == Script(Thirds,
    <<is(<<"exchange_rate">>, DecimalOne),
      bond("delegator1", 10000), is(<<"exchange_rate">>, DecimalOne),
      update_time(Day), reinvest, update_time(Day)>> \o Earned(<<20, 12, 8>>) \o
    <<reinvest, above(<<"exchange_rate">>, DecimalOne), above(<<"delegated">>, 10000),
      bond("delegator2", 10000), below(<<"tokens", "delegator2">>, 10000),
      update_time(Day), reinvest, above(<<"delegated">>, 20000)>>)

target_value == [Script(Thirds,
    <<is(<<"target_value">>, Percent(94)),
      bond("delegator1", 10000), is(<<"target_value">>, Percent(94)),
      update_time(Day), reinvest, is(<<"target_value">>, Percent(94)),
      fails(update_liquidity_discount(Anyone, Percent(5))),
      fails(update_liquidity_discount(Owner, Percent(100))),
      update_liquidity_discount(Owner, Percent(10)), is(<<"target_value">>, Percent(90)),
      update_time(Day)>> \o Earned(<<20, 12, 8>>) \o
    <<reinvest, is(<<"target_value">>, 9034),
      bond("delegator2", 10000), is(<<"target_value">>, 9034), update_time(Day)>> \o
      Earned(<<20, 12, 8>>) \o
    <<reinvest, is(<<"target_value">>, 9051),
      unbond("delegator1", LsdToken, 10000), is(<<"target_value">>, 9051)>>)
    EXCEPT !.liquidity_discount = Percent(6)]

commission == Script(Split(<<"v1", "v2", "v3">>, <<10, 20, 70>>),
    <<bond("delegator1", 10000), update_time(Day), reinvest, bond("delegator1", 10000),
      is(<<"wallet", "treasury">>, 0), update_time(Day)>> \o Earned(<<4, 8, 29>>) \o
    <<reinvest, is(<<"wallet", "treasury">>, 2)>>)

tiny_weights == Script(List(<<"v1", "v2", "v3">>, <<10, 1, DecimalOne - 11>>),
    <<bond("delegator1", 1000), update_time(Day), reinvest,
      is(<<"delegations">>, [v1 |-> 2, v3 |-> 998])>>)

simple_bond_unbond_claim == Script(Whole,
    <<bond("delegator1", 10000), bond("delegator2", 10000),
      is(<<"tokens", "delegator1">>, 10000),
      unbond("delegator1", LsdToken, 10000), is(<<"claims", "delegator1">>, 1),
      update_time(Epoch + 28 * Day), claim("delegator1"), is(<<"wallet", "delegator1">>, Funds)>>)

bond_unbond == Script(Halves,
    <<bond("delegator1", 10003), update_time(Epoch), reinvest, update_time(Epoch)>> \o
      Earned(<<20, 20>>) \o
    <<reinvest, unbond("delegator1", LsdToken, 10003),
      update_time(5 * Epoch)>> \o Earned(<<100, 100>>) \o
    <<reinvest, update_time(28 * Day), process_native_unbonding, claim("delegator1")>>)

small_delegations == Script(Halves,
    Repeat(100, <<bond("delegator1", 32), update_time(Epoch), reinvest,
                  earn("v1", 1), earn("v2", 1)>>) \o
    <<unbond_all("delegator1"), update_time(Epoch), reinvest,
      is(<<"claims", "delegator1">>, 1),
      update_time_to_release("delegator1"), process_native_unbonding, claim("delegator1"),
      above(<<"wallet", "delegator1">>, Funds)>>)

actual_undelegation_flow ==
    LET FiveEpochs == Repeat(5, <<update_time(Epoch), earn("v1", 40), reinvest>>)
        Paid == <<update_time(28 * Day), process_native_unbonding>>
    IN  Script(Whole,
          <<bond("delegator1", 10000), bond("delegator2", 10000), update_time(Epoch), reinvest,
            unbond("delegator1", LsdToken, 10000), is(<<"claims", "delegator1">>, 1)>> \o
            FiveEpochs \o Paid \o
          <<claim("delegator1"), is(<<"wallet", "delegator1">>, Funds),
            unbond("delegator2", LsdToken, 10000), reinvest>> \o FiveEpochs \o Paid \o
          <<claim("delegator2"), above(<<"wallet", "delegator2">>, Funds)>>)

bond_unbond_simultaneously == Script(Whole,
    <<bond("delegator1", 10000), update_time(Epoch), reinvest,
      bond("delegator2", 10000), unbond("delegator1", LsdToken, 10000),
      update_time(5 * Epoch + 28 * Day), reinvest,
      claim("delegator1"), is(<<"wallet", "delegator1">>, Funds)>>)

unbond_epoch_handling ==
    LET Unbonded == [v1 |-> 5522, v2 |-> 3515, v3 |-> 1005]
        Waiting == <<is(<<"supply", "total_bonded">>, 10042), is(<<"bonded">>, Unbonded),
                     is(<<"supply", "total_unbonding">>, 958),
                     is(<<"unbonding_info">>, [num_epochs |-> 1, total_entries |-> 3])>>
    IN  Script(Split(<<"v1", "v2", "v3">>, <<55, 35, 10>>),
          <<bond("delegator1", 10000), bond("delegator2", 1000), update_time(Epoch), reinvest,
            unbond("delegator2", LsdToken, 1000),
            is(<<"supply", "total_bonded">>, 11000),
            is(<<"bonded">>, [v1 |-> 6050, v2 |-> 3850, v3 |-> 1100]),
            is(<<"supply", "claims">>, 1000), is(<<"supply", "total_unbonding">>, 0),
            is(<<"unbonding_info">>, [num_epochs |-> 0, total_entries |-> 0]),
            update_time(Epoch)>> \o Earned(<<24, 16, 4>>) \o
          <<reinvest, process_native_unbonding, is(<<"supply", "claims">>, 1000)>> \o Waiting \o
          <<unbond("delegator1", LsdToken, 10000), update_time(Epoch), reinvest,
            process_native_unbonding, is(<<"supply", "claims">>, 11042)>> \o Waiting \o
          <<update_time(4 * Epoch)>> \o Earned(<<55, 35, 10>>) \o
          <<reinvest, process_native_unbonding,
            is(<<"supply", "total_bonded">>, 95), is(<<"supply", "claims">>, 11042),
            is(<<"unbonding_or_liquid">>, 11042),
            is(<<"unbonding_info">>, [num_epochs |-> 2, total_entries |-> 6])>>)

-----------------------------------------------------------------------------
(* multitest/slashing.rs *)

simple_liveness_slash == Script(Whole,
    <<bond("delegator1", 10000), update_time(Epoch), reinvest,
      slash("v1", DecimalOne - Percent(1) \div 10), check_slash,
      is(<<"supply", "total_bonded">>, 9990), is(<<"bonded", "v1">>, 9990),
      is(<<"exchange_rate">>, DecimalOne - Percent(1) \div 10),
      unbond("delegator1", LsdToken, 10000), update_time(5 * Epoch), earn("v1", 100), reinvest,
      update_time(28 * Day), process_native_unbonding,
      claim("delegator1"), is(<<"wallet", "delegator1">>, Funds - 10)>>)

timing_check(wait_time) == Script(Whole,
    <<bond("delegator1", 10000), update_time(Epoch), reinvest,
      unbond("delegator1", LsdToken, 10000), update_time(5 * Epoch), earn("v1", 100), reinvest,
      update_time(wait_time), slash("v1", DecimalOne - Percent(1) \div 10), fails(check_slash)>>)

pending_claims_slashed == Script(Whole,
    <<bond("delegator1", 10000), update_time(Epoch), reinvest,
      unbond("delegator1", LsdToken, 10000), update_time(5 * Epoch), earn("v1", 1052), reinvest,
      is(<<"balance">>, 1000), is(<<"supply", "total_unbonding">>, 9000),
      slash("v1", DecimalOne - Percent(1) \div 10), update_time(300), check_slash,
      is(<<"unbonding_info">>, [num_epochs |-> 1, total_entries |-> 1]),
      is(<<"supply", "total_unbonding">>, 8991), is(<<"supply", "total_bonded">>, 999),
      is(<<"bonded">>, [v1 |-> 999]), is(<<"supply", "claims">>, 9991),
      is(<<"unbonding_or_liquid">>, 9991),
      update_time(28 * Day), process_native_unbonding,
      claim("delegator1"), is(<<"wallet", "delegator1">>, Funds - 10)>>)

-----------------------------------------------------------------------------
(* multitest/reinvest.rs and multitest/sad_path.rs *)

\* a stake too small to earn anything, on the first or on the last validator
test_empty_rewards(validators, stakes, earning) == Script(validators,
    <<bond("delegator1", 10000), update_time(Epoch), reinvest,
      is(<<"delegations">>, stakes), update_time(Day), earn(earning, 40),
      reinvest, is(<<"rewards">>, 0), is(<<"balance">>, 0)>>)

reinvest_failing_withdraw ==
    LET Tiny(weights) == List(<<"v1", "v2">>, weights)
    IN  [first |-> test_empty_rewards(Tiny(<<1, DecimalOne - 1>>), [v1 |-> 1, v2 |-> 9999], "v2"),
         last |-> test_empty_rewards(Tiny(<<DecimalOne - 1, 1>>), [v1 |-> 9999, v2 |-> 1], "v1")]

bonded_updated_correctly == Script(Halves,
    <<bond("delegator1", 10000), update_time(Epoch), reinvest,
      is(<<"bonded">>, [v1 |-> 5000, v2 |-> 5000]),
      unbond("delegator1", LsdToken, 5000), update_time(5 * Epoch)>> \o Earned(<<60, 60>>) \o
    <<reinvest, is(<<"bonded">>, [v1 |-> 2557, v2 |-> 2557]),
      is(<<"exchange_rate">>, FromRatio(5114, 5000))>>)

bond_claim_without_unbond == Script(Whole,
    <<bond("delegator1", 10000), bond("delegator2", 10000), is(<<"tokens", "delegator1">>, 10000),
      fails(claim("delegator1"))>>)

bond_with_native_unbond_with_wrong_token == Script(Halves,
    <<bond("delegator1", 10003), update_time(Epoch), reinvest, update_time(Epoch)>> \o
      Earned(<<20, 20>>) \o
    <<reinvest, fails(unbond("delegator1", OtherToken, 10003))>>)

-----------------------------------------------------------------------------
(* the tests of contract.rs *)

instantiated == Script(Whole,
    <<accepts(Message(proper_init)),
      is(<<"token">>, [contract |-> LsdToken, minter |-> HubContract, admin |-> ChainAdmin])>>)

invalid_init == Script(Whole,
    <<rejects([Message(proper_init) EXCEPT !.commission = DecimalOne]),
      rejects([Message(proper_init) EXCEPT !.validators = Split(<<"v1">>, <<50>>)]),
      rejects([Message(proper_init) EXCEPT !.liquidity_discount = DecimalOne])>>)

unbonding_burns_tokens == Script(Whole,
    <<bond("delegator1", 1700), unbond("delegator1", LsdToken, 100),
      is(<<"supply", "issued">>, 1600), is(<<"tokens", "delegator1">>, 1600)>>)

basic_claim_creation_works == Script(Whole,
    <<bond("delegator1", 1700), bond("delegator2", 800),
      unbond("delegator1", LsdToken, 500), is(<<"claims", "delegator1">>, 1),
      unbond("delegator1", LsdToken, 500), is(<<"claims", "delegator1">>, 2)>>)

epoch_handling == Script(Whole,
    <<update_time(EpochPeriod), reinvest, update_time(EpochPeriod - 1), fails(reinvest),
      update_time(1), reinvest, update_time(5 * EpochPeriod + 1), reinvest,
      update_time(EpochPeriod - 1), reinvest>>)

-----------------------------------------------------------------------------
(* the tests of valset.rs *)

basic_test ==
    LET first == Split(<<"a", "b">>, <<50, 50>>)
        second == Split(<<"a", "b", "c">>, <<25, 25, 50>>)
        third == Split(<<"a", "b", "d">>, <<20, 35, 45>>)
        fourth == Split(<<"f", "g", "h", "i">>, <<10, 20, 30, 40>>)
        fifth == Split(<<"a", "b">>, <<67, 33>>)
    IN  Script(Whole,
          <<simulate_valset(1000, first, second), simulate_valset(1000, second, third),
            simulate_valset(1000, third, fourth), simulate_valset(1000, fourth, fifth),
            simulates_to(1000, fifth, fifth, [a |-> 670, b |-> 330])>>)

rounding ==
    LET even(vals) == List(vals, [i \in DOMAIN vals |-> DecimalOne \div Len(vals)])
        two == even(<<"a", "b">>)
        three == even(<<"a", "b", "c">>)
        six == even(<<"a", "b", "c", "d", "e", "f">>)
        four == even(<<"c", "d", "e", "f">>)
    IN  Script(Whole,
          <<simulate_valset(4444, two, three), simulate_valset(4444, two, six),
            simulate_valset(4444, three, six), simulate_valset(1000, three, three),
            simulate_valset(1000, six, six), simulate_valset(1000, six, four)>>)

actual_balances_example ==
    LET halves == Split(<<"a", "b">>, <<50, 50>>)
        uneven == Split(<<"a", "c", "d">>, <<15, 50, 35>>)
        thirds == List(<<"a", "b", "c">>, [i \in 1..3 |-> DecimalOne \div 3])
    IN  Script(Whole,
          <<simulates_to(1000, halves, uneven, [a |-> 150, c |-> 500, d |-> 350]),
            simulates_to(1000, uneven, thirds, [a |-> 333, b |-> 333, c |-> 334])>>)

Scripts == [
    proper_init |-> proper_init, basic_minting_case |-> basic_minting_case,
    change_valset_dust |-> change_valset_dust,
    set_new_valset_more_validators |-> set_new_valset_more_validators,
    set_new_valset_less_validators |-> set_new_valset_less_validators,
    deposit_reinvest |-> deposit_reinvest, target_value |-> target_value,
    commission |-> commission, tiny_weights |-> tiny_weights,
    simple_bond_unbond_claim |-> simple_bond_unbond_claim, bond_unbond |-> bond_unbond,
    small_delegations |-> small_delegations, actual_undelegation_flow |-> actual_undelegation_flow,
    bond_unbond_simultaneously |-> bond_unbond_simultaneously,
    unbond_epoch_handling |-> unbond_epoch_handling,
    simple_liveness_slash |-> simple_liveness_slash,
    timing_check |-> timing_check(28 * Day), timing_check_after |-> timing_check(28 * Day + 60),
    timing_check_before |-> timing_check(28 * Day - 60),
    pending_claims_slashed |-> pending_claims_slashed,
    reinvest_failing_withdraw |-> reinvest_failing_withdraw.first,
    reinvest_failing_withdraw_last |-> reinvest_failing_withdraw.last,
    bonded_updated_correctly |-> bonded_updated_correctly,
    bond_claim_without_unbond |-> bond_claim_without_unbond,
    bond_with_native_unbond_with_wrong_token |-> bond_with_native_unbond_with_wrong_token,
    instantiated |-> instantiated, invalid_init |-> invalid_init,
    unbonding_burns_tokens |-> unbonding_burns_tokens,
    basic_claim_creation_works |-> basic_claim_creation_works, epoch_handling |-> epoch_handling,
    basic_test |-> basic_test, rounding |-> rounding,
    actual_balances_example |-> actual_balances_example]

-----------------------------------------------------------------------------
(* How a script runs *)

steps == Scripts[test].steps
Finished == pc > Len(steps)

Assertions == {"is", "above", "below", "fails", "accepts", "rejects",
               "simulate_valset", "simulates_to"}

\* the transactions and blocks of a step
HubStep(s) ==
    \/ /\ s.do = "bond" /\ s.amount <= wallet[s.user]
       /\ Bond(s.user, s.amount)
       /\ wallet' = [wallet EXCEPT ![s.user] = @ - s.amount]
    \/ /\ s.do = "claim" /\ ClaimMature(s.user)
       /\ wallet' = [wallet EXCEPT ![s.user] = @ + balance - balance']
    \/ /\ s.do = "reinvest" /\ Reinvest
       /\ wallet' = [wallet EXCEPT !.treasury = @ + MulFloor(Withdrawn, Commission)]
    \/ /\ \/ s.do = "check_slash" /\ CheckSlash
          \/ s.do = "update_time" /\ EndBlock(s.seconds)
          \/ s.do = "update_time_to_release" /\ EndBlock(user_claims[s.user][1].release_at - now)
          \/ s.do = "slash" /\ Slash(s.validator, s.keep)
          \/ s.do = "earn" /\ Earn(s.validator, s.amount)
       /\ UNCHANGED wallet

AdminStep(s) ==
    /\ \/ s.do = "unbond" /\ Receive(s.contract, s.user, s.amount)
       \/ s.do = "unbond_all" /\ Receive(LsdToken, s.user, tokens[s.user])
       \/ s.do = "set_validators" /\ SetValidatorsBy(s.sender, s.valset)
       \/ s.do = "update_liquidity_discount" /\ UpdateLiquidityDiscount(s.sender, s.discount)
    /\ UNCHANGED wallet

Performs(s) == (HubStep(s) /\ UNCHANGED admin) \/ AdminStep(s)

ScenarioInit ==
    /\ test \in DOMAIN Scripts /\ pc = 1
    /\ InitWith(Scripts[test].validators, [u \in Users |-> 0])
    /\ AdminInit(Message(Scripts[test]))
    /\ hub_version = "current"
    /\ wallet = [a \in Users \cup {"treasury"} |-> IF a \in Users THEN Funds ELSE 0]

Perform ==
    /\ ~Finished
    /\ \/ Performs(steps[pc])
       \/ steps[pc].do \in Assertions /\ UNCHANGED <<adminVars, wallet>>
    /\ pc' = pc + 1
    /\ UNCHANGED test

\* a call that a test unwraps has to succeed: otherwise this deadlocks
ScenarioNext == Perform \/ (Finished /\ UNCHANGED scenarioVars)

ScenarioSpec == ScenarioInit /\ [][ScenarioNext]_scenarioVars

-----------------------------------------------------------------------------
(* What a test asserts *)

Observed ==
    [exchange_rate |-> ExchangeRate, target_value |-> TargetValue, validator_set |-> stake_info,
     supply |-> supply, bonded |-> bonded,
     unbonding_info |-> [num_epochs |-> Cardinality(DOMAIN unbonding),
                         total_entries |-> SumFunction([t \in DOMAIN unbonding |->
                                                         Cardinality(DOMAIN unbonding[t])])],
     unbonding_or_liquid |-> supply.total_unbonding + balance,
     claims |-> [u \in Users |-> Len(user_claims[u])],
     delegations |-> NonZero(delegations), delegated |-> SumFunction(delegations),
     rewards |-> SumFunction(rewards), balance |-> balance,
     tokens |-> tokens, token |-> token, wallet |-> wallet]

At(path) == FoldLeft(LAMBDA value, field : value[field], Observed, path)

\* valset_to_balances: the weights, and what is rounded off on any one validator
ToBalances(total, valset) ==
    LET floors == Targets(total, valset)
    IN  {[floors EXCEPT ![lucky] = @ + total - SumFunction(floors)] : lucky \in DOMAIN floors}

\* simulate_valset and validate_valset: executed one by one, the redelegations
\* leave the balances the function returns, and every validator its part
Simulates(total, old, valset) ==
    LET all == DOMAIN old \cup {valset[i].validator : i \in DOMAIN valset}
    IN  \A change \in ValsetChanges(total, old, valset) :
          LET after == FoldLeft(AfterRedelegation, [v \in all |-> AmountAt(old, v)], change.messages)
          IN  /\ \A m \in ToSet(change.messages) : m.amount > 0
              /\ \A v \in all : after[v] >= AmountAt(Targets(total, valset), v)
              /\ SumFunction(after) = total
              /\ change.new_balances = NonZero(after)

Holds(s) ==
    CASE s.do = "is" -> At(s.path) = s.value
      [] s.do = "above" -> At(s.path) > s.value
      [] s.do = "below" -> At(s.path) < s.value
      [] s.do = "fails" -> ~ENABLED Performs(s.step)
      [] s.do = "accepts" -> Accepted(s.msg)
      [] s.do = "rejects" -> ~Accepted(s.msg)
      [] s.do \in {"simulate_valset", "simulates_to"} ->
            \A old \in ToBalances(s.total, s.from) :
                /\ Simulates(s.total, old, s.to)
                /\ s.do = "simulates_to" =>
                      \A change \in ValsetChanges(s.total, old, s.to) :
                          change.new_balances = s.balances

-----------------------------------------------------------------------------

\* What the hub's tests assert of the contract is what the model does: every
\* assertion holds where the test makes it, every refused call is refused.
AssertionsHold == ~Finished /\ steps[pc].do \in Assertions => Holds(steps[pc])
=============================================================================
