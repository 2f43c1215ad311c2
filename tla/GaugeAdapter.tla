----------------------------- MODULE GaugeAdapter -----------------------------
(***************************************************************************)
(* The gauge-adapter contract between a gauge, whose votes share out the   *)
(* stake, and the hub, whose owner the gauge orchestrator is.  Executions  *)
(* follow one another with nothing but blocks, new options and migrations  *)
(* in between, so that what set_validators computes is checked on more     *)
(* validators and weights than the other instances have, and against the   *)
(* staking module's limit on redelegations.  Nothing is unbonding, so the  *)
(* hub's clock does not matter and stands still; time is what is left of   *)
(* the redelegations and of the gauge's epoch.                             *)
(***************************************************************************)
EXTENDS HubAdmin

CONSTANTS
    Orchestrator,    \* external: the gauge contract, which executes its results
    Weights,         \* the weights a selected validator may have, atoms of a Decimal
    RoundingError,   \* what the weights of a selection may lack of 1
    Stakes,          \* what the hub may have on a validator at first
    Commissions,     \* the chain: the commission of each validator
    MaxCommissions,  \* values InstantiateMsg and MigrateMsg::Update may carry
    GaugeEpoch,      \* external: seconds between two executions of the gauge, at least
    BlockTimes,      \* external: seconds a block may take
    FirstMessage     \* InstantiateMsg of the hub

ASSUME GaugeAssumption ==
    /\ Orchestrator \in Accounts
    /\ Weights \subseteq 0..DecimalOne /\ Stakes \subseteq Nat
    /\ RoundingError \in 0..DecimalOne
    /\ Commissions \in [Validators -> 0..DecimalOne] /\ MaxCommissions \subseteq Nat
    /\ GaugeEpoch \in Nat /\ BlockTimes \subseteq Nat \ {0}

VARIABLES
    adapter,         \* the contract's name and version: "placeholder", "old" (before 1.2.0), "current"
    max_commission,  \* Config.max_commission
    options,         \* external: the options of the gauge
    due,             \* external: seconds until the gauge may execute again
    messages,        \* the redelegations of the last execution
    held             \* the chain: of each validator that received a redelegation, the
                     \* seconds until it ends

gauge == <<adapter, max_commission, options>>
execution == <<due, messages, held>>
gaugeVars == <<adminVars, gauge, execution>>

Sources(sent) == {sent[i].src : i \in DOMAIN sent}
Destinations(sent) == {sent[i].dst : i \in DOMAIN sent}

-----------------------------------------------------------------------------
(* The queries of the adapter *)

AllOptions == {v \in Validators : Commissions[v] <= max_commission}

\* whether the validator exists is all it looks at
CheckOption(option) == option \in Validators

\* the message for the hub: the selected validators as they are
SampleGaugeMsgs(selected) == selected

ValidMaxCommission(max) == max > 0 /\ max <= DecimalOne

-----------------------------------------------------------------------------
(* The adapter's life *)

\* migrate from the placeholder instantiates; an unwrap makes errors panics
MigrateInit(max) ==
    /\ adapter = "placeholder"
    /\ ValidMaxCommission(max)
    /\ adapter' = "current"
    /\ max_commission' = max
    /\ UNCHANGED <<adminVars, options, execution>>

\* only a config of before 1.2.0 is rewritten, with the value as it comes
MigrateUpdate(max) ==
    /\ adapter \in {"old", "current"}
    /\ adapter' = "current"
    /\ max_commission' = IF adapter = "old" THEN max ELSE max_commission
    /\ UNCHANGED <<adminVars, options, execution>>

-----------------------------------------------------------------------------
(* The gauge and the chain, external *)

\* a gauge is created with all_options, and a new option has to pass check_option
CreateGauge ==
    /\ adapter = "current" /\ options = {}
    /\ options' = AllOptions
    /\ UNCHANGED <<adminVars, adapter, max_commission, execution>>

AddOption(option) ==
    /\ adapter = "current" /\ options # {}
    /\ CheckOption(option)
    /\ options' = options \cup {option}
    /\ UNCHANGED <<adminVars, adapter, max_commission, execution>>

\* the lists a gauge may select: "sum of all weights should be 1.0 (within
\* rounding error)"; the order of a list does not matter here
Lists ==
    LET Listing(D, w) == LET s == SetToSeq(D)
                         IN  [i \in DOMAIN s |-> [validator |-> s[i], weight |-> w[s[i]]]]
    IN  UNION {{Listing(D, w) : w \in {f \in [D -> Weights] :
                                           SumFunction(f) \in (DecimalOne - RoundingError)..DecimalOne}} :
               D \in SUBSET Validators}

\* the redelegations of a step, one set of them for each order of equal amounts
Redelegations(valset) ==
    {change.messages : change \in ValsetChanges(supply.total_bonded, bonded, valset)}

\* external: the chain has the stake, and none of it goes on from a validator that
\* received a redelegation, by an earlier message or one of this execution
\* (docs: "we cannot re-redelegate given stake until a full unbonding_period
\* has passed")
ChainRedelegates(sent) ==
    /\ RedelegationsFit(sent)
    /\ \A i \in DOMAIN sent :
         sent[i].src \notin DOMAIN held \cup {sent[j].dst : j \in 1..(i - 1)}

\* the redelegations in progress once these have begun
HeldAfter(sent) ==
    [v \in DOMAIN held \cup Destinations(sent) |->
        IF v \in Destinations(sent) THEN UnbondPeriod ELSE held[v]]

\* the orchestrator sends the hub what the adapter answers
Execute(selected) ==
    /\ due = 0
    /\ {selected[i].validator : i \in DOMAIN selected} \subseteq options
    /\ SetValidatorsBy(Orchestrator, SampleGaugeMsgs(selected))
    /\ messages' \in Redelegations(selected)
    /\ ChainRedelegates(messages')
    /\ delegations' = FoldLeft(AfterRedelegation, delegations, messages')
    /\ held' = HeldAfter(messages')
    /\ due' = GaugeEpoch
    /\ UNCHANGED gauge

\* the EndBlocker ends the redelegations that are due, after all transactions of
\* the block; the next block comes some seconds later
GaugeBlock(seconds) ==
    LET running == {v \in DOMAIN held : held[v] > 0}
    IN  /\ held' = [v \in running |-> SaturatingSub(held[v], seconds)]
        /\ due' = SaturatingSub(due, seconds)
        /\ UNCHANGED <<adminVars, gauge, messages>>

GaugeInit ==
    /\ InitLists(FirstMessage.validators) /\ AdminInit(FirstMessage)
    \* stake the hub has come to by bonds and by the lists before
    /\ delegations \in [Validators -> Stakes]
    /\ bonded = NonZero(delegations)
    /\ supply = [NewSupply EXCEPT !.issued = SumFunction(delegations),
                                  !.total_bonded = SumFunction(delegations)]
    /\ tokens \in [Users -> {0, supply.issued}] /\ SumFunction(tokens) = supply.issued
    /\ hub_version \in {"old", "current"}
    /\ adapter \in {"placeholder", "old"} /\ max_commission = 0
    /\ options = {} /\ messages = <<>>
    /\ due = 0 /\ held = <<>>

GaugeNext ==
    \/ \E max \in MaxCommissions : MigrateInit(max) \/ MigrateUpdate(max)
    \/ \E new_owner \in Accounts : MigrateHub(new_owner) /\ UNCHANGED <<gauge, execution>>
    \/ CreateGauge \/ \E option \in Validators : AddOption(option)
    \/ \E selected \in Lists : Execute(selected)
    \/ \E seconds \in BlockTimes : GaugeBlock(seconds)

GaugeSpec == GaugeInit /\ [][GaugeNext]_gaugeVars

-----------------------------------------------------------------------------

\* a redelegation is over by the clock, the EndBlocker has not ended it
HeldOver == \E v \in DOMAIN held : held[v] = 0

\* Whatever a gauge selects when its time has come, the chain executes, if its
\* epoch is at least the unbonding period: no validator is asked for more stake
\* than it has, or for stake a redelegation has brought too recently, after any
\* sequence of executions before.  (In the block in which the last
\* redelegations end, the gauge may have to try again in the next one.)
ExecutionAccepted ==
    owner = Orchestrator /\ due = 0 /\ ~HeldOver =>
        \A selected \in Lists : \A redelegations \in Redelegations(selected) :
            ChainRedelegates(redelegations)

\* The balances the contract stores are what the chain has once it executed the
\* messages: no tokens are lost, made up or left on a validator the contract
\* forgot.
BalancesFollowMessages ==
    /\ \A v \in Validators : AmountAt(bonded, v) = delegations[v]
    /\ supply.total_bonded = SumFunction(delegations)
    /\ supply.total_bonded = supply.issued

\* After an execution every selected validator has at least its part by weight,
\* and what stays elsewhere is only what the weights leave over.
WeightsReached ==
    hub_version = "current" /\ stake_info # FirstMessage.validators =>
        LET targets == Targets(supply.total_bonded, stake_info)
        IN  \A v \in DOMAIN targets : delegations[v] >= targets[v]

\* valset.rs sorts both sides "to (probably) reduce the number of messages": in
\* any order, no validator both gives and gets, and every redelegation is the
\* last one of its source or of its destination, so that there are fewer of
\* them than validators whose stake changes.  (The minimum can be less.)
RedelegationsFew ==
    /\ Sources(messages) \cap Destinations(messages) = {}
    /\ messages # <<>> =>
         Len(messages) < Cardinality(Sources(messages) \cup Destinations(messages))
=============================================================================
