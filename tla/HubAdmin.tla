------------------------------ MODULE HubAdmin ------------------------------
(***************************************************************************)
(* LsdHub with who may do what: the owner, the discount on the target      *)
(* value, the token contract, the checks of instantiate, and migrate.      *)
(***************************************************************************)
EXTENDS LsdHub

CONSTANTS
    Accounts,     \* who may own the hub
    LsdToken,     \* the cw20 contract instantiate creates
    HubContract,  \* the address of the hub
    ChainAdmin    \* the admin the chain has for the hub's code

VARIABLES
    owner,               \* Config.owner
    liquidity_discount,  \* Config.liquidity_discount
    token,               \* Config.token_contract, with its minter and its admin
    hub_version          \* the code that wrote the storage: "old" (before 1.1.0) or "current"

admin == <<owner, liquidity_discount, token, hub_version>>
adminVars == <<vars, admin>>

Percent(n) == (n * DecimalOne) \div 100
Hour == 3600
Year == 31536000

\* what instantiate accepts
Accepted(msg) ==
    /\ msg.commission \in 0..Percent(50)
    /\ WeightSum(msg.validators) = DecimalOne
    /\ msg.liquidity_discount < Percent(50)
    /\ msg.epoch_period \in Hour..Year /\ msg.unbond_period \in Hour..Year
    /\ msg.max_concurrent_unbondings # 0

\* instantiate creates the token with the hub as its minter and its admin
NewToken == [contract |-> LsdToken, minter |-> HubContract, admin |-> HubContract]

\* the reply, in the same transaction: the admin of the hub becomes the token's
AfterTokenCreation(created) == [created EXCEPT !.admin = ChainAdmin]

\* the rest of what instantiate leaves, besides InitWith
AdminInit(msg) ==
    /\ Accepted(msg)
    /\ owner = msg.owner
    /\ liquidity_discount = msg.liquidity_discount
    /\ token = AfterTokenCreation(NewToken)

\* Receive: any contract may call it, only the LSD token is accepted
Receive(contract, u, amount) ==
    /\ contract = token.contract
    /\ Unbond(u, amount)
    /\ UNCHANGED admin

\* this code cannot read the storage of before 1.1.0
SetValidatorsBy(sender, valset) ==
    /\ hub_version = "current"
    /\ sender = owner
    /\ SetValidators(valset)
    /\ UNCHANGED admin

UpdateLiquidityDiscount(sender, new_discount) ==
    /\ sender = owner
    /\ new_discount < Percent(50)
    /\ liquidity_discount' = new_discount
    /\ UNCHANGED <<vars, owner, token, hub_version>>

\* the storage of before 1.1.0 is moved to its new place unless something was
\* unbonding; without a new owner, new_owner is the old one
MigrateHub(new_owner) ==
    /\ hub_version = "old" => unbonding = <<>>
    /\ hub_version' = "current"
    /\ owner' = new_owner
    /\ UNCHANGED <<vars, liquidity_discount, token>>

\* the TargetValue query
TargetValue == MulFloor(ExchangeRate, DecimalOne - liquidity_discount)

=============================================================================
