------------------------------ MODULE BondRouter ------------------------------
(***************************************************************************)
(* The bond-router contract on top of the hub: Bond on the router swaps    *)
(* part of the payment on a pool and bonds the rest, in one transaction.   *)
(* The router, the pool and the people are all users of the hub; the pool  *)
(* itself is not part of this repository.                                  *)
(***************************************************************************)
EXTENDS HubProperties

CONSTANTS
    Router, Pool,
    InitialShares,   \* cw20_init.initial_balances: LSD tokens the pool starts with
    Gifts            \* LSD tokens somebody may send to the router by mistake

People == Users \ {Router, Pool}

ASSUME RouterAssumption ==
    /\ {Router, Pool} \subseteq Users /\ Router # Pool
    /\ InitialShares \in Nat /\ Gifts \subseteq Nat \ {0}

RouterInit == InitWith(InitialValset, [u \in Users |-> IF u = Pool THEN InitialShares ELSE 0])

-----------------------------------------------------------------------------
(* The pool, external *)

NoTrade == [trade |-> 0, return |-> 0]

\* SpotPricePrediction and the swap that follows it: each token traded returns
\* at least target_price LSD tokens (the price is in LSD tokens per token paid
\* and falls with every trade: multitest/bond.rs), as long as the pool has them
Quotes(max_trade, target_price) ==
    {NoTrade} \cup
    {q \in [trade : 1..max_trade, return : 0..tokens[Pool]] :
        q.return * DecimalOne >= q.trade * target_price}

-----------------------------------------------------------------------------

\* mutant
MutTargetPrice == DecimalOne \div 2

\* execute_bond asks the pool for the exchange rate of the hub
TargetPrice == ExchangeRate

\* query_simulate, for the quote the pool gives
Simulated(bond, quote) ==
    ((bond - quote.trade) * DecimalOne) \div ExchangeRate + quote.return

\* mutant: the balance is read before the hub mints
MutReplyBond(minted) == tokens[Router]

\* the reply sends on all the LSD tokens the router has by then
ReplyBond(minted) == tokens[Router] + minted

\* what a payment brings its sender; without a bond there is no reply
Received(paid, quote) ==
    quote.return + IF quote.trade < paid THEN ReplyBond(Minted(paid - quote.trade)) ELSE 0

\* everything is swapped, and the pool pays the sender
SwapAll(u, paid, quote) ==
    /\ quote.trade = paid
    /\ tokens' = [tokens EXCEPT ![Pool] = @ - quote.return, ![u] = @ + Received(paid, quote)]
    /\ UNCHANGED <<now, storage, balance, staking, slashes, forgotten>>

\* the rest is bonded by the router, which is who the hub mints for
BondRest(u, paid, quote) ==
    LET minted == Minted(paid - quote.trade)
    IN  /\ quote.trade < paid
        /\ HubBond(paid - quote.trade)
        /\ tokens' = [tokens EXCEPT ![Pool] = @ - quote.return,
                                    ![Router] = @ + minted - ReplyBond(minted),
                                    ![u] = @ + Received(paid, quote)]

\* Bond on the router; the rate is queried even if nothing is bonded
RouteFits == Loads /\ RateFits(CleanSupply, balance)
Route(u, paid, quote) == RouteFits /\ (SwapAll(u, paid, quote) \/ BondRest(u, paid, quote))

RouteAny(u, paid) == \E quote \in Quotes(paid, TargetPrice) : Route(u, paid, quote)

\* external: LSD tokens change hands
Transfer(from, to, amount) ==
    /\ amount \in 1..tokens[from]
    /\ tokens' = [tokens EXCEPT ![from] = @ - amount, ![to] = @ + amount]
    /\ UNCHANGED <<now, storage, balance, staking, slashes, forgotten>>

RouterNext ==
    \/ \E u \in People :
        \/ \E paid \in Deposits : RouteAny(u, paid) \/ Bond(u, paid)
        \/ \E amount \in UnbondAmounts \cup {tokens[u]} : Unbond(u, amount)
        \/ ClaimMature(u)
        \/ \E amount \in Gifts : Transfer(u, Router, amount)
    \/ Reinvest \/ CheckSlash \/ ChainNext

RouterSpec == RouterInit /\ [][RouterNext]_vars

-----------------------------------------------------------------------------

\* SUPPLY.issued and the tokens in circulation differ by the initial balances
\* and by nothing else, whoever the hub minted for and whatever was swapped,
\* sent on by the reply or burnt.
CirculationIsIssued == SumFunction(tokens) = supply.issued + InitialShares

\* What the hub mints for a route is never left with the router: it holds more
\* LSD tokens than before only if somebody sent them to it.
RouterPassesOn ==
    [][tokens'[Router] > tokens[Router] => \E u \in People : tokens'[u] < tokens[u]]_vars

\* what bonding all of the payment at the hub would bring, but for one token
\* that splitting the payment may round off
AtLeastBonded(paid, quote) ==
    RouteFits /\ Assets(CleanSupply, balance) >= 0 => Received(paid, quote) + 1 >= Minted(paid)

\* README of the router, "determine the best price for aquiring the lsd asset":
\* splitting a payment never returns less than bonding all of it would.
BestPrice ==
    \A paid \in Deposits : \A quote \in Quotes(paid, TargetPrice) : AtLeastBonded(paid, quote)

\* While a share is worth at least one token, the prices the router lets the
\* pool trade at beat the hub, with every rounding: splitting a payment loses
\* nothing.  (A share may be worth less after a slash, or in a block in which the
\* hub counts as matured what the staking module has not paid yet.)
BestPriceAtPar ==
    ExchangeRate >= DecimalOne =>
        \A paid \in Deposits : \A quote \in Quotes(paid, TargetPrice) :
            RouteFits /\ Assets(CleanSupply, balance) >= 0 =>
                Received(paid, quote) >= Minted(paid)

\* the quotes query_simulate can answer for: it divides by the rate, which is one
\* when nothing is issued
Simulates(paid) == IF RouteFits /\ ExchangeRate > 0 THEN Quotes(paid, TargetPrice) ELSE {}

\* the hub takes what is left to bond
BondFits(paid, quote) == quote.trade < paid => Assets(CleanSupply, balance) >= 0

\* A payment never brings more than query_simulate announces for it in the same
\* state and what others had left with the router: the roundings of the two
\* rates never make a share out of nothing.
SimulationKept ==
    \A paid \in Deposits : \A quote \in Simulates(paid) :
        BondFits(paid, quote) =>
            Received(paid, quote) <= Simulated(paid, quote) + tokens[Router]

\* what the two rates, each rounded down to an atom, may take of a bond
RateRounding(bond) ==
    LET steps == ExchangeRate * (ExchangeRate + 1)
    IN  (bond * (DecimalOne * DecimalOne + steps)) \div (DecimalOne * steps)

\* query_simulate, "how many lsd we get from bonding": a payment brings at most
\* one token less than announced, but for what the rounding of the rates takes
\* of a bond, which is nothing while it is far below the atoms of a Decimal.
SimulationHolds ==
    \A paid \in Deposits : \A quote \in Simulates(paid) :
        BondFits(paid, quote) =>
            Simulated(paid, quote) <= Received(paid, quote) + 1 + RateRounding(paid - quote.trade)

\* the last share is burnt and assets are left, rewards that came in later: the
\* one state in which the rates are not each other's inverse (tokens_per_share
\* is one, shares_per_token zero)
Stranded == supply.issued = 0 /\ Assets(CleanSupply, balance) # 0

\* What the simulation announces comes, up to these roundings, in all other
\* states.
SimulationClose == ~Stranded => SimulationHolds

=============================================================================
