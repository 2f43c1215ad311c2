---------------------------- MODULE RouterProofs ----------------------------
(***************************************************************************)
(* Proofs about BondRouter: the books of the hub hold whatever the router  *)
(* and the pool do with the LSD tokens, the tokens in circulation are the  *)
(* issued ones, and what a route returns is compared with a bond.          *)
(***************************************************************************)
EXTENDS BondRouter, HubProofs

\* The constants of the router.
LEMMA RouterConstants ==
    /\ Router \in Users /\ Pool \in Users /\ Router # Pool
    /\ InitialShares \in Nat /\ \A amount \in Gifts : amount \in Nat /\ amount > 0
    /\ \A u \in People : u \in Users /\ u # Router /\ u # Pool
  BY RouterAssumption DEF People

-----------------------------------------------------------------------------
(* Sums of the LSD tokens when several balances change *)

LEMMA UsersSum ==
    ASSUME NEW f \in [Users -> Int]
    PROVE  SumFunction(f) \in Int
  <1>1. IsFiniteSet(Users) /\ DOMAIN f = Users /\ Ints(f, Users)
    BY Constants DEF Ints
  <1>2. SumFunction(f) = SumFunctionOnSet(f, Users)
    BY <1>1 DEF SumFunction, SumFunctionOnSet
  <1> QED
    BY <1>1, <1>2, SumInt

\* Two balances change.
LEMMA TwoChange ==
    ASSUME NEW f \in [Users -> Int], NEW g \in [Users -> Int],
           NEW a \in Users, NEW b \in Users, a # b,
           \A u \in Users \ {a, b} : g[u] = f[u]
    PROVE  SumFunction(g) = SumFunction(f) - f[a] + g[a] - f[b] + g[b]
  <1> DEFINE h == [f EXCEPT ![a] = g[a]]
  <1>1. h \in [Users -> Int] /\ h[b] = f[b]
    OBVIOUS
  <1>2. g = [h EXCEPT ![b] = g[b]]
    OBVIOUS
  <1>3. IsFiniteSet(Users) /\ DOMAIN f = Users /\ Ints(f, Users) /\ g[a] \in Int /\ g[b] \in Int
    BY Constants DEF Ints
  <1>4. SumFunction(h) = SumFunction(f) - f[a] + g[a]
    BY <1>3, SumExcept
  <1> HIDE DEF h
  <1>5. DOMAIN h = Users /\ Ints(h, Users)
    BY <1>1 DEF Ints
  <1>6. SumFunction([h EXCEPT ![b] = g[b]]) = SumFunction(h) - h[b] + g[b]
    BY <1>3, <1>5, SumExcept
  <1>7. SumFunction(g) = SumFunction(h) - h[b] + g[b]
    BY <1>2, <1>6
  <1>8. SumFunction(f) \in Int /\ f[a] \in Int /\ f[b] \in Int
    BY UsersSum
  <1> QED
    BY <1>1, <1>3, <1>4, <1>7, <1>8

\* Three balances change.
LEMMA ThreeChange ==
    ASSUME NEW f \in [Users -> Int], NEW g \in [Users -> Int],
           NEW a \in Users, NEW b \in Users, NEW c \in Users, a # b, a # c, b # c,
           \A u \in Users \ {a, b, c} : g[u] = f[u]
    PROVE  SumFunction(g) = SumFunction(f) - f[a] + g[a] - f[b] + g[b] - f[c] + g[c]
  <1> DEFINE h == [f EXCEPT ![a] = g[a]]
  <1>1. /\ h \in [Users -> Int] /\ h[b] = f[b] /\ h[c] = f[c]
        /\ \A u \in Users \ {b, c} : g[u] = h[u]
    OBVIOUS
  <1>2. IsFiniteSet(Users) /\ DOMAIN f = Users /\ Ints(f, Users) /\ g[a] \in Int
    BY Constants DEF Ints
  <1>3. SumFunction(h) = SumFunction(f) - f[a] + g[a]
    BY <1>2, SumExcept
  <1> HIDE DEF h
  <1>4. SumFunction(g) = SumFunction(h) - h[b] + g[b] - h[c] + g[c]
    BY <1>1, TwoChange
  <1>5. /\ SumFunction(f) \in Int /\ f[a] \in Int /\ f[b] \in Int /\ f[c] \in Int
        /\ g[a] \in Int /\ g[b] \in Int /\ g[c] \in Int
    BY UsersSum
  <1> QED
    BY <1>1, <1>3, <1>4, <1>5

-----------------------------------------------------------------------------
(* The steps of the router *)

\* Who holds what after a step of the router; CirculationIsIssued as it is used
\* below.
LEMMA CirculationSteps ==
    ASSUME TypeOK, CirculationIsIssued, NEW difference \in Int,
           supply'.issued = supply.issued + difference,
           SumFunction(tokens') = SumFunction(tokens) + difference
    PROVE  CirculationIsIssued'
  <1>1. supply.issued \in Nat /\ SumFunction(tokens) \in Nat /\ InitialShares \in Nat
    BY StateTypes, RouterConstants
  <1>2. SumFunction(tokens)' = SumFunction(tokens')
    OBVIOUS
  <1> QED
    BY <1>1, <1>2 DEF CirculationIsIssued

\* The hub's part of a bond issues what it mints.
LEMMA HubBondIssues ==
    ASSUME TypeOK, NEW paid \in Nat, HubBond(paid)
    PROVE  /\ Minted(paid) \in Nat
           /\ supply'.issued = supply.issued + Minted(paid)
  <1>1. Loads /\ supply' = AfterBond(CleanSupply, balance, paid)
    BY DEF HubBond, SaveSupply
  <1>2. CleanSupply \in SupplyType /\ CleanSupply.issued = supply.issued
    BY <1>1, CleanedSupply
  <1> QED
    BY <1>1, <1>2, MintedType DEF Minted, AfterBond, SupplyType

\* What the rest of the transaction does to the LSD tokens: the pool pays for
\* the swap, the reply passes on all the router has.
LEMMA RouteTokens ==
    ASSUME TypeOK, NEW u \in People, NEW paid \in Nat, NEW quote \in Quotes(paid, TargetPrice),
           Route(u, paid, quote)
    PROVE  /\ quote.trade \in 0..paid /\ quote.return \in 0..tokens[Pool]
           /\ SwapAll(u, paid, quote) \/ BondRest(u, paid, quote)
  <1>1. SwapAll(u, paid, quote) \/ BondRest(u, paid, quote)
    BY DEF Route
  <1>2. tokens[Pool] \in Nat
    BY TypeIs, RouterConstants
  <1>3. CASE quote = NoTrade
    BY <1>1, <1>2, <1>3 DEF NoTrade
  <1>4. CASE quote \in [trade : 1..paid, return : 0..tokens[Pool]]
    BY <1>1, <1>4
  <1> QED
    BY <1>3, <1>4 DEF Quotes

\* Everything is swapped: the LSD tokens go from the pool to the sender.
LEMMA SwapTokens ==
    ASSUME TypeOK, NEW u \in People, NEW paid \in Nat, NEW quote \in Quotes(paid, TargetPrice),
           Route(u, paid, quote), SwapAll(u, paid, quote)
    PROVE  /\ tokens' \in [Users -> Nat] /\ tokens'[Router] = tokens[Router]
           /\ SumFunction(tokens') = SumFunction(tokens)
           /\ UNCHANGED <<now, storage, balance, staking, slashes, forgotten>>
  <1> DEFINE r == quote.return
  <1>1. r \in 0..tokens[Pool] /\ quote.trade = paid
        /\ UNCHANGED <<now, storage, balance, staking, slashes, forgotten>>
    BY RouteTokens DEF SwapAll
  <1>2. tokens' = [tokens EXCEPT ![Pool] = @ - r, ![u] = @ + Received(paid, quote)]
    BY DEF SwapAll
  <1>3. r \in Nat /\ tokens \in [Users -> Nat] /\ tokens[Pool] - r \in Nat
    BY <1>1, TypeIs, RouterConstants
  <1>4. Received(paid, quote) = r
    BY <1>1, <1>3 DEF Received
  <1> HIDE DEF r
  <1>5. u \in Users /\ Pool \in Users /\ Router \in Users /\ u # Pool /\ u # Router /\ Pool # Router
    BY RouterConstants
  <1>6. /\ tokens' \in [Users -> Nat]
        /\ tokens'[Pool] = tokens[Pool] - r /\ tokens'[u] = tokens[u] + r
        /\ \A w \in Users \ {Pool, u} : tokens'[w] = tokens[w]
    BY <1>2, <1>3, <1>4, <1>5
  <1>7. SumFunction(tokens') = SumFunction(tokens) - tokens[Pool] + tokens'[Pool]
                               - tokens[u] + tokens'[u]
    <2>1. tokens \in [Users -> Int] /\ tokens' \in [Users -> Int]
      BY <1>3, <1>6
    <2> QED
      BY <1>5, <1>6, <2>1, TwoChange
  <1>8. SumFunction(tokens) \in Int /\ tokens[Pool] \in Int /\ tokens[u] \in Int
    BY <1>3, <1>5, StateTypes
  <1>9. SumFunction(tokens') = SumFunction(tokens)
    BY <1>3, <1>6, <1>7, <1>8
  <1> QED
    BY <1>1, <1>5, <1>6, <1>9

\* Part of the payment is bonded: what the hub mints reaches the sender with
\* whatever the router had, so that the router is left with nothing.
LEMMA BondRestTokens ==
    ASSUME TypeOK, NEW u \in People, NEW paid \in Nat, NEW quote \in Quotes(paid, TargetPrice),
           Route(u, paid, quote), BondRest(u, paid, quote)
    PROVE  /\ paid - quote.trade \in Nat /\ HubBond(paid - quote.trade)
           /\ tokens' \in [Users -> Nat] /\ tokens'[Router] = 0
           /\ SumFunction(tokens') = SumFunction(tokens) + Minted(paid - quote.trade)
  <1> DEFINE r == quote.return
             rest == paid - quote.trade
             minted == Minted(rest)
             held == tokens[Router]
  <1>1. r \in 0..tokens[Pool] /\ quote.trade \in 0..paid /\ quote.trade < paid /\ HubBond(rest)
    BY RouteTokens DEF BondRest
  <1>2. tokens' = [tokens EXCEPT ![Pool] = @ - r, ![Router] = @ + minted - ReplyBond(minted),
                                 ![u] = @ + Received(paid, quote)]
    BY DEF BondRest
  <1>3. rest \in Nat /\ tokens \in [Users -> Nat]
    BY <1>1, TypeIs
  <1>4. minted \in Nat
    BY <1>1, <1>3, HubBondIssues
  <1>5. Received(paid, quote) = r + (held + minted) /\ ReplyBond(minted) = held + minted
    BY <1>1 DEF Received, ReplyBond
  <1>6. u \in Users /\ Pool \in Users /\ Router \in Users /\ u # Pool /\ u # Router /\ Pool # Router
    BY RouterConstants
  <1> HIDE DEF r, rest, minted
  <1>7. r \in Nat /\ tokens[Pool] - r \in Nat /\ held \in Nat
    BY <1>1, <1>3, <1>6
  <1>8. tokens' = [tokens EXCEPT ![Pool] = @ - r, ![Router] = 0, ![u] = @ + (r + (held + minted))]
    <2>1. tokens[Router] + minted - ReplyBond(minted) = 0
      BY <1>4, <1>5, <1>7
    <2> QED
      BY <1>2, <1>5, <2>1
  <1>9. /\ tokens' \in [Users -> Nat]
        /\ tokens'[Pool] = tokens[Pool] - r /\ tokens'[Router] = 0
        /\ tokens'[u] = tokens[u] + (r + (held + minted))
        /\ \A w \in Users \ {Pool, Router, u} : tokens'[w] = tokens[w]
    <2> HIDE DEF held
    <2> QED
      BY <1>3, <1>4, <1>6, <1>7, <1>8
  <1>10. SumFunction(tokens') = SumFunction(tokens) - tokens[Pool] + tokens'[Pool]
                                - tokens[Router] + tokens'[Router] - tokens[u] + tokens'[u]
    <2>1. tokens \in [Users -> Int] /\ tokens' \in [Users -> Int]
      BY <1>3, <1>9
    <2> QED
      BY <1>6, <1>9, <2>1, ThreeChange
  <1>11. SumFunction(tokens) \in Int /\ tokens[Pool] \in Int /\ tokens[u] \in Int
    BY <1>3, <1>6, StateTypes
  <1>12. SumFunction(tokens') = SumFunction(tokens) + minted
    <2> DEFINE s == SumFunction(tokens)
               p == tokens[Pool]
               o == tokens[u]
    <2>1. SumFunction(tokens') = s - p + (p - r) - held + 0 - o + (o + (r + (held + minted)))
      BY <1>9, <1>10
    <2>2. s \in Int /\ p \in Int /\ o \in Int /\ held \in Int /\ r \in Int /\ minted \in Int
      BY <1>4, <1>7, <1>11
    <2> HIDE DEF s, p, o, held
    <2>3. SumFunction(tokens') = s + minted
      BY <2>1, <2>2
    <2> QED
      BY <2>3 DEF s
  <1> QED
    BY <1>1, <1>3, <1>9, <1>12 DEF rest, minted

\* LSD tokens change hands and nothing else does.
LEMMA HandedBooks ==
    ASSUME BooksInv, tokens' \in [Users -> Nat],
           UNCHANGED <<now, storage, balance, staking, slashes, forgotten>>
    PROVE  BooksInv'
  <1>1. /\ UNCHANGED <<now, next_epoch, next_unbond, stake_info, supply, bonded, unbonding>>
        /\ UNCHANGED <<user_claims, slashings, balance, delegations, queue, rewards>>
        /\ UNCHANGED <<slashes, forgotten>>
    BY DEF storage, staking
  <1>2. IsPending(unbonding') /\ IsPending(queue') /\ ExpiriesBehind'
        /\ (NoSlash' => NoSlash /\ UnbondingIsQueued')
    BY <1>1, CleanedQueue
  <1>3. TypeOK'
    BY <1>1, BooksInvIs, TypeIs, TypeIsNext
  <1>4. TotalBondedIsSum' /\ UnbondingAccounted'
    BY <1>1, BooksInvIs DEF TotalBondedIsSum, UnbondingAccounted
  <1>5. SlashingsFair'
    BY <1>1, BooksInvIs, SameSlashings
  <1>6. NoSlash' => StakeKnown'
    BY <1>1, SameStake
  <1> QED
    BY <1>2, <1>3, <1>4, <1>5, <1>6, BooksInvIsNext

\* Somebody sends LSD tokens to the router.
LEMMA TransferTokens ==
    ASSUME TypeOK, NEW u \in People, NEW amount, Transfer(u, Router, amount)
    PROVE  /\ tokens' \in [Users -> Nat] /\ tokens'[u] < tokens[u]
           /\ SumFunction(tokens') = SumFunction(tokens)
           /\ UNCHANGED <<now, storage, balance, staking, slashes, forgotten>>
  <1>1. u \in Users /\ Router \in Users /\ u # Router
    BY RouterConstants
  <1>2. /\ amount \in 1..tokens[u]
        /\ tokens' = [tokens EXCEPT ![u] = @ - amount, ![Router] = @ + amount]
        /\ UNCHANGED <<now, storage, balance, staking, slashes, forgotten>>
    BY DEF Transfer
  <1>3. tokens \in [Users -> Nat] /\ tokens[u] \in Nat /\ tokens[Router] \in Nat
    BY <1>1, TypeIs
  <1>4. amount \in Nat /\ amount > 0 /\ tokens[u] - amount \in Nat
    BY <1>2, <1>3
  <1>5. /\ tokens' \in [Users -> Nat]
        /\ tokens'[u] = tokens[u] - amount /\ tokens'[Router] = tokens[Router] + amount
        /\ \A w \in Users \ {u, Router} : tokens'[w] = tokens[w]
    BY <1>1, <1>2, <1>3, <1>4
  <1>6. SumFunction(tokens') = SumFunction(tokens) - tokens[u] + tokens'[u]
                               - tokens[Router] + tokens'[Router]
    <2>1. tokens \in [Users -> Int] /\ tokens' \in [Users -> Int]
      BY <1>3, <1>5
    <2> QED
      BY <1>1, <1>5, <2>1, TwoChange
  <1>7. SumFunction(tokens) \in Int
    BY StateTypes
  <1> QED
    BY <1>2, <1>3, <1>4, <1>5, <1>6, <1>7

\* A step of the router's world by its cases.
LEMMA RouterCases ==
    ASSUME RouterNext
    PROVE  \/ \E u \in People, paid \in Deposits :
                \/ \E quote \in Quotes(paid, TargetPrice) : Route(u, paid, quote)
                \/ Bond(u, paid)
           \/ \E u \in People : \E amount \in UnbondAmounts \cup {tokens[u]} : Unbond(u, amount)
           \/ \E u \in People : ClaimMature(u)
           \/ \E u \in People : \E amount \in Gifts : Transfer(u, Router, amount)
           \/ Reinvest \/ CheckSlash \/ ChainNext
  BY DEF RouterNext, RouteAny

LEMMA RouterBooks == BooksInv /\ [RouterNext]_vars => BooksInv'
  <1> SUFFICES ASSUME BooksInv, [RouterNext]_vars PROVE BooksInv'
    OBVIOUS
  <1>1. TypeOK
    BY BooksInvIs
  <1>2. ASSUME NEW u \in People, NEW paid \in Deposits, NEW quote \in Quotes(paid, TargetPrice),
               Route(u, paid, quote)
        PROVE  BooksInv'
    <2>1. paid \in Nat
      BY Constants
    <2>2. CASE SwapAll(u, paid, quote)
      BY <1>1, <1>2, <2>1, <2>2, SwapTokens, HandedBooks
    <2>3. CASE BondRest(u, paid, quote)
      BY <1>1, <1>2, <2>1, <2>3, BondRestTokens, HubBondBooks
    <2> QED
      BY <1>2, <2>2, <2>3 DEF Route
  <1>3. ASSUME NEW u \in People, NEW paid \in Deposits, Bond(u, paid) PROVE BooksInv'
    BY <1>3, RouterConstants, BondBooks
  <1>4. ASSUME NEW u \in People, NEW amount, Unbond(u, amount) PROVE BooksInv'
    BY <1>4, RouterConstants, UnbondBooks
  <1>5. ASSUME NEW u \in People, ClaimMature(u) PROVE BooksInv'
    BY <1>5, RouterConstants, OthersBooks
  <1>6. ASSUME NEW u \in People, NEW amount \in Gifts, Transfer(u, Router, amount) PROVE BooksInv'
    BY <1>1, <1>6, TransferTokens, HandedBooks
  <1>7. CASE Reinvest \/ CheckSlash \/ ChainNext
    BY <1>7, OthersBooks
  <1>8. CASE UNCHANGED vars
    BY <1>8, SameBooks
  <1> QED
    BY <1>2, <1>3, <1>4, <1>5, <1>6, <1>7, <1>8, RouterCases

\* The router begins with a hub that keeps its promises, whoever holds the first
\* LSD tokens.
LEMMA RouterInitBooks == RouterInit => BooksInv
  <1> DEFINE first == [u \in Users |-> IF u = Pool THEN InitialShares ELSE 0]
  <1>1. first \in [Users -> Nat]
    BY RouterConstants
  <1> HIDE DEF first
  <1>2. RouterInit => InitWith(InitialValset, first)
    BY DEF RouterInit, first
  <1> QED
    BY <1>1, <1>2, InitBooks

\* The books of the hub agree with the chain in every state of the router too,
\* whatever was swapped, passed on or sent by mistake.
THEOREM RouterBooksInvariant == RouterSpec => []BooksInv
  BY RouterInitBooks, RouterBooks, PTL DEF RouterSpec

-----------------------------------------------------------------------------
(* The tokens in circulation *)

\* The rest of the contract and the chain neither issue nor move LSD tokens.
LEMMA OthersCirculation ==
    ASSUME TypeOK, Reinvest \/ CheckSlash \/ ChainNext \/ (\E u \in Users : ClaimMature(u))
    PROVE  supply'.issued = supply.issued /\ tokens' = tokens
  <1>1. supply \in SupplyType /\ (Loads => CleanSupply \in SupplyType /\ CleanSupply.issued = supply.issued)
    BY TypeIs, CleanedSupply
  <1>2. CASE Reinvest
    <2>1. CASE ReinvestNothingListed \/ ReinvestNoBalance
      BY <2>1 DEF ReinvestNothingListed, ReinvestNoBalance, ForgetMature
    <2>2. CASE ReinvestDelegate
      <3>1. PICK n : supply' = [CleanSupply EXCEPT !.total_bonded = n] /\ Loads /\ tokens' = tokens
        BY <2>2 DEF ReinvestDelegate, SaveBonded, SaveSupply, Withdraws
      <3> QED
        BY <1>1, <3>1 DEF SupplyType
    <2>3. CASE ReinvestUndelegate
      <3>1. PICK m, n : /\ supply' = [[CleanSupply EXCEPT !.total_unbonding = m]
                                         EXCEPT !.total_bonded = n]
                        /\ Loads /\ tokens' = tokens
        BY <2>3 DEF ReinvestUndelegate, SaveBonded, SaveSupply, Withdraws
      <3> QED
        BY <1>1, <3>1 DEF SupplyType
    <2>4. CASE ReinvestWait
      <3>1. PICK n : supply' = [CleanSupply EXCEPT !.total_bonded = n] /\ Loads /\ tokens' = tokens
        BY <2>4 DEF ReinvestWait, SaveBonded, SaveSupply, Withdraws
      <3> QED
        BY <1>1, <3>1 DEF SupplyType
    <2> QED
      BY <1>2, <2>1, <2>2, <2>3, <2>4 DEF Reinvest
  <1>3. CASE CheckSlash
    <2>1. CASE CheckSlashNone
      BY <2>1 DEF CheckSlashNone, ForgetMature
    <2>2. CASE CheckSlashFound
      <3>1. Loads /\ tokens' = tokens
        BY <2>2 DEF CheckSlashFound, CheckSlashLoads
      <3>2. PICK m, n, k : \/ supply' = [CleanSupply EXCEPT !.total_bonded = m, !.total_unbonding = n]
                           \/ supply' = [[CleanSupply EXCEPT !.total_bonded = m, !.total_unbonding = n]
                                            EXCEPT !.claims = k]
        BY <2>2 DEF CheckSlashFound, SaveSupply
      <3> QED
        BY <1>1, <3>1, <3>2 DEF SupplyType
    <2> QED
      BY <1>3, <2>1, <2>2 DEF CheckSlash
  <1>4. CASE ChainNext
    BY <1>4 DEF ChainNext, NextBlock, EndBlock, Earn, Slash, storage
  <1>5. CASE \E u \in Users : ClaimMature(u)
    <2>1. PICK n : supply' = [supply EXCEPT !.claims = n] /\ tokens' = tokens
      BY <1>5 DEF ClaimMature, SaveSupply, AfterClaim
    <2> QED
      BY <1>1, <2>1 DEF SupplyType
  <1> QED
    BY <1>2, <1>3, <1>4, <1>5

\* Bond and Unbond of a user change what is issued and what the user holds alike.
LEMMA UsersCirculation ==
    ASSUME TypeOK, CirculationIsIssued, NEW u \in Users, NEW amount,
           \/ amount \in Deposits /\ Bond(u, amount)
           \/ Unbond(u, amount)
    PROVE  CirculationIsIssued'
  <1>1. tokens \in [Users -> Nat] /\ tokens[u] \in Nat /\ SumFunction(tokens) \in Nat
        /\ supply.issued \in Nat
    BY TypeIs, StateTypes
  <1>2. CASE amount \in Deposits /\ Bond(u, amount)
    <2> DEFINE minted == Minted(amount)
    <2>1. HubBond(amount) /\ amount \in Nat /\ tokens' = [tokens EXCEPT ![u] = @ + minted]
      BY <1>2, Constants DEF Bond
    <2>2. minted \in Nat /\ supply'.issued = supply.issued + minted
      BY <2>1, HubBondIssues
    <2> HIDE DEF minted
    <2>3. SumFunction(tokens') = SumFunction(tokens) - tokens[u] + (tokens[u] + minted)
      <3> DEFINE owns == tokens[u] + minted
      <3>1. owns \in Int /\ tokens' = [tokens EXCEPT ![u] = owns]
        BY <1>1, <2>1, <2>2
      <3> HIDE DEF owns
      <3>2. SumFunction(tokens') = SumFunction(tokens) - tokens[u] + owns
        BY <1>1, <3>1, TokensChange
      <3> QED
        BY <3>2 DEF owns
    <2>4. SumFunction(tokens') = SumFunction(tokens) + minted /\ minted \in Int
      BY <1>1, <2>2, <2>3
    <2> QED
      BY <2>2, <2>4, CirculationSteps
  <1>3. CASE Unbond(u, amount)
    <2> DEFINE less == 0 - amount
    <2>1. /\ amount \in Nat /\ Loads /\ tokens' = [tokens EXCEPT ![u] = @ - amount]
          /\ supply' = AfterUnbond(CleanSupply, balance, amount)
      BY <1>3, UnbondTypes DEF Unbond, SaveSupply
    <2>2. CleanSupply \in SupplyType /\ CleanSupply.issued = supply.issued
      BY <2>1, CleanedSupply
    <2>3. supply'.issued = supply.issued - amount
      BY <2>1, <2>2 DEF AfterUnbond, SupplyType
    <2>4. SumFunction(tokens') = SumFunction(tokens) - tokens[u] + (tokens[u] - amount)
      <3> DEFINE owns == tokens[u] - amount
      <3>1. owns \in Int /\ tokens' = [tokens EXCEPT ![u] = owns]
        BY <1>1, <2>1
      <3> HIDE DEF owns
      <3>2. SumFunction(tokens') = SumFunction(tokens) - tokens[u] + owns
        BY <1>1, <3>1, TokensChange
      <3> QED
        BY <3>2 DEF owns
    <2>5. less \in Int /\ SumFunction(tokens') = SumFunction(tokens) + less
          /\ supply'.issued = supply.issued + less
      BY <1>1, <2>1, <2>3, <2>4
    <2> HIDE DEF less
    <2> QED
      BY <2>5, CirculationSteps
  <1> QED
    BY <1>2, <1>3

\* Nothing else than the initial balances lies between what is issued and what
\* is held.
CirculationInv == BooksInv /\ CirculationIsIssued

LEMMA RouterCirculation == CirculationInv /\ [RouterNext]_vars => CirculationInv'
  <1> SUFFICES ASSUME BooksInv, CirculationIsIssued, [RouterNext]_vars PROVE CirculationIsIssued'
    BY RouterBooks DEF CirculationInv
  <1>1. TypeOK /\ supply.issued \in Nat /\ SumFunction(tokens) \in Nat
    BY BooksInvIs, StateTypes
  <1>2. ASSUME supply'.issued = supply.issued, SumFunction(tokens') = SumFunction(tokens)
        PROVE  CirculationIsIssued'
    <2>1. SumFunction(tokens)' = SumFunction(tokens')
      OBVIOUS
    <2> QED
      BY <1>2, <2>1 DEF CirculationIsIssued
  <1>3. ASSUME NEW u \in People, NEW paid \in Deposits, NEW quote \in Quotes(paid, TargetPrice),
               Route(u, paid, quote)
        PROVE  CirculationIsIssued'
    <2>1. paid \in Nat
      BY Constants
    <2>2. CASE SwapAll(u, paid, quote)
      <3>1. SumFunction(tokens') = SumFunction(tokens) /\ UNCHANGED storage
        BY <1>1, <1>3, <2>1, <2>2, SwapTokens
      <3> QED
        BY <1>2, <3>1 DEF storage
    <2>3. CASE BondRest(u, paid, quote)
      <3> DEFINE rest == paid - quote.trade
      <3>1. rest \in Nat /\ HubBond(rest) /\ SumFunction(tokens') = SumFunction(tokens) + Minted(rest)
        BY <1>1, <1>3, <2>1, <2>3, BondRestTokens
      <3> HIDE DEF rest
      <3>2. Minted(rest) \in Int /\ supply'.issued = supply.issued + Minted(rest)
        BY <1>1, <3>1, HubBondIssues
      <3> QED
        BY <1>1, <3>1, <3>2, CirculationSteps
    <2> QED
      BY <1>3, <2>2, <2>3 DEF Route
  <1>4. ASSUME NEW u \in People, NEW paid \in Deposits, Bond(u, paid) PROVE CirculationIsIssued'
    BY <1>1, <1>4, RouterConstants, UsersCirculation
  <1>5. ASSUME NEW u \in People, NEW amount, Unbond(u, amount) PROVE CirculationIsIssued'
    BY <1>1, <1>5, RouterConstants, UsersCirculation
  <1>6. ASSUME NEW u \in People, NEW amount \in Gifts, Transfer(u, Router, amount)
        PROVE  CirculationIsIssued'
    BY <1>1, <1>2, <1>6, TransferTokens DEF storage
  <1>7. CASE Reinvest \/ CheckSlash \/ ChainNext \/ (\E u \in People : ClaimMature(u))
    <2>1. supply'.issued = supply.issued /\ tokens' = tokens
      BY <1>1, <1>7, RouterConstants, OthersCirculation
    <2> QED
      BY <1>2, <2>1
  <1>8. CASE UNCHANGED vars
    <2>1. UNCHANGED <<supply, tokens>>
      BY <1>8 DEF vars, storage
    <2> QED
      BY <1>2, <2>1
  <1> QED
    BY <1>3, <1>4, <1>5, <1>6, <1>7, <1>8, RouterCases

LEMMA RouterInitCirculation == RouterInit => CirculationInv
  <1> SUFFICES ASSUME RouterInit PROVE CirculationIsIssued
    BY RouterInitBooks DEF CirculationInv
  <1> DEFINE none == [u \in Users |-> 0]
             first == [none EXCEPT ![Pool] = InitialShares]
  <1>1. tokens = [u \in Users |-> IF u = Pool THEN InitialShares ELSE 0] /\ supply = NewSupply
    BY DEF RouterInit, InitWith
  <1>2. tokens = first /\ supply.issued = 0
    BY <1>1, RouterConstants DEF NewSupply
  <1>3. /\ IsFiniteSet(Users) /\ DOMAIN none = Users /\ Ints(none, Users) /\ none[Pool] = 0
        /\ {} \in SUBSET Users /\ \A u \in Users \ {} : none[u] = 0
    BY Constants, RouterConstants DEF Ints
  <1> HIDE DEF none
  <1>4. SumFunction(first) = SumFunction(none) - none[Pool] + InitialShares
    <2>1. InitialShares \in Int /\ Pool \in Users
      BY RouterConstants
    <2> QED
      BY <1>3, <2>1, SumExcept
  <1>5. SumFunction(none) = 0
    <2>1. SumFunction(none) = SumFunctionOnSet(none, Users)
      BY <1>3 DEF SumFunction, SumFunctionOnSet
    <2>2. SumFunctionOnSet(none, Users) = SumFunctionOnSet(none, {})
      BY <1>3, SumZeros
    <2> QED
      BY <2>1, <2>2, SumEmpty
  <1> HIDE DEF first
  <1> QED
    BY <1>2, <1>3, <1>4, <1>5, RouterConstants DEF CirculationIsIssued

\* SUPPLY.issued and what is in circulation differ by the initial balances, for
\* all users, payments, quotes and gifts.
THEOREM CirculationAlwaysIssued == RouterSpec => []CirculationIsIssued
  <1>1. CirculationInv => CirculationIsIssued
    BY DEF CirculationInv
  <1> QED
    BY <1>1, RouterInitCirculation, RouterCirculation, PTL DEF RouterSpec

\* What the hub mints for a route never stays with the router.
THEOREM RouterAlwaysPassesOn == RouterSpec => RouterPassesOn
  <1> DEFINE Passes == tokens'[Router] > tokens[Router] => \E u \in People : tokens'[u] < tokens[u]
  <1>1. ASSUME BooksInv, [RouterNext]_vars PROVE Passes
    <2>1. TypeOK /\ tokens[Router] \in Nat
      BY <1>1, BooksInvIs, TypeIs, RouterConstants
    <2>2. ASSUME tokens'[Router] = tokens[Router] PROVE Passes
      BY <2>1, <2>2
    <2>3. ASSUME NEW u \in People, NEW paid \in Deposits, NEW quote \in Quotes(paid, TargetPrice),
                 Route(u, paid, quote)
          PROVE  Passes
      <3>1. paid \in Nat
        BY Constants
      <3>2. tokens'[Router] \in {tokens[Router], 0}
        BY <2>1, <2>3, <3>1, SwapTokens, BondRestTokens DEF Route
      <3> QED
        BY <2>1, <3>2
    <2>4. ASSUME NEW u \in People, NEW amount, Bond(u, amount) \/ Unbond(u, amount) PROVE Passes
      <3>1. tokens'[Router] = tokens[Router]
        BY <2>1, <2>4, TypeIs, RouterConstants DEF Bond, Unbond
      <3> QED
        BY <2>2, <3>1
    <2>5. ASSUME NEW u \in People, NEW amount \in Gifts, Transfer(u, Router, amount) PROVE Passes
      BY <2>1, <2>5, TransferTokens
    <2>6. CASE Reinvest \/ CheckSlash \/ ChainNext \/ (\E u \in People : ClaimMature(u))
      BY <2>1, <2>2, <2>6, RouterConstants, OthersCirculation
    <2>7. CASE UNCHANGED vars
      BY <2>2, <2>7 DEF vars
    <2> QED
      BY <1>1, <2>3, <2>4, <2>5, <2>6, <2>7, RouterCases
  <1>2. [RouterNext]_vars /\ BooksInv => [Passes]_vars
    BY <1>1
  <1> QED
    BY <1>2, RouterBooksInvariant, PTL DEF RouterSpec, RouterPassesOn

-----------------------------------------------------------------------------
(* What a route brings *)

\* Taking a part out of an amount before it is multiplied by at most one costs
\* at most that part: the rounding does not make it more.
LEMMA SplitCostsPart ==
    ASSUME NEW rest \in Nat, NEW part \in Nat, NEW rate \in 0..DecimalOne
    PROVE  MulFloor(rest + part, rate) <= MulFloor(rest, rate) + part
  <1> DEFINE q == MulFloor(rest + part, rate)
             m == MulFloor(rest, rate)
             D == DecimalOne
  <1>1. D \in Nat \ {0} /\ rate \in Nat /\ rate <= D
    BY DecimalOneAssumption
  <1>2. rest * rate \in Nat /\ part * rate \in Nat /\ part * D \in Nat
    BY <1>1, SMT
  <1>3. (rest + part) * rate = rest * rate + part * rate /\ (rest + part) * rate \in Nat
    BY <1>1, <1>2, SMT
  <1>4. q \in Nat /\ D * q <= (rest + part) * rate
    BY <1>1, <1>3, DivBounds DEF MulFloor
  <1>5. m \in Nat /\ rest * rate < D * (m + 1)
    BY <1>1, <1>2, DivBounds DEF MulFloor
  <1>6. part * rate <= part * D
    <2>1. rate * part <= D * part
      BY <1>1, MulKeepsOrder
    <2> QED
      BY <1>1, <2>1, SMT
  <1> HIDE DEF q, m
  <1>7. ~(m + part + 1 <= q)
    <2> SUFFICES ASSUME m + part + 1 <= q PROVE FALSE
      OBVIOUS
    <2>1. D * (m + part + 1) <= D * q
      <3>1. (m + part + 1) * D <= q * D
        BY <1>1, <1>4, <1>5, MulKeepsOrder
      <3> QED
        BY <1>1, <1>4, <1>5, <3>1, SMT
    <2>2. D * (m + part + 1) = D * (m + 1) + part * D
      BY <1>1, <1>5, SMT
    <2> QED
      BY <1>1, <1>2, <1>3, <1>4, <1>5, <1>6, <2>1, <2>2, SMT
  <1> QED
    BY <1>4, <1>5, <1>7 DEF q, m

\* While a share is worth at least one token, a token is worth at most one share.
LEMMA SharesAtPar ==
    ASSUME NEW s \in SupplyType, NEW bank \in Nat, Assets(s, bank) >= 0,
           TokensPerShare(s, bank) >= DecimalOne
    PROVE  SharesPerToken(s, bank) \in 0..DecimalOne
  <1> DEFINE A == Assets(s, bank)
             S == s.issued
             E == FromRatio(A, S)
  <1>1. A \in Nat /\ S \in Nat /\ DecimalOne \in Nat \ {0}
    BY DecimalOneAssumption DEF Assets, SupplyType
  <1>2. CASE A = 0
    BY <1>1, <1>2 DEF SharesPerToken
  <1>3. CASE A # 0
    <2>1. SharesPerToken(s, bank) = FromRatio(S, A)
      BY <1>3 DEF SharesPerToken
    <2>2. S <= A
      <3>1. CASE S = 0
        BY <1>1, <3>1
      <3>2. CASE S # 0
        <4>1. E >= DecimalOne
          BY <3>2 DEF TokensPerShare
        <4> HIDE DEF A, S
        <4>2. A * DecimalOne \in Nat
          BY <1>1, SMT
        <4>3. E \in Nat /\ S * E <= A * DecimalOne
          BY <1>1, <3>2, <4>2, DivBounds DEF FromRatio
        <4> HIDE DEF E
        <4>4. DecimalOne * S <= E * S
          BY <1>1, <4>1, <4>3, MulKeepsOrder
        <4>5. DecimalOne * S <= DecimalOne * A
          BY <1>1, <4>3, <4>4, SMT
        <4> QED
          BY <1>1, <4>5, MulCancels
      <3> QED
        BY <3>1, <3>2
    <2> HIDE DEF A, S
    <2> QED
      BY <1>1, <1>3, <2>1, <2>2, RatioAtMostOne
  <1> QED
    BY <1>2, <1>3

\* At par, a pool that meets the target price returns at least what it is paid.
LEMMA QuoteAtPar ==
    ASSUME TypeOK, ExchangeRate >= DecimalOne, ExchangeRate \in Nat,
           NEW paid \in Nat, NEW quote \in Quotes(paid, TargetPrice)
    PROVE  /\ quote.trade \in Nat /\ quote.return \in Nat /\ paid - quote.trade \in Nat
           /\ quote.trade <= quote.return
  <1>1. CASE quote = NoTrade
    BY <1>1 DEF NoTrade
  <1>2. CASE quote # NoTrade
    <2> DEFINE t == quote.trade
               r == quote.return
    <2>1. t \in 1..paid /\ r \in 0..tokens[Pool] /\ r * DecimalOne >= t * ExchangeRate
      BY <1>2 DEF Quotes, TargetPrice
    <2>2. t \in Nat /\ r \in Nat /\ paid - t \in Nat
      <3>1. tokens[Pool] \in Nat
        BY TypeIs, RouterConstants
      <3> QED
        BY <2>1, <3>1
    <2> HIDE DEF t, r
    <2>3. DecimalOne * t <= ExchangeRate * t
      BY <2>2, DecimalOneAssumption, MulKeepsOrder
    <2>4. DecimalOne * t <= DecimalOne * r
      BY <2>1, <2>2, <2>3, DecimalOneAssumption, SMT
    <2>5. t <= r
      BY <2>2, <2>4, DecimalOneAssumption, MulCancels
    <2> QED
      BY <2>2, <2>5 DEF t, r
  <1> QED
    BY <1>1, <1>2

LEMMA RouteAtPar ==
    ASSUME TypeOK, ExchangeRate >= DecimalOne, RouteFits, Assets(CleanSupply, balance) >= 0,
           NEW paid \in Nat, NEW quote \in Quotes(paid, TargetPrice)
    PROVE  Received(paid, quote) >= Minted(paid)
  <1> DEFINE rate == SharesPerToken(CleanSupply, balance)
             rest == paid - quote.trade
  <1>1. CleanSupply \in SupplyType /\ balance \in Nat
    BY CleanedSupply, StateTypes DEF RouteFits
  <1>2. rate \in 0..DecimalOne
    BY <1>1, SharesAtPar DEF ExchangeRate
  <1>3. ExchangeRate \in Nat
    <2>1. /\ CleanSupply.issued \in Nat /\ Assets(CleanSupply, balance) \in Nat
          /\ DecimalOne \in Nat
      BY <1>1, DecimalOneAssumption DEF SupplyType, Assets
    <2> QED
      BY <2>1, FromRatioType DEF ExchangeRate, TokensPerShare
  <1>4. /\ quote.trade \in Nat /\ quote.return \in Nat /\ rest \in Nat
        /\ quote.trade <= quote.return
    BY <1>3, QuoteAtPar
  <1>5. tokens[Router] \in Nat
    BY TypeIs, RouterConstants
  <1>6. /\ Minted(paid) = MulFloor(rest + quote.trade, rate)
        /\ Minted(rest) = MulFloor(rest, rate)
    <2>1. rest + quote.trade = paid
      BY <1>4
    <2> QED
      BY <2>1 DEF Minted, SharesFor
  <1> HIDE DEF rate, rest
  <1>7. Minted(paid) <= Minted(rest) + quote.trade /\ Minted(rest) \in Nat /\ Minted(paid) \in Nat
    <2>1. rate \in Nat /\ rest + quote.trade \in Nat
      BY <1>2, <1>4, DecimalOneAssumption
    <2>2. MulFloor(rest + quote.trade, rate) <= MulFloor(rest, rate) + quote.trade
      BY <1>2, <1>4, SplitCostsPart
    <2>3. MulFloor(rest + quote.trade, rate) \in Nat /\ MulFloor(rest, rate) \in Nat
      BY <1>4, <2>1, MulFloorType
    <2> QED
      BY <1>6, <2>2, <2>3
  <1>8. CASE quote.trade < paid
    <2>1. Received(paid, quote) = quote.return + (tokens[Router] + Minted(rest))
      BY <1>8 DEF Received, ReplyBond, rest
    <2> QED
      BY <1>4, <1>5, <1>7, <2>1
  <1>9. CASE ~(quote.trade < paid)
    <2>1. rest = 0 /\ Received(paid, quote) = quote.return
      BY <1>4, <1>9 DEF Received, rest
    <2>2. Minted(rest) = 0
      <3>1. rate \in Nat /\ 0 * rate = 0
        BY <1>2, DecimalOneAssumption, SMT
      <3>2. Minted(rest) = 0 \div DecimalOne
        BY <1>6, <2>1, <3>1 DEF MulFloor
      <3> QED
        BY <3>2, DecimalOneAssumption, SMT
    <2> QED
      BY <1>4, <1>7, <2>1, <2>2
  <1> QED
    BY <1>8, <1>9

\* For all payments and all quotes, and every rounding: a payment that is split
\* while a share is worth at least one token brings what a bond would.
THEOREM BestPriceAlwaysAtPar == RouterSpec => []BestPriceAtPar
  <1>1. BooksInv => BestPriceAtPar
    <2>1. ASSUME BooksInv PROVE BestPriceAtPar
      BY <2>1, BooksInvIs, Constants, RouteAtPar DEF BestPriceAtPar
    <2> QED
      BY <2>1
  <1> QED
    BY <1>1, RouterBooksInvariant, PTL

\* The two rates of a supply multiply to at most one, so shares bought at one
\* are never more than those announced at the other.
LEMMA SharesAtRate ==
    ASSUME NEW A \in Nat \ {0}, NEW S \in Nat \ {0}, NEW x \in Nat, FromRatio(A, S) > 0
    PROVE  /\ (x * DecimalOne) \div FromRatio(A, S) \in Nat
           /\ MulFloor(x, FromRatio(S, A)) \in Nat
           /\ MulFloor(x, FromRatio(S, A)) <= (x * DecimalOne) \div FromRatio(A, S)
  <1> DEFINE D == DecimalOne
             E == FromRatio(A, S)
             p == FromRatio(S, A)
             m == MulFloor(x, p)
             q == (x * D) \div E
  <1>1. D \in Nat \ {0} /\ A * D \in Nat /\ S * D \in Nat /\ x * D \in Nat
    BY DecimalOneAssumption, SMT
  <1>2. E \in Nat \ {0} /\ S * E <= A * D
    BY <1>1, DivBounds DEF FromRatio
  <1>3. p \in Nat /\ A * p <= S * D
    BY <1>1, DivBounds DEF FromRatio
  <1> HIDE DEF E, p
  <1>4. x * p \in Nat
    BY <1>3, SMT
  <1>5. m \in Nat /\ D * m <= x * p
    BY <1>1, <1>4, DivBounds DEF MulFloor
  <1>6. q \in Nat /\ x * D < E * (q + 1)
    BY <1>1, <1>2, DivBounds
  <1> HIDE DEF D, m, q
  <1>7. p * E <= D * D
    <2>1. (A * p) * E <= (S * D) * E
      BY <1>1, <1>2, <1>3, MulKeepsOrder
    <2>2. (S * E) * D <= (A * D) * D
      BY <1>1, <1>2, MulKeepsOrder
    <2>3. /\ A * (p * E) = (A * p) * E /\ (S * D) * E = (S * E) * D
          /\ (A * D) * D = A * (D * D)
      BY <1>1, <1>2, <1>3, SMT
    <2>4. p * E \in Int /\ D * D \in Int /\ (S * D) * E \in Int
      BY <1>1, <1>2, <1>3, SMT
    <2>5. A * (p * E) <= A * (D * D)
      <3>1. A * (p * E) \in Int /\ A * (D * D) \in Int
        BY <2>4, SMT
      <3> QED
        BY <2>1, <2>2, <2>3, <2>4, <3>1
    <2> QED
      BY <2>4, <2>5, MulCancels
  <1>8. m * E <= x * D
    <2>1. (D * m) * E <= (x * p) * E
      BY <1>1, <1>2, <1>4, <1>5, MulKeepsOrder
    <2>2. (p * E) * x <= (D * D) * x
      BY <1>1, <1>2, <1>3, <1>7, MulKeepsOrder
    <2>3. /\ (D * m) * E = D * (m * E) /\ (x * p) * E = (p * E) * x
          /\ (D * D) * x = D * (x * D)
      BY <1>1, <1>2, <1>3, <1>5, SMT
    <2>4. m * E \in Int /\ D * (m * E) \in Int /\ (p * E) * x \in Int /\ D * (x * D) \in Int
      BY <1>1, <1>2, <1>3, <1>5, SMT
    <2>5. D * (m * E) <= D * (x * D)
      BY <2>1, <2>2, <2>3, <2>4
    <2> QED
      BY <1>1, <2>4, <2>5, MulCancels
  <1>9. ~(q + 1 <= m)
    <2> SUFFICES ASSUME q + 1 <= m PROVE FALSE
      OBVIOUS
    <2>1. (q + 1) * E <= m * E
      BY <1>2, <1>5, <1>6, MulKeepsOrder
    <2>2. (q + 1) * E = E * (q + 1) /\ E * (q + 1) \in Int /\ m * E \in Int
      BY <1>2, <1>5, <1>6, SMT
    <2> QED
      BY <1>1, <1>6, <1>8, <2>1, <2>2
  <1> QED
    BY <1>5, <1>6, <1>9 DEF q, m, D, E, p

\* What the two rates lose together: the product of the one and of what is just
\* above the other is more than one.
LEMMA RatesBelow ==
    ASSUME NEW A \in Nat \ {0}, NEW S \in Nat \ {0}
    PROVE  /\ FromRatio(A, S) \in Nat /\ FromRatio(S, A) \in Nat
           /\ DecimalOne * DecimalOne <= (FromRatio(S, A) + 1) * (FromRatio(A, S) + 1)
  <1> DEFINE D == DecimalOne
             e == FromRatio(A, S) + 1
             p == FromRatio(S, A) + 1
  <1>1. D \in Nat \ {0} /\ A * D \in Nat /\ S * D \in Nat
    BY DecimalOneAssumption, SMT
  <1>2. e \in Nat \ {0} /\ A * D < S * e /\ FromRatio(A, S) \in Nat
    BY <1>1, DivBounds DEF FromRatio
  <1>3. p \in Nat \ {0} /\ S * D < A * p /\ FromRatio(S, A) \in Nat
    BY <1>1, DivBounds DEF FromRatio
  <1> HIDE DEF D, e, p
  <1>4. S * e \in Int /\ A * p \in Int /\ D * D \in Int /\ p * e \in Int
    BY <1>1, <1>2, <1>3, SMT
  <1>5. A * (D * D) <= A * (p * e)
    <2>1. (A * D) * D <= (S * e) * D
      BY <1>1, <1>2, <1>4, MulKeepsOrder
    <2>2. (S * D) * e <= (A * p) * e
      BY <1>1, <1>2, <1>3, <1>4, MulKeepsOrder
    <2>3. (A * D) * D = A * (D * D) /\ (S * e) * D = (S * D) * e /\ (A * p) * e = A * (p * e)
      BY <1>1, <1>2, <1>3, SMT
    <2>4. A * (D * D) \in Int /\ (S * D) * e \in Int /\ A * (p * e) \in Int
      BY <1>1, <1>2, <1>3, <1>4, SMT
    <2> QED
      BY <2>1, <2>2, <2>3, <2>4
  <1>6. D * D <= p * e
    BY <1>4, <1>5, MulCancels
  <1> QED
    BY <1>2, <1>3, <1>6 DEF D, e, p

\* Shares bought at one rate fall short of those announced at the other by no
\* more than one and what the rounding of the rates takes.
LEMMA SharesNearRate ==
    ASSUME NEW A \in Nat \ {0}, NEW S \in Nat \ {0}, NEW x \in Nat, FromRatio(A, S) > 0
    PROVE  LET steps == FromRatio(A, S) * (FromRatio(A, S) + 1)
               lost == (x * (DecimalOne * DecimalOne + steps)) \div (DecimalOne * steps)
           IN  /\ lost \in Nat
               /\ (x * DecimalOne) \div FromRatio(A, S)
                    <= MulFloor(x, FromRatio(S, A)) + 1 + lost
  <1> DEFINE D == DecimalOne
             E == FromRatio(A, S)
             p == FromRatio(S, A)
             m == MulFloor(x, p)
             q == (x * D) \div E
             T == E * (E + 1)
             z == (x * (D * D + T)) \div (D * T)
  <1>1. D \in Nat \ {0} /\ E \in Nat \ {0} /\ p \in Nat /\ D * D <= (p + 1) * (E + 1)
    BY DecimalOneAssumption, RatesBelow
  <1> HIDE DEF E, p
  <1>2. x * p \in Nat /\ x * D \in Nat /\ D * D \in Nat
    BY <1>1, SMT
  <1>3. m \in Nat /\ x * p < D * (m + 1)
    BY <1>1, <1>2, DivBounds DEF MulFloor
  <1>4. q \in Nat /\ E * q <= x * D
    BY <1>1, <1>2, DivBounds
  <1>5. T \in Nat \ {0} /\ D * T \in Nat \ {0} /\ x * (D * D + T) \in Nat
    <2>1. \A a, b \in Nat \ {0} : a * b \in Nat \ {0}
      BY SMT
    <2>2. E + 1 \in Nat \ {0}
      BY <1>1
    <2>3. T \in Nat \ {0}
      BY <1>1, <2>1, <2>2
    <2>4. D * T \in Nat \ {0}
      BY <1>1, <2>1, <2>3
    <2> HIDE DEF T, D
    <2>5. D * D + T \in Nat
      BY <1>2, <2>3
    <2>6. \A b \in Nat : x * b \in Nat
      BY SMT
    <2> QED
      BY <2>3, <2>4, <2>5, <2>6
  <1>6. z \in Nat /\ x * (D * D + T) < (D * T) * (z + 1)
    BY <1>5, DivBounds
  <1> HIDE DEF D, m, q, z
  <1>7. ~(m + 2 + z <= q)
    <2> SUFFICES ASSUME m + 2 + z <= q PROVE FALSE
      OBVIOUS
    <2> DEFINE F == E + 1
    <2>1. F \in Nat \ {0} /\ T = E * F
      BY <1>1
    <2> HIDE DEF T, F
    <2>2. (m + 2 + z) * (D * T) <= ((x * D) * D) * F
      <3>1. (m + 2 + z) * (D * T) <= q * (D * T)
        BY <1>3, <1>4, <1>5, <1>6, MulKeepsOrder
      <3>2. D * F \in Nat /\ E * q \in Int
        BY <1>1, <1>4, <2>1, SMT
      <3>3. (E * q) * (D * F) <= (x * D) * (D * F)
        BY <1>2, <1>4, <3>2, MulKeepsOrder
      <3>4. q * (D * T) = (E * q) * (D * F) /\ (x * D) * (D * F) = ((x * D) * D) * F
        BY <1>1, <1>4, <2>1, SMT
      <3>5. /\ (m + 2 + z) * (D * T) \in Int /\ q * (D * T) \in Int
            /\ (x * D) * (D * F) \in Int
        BY <1>1, <1>2, <1>3, <1>4, <1>5, <1>6, <3>2, SMT
      <3> QED
        BY <3>1, <3>3, <3>4, <3>5
    <2>3. (x * p) * T + x * (D * D + T) < (m + 2 + z) * (D * T)
      <3>1. (x * p) * T <= (D * (m + 1)) * T
        <4>1. D * (m + 1) \in Int
          BY <1>1, <1>3, SMT
        <4> QED
          BY <1>2, <1>3, <1>5, <4>1, MulKeepsOrder
      <3>2. (D * (m + 1)) * T + (D * T) * (z + 1) = (m + 2 + z) * (D * T)
        BY <1>1, <1>3, <1>5, <1>6, SMT
      <3>3. (x * p) * T \in Int /\ (D * (m + 1)) * T \in Int /\ (D * T) * (z + 1) \in Int
        BY <1>1, <1>2, <1>3, <1>5, <1>6, SMT
      <3> QED
        BY <1>5, <1>6, <3>1, <3>2, <3>3
    <2>4. ((x * D) * D) * F <= (x * p) * T + x * (D * D + T)
      <3>1. (D * D) * (x * E) <= ((p + 1) * F) * (x * E)
        <4>1. x * E \in Nat /\ (p + 1) * F \in Int
          BY <1>1, <2>1, SMT
        <4> QED
          BY <1>1, <1>2, <4>1, MulKeepsOrder DEF F
      <3>2. ((x * D) * D) * F = (D * D) * (x * E) + x * (D * D)
        BY <1>1, SMT DEF F
      <3>3. (x * p) * T + x * (D * D + T) = ((p + 1) * F) * (x * E) + x * (D * D)
        <4>1. (x * p) * T = (x * p) * (E * F) /\ x * (D * D + T) = x * (D * D) + x * (E * F)
          BY <1>1, <1>2, <1>5, <2>1, SMT
        <4>2. ((p + 1) * F) * (x * E) = (x * p) * (E * F) + x * (E * F)
          BY <1>1, <2>1, SMT
        <4>3. (x * p) * (E * F) \in Int /\ x * (E * F) \in Int /\ x * (D * D) \in Int
          BY <1>1, <1>2, <2>1, SMT
        <4> QED
          BY <4>1, <4>2, <4>3
      <3>4. (D * D) * (x * E) \in Int /\ ((p + 1) * F) * (x * E) \in Int /\ x * (D * D) \in Int
        BY <1>1, <1>2, <2>1, SMT
      <3> QED
        BY <3>1, <3>2, <3>3, <3>4
    <2>5. ((x * D) * D) * F \in Int /\ (m + 2 + z) * (D * T) \in Int
          /\ (x * p) * T + x * (D * D + T) \in Int
      BY <1>1, <1>2, <1>3, <1>5, <1>6, <2>1, SMT
    <2> QED
      BY <2>2, <2>3, <2>4, <2>5
  <1>8. q <= m + 1 + z
    BY <1>3, <1>4, <1>6, <1>7
  <1> QED
    BY <1>6, <1>8 DEF D, E, p, m, q, z

\* What a payment brings is what was announced, up to these roundings.
LEMMA RouteAsSimulated ==
    ASSUME TypeOK, NEW paid \in Nat, NEW quote \in Simulates(paid), supply.issued > 0
    PROVE  /\ Received(paid, quote) <= Simulated(paid, quote) + tokens[Router]
           /\ Simulated(paid, quote)
                <= Received(paid, quote) + 1 + RateRounding(paid - quote.trade)
  <1> DEFINE rest == paid - quote.trade
             announced == (rest * DecimalOne) \div ExchangeRate
             lost == RateRounding(rest)
  <1>1. /\ RouteFits /\ supply.issued > 0 /\ ExchangeRate > 0
        /\ quote \in Quotes(paid, TargetPrice)
    BY DEF Simulates
  <1>2. /\ CleanSupply \in SupplyType /\ CleanSupply.issued = supply.issued
        /\ balance \in Nat /\ supply.issued \in Nat /\ tokens[Router] \in Nat /\ tokens[Pool] \in Nat
    BY <1>1, CleanedSupply, StateTypes, TypeIs, RouterConstants DEF RouteFits
  <1>3. quote.trade \in Nat /\ quote.return \in Nat /\ rest \in Nat
    <2>1. CASE quote = NoTrade
      BY <2>1 DEF NoTrade
    <2>2. CASE quote \in [trade : 1..paid, return : 0..tokens[Pool]]
      BY <1>2, <2>2
    <2> QED
      BY <1>1, <2>1, <2>2 DEF Quotes
  <1> DEFINE A == Assets(CleanSupply, balance)
             S == CleanSupply.issued
  <1>4. S \in Nat \ {0} /\ A \in Nat \ {0} /\ ExchangeRate = FromRatio(A, S)
    <2>1. S \in Nat \ {0} /\ A \in Nat
      BY <1>1, <1>2 DEF RouteFits, RateFits, Assets, SupplyType
    <2>2. ExchangeRate = FromRatio(A, S)
      BY <2>1 DEF ExchangeRate, TokensPerShare
    <2> HIDE DEF A, S
    <2>3. FromRatio(0, S) = 0
      <3>1. 0 * DecimalOne = 0
        BY DecimalOneAssumption, SMT
      <3> QED
        BY <2>1, <3>1, SMT DEF FromRatio
    <2> QED
      BY <1>1, <2>1, <2>2, <2>3
  <1>5. Minted(rest) = MulFloor(rest, FromRatio(S, A))
    BY <1>4 DEF Minted, SharesFor, SharesPerToken
  <1>6. Simulated(paid, quote) = announced + quote.return
    BY DEF Simulated
  <1>7. quote.trade < paid \/ (rest = 0 /\ announced = 0)
    <2>1. quote.trade < paid \/ rest = 0
      BY <1>3
    <2>2. 0 * DecimalOne = 0 /\ ExchangeRate \in Nat \ {0}
      BY <1>1, <1>4, FromRatioType, DecimalOneAssumption, SMT
    <2>3. rest = 0 => announced = 0
      BY <2>2, SMT
    <2> QED
      BY <2>1, <2>3
  <1> HIDE DEF A, S, rest
  <1>8. announced \in Nat /\ Minted(rest) \in Nat /\ Minted(rest) <= announced
    BY <1>1, <1>3, <1>4, <1>5, SharesAtRate
  <1>9. lost \in Nat /\ announced <= Minted(rest) + 1 + lost
    BY <1>1, <1>3, <1>4, <1>5, SharesNearRate DEF RateRounding
  <1> HIDE DEF announced, lost
  <1>10. Received(paid, quote) =
           quote.return + IF quote.trade < paid THEN tokens[Router] + Minted(rest) ELSE 0
    BY DEF Received, ReplyBond, rest
  <1>11. /\ Received(paid, quote) <= Simulated(paid, quote) + tokens[Router]
         /\ Simulated(paid, quote) <= Received(paid, quote) + 1 + lost
    BY <1>2, <1>3, <1>6, <1>7, <1>8, <1>9, <1>10
  <1> QED
    BY <1>11 DEF rest, lost

\* When nothing is issued the simulation announces a share for each token, which
\* is what the hub mints if it has no assets; otherwise it mints nothing.
LEMMA RouteUnissued ==
    ASSUME TypeOK, NEW paid \in Nat, NEW quote \in Simulates(paid), supply.issued = 0,
           BondFits(paid, quote)
    PROVE  /\ Received(paid, quote) <= Simulated(paid, quote) + tokens[Router]
           /\ ~Stranded =>
                Simulated(paid, quote)
                  <= Received(paid, quote) + 1 + RateRounding(paid - quote.trade)
  <1> DEFINE D == DecimalOne
             A == Assets(CleanSupply, balance)
             rest == paid - quote.trade
             announced == (rest * D) \div ExchangeRate
             lost == RateRounding(rest)
  <1>1. RouteFits /\ quote \in Quotes(paid, TargetPrice)
    BY DEF Simulates
  <1>2. /\ CleanSupply \in SupplyType /\ CleanSupply.issued = 0
        /\ balance \in Nat /\ tokens[Router] \in Nat /\ tokens[Pool] \in Nat
    BY <1>1, CleanedSupply, StateTypes, TypeIs, RouterConstants DEF RouteFits
  <1>3. quote.trade \in Nat /\ quote.return \in Nat /\ rest \in Nat
    <2>1. CASE quote = NoTrade
      BY <2>1 DEF NoTrade
    <2>2. CASE quote \in [trade : 1..paid, return : 0..tokens[Pool]]
      BY <1>2, <2>2
    <2> QED
      BY <1>1, <2>1, <2>2 DEF Quotes
  <1>4. quote.trade < paid \/ rest = 0
    BY <1>3
  <1>5. ExchangeRate = D /\ D \in Nat \ {0}
    BY <1>2, DecimalOneAssumption DEF ExchangeRate, TokensPerShare
  <1>6. A \in Int /\ (quote.trade < paid => A >= 0)
    BY <1>2, SMT DEF BondFits, Assets, SupplyType
  <1>7. Minted(rest) = MulFloor(rest, IF A = 0 THEN D ELSE FromRatio(0, A))
    BY <1>2 DEF Minted, SharesFor, SharesPerToken
  <1>8. Simulated(paid, quote) = announced + quote.return
    BY DEF Simulated
  <1>9. Received(paid, quote) =
          quote.return + IF quote.trade < paid THEN tokens[Router] + Minted(rest) ELSE 0
    BY DEF Received, ReplyBond
  <1>10. Stranded <=> A # 0
    BY DEF Stranded
  <1> HIDE DEF A, rest
  <1>11. (rest * D) \div D = rest
    <2> HIDE DEF D
    <2> QED
      BY <1>3, <1>5, SMT
  <1>12. lost \in Nat
    <2> DEFINE steps == D * (D + 1)
               top == rest * (D * D + steps)
    <2>1. lost = top \div (D * steps)
      BY <1>5 DEF RateRounding
    <2> HIDE DEF D
    <2>2. top \in Nat /\ D * steps \in Nat \ {0}
      BY <1>3, <1>5, SMT
    <2> HIDE DEF top, steps, lost
    <2> QED
      BY <2>1, <2>2, SMT
  <1>13. announced = rest
    BY <1>5, <1>11
  <1>14. A = 0 => Minted(rest) = rest
    BY <1>7, <1>11 DEF MulFloor
  <1>15. A # 0 /\ quote.trade < paid => Minted(rest) = 0
    <2> SUFFICES ASSUME A # 0, quote.trade < paid PROVE Minted(rest) = 0
      OBVIOUS
    <2>1. A \in Nat \ {0}
      BY <1>6
    <2>2. 0 * DecimalOne = 0 /\ rest * 0 = 0 /\ 0 \div DecimalOne = 0
      BY <1>3, <1>5, SMT
    <2>3. 0 \div A = 0
      BY <2>1, SMT
    <2> QED
      BY <1>7, <2>2, <2>3 DEF FromRatio, MulFloor
  <1> HIDE DEF announced, lost
  <1>16. /\ Received(paid, quote) <= Simulated(paid, quote) + tokens[Router]
         /\ ~Stranded => Simulated(paid, quote) <= Received(paid, quote) + 1 + lost
    <2>1. CASE quote.trade < paid
      <3>1. CASE A = 0
        BY <1>2, <1>3, <1>8, <1>9, <1>12, <1>13, <1>14, <2>1, <3>1
      <3>2. CASE A # 0
        BY <1>2, <1>3, <1>8, <1>9, <1>10, <1>13, <1>15, <2>1, <3>2
      <3> QED
        BY <3>1, <3>2
    <2>2. CASE ~(quote.trade < paid)
      BY <1>2, <1>3, <1>4, <1>8, <1>9, <1>12, <1>13, <2>2
    <2> QED
      BY <2>1, <2>2
  <1> QED
    BY <1>16 DEF rest, lost

\* For all payments and quotes, query_simulate never announces less than what a
\* payment brings beyond the tokens others had left with the router.
THEOREM SimulationAlwaysKept == RouterSpec => []SimulationKept
  <1>1. BooksInv => SimulationKept
    <2> SUFFICES ASSUME BooksInv, NEW paid \in Deposits, NEW quote \in Simulates(paid),
                        BondFits(paid, quote)
                 PROVE  Received(paid, quote) <= Simulated(paid, quote) + tokens[Router]
      BY DEF SimulationKept
    <2>1. TypeOK /\ paid \in Nat /\ supply.issued \in Nat
      BY BooksInvIs, Constants, StateTypes, TypeIs DEF SupplyType
    <2> QED
      BY <2>1, RouteAsSimulated, RouteUnissued
  <1> QED
    BY <1>1, RouterBooksInvariant, PTL

\* For all payments and quotes, a payment brings at most one token less than
\* query_simulate announces, and what the rounding of the rates takes, unless
\* nothing is issued and assets are left.
THEOREM SimulationAlwaysClose == RouterSpec => []SimulationClose
  <1>1. BooksInv => SimulationClose
    <2> SUFFICES ASSUME BooksInv, NEW paid \in Deposits, NEW quote \in Simulates(paid),
                        BondFits(paid, quote), ~Stranded
                 PROVE  Simulated(paid, quote)
                          <= Received(paid, quote) + 1 + RateRounding(paid - quote.trade)
      BY DEF SimulationClose, SimulationHolds
    <2>1. TypeOK /\ paid \in Nat /\ supply.issued \in Nat
      BY BooksInvIs, Constants, StateTypes, TypeIs DEF SupplyType
    <2> QED
      BY <2>1, RouteAsSimulated, RouteUnissued
  <1> QED
    BY <1>1, RouterBooksInvariant, PTL

=============================================================================
