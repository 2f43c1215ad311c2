------------------------------- MODULE Valset -------------------------------
(***************************************************************************)
(* valset_change_redelegation_messages (lsd-hub/src/valset.rs): from the   *)
(* stake on each validator and the new weights, the redelegations that     *)
(* move the stake and the balances they leave.  Validators that gain and   *)
(* validators that lose are matched greedily, largest first.               *)
(***************************************************************************)
EXTENDS Decimals, Sequences, SequencesExt

AmountAt(f, x) == IF x \in DOMAIN f THEN f[x] ELSE 0

\* the amount each validator of the new set should hold
Targets(total_bonded, valset) ==
    [v \in {valset[i].validator : i \in DOMAIN valset} |->
        MulFloor(total_bonded, valset[CHOOSE i \in DOMAIN valset : valset[i].validator = v].weight)]

DelegateFrom(balances, targets) ==
    {[validator |-> v, amount |-> balances[v] - AmountAt(targets, v)] :
        v \in {w \in DOMAIN balances : balances[w] > AmountAt(targets, w)}}

\* mutants
MutDelegateToNew(balances, targets) ==
    {[validator |-> v, amount |-> targets[v]] : v \in DOMAIN targets \ DOMAIN balances}
MutDelegateToAll(balances, targets) ==
    {[validator |-> v, amount |-> targets[v]] : v \in DOMAIN targets}

\* a validator new to the list is included even when its amount is zero
DelegateTo(balances, targets) ==
    {[validator |-> v, amount |-> targets[v] - AmountAt(balances, v)] :
        v \in {w \in DOMAIN targets : w \notin DOMAIN balances \/ targets[w] > balances[w]}}

\* sort_unstable_by leaves the order of equal amounts open
LargestFirst(moves) ==
    {s \in SetToSeqs(moves) : \A i, j \in DOMAIN s : i < j => s[i].amount >= s[j].amount}

\* mutant: what `from` gave is not subtracted
MutMove(state, to, from) ==
    LET amount == IF state.from[from] < state.to[to] THEN state.from[from] ELSE state.to[to]
    IN  IF amount = 0 THEN state
        ELSE [state EXCEPT !.to[to] = @ - amount,
                           !.messages = Append(@, [src |-> from, dst |-> to, amount |-> amount])]

\* one redelegation: as much as `from` can give and `to` still needs
Move(state, to, from) ==
    LET amount == IF state.from[from] < state.to[to] THEN state.from[from] ELSE state.to[to]
    IN  IF amount = 0 THEN state
        ELSE [from |-> [state.from EXCEPT ![from] = @ - amount],
              to |-> [state.to EXCEPT ![to] = @ - amount],
              messages |-> Append(state.messages, [src |-> from, dst |-> to, amount |-> amount])]

Amounts(moves) ==
    [v \in {m.validator : m \in moves} |-> (CHOOSE m \in moves : m.validator = v).amount]

\* `to` takes from every `from` in turn
TakeFromEach(state, to, moves_from) ==
    FoldLeft(LAMBDA inner, from : Move(inner, to, from.validator), state, moves_from)

\* so does every `to` in turn
Match(moves_from, moves_to) ==
    FoldLeft(LAMBDA outer, to : TakeFromEach(outer, to.validator, moves_from),
             [from |-> Amounts(ToSet(moves_from)), to |-> Amounts(ToSet(moves_to)),
              messages |-> <<>>],
             moves_to)

NonZero(f) == [x \in {y \in DOMAIN f : f[y] # 0} |-> f[x]]

\* mutant
MutNewBalances(balances, targets, matched) == NonZero(targets)

\* the new balances: what `from` has left to give stays where it is
NewBalances(balances, targets, matched) ==
    NonZero([v \in DOMAIN balances \cup DOMAIN targets |->
        IF v \in DOMAIN matched.from THEN AmountAt(targets, v) + matched.from[v]
        ELSE IF v \in DOMAIN matched.to THEN targets[v] - matched.to[v]
        ELSE balances[v]])

\* external: the chain executes one redelegation
AfterRedelegation(stake, m) ==
    LET taken == [stake EXCEPT ![m.src] = @ - m.amount]
    IN  [taken EXCEPT ![m.dst] = @ + m.amount]

\* the possible results, one for each order of validators with equal amounts
ValsetChanges(total_bonded, balances, valset) ==
    LET targets == Targets(total_bonded, valset)
    IN  {LET matched == Match(from, to)
         IN  [messages |-> matched.messages,
              new_balances |-> NewBalances(balances, targets, matched)] :
            from \in LargestFirst(DelegateFrom(balances, targets)),
            to \in LargestFirst(DelegateTo(balances, targets))}

=============================================================================
