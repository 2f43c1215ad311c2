------------------------------- MODULE MCHub -------------------------------
(* Instances of LsdHub for TLC: two validators at most, and their weights. *)
EXTENDS HubProperties

CONSTANTS u1, u2, v1, v2

Half == DecimalOne \div 2
Valset(w1, w2) == <<[validator |-> v1, weight |-> w1], [validator |-> v2, weight |-> w2]>>
Single(v) == <<[validator |-> v, weight |-> DecimalOne]>>

Even == Valset(Half, Half)
\* instantiate accepts a validator of weight zero
OneIdle == Valset(DecimalOne, 0)
First == Single(v1)
\* what the owner may set: the other validator, with a weight that was rounded down
Elsewhere == {<<[validator |-> v2, weight |-> DecimalOne - DecimalOne \div 10]>>}

\* or nobody with a weight
Nobody == {Valset(0, 0)}

UserSymmetry == Permutations(Users)
=============================================================================
