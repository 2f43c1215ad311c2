------------------------------ MODULE MCRouter ------------------------------
(* An instance of BondRouter for TLC: one validator. *)
EXTENDS BondRouter

CONSTANTS v1

Single == <<[validator |-> v1, weight |-> DecimalOne]>>
=============================================================================
