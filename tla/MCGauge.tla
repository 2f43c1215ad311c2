------------------------------- MODULE MCGauge -------------------------------
(* An instance of GaugeAdapter for TLC: three validators, one above every    *)
(* commission the adapter may allow, one above some.                         *)
EXTENDS GaugeAdapter

CONSTANTS v1, v2, v3

First == <<[validator |-> v1, weight |-> DecimalOne]>>
Message ==
    [commission |-> 0, validators |-> First, owner |-> Orchestrator, liquidity_discount |-> 0,
     epoch_period |-> Hour, unbond_period |-> Hour, max_concurrent_unbondings |-> 1]

CommissionOf == v1 :> 1 @@ v2 :> 2 @@ v3 :> 5
=============================================================================
