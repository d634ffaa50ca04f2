----------------------------- MODULE MCLifecycle ----------------------------
(* The lives of a model on small instances: at most MaxFaults faults.        *)
EXTENDS Lifecycle

Plain        == {[policy |-> "BestEffort", recycle |-> FALSE]}
Recycled     == {[policy |-> "BestEffort", recycle |-> TRUE]}
Required     == {[policy |-> "Required", recycle |-> FALSE]}
BothPolicies == Recycled \union Required

=============================================================================
