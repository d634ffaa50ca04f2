----------------------------- MODULE MCRequests ------------------------------
(* The request lane on a small instance: one permit and two calls for the     *)
(* same key, so that a late reply or a dropped caller's entry meets the other *)
(* call, a second key that is only pushed and written, and a queue of one.    *)
EXTENDS Requests

CONSTANTS r1, r2, k1, k2

Asked == [r \in Requests |-> k1]
=============================================================================
