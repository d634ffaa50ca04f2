------------------------------- MODULE MCLedger ------------------------------
(* The ledger on small instances: a few calls, a cooldown of a few ticks.     *)
EXTENDS Ledger

=============================================================================
