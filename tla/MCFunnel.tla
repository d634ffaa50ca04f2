------------------------------- MODULE MCFunnel ------------------------------
(* The funnel on a small instance: a row of each wire, and a dump in two      *)
(* sections that tells the shared row twice, as the device does with the      *)
(* position.                                                                  *)
EXTENDS Funnel

CONSTANTS rig, morph, strobe

Rows == [a \in Addresses |-> CASE a = rig -> "both" [] a = morph -> "control"
                               [] OTHER -> "stream"]
SlowRows == {rig, morph}
TwoSections == <<rig, EndRun, morph, rig, EndRun>>
=============================================================================
