---------------------------- MODULE MCNavigator -----------------------------
(* The Navigator on a small instance: two rigs the preselect can name, and   *)
(* one whose bank (128) does not fit its seven bits.                         *)
EXTENDS Navigator

MCRig == {7, 12, 640}

=============================================================================
