----------------------------- MODULE MCReceive ------------------------------
(* Two rigs, one of a bank past seven bits, and a handshake that left a line *)
(* end before the stream's first frame.                                      *)
EXTENDS Receive

MCRigs == {[bank |-> 1, slot |-> 2, name |-> <<65>>, tempo |-> 7680, volume |-> 8192],
           [bank |-> 140, slot |-> 3, name |-> <<66, 67>>, tempo |-> 6400, volume |-> 0]}
MCSecret  == <<83>>
MCResidue == <<13, 10>>

=============================================================================
