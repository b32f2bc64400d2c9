------------------------------ MODULE MCRrcRlf ------------------------------
(* Instances of RrcRlf for TLC: which timers of the two UEs are used. *)
EXTENDS RrcRlf

CONSTANTS u1, u2

MCUes == {u1, u2}
MCTimers == {<<u1, "ul">>, <<u1, "dl">>, <<u2, "rlc">>, <<u2, "act">>}
=============================================================================
