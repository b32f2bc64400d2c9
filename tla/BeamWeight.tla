----------------------------- MODULE BeamWeight -----------------------------
(***************************************************************************)
(* What the automatic demo promises of the weight the eNB applies, with    *)
(* the link and the server's arithmetic left out: in the life of one RIC   *)
(* server beam-nulling is engaged at most once, with one estimate that is  *)
(* then kept; only a later server can change the weight again.             *)
(***************************************************************************)
EXTENDS Naturals

VARIABLE weight   \* life: the server it came from; num: samples averaged

Weight == [life : Nat, num : Nat]

Zero(life) == [life |-> life, num |-> 0]

Init == weight = Zero(0)

(* Zeros give way to this server's estimate. *)
Engage ==
    /\ weight.num = 0
    /\ weight' \in Weight
    /\ weight'.life = weight.life /\ weight'.num > 0

(* Zeros, or the estimate, of a server started later. *)
NewServer ==
    /\ weight' \in Weight
    /\ weight'.life > weight.life

Next == Engage \/ NewServer

Spec == Init /\ [][Next]_weight
=============================================================================
