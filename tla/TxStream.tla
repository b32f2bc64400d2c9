------------------------------ MODULE TxStream ------------------------------
(***************************************************************************)
(* What the pipeline promises the radio: one burst per subframe begun, in  *)
(* the order of the subframes, made of signals of that subframe only.      *)
(***************************************************************************)
EXTENDS Naturals

VARIABLES begun, air     \* subframes begun; the last burst

Init == begun = 0 /\ air = [tti |-> 0, signals |-> {}]

Begin == begun' = begun + 1 /\ UNCHANGED air

Burst ==
    /\ air.tti < begun
    /\ \E s \in SUBSET {air.tti + 1} : air' = [tti |-> air.tti + 1, signals |-> s]
    /\ UNCHANGED begun

Next == Begin \/ Burst

Spec == Init /\ [][Next]_<<begun, air>>

(* Every subframe begun is transmitted. *)
FairSpec == Spec /\ WF_<<begun, air>>(Burst)
=============================================================================
