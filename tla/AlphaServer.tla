---------------------------- MODULE AlphaServer -----------------------------
(***************************************************************************)
(* alpha_compute_server.py, the RIC of the automatic demo: zeros until     *)
(* Timer 2, then the average of what Timer 1 let it sum.                   *)
(***************************************************************************)
EXTENDS RicServer

CONSTANT Timer2     \* argv[2]: elapsed time from which alpha is replied

ASSUME Timer2Assumption == Timer2 \in Nat /\ Timer2 < AgeCap

(* argv is not checked; the documented use has Timer 1 below Timer 2. *)
TimerOrder == Timer1 <= Timer2

vars == ricVars

(* Mutant: the reply depends on the wrong timer. *)
ReplyAfterTimer1 == [life |-> life, num |-> IF elapsed < Timer1 THEN 0 ELSE num']

(* final_alpha is recomputed for each reply once Timer 2 has elapsed. *)
Reply == [life |-> life, num |-> IF elapsed < Timer2 THEN 0 ELSE num']

Handle == HandleWith(Reply) /\ (elapsed < Timer2 \/ num' > 0)

(* NameError on `data`, or 0 / 0: the script ends with a traceback. *)
Raise ==
    /\ Pending
    /\ \/ Unpacked = NoData
       \/ num = 0 /\ ~Estimating /\ elapsed >= Timer2
    /\ Die

Init == RicInit

Next ==
    \/ Sound \/ Poll \/ Flush \/ ConnectSub \/ ConnectPub
    \/ Handle \/ Raise \/ Stamp
    \/ Kill \/ Restart

Spec == Init /\ [][Next]_vars

(* The radio delivers subframes for ever, zmq transmits and reconnects,    *)
(* and the script's loop has no other wait than its poll.  Kill and        *)
(* Restart are the operator's choice.                                      *)
Fairness ==
    /\ WF_vars(Sound) /\ WF_vars(Poll) /\ WF_vars(Flush)
    /\ WF_vars(ConnectSub) /\ WF_vars(ConnectPub)
    /\ WF_vars(Handle) /\ WF_vars(Raise) /\ WF_vars(Stamp)

FairSpec == Spec /\ Fairness

-----------------------------------------------------------------------------
(* Types, and the bounds of the link. *)
TypeOK == RicTypeOK

(* No subframe is nulled with an estimate before the server that made it   *)
(* is Timer 2 old, however late its replies are; nor does a reply on its   *)
(* way carry one.                                                          *)
NullOnlyAfterTimer2 ==
    \A w \in {alpha} \cup {repq[i] : i \in DOMAIN repq} :
        w.life = life /\ w.num > 0 => age >= Timer2

(* The weight applied and the replies on their way are in the order in     *)
(* which servers made them: zeros of a server before its one estimate.     *)
Follows(v, w) == v.life < w.life \/ (v.life = w.life /\ v.num \in {0, w.num})

WeightsInOrder ==
    /\ \A i \in DOMAIN repq : Follows(alpha, repq[i])
    /\ \A i, j \in DOMAIN repq : i < j => Follows(repq[i], repq[j])

(* A server that keeps running has the eNB null the jammer for good. *)
NullingEventually == <>[]alive => <>[](alpha.num > 0)

(* The weight the eNB applies is what BeamWeight describes. *)
Beam == INSTANCE BeamWeight WITH weight <- alpha
BeamSpec == Beam!Spec
=============================================================================
