-------------------------------- MODULE RlcAm --------------------------------
(***************************************************************************)
(* An acknowledged-mode bearer of LTE (lib/src/rlc/rlc_am_lte.cc): the     *)
(* eNB's transmitter and the receiver in the UE, which runs the same code. *)
(*                                                                         *)
(* At the eNB two threads use the entity: the stack thread writes SDUs,    *)
(* handles status PDUs, giving up the mutex after each sequence number,    *)
(* and runs the timers; a PHY worker reads PDUs.  Padding is on (console   *)
(* command `p`): the scheduler gives opportunities whatever the buffer     *)
(* state it was last told, which is left out.  The receiver's operations   *)
(* are atomic; its MAC polls.                                              *)
(*                                                                         *)
(* An SDU fills a PDU and every grant is large enough for it: segments and *)
(* concatenation are left out.  Retransmissions are not counted.  HARQ     *)
(* loses PDUs and, here, lets one overtake the PDU right before it, once,  *)
(* if it is Reach SDUs ahead of it at most: with Reach >= Window an old SN *)
(* looks new.                                                              *)
(***************************************************************************)
EXTENDS Integers, Sequences, FiniteSets, SequencesExt

CONSTANTS
    Window,     \* RLC_AM_WINDOW_SIZE, half of MOD
    Ring,       \* entries of pdu_retx_queue
    PollPdu,    \* poll_pdu
    First,      \* SN reached so far: all before it is acknowledged
    Reach,      \* how far ahead of a PDU another is that overtakes it
    MaxSdus,    \* bound: SDUs written
    MaxFlight,  \* bound: PDUs in each direction
    MaxLost     \* bound: PDUs lost

ASSUME RlcAssumption ==
    /\ Window \in Nat \ {0, 1} /\ Ring \in Nat \ {0} /\ PollPdu \in Nat \ {0}
    /\ First \in 0..2 * Window - 1 /\ Reach \in Nat /\ MaxSdus \in Nat /\ MaxFlight \in Nat \ {0} /\ MaxLost \in Nat

VARIABLES
    written, taken,     \* SDUs accepted, SDUs put into a PDU
    vtA, vtS, pollSn,
    noPoll,             \* pdu_without_poll
    pollTimer,          \* poll_retx_timer
    txWin,              \* tx_window: the SDU of each SN, 0 if it is not there
    retxQ,              \* retx_queue
    stackPc, handling,  \* stack thread, and the status PDU it is handling
    vrR, vrMs, vrX, vrH,
    rxWin, delivered,
    doStatus, pollReceived,
    reordering,         \* reordering_timer runs
    data, statuses,     \* PDUs on their way
    lost,
    silent,             \* history: a retransmission was lost, and no status asked for
    cleared             \* history: a status cleared one that it says nothing of

txVars     == <<vtA, vtS, pollSn, noPoll, pollTimer, txWin, retxQ, taken>>
rxVars     == <<vrR, vrMs, vrX, vrH, rxWin, delivered, doStatus, pollReceived, reordering>>
airVars    == <<data, statuses, lost, silent, cleared>>
stackVars  == <<stackPc, handling>>
vars == <<written, txVars, stackVars, rxVars, airVars>>

Mod == 2 * Window
Sns == 0..Mod - 1

TxBase(x) == (x - vtA) % Mod
RxBase(x) == (x - vrR) % Mod
WindowFull == TxBase(vtS) >= Window
Sent(sn)   == txWin[sn] # 0
Next1(sn)  == (sn + 1) % Mod

NoStatus == [ack |-> 0, nacks |-> {}, i |-> 0, end |-> 0, move |-> TRUE]

Init ==
    /\ written = 0 /\ taken = 0 /\ vtA = First /\ vtS = First /\ pollSn = First /\ noPoll = 0
    /\ pollTimer = "stopped" /\ txWin = [sn \in Sns |-> 0] /\ retxQ = <<>>
    /\ stackPc = "idle" /\ handling = NoStatus
    /\ vrR = First /\ vrMs = First /\ vrX = First /\ vrH = First
    /\ rxWin = [sn \in Sns |-> 0] /\ delivered = <<>>
    /\ doStatus = FALSE /\ pollReceived = FALSE /\ reordering = FALSE
    /\ data = <<>> /\ statuses = <<>> /\ lost = 0 /\ silent = FALSE /\ cleared = FALSE

-----------------------------------------------------------------------------
(* The ring looks empty when every entry of it is taken. *)
Pushed(q, sn) == IF Len(q) = Ring - 1 THEN <<>> ELSE Append(q, sn)

(* retransmit_pdu: the SN may be queued already. *)
Retransmit(q) == IF Sent(vtA) THEN Pushed(q, vtA) ELSE q

-----------------------------------------------------------------------------
WriteSdu ==
    /\ stackPc = "idle" /\ written < MaxSdus
    /\ written' = written + 1
    /\ UNCHANGED <<txVars, stackVars, rxVars, airVars>>

(* read_pdu: a full window with nothing to retransmit sends its first PDU  *)
(* again; what has been acknowledged meanwhile is dropped from the queue.  *)
ToRetransmit ==
    LET asked == IF WindowFull /\ retxQ = <<>> THEN Retransmit(retxQ) ELSE retxQ
        live  == {k \in DOMAIN asked : Sent(asked[k])}
        first == CHOOSE k \in live : \A j \in live : k <= j
    IN  CASE asked = <<>> -> <<>>
          [] live # {}    -> SubSeq(asked, first, Len(asked))
          [] OTHER        -> Retransmit(<<>>)

(* Mutant: pdu_without_poll is not reset. *)
PollingCounted(sn) ==
    /\ noPoll' = noPoll + 1 /\ pollTimer' = "running" /\ pollSn' = sn

Polling(sn) ==
    /\ noPoll' = 0 /\ pollTimer' = "running" /\ pollSn' = sn

Transmitted(sn, sdu, poll, retx) ==
    data' = Append(data, [sn |-> sn, sdu |-> sdu, poll |-> poll, retx |-> retx, late |-> FALSE])

(* poll_required, as far as both callers share it. *)
PollDue == noPoll + 1 > PollPdu \/ pollTimer = "expired"

(* build_retx_pdu asks whether a poll is due before the PDU has left the   *)
(* queue: that it is the last one is no reason.                            *)
BuildRetxPdu(q) ==
    LET sn   == Head(q)
        poll == PollDue \/ WindowFull
    IN  /\ Transmitted(sn, txWin[sn], poll, TRUE)
        /\ IF poll THEN Polling(pollSn)
                   ELSE noPoll' = noPoll + 1 /\ UNCHANGED <<pollTimer, pollSn>>
        /\ retxQ' = Tail(q)
        /\ UNCHANGED <<vtA, vtS, txWin, taken>>

BuildDataPdu ==
    LET poll == PollDue \/ taken + 1 = written
    IN  /\ taken < written /\ ~WindowFull
        /\ Transmitted(vtS, taken + 1, poll, FALSE)
        /\ IF poll THEN Polling(vtS)
                   ELSE noPoll' = noPoll + 1 /\ UNCHANGED <<pollTimer, pollSn>>
        /\ txWin' = [txWin EXCEPT ![vtS] = taken + 1]
        /\ vtS' = Next1(vtS) /\ taken' = taken + 1
        /\ retxQ' = <<>>
        /\ UNCHANGED vtA

(* A worker that reads while a status is being handled finds neither the   *)
(* PDU that was queued nor that of vt_a, and empties the queue.            *)
GivesUp == retxQ # <<>> /\ \E sn \in Sns : Sent(sn)

ReadPdu ==
    /\ Len(data) < MaxFlight
    /\ LET q == ToRetransmit
       IN  \/ q # <<>> /\ BuildRetxPdu(q) /\ UNCHANGED silent
           \/ q = <<>> /\ BuildDataPdu /\ UNCHANGED silent
           \/ /\ q = <<>> /\ (taken = written \/ WindowFull)
              /\ retxQ' = <<>> /\ silent' = (silent \/ GivesUp)
              /\ UNCHANGED <<vtA, vtS, pollSn, noPoll, pollTimer, txWin, taken, data>>
    /\ UNCHANGED <<written, stackVars, rxVars, statuses, lost, cleared>>

-----------------------------------------------------------------------------
(* The timer expires; its callback waits for the mutex. *)
PollTimerExpires ==
    /\ stackPc = "idle" /\ pollTimer = "running"
    /\ pollTimer' = "expired" /\ stackPc' = "callback"
    /\ UNCHANGED <<written, vtA, vtS, pollSn, noPoll, txWin, retxQ, taken, handling, rxVars, airVars>>

(* Mutant: only a full window has the first PDU sent again. *)
PollTimerExpiredFull ==
    /\ stackPc = "callback" /\ stackPc' = "idle"
    /\ retxQ' = IF WindowFull THEN Retransmit(retxQ) ELSE retxQ
    /\ UNCHANGED <<written, vtA, vtS, pollSn, noPoll, pollTimer, txWin, taken, handling,
                   rxVars, airVars>>

PollTimerExpired ==
    /\ stackPc = "callback" /\ stackPc' = "idle"
    /\ retxQ' = IF (retxQ = <<>> /\ taken = written) \/ WindowFull
                  THEN Retransmit(retxQ) ELSE retxQ
    /\ UNCHANGED <<written, vtA, vtS, pollSn, noPoll, pollTimer, txWin, taken, handling,
                   rxVars, airVars>>

(* handle_control_pdu, up to the first release of the mutex. *)
Acceptable(ack) == (ack - vtA) % Mod <= Window /\ (vtS - ack) % Mod <= Window

(* It clears the queue of a retransmission that it says nothing of. *)
Forgets(s) == s.nacks # {} /\ \E sn \in Sns : Contains(retxQ, sn) /\ TxBase(sn) >= TxBase(s.ack)

HandleStatus(s) ==
    /\ stackPc = "idle"
    /\ IF Acceptable(s.ack)
         THEN /\ pollTimer' = IF pollTimer = "running" /\ TxBase(pollSn) < TxBase(s.ack)
                                THEN "stopped" ELSE pollTimer
              /\ retxQ' = IF s.nacks # {} THEN <<>> ELSE retxQ
              /\ cleared' = (cleared \/ Forgets(s))
              /\ handling' = [ack |-> s.ack, nacks |-> s.nacks, i |-> vtA, end |-> vtS, move |-> TRUE]
              /\ stackPc' = "status"
         ELSE UNCHANGED <<stackPc, pollTimer, retxQ, handling, cleared>>
    /\ UNCHANGED <<written, vtA, vtS, pollSn, noPoll, txWin, taken, rxVars>>

Unhandled ==
    /\ TxBase(handling.i) < TxBase(handling.ack)
    /\ TxBase(handling.i) < TxBase(handling.end)

(* Mutant: the window moves although a PDU was not acknowledged. *)
NackedMoves ==
    /\ stackPc = "status" /\ Unhandled /\ handling.i \in handling.nacks
    /\ retxQ' = IF Sent(handling.i) /\ ~Contains(retxQ, handling.i)
                  THEN Pushed(retxQ, handling.i) ELSE retxQ
    /\ handling' = [handling EXCEPT !.i = Next1(@)]
    /\ UNCHANGED <<written, vtA, vtS, pollSn, noPoll, pollTimer, txWin, taken, stackPc,
                   rxVars, airVars>>

Nacked ==
    /\ stackPc = "status" /\ Unhandled /\ handling.i \in handling.nacks
    /\ retxQ' = IF Sent(handling.i) /\ ~Contains(retxQ, handling.i)
                  THEN Pushed(retxQ, handling.i) ELSE retxQ
    /\ handling' = [handling EXCEPT !.i = Next1(@), !.move = FALSE]
    /\ UNCHANGED <<written, vtA, vtS, pollSn, noPoll, pollTimer, txWin, taken, stackPc, rxVars, airVars>>

Acked ==
    /\ stackPc = "status" /\ Unhandled /\ handling.i \notin handling.nacks
    /\ txWin' = [txWin EXCEPT ![handling.i] = 0]
    /\ vtA' = IF handling.move THEN Next1(vtA) ELSE vtA
    /\ handling' = [handling EXCEPT !.i = Next1(@)]
    /\ UNCHANGED <<written, vtS, pollSn, noPoll, pollTimer, retxQ, taken, stackPc, rxVars, airVars>>

StatusHandled ==
    /\ stackPc = "status" /\ ~Unhandled
    /\ stackPc' = "idle" /\ handling' = NoStatus
    /\ UNCHANGED <<written, txVars, rxVars, airVars>>

-----------------------------------------------------------------------------
(* The first SN from `sn` on that is not in w. *)
Gap(w, sn) ==
    (sn + CHOOSE n \in 0..Mod - 1 :
        w[(sn + n) % Mod] = 0 /\ \A k \in 0..n - 1 : w[(sn + k) % Mod] # 0) % Mod

(* reassemble_rx_sdus: the new vr_r. *)
Reassembled(w) == Gap(w, vrR)

(* Mutant: the window is one SN too wide. *)
InsideOrNext(sn) == RxBase(sn) <= Window

Inside(sn) == RxBase(sn) < Window

(* handle_data_pdu_full of a PDU that is new: window, poll, reassembly,    *)
(* reordering timer.                                                       *)
Accept(p) ==
    LET w    == [rxWin EXCEPT ![p.sn] = p.sdu]
        high == IF RxBase(p.sn) >= RxBase(vrH) THEN Next1(p.sn) ELSE vrH
        r    == Reassembled(w)
        n    == (r - vrR) % Mod
        goesOn == reordering /\ vrX # r
                    /\ ((vrX - r) % Mod < Window \/ vrX = (r + Window) % Mod)
    IN  /\ vrH' = high /\ vrMs' = Gap(w, vrMs) /\ vrR' = r
        /\ pollReceived' = (pollReceived \/ p.poll)
        /\ doStatus' = (doStatus \/ (p.poll /\ RxBase(p.sn) < RxBase(vrMs')))
        /\ delivered' = delivered \o [k \in 1..n |-> w[(vrR + k - 1) % Mod]]
        /\ rxWin' = [sn \in Sns |-> IF RxBase(sn) < n THEN 0 ELSE w[sn]]
        /\ reordering' = (goesOn \/ high # r)
        /\ vrX' = IF ~goesOn /\ high # r THEN high ELSE vrX

HandleDataPdu(p) ==
    /\ \/ Inside(p.sn) /\ rxWin[p.sn] = 0 /\ Accept(p)
       \/ /\ ~Inside(p.sn) \/ rxWin[p.sn] # 0
          /\ doStatus' = (doStatus \/ p.poll)
          /\ UNCHANGED <<vrR, vrMs, vrX, vrH, rxWin, delivered, pollReceived, reordering>>
    /\ UNCHANGED <<written, txVars, stackVars>>

ReorderingExpires ==
    /\ reordering
    /\ vrMs' = Gap(rxWin, vrX)
    /\ doStatus' = (doStatus \/ pollReceived)
    /\ IF RxBase(vrH) > RxBase(vrMs') THEN vrX' = vrH /\ UNCHANGED reordering
                                      ELSE reordering' = FALSE /\ UNCHANGED vrX
    /\ UNCHANGED <<written, txVars, stackVars, vrR, vrH, rxWin, delivered,
                   pollReceived, airVars>>

(* get_status_pdu with room for k NACKs: it says nothing of what lies      *)
(* beyond the last SN received before the first NACK there is no room for. *)
(* t-StatusProhibit only delays it.  Its `sdu` is no field of it, but says *)
(* how much has been delivered when it is sent.                            *)
Missing == {o \in 0..RxBase(vrMs) - 1 : rxWin[(vrR + o) % Mod] = 0}

StatusPdu(k) ==
    LET rank(o) == Cardinality({m \in Missing : m < o})
        kept    == {o \in Missing : rank(o) < k}
        got     == {o \in 0..RxBase(vrMs) - 1 : o \notin Missing /\ rank(o) <= k}
        last    == IF got = {} THEN 0 ELSE CHOOSE o \in got : \A m \in got : m <= o
        Pdu(a, ns) == [ack |-> (vrR + a) % Mod, nacks |-> {(vrR + o) % Mod : o \in ns},
                       sdu |-> Len(delivered), late |-> FALSE]
    IN  IF Cardinality(Missing) <= k  THEN Pdu(RxBase(vrMs), Missing)
        ELSE IF \A o \in kept : o < last THEN Pdu(last, kept)
        ELSE Pdu(0, {})

SendStatus ==
    /\ doStatus /\ Len(statuses) < MaxFlight
    /\ \E k \in 0..Window : statuses' = Append(statuses, StatusPdu(k))
    /\ doStatus' = FALSE /\ pollReceived' = FALSE
    /\ UNCHANGED <<written, txVars, stackVars, vrR, vrMs, vrX, vrH, rxWin,
                   delivered, reordering, data, lost, silent, cleared>>

-----------------------------------------------------------------------------
(* HARQ.  The k-th PDU arrives: the first, or one that overtakes another   *)
(* which has not been overtaken yet.                                       *)
Arrives(ch, k) ==
    /\ k \in DOMAIN ch /\ k <= 2
    /\ k = 2 => ~ch[1].late /\ ch[2].sdu - ch[1].sdu <= Reach
Without(ch, k) == IF k = 1 THEN Tail(ch) ELSE [RemoveAt(ch, k) EXCEPT ![1].late = TRUE]

ReceiveData ==
    \E k \in 1..2 :
        /\ Arrives(data, k)
        /\ HandleDataPdu(data[k])
        /\ data' = Without(data, k)
        /\ UNCHANGED <<statuses, lost, silent, cleared>>

ReceiveStatus ==
    \E k \in 1..2 :
        /\ Arrives(statuses, k)
        /\ HandleStatus(statuses[k])
        /\ statuses' = Without(statuses, k)
        /\ UNCHANGED <<data, lost, silent>>

LoseData ==
    \E k \in DOMAIN data :
        /\ lost < MaxLost /\ lost' = lost + 1
        /\ data' = RemoveAt(data, k)
        /\ silent' = (silent \/ (data[k].retx /\ ~data[k].poll))
        /\ UNCHANGED <<written, txVars, stackVars, rxVars, statuses, cleared>>

LoseStatus ==
    \E k \in DOMAIN statuses :
        /\ lost < MaxLost /\ lost' = lost + 1
        /\ statuses' = RemoveAt(statuses, k)
        /\ UNCHANGED <<written, txVars, stackVars, rxVars, data, silent, cleared>>

Stack == PollTimerExpired \/ Nacked \/ Acked \/ StatusHandled

Next ==
    \/ WriteSdu \/ ReadPdu \/ PollTimerExpires \/ Stack
    \/ ReorderingExpires \/ SendStatus
    \/ ReceiveData \/ ReceiveStatus \/ LoseData \/ LoseStatus

Spec == Init /\ [][Next]_vars

(* The stack thread gets to every status PDU, whatever timers expire, and  *)
(* the MACs go on giving opportunities.                                    *)
Fairness ==
    /\ WF_vars(Stack) /\ WF_vars(ReadPdu) /\ WF_vars(PollTimerExpires)
    /\ WF_vars(ReorderingExpires) /\ WF_vars(SendStatus)
    /\ WF_vars(ReceiveData) /\ SF_vars(ReceiveStatus)

FairSpec == Spec /\ Fairness

-----------------------------------------------------------------------------
TypeOK ==
    /\ written \in 0..MaxSdus /\ taken \in 0..written
    /\ vtA \in Sns /\ vtS \in Sns /\ pollSn \in Sns /\ noPoll \in 0..PollPdu
    /\ pollTimer \in {"stopped", "running", "expired"}
    /\ txWin \in [Sns -> 0..MaxSdus] /\ retxQ \in Seq(Sns)
    /\ stackPc \in {"idle", "callback", "status"}
    /\ handling \in [ack : Sns, nacks : SUBSET Sns, i : Sns, end : Sns, move : BOOLEAN]
    /\ vrR \in Sns /\ vrMs \in Sns /\ vrX \in Sns /\ vrH \in Sns
    /\ rxWin \in [Sns -> 0..MaxSdus] /\ delivered \in Seq(1..MaxSdus)
    /\ doStatus \in BOOLEAN /\ pollReceived \in BOOLEAN
    /\ reordering \in BOOLEAN
    /\ lost \in 0..MaxLost /\ silent \in BOOLEAN /\ cleared \in BOOLEAN

(* Whatever is lost or overtaken: a PDU stays in the transmitter's window  *)
(* until the receiver has it, and vt_a points to a PDU of the window when  *)
(* a status has been handled (else the RRC is told of a protocol failure). *)
NothingForgotten ==
    /\ \A n \in 1..taken :
        \/ \E sn \in Sns : txWin[sn] = n \/ rxWin[sn] = n
        \/ n <= Len(delivered)
    /\ stackPc # "status" /\ (\E sn \in Sns : Sent(sn)) => Sent(vtA)

(* The bearer implements RlcService. *)
Service == INSTANCE RlcService
ServiceSpec == Service!Spec

AllDelivered == Len(delivered) = written

(* Whatever is written is delivered, however PDUs and statuses are lost or *)
(* overtaken, but for three cases in which the bearer sleeps until more is *)
(* written: a retransmission that carried no poll was lost, a worker gave  *)
(* one up in the middle of a status, or a late status cleared the queue.   *)
Repaired == []<>(AllDelivered \/ silent \/ cleared)

(* rlc_am_lte.cc:942: a status with NACKs clears the queue of              *)
(* retransmissions, as the receiver will ask for what was lost again.      *)
RequestedAgain == []<>(AllDelivered \/ silent)
=============================================================================
