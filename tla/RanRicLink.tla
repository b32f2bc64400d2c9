----------------------------- MODULE RanRicLink -----------------------------
(***************************************************************************)
(* The ZeroMQ link between the eNB's TXRX thread (srsenb/src/phy/txrx.cc)  *)
(* and a MIMO-RIC server, and the eNB's end of it.                         *)
(*                                                                         *)
(* Every SoundingPeriod-th subframe the TXRX thread publishes the raw      *)
(* samples of its two antennas ("a sounding"), then polls once, without    *)
(* waiting, for a weight alpha; alpha is what every later subframe is      *)
(* combined with.  The two statements are two actions, so the RIC and the  *)
(* I/O threads run in between.  The subframes without a sounding only use  *)
(* alpha and are not steps here.                                           *)
(*                                                                         *)
(* send_y1y2 hands zmq a message that points into a msgpack::sbuffer local *)
(* to the call (no free function, so no copy): when the I/O thread writes  *)
(* the body to the wire the buffer is gone.  What is sent is then the      *)
(* sounding itself, the one last packed into the reused allocation, or     *)
(* bytes unpackb rejects.                                                  *)
(***************************************************************************)
EXTENDS Naturals, Sequences

CONSTANTS
    HWM,       \* messages a ZMQ pipe holds before PUB drops
    Garbage    \* a body that msgpack.unpackb rejects

ASSUME HWMAssumption == HWM \in Nat \ {0}

VARIABLES
    ranPc,     \* the next statement of the TXRX loop: "sound" or "poll"
    alpha,     \* the weight the eNB applies to each subframe
    pubq,      \* eNB PUB pipe: the sounding each message's body pointed to
    sbuf,      \* the sounding last packed into the reused allocation
    ricq,      \* RIC SUB pipe: bodies as received
    repq,      \* RIC PUB pipe to the eNB SUB socket: weights
    upLink,    \* the RIC's SUB is connected to the eNB's PUB
    downLink   \* the eNB's SUB is connected to the RIC's PUB

linkVars == <<ranPc, alpha, pubq, sbuf, ricq, repq, upLink, downLink>>

(* A PUB socket drops what it cannot queue: no peer, or the pipe is full. *)
Publish(pipe, connected, msg) ==
    IF connected /\ Len(pipe) < HWM THEN Append(pipe, msg) ELSE pipe

LinkInit(sounding, weight) ==
    /\ ranPc = "sound"
    /\ alpha = weight
    /\ pubq = <<>> /\ ricq = <<>> /\ repq = <<>>
    /\ sbuf = sounding
    /\ upLink = FALSE /\ downLink = FALSE

(* send_y1y2 in a subframe with tti % 50 = 0. *)
SendY1Y2(sounding) ==
    /\ ranPc = "sound"
    /\ ranPc' = "poll"
    /\ pubq' = Publish(pubq, upLink, sounding)
    /\ sbuf' = sounding
    /\ UNCHANGED <<alpha, ricq, repq, upLink, downLink>>

(* Mutants: every message is taken and the newest kept; no message resets  *)
(* alpha; txrx.cc:299, no poll once a weight has come.                     *)
PollAlphaNewest ==
    /\ ranPc = "poll"
    /\ ranPc' = "sound"
    /\ repq' = <<>>
    /\ alpha' = IF repq # <<>> THEN repq[Len(repq)] ELSE alpha
    /\ UNCHANGED <<pubq, sbuf, ricq, upLink, downLink>>

PollAlphaOrZero ==
    /\ ranPc = "poll"
    /\ ranPc' = "sound"
    /\ IF repq # <<>>
         THEN alpha' = Head(repq) /\ repq' = Tail(repq)
         ELSE alpha' = [alpha EXCEPT !.num = 0] /\ UNCHANGED repq
    /\ UNCHANGED <<pubq, sbuf, ricq, upLink, downLink>>

PollAlphaOnce ==
    /\ ranPc = "poll"
    /\ ranPc' = "sound"
    /\ IF repq # <<>> /\ alpha.num = 0
         THEN alpha' = Head(repq) /\ repq' = Tail(repq)
         ELSE UNCHANGED <<alpha, repq>>
    /\ UNCHANGED <<pubq, sbuf, ricq, upLink, downLink>>

(* poll_alpha: one message if there is one, else the previous weight. *)
PollAlpha ==
    /\ ranPc = "poll"
    /\ ranPc' = "sound"
    /\ IF repq # <<>>
         THEN alpha' = Head(repq) /\ repq' = Tail(repq)
         ELSE UNCHANGED <<alpha, repq>>
    /\ UNCHANGED <<pubq, sbuf, ricq, upLink, downLink>>

(* The eNB's I/O thread writes the oldest body to the wire. *)
Transmit ==
    /\ pubq # <<>> /\ Len(ricq) < HWM
    /\ pubq' = Tail(pubq)
    /\ \E body \in {Head(pubq), sbuf, Garbage} : ricq' = Append(ricq, body)
    /\ UNCHANGED <<ranPc, alpha, sbuf, repq, upLink, downLink>>

(* Each SUB side connects, and reconnects, on its own. *)
ConnectUp ==
    /\ ~upLink
    /\ upLink' = TRUE
    /\ UNCHANGED <<ranPc, alpha, pubq, sbuf, ricq, repq, downLink>>

ConnectDown ==
    /\ ~downLink
    /\ downLink' = TRUE
    /\ UNCHANGED <<ranPc, alpha, pubq, sbuf, ricq, repq, upLink>>

(* The RIC's sockets close: pipes to it are destroyed, of the weights on   *)
(* their way some prefix still reaches the eNB.                            *)
LoseRic ==
    /\ pubq' = <<>> /\ ricq' = <<>>
    /\ \E n \in 0..Len(repq) : repq' = SubSeq(repq, 1, n)
    /\ upLink' = FALSE /\ downLink' = FALSE
    /\ UNCHANGED <<ranPc, alpha, sbuf>>

(* The RIC takes the oldest body and answers it with one weight. *)
Answer(weight) ==
    /\ ricq' = Tail(ricq)
    /\ repq' = Publish(repq, downLink, weight)
    /\ UNCHANGED <<ranPc, alpha, pubq, sbuf, upLink, downLink>>

(* Soundings without their weight yet; while the eNB is between its send   *)
(* and its poll one of them is about to be accounted for.                  *)
InFlight == Len(pubq) + Len(ricq) + Len(repq)
Lag      == InFlight + (IF ranPc = "sound" THEN 1 ELSE 0)

LinkTypeOK(Soundings, Weights) ==
    /\ ranPc \in {"sound", "poll"}
    /\ alpha \in Weights
    /\ sbuf \in Soundings
    /\ pubq \in Seq(Soundings) /\ Len(pubq) <= HWM
    /\ ricq \in Seq(Soundings \cup {Garbage}) /\ Len(ricq) <= HWM
    /\ repq \in Seq(Weights) /\ Len(repq) <= HWM
    /\ upLink \in BOOLEAN /\ downLink \in BOOLEAN
=============================================================================
