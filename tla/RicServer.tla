----------------------------- MODULE RicServer ------------------------------
(***************************************************************************)
(* What alpha_compute_server.py and alpha_compute_server_toggle.py share:  *)
(* the loop that receives a sounding, unpacks it, adds an estimate to the  *)
(* running sum while Timer 1 lasts, answers, and only then looks at the    *)
(* clock.  What they answer is in AlphaServer and AlphaServerToggle.       *)
(*                                                                         *)
(* Time is counted in soundings: one passes with each SendY1Y2.  A weight  *)
(* is [life, num]: the server it came from and how many samples its        *)
(* average sums; since a server only ever adds to its sum, num tells its   *)
(* averages apart, and num = 0 is the dummy reply of zeros.                *)
(*                                                                         *)
(* An iteration is two actions, the handler and Stamp (elapsed_time = now  *)
(* - start_time), so time and the eNB move between them, and elapsed_time  *)
(* is old when the next message is handled.                                *)
(***************************************************************************)
EXTENDS RanRicLink

CONSTANTS
    Timer1,     \* argv[1]: how long alpha is estimated
    AgeCap,     \* bound: ages of a server are told apart up to here
    MaxLives,   \* bound: servers started, one after the other
    NoData      \* unpackb has not succeeded yet: `data` is unbound

ASSUME RicAssumption ==
    /\ Timer1 \in Nat /\ AgeCap \in Nat /\ Timer1 < AgeCap
    /\ MaxLives \in Nat \ {0}
    /\ NoData \notin Nat /\ Garbage \notin Nat

VARIABLES
    alive,      \* the server's loop runs
    life,       \* how many servers have been started
    ricPc,      \* "poll" (waiting for a message) or "stamp"
    started,    \* ~compute_started_flag: a message has been received
    age,        \* time.time() - start_time
    elapsed,    \* elapsed_time
    data,       \* data: the sounding last unpacked
    num,        \* num_alpha, and with it sum_alpha
    samples,    \* history: the ages at which the summed samples were taken
    late        \* history: samples summed although Timer 1 had expired

loopVars  == <<ricPc, started, age, elapsed, data, num, samples, late>>
serverVars == <<alive, life, loopVars>>
ricVars == <<linkVars, serverVars>>

Ages   == 0..AgeCap
Weight == [life : Nat, num : Nat]

RicInit ==
    /\ LinkInit(0, [life |-> 0, num |-> 0])
    /\ alive = TRUE /\ life = 1
    /\ ricPc = "poll" /\ started = FALSE /\ age = 0 /\ elapsed = 0
    /\ data = NoData /\ num = 0 /\ samples = {} /\ late = 0

(* A sounding period passes and the eNB publishes that period's samples. *)
Sound ==
    /\ age' = IF started /\ age < AgeCap THEN age + 1 ELSE age
    /\ SendY1Y2(age')
    /\ UNCHANGED <<alive, life, ricPc, started, elapsed, data, num, samples, late>>

Poll == PollAlpha /\ UNCHANGED serverVars

Flush == Transmit /\ UNCHANGED serverVars

ConnectSub == alive /\ ConnectUp /\ UNCHANGED serverVars
ConnectPub == alive /\ ConnectDown /\ UNCHANGED serverVars

(* Mutant: Timer 1 is not looked at. *)
EstimatingAlways == TRUE

Estimating == elapsed < Timer1

(* Mutant: no except clause. *)
UnpackedRaw == Head(ricq)

(* What the handler works on: this message, or the last good one. *)
Unpacked == IF Head(ricq) = Garbage THEN data ELSE Head(ricq)

Pending == alive /\ ricPc = "poll" /\ ricq # <<>>

(* compute_alpha and the running sum; Timer 1 is compared with elapsed. *)
Accumulate ==
    IF Estimating
      THEN /\ num' = num + 1
           /\ samples' = samples \cup {Unpacked}
           /\ late' = late + (IF age >= Timer1 THEN 1 ELSE 0)
      ELSE UNCHANGED <<num, samples, late>>

(* A message is received, summed if it is early enough, and answered. *)
HandleWith(reply) ==
    /\ Pending /\ Unpacked # NoData
    /\ started' = TRUE
    /\ data' = Unpacked
    /\ Accumulate
    /\ Answer(reply)
    /\ ricPc' = "stamp"
    /\ UNCHANGED <<alive, life, age, elapsed>>

(* Mutant: elapsed_time keeps the value it was initialised with. *)
StampLost ==
    /\ alive /\ ricPc = "stamp"
    /\ ricPc' = "poll"
    /\ UNCHANGED <<linkVars, alive, life, started, age, elapsed, data, num, samples, late>>

Stamp ==
    /\ alive /\ ricPc = "stamp"
    /\ elapsed' = age
    /\ ricPc' = "poll"
    /\ UNCHANGED <<linkVars, alive, life, started, age, data, num, samples, late>>

(* The loop ends, by an exception or from outside. *)
Die ==
    /\ alive' = FALSE
    /\ LoseRic
    /\ UNCHANGED <<life, loopVars>>

Kill == alive /\ life < MaxLives /\ Die

Restart ==
    /\ ~alive /\ life < MaxLives
    /\ alive' = TRUE /\ life' = life + 1
    /\ ricPc' = "poll" /\ started' = FALSE /\ age' = 0 /\ elapsed' = 0
    /\ data' = NoData /\ num' = 0 /\ samples' = {} /\ late' = 0
    /\ UNCHANGED linkVars

RicTypeOK ==
    /\ LinkTypeOK(Ages, Weight)
    /\ alive \in BOOLEAN /\ life \in 1..MaxLives
    /\ ricPc \in {"poll", "stamp"}
    /\ started \in BOOLEAN
    /\ age \in Ages /\ elapsed \in Ages
    /\ data \in Ages \cup {NoData}
    /\ num \in Nat /\ samples \subseteq Ages /\ late \in Nat

(* As long as zmq drops nothing, the number of soundings that wait for     *)
(* their weight is never reduced: a round of the TXRX loop (txrx.cc:302)   *)
(* sends one and takes at most one reply, so the delay of a slow moment of *)
(* the RIC stays for ever.                                                 *)
Dropped ==
    \/ ranPc = "sound" /\ ranPc' = "poll" /\ pubq' = pubq
    \/ ricq # <<>> /\ ricq' = Tail(ricq) /\ repq' = repq

Lossless == alive' /\ ~Dropped
NoCatchUp == [][Lossless => Lag' >= Lag]_ricVars

(* elapsed_time is only refreshed at the end of an iteration, so it can    *)
(* be old by any amount; still at most one sample per server is summed     *)
(* after Timer 1 expired.                                                  *)
AtMostOneLateSample == late <= 1
=============================================================================
