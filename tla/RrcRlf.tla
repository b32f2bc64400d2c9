------------------------------- MODULE RrcRlf -------------------------------
(***************************************************************************)
(* Radio-link failure in the eNB's RRC (srsenb/src/stack/rrc/rrc_ue.cc):   *)
(* each UE has a timer for its downlink, its uplink, its RLC and its       *)
(* inactivity in the stack's timer_handler (TimerWheel).  Too many KOs in  *)
(* a row start the timer of a direction, an OK stops it; its expiry stops  *)
(* the UE's other timers and asks for the release of the UE.               *)
(*                                                                         *)
(* The stack thread runs tti_clock_impl: the step of the timers, then the  *)
(* commands that the MAC and the RLC left for the RRC.  A callback is a    *)
(* sequence of operations on timers, each of which takes the handler's     *)
(* mutex: `todo` is what the callback (or a UE's removal) has yet to do.   *)
(* Handover, where KOs are not counted, is left out.                       *)
(***************************************************************************)
EXTENDS Integers, Sequences, FiniteSets, SequencesExt

CONSTANTS
    Ues,
    Timers,     \* the timers that are used: pairs of a UE and a kind
    MaxKo,      \* max_mac_dl_kos, max_mac_ul_kos
    RlfTime,    \* rlf_release_timer_ms
    ActTime,    \* inactivity_timeout_ms
    WheelSize, TicMod, None

Directions == {"dl", "ul"}
RlfKinds   == Directions \cup {"rlc"}
Kinds      == RlfKinds \cup {"act"}

ASSUME RlfAssumption ==
    /\ Timers \subseteq Ues \X Kinds /\ IsFiniteSet(Timers) /\ None \notin Timers
    /\ MaxKo \in Nat /\ RlfTime \in 1..TicMod - 2 /\ ActTime \in 1..TicMod - 2
    /\ TicMod \in Nat /\ WheelSize \in Nat \ {0} /\ TicMod % WheelSize = 0

VARIABLES
    now, tm, wheel, nofRunning, phase, it, cur, touched,    \* TimerWheel
    kos,        \* consecutive_kos_dl, consecutive_kos_ul
    gone,       \* the UE has been removed
    todo        \* timers the stack thread has yet to stop, or to release

Wheel == INSTANCE TimerWheel WITH
    MaxDur <- IF RlfTime < ActTime THEN ActTime ELSE RlfTime

wheelVars == <<now, tm, wheel, nofRunning, phase, it, cur, touched>>
ueVars    == <<kos, gone>>
vars      == <<wheelVars, ueVars, todo>>

(* ue::init, the RRC connection set up: activity is being watched. *)
Duration(k) == IF k = "act" THEN ActTime ELSE RlfTime

NewTimer(k) == [allocated |-> TRUE, callback |-> TRUE,
                mode |-> "stopped", dur |-> Duration(k), timeout |-> 0]

Init ==
    /\ now = 0 /\ nofRunning = 0 /\ phase = "idle" /\ it = None /\ cur = None
    /\ touched = FALSE
    /\ tm = [t \in Timers |-> NewTimer(t[2])]
    /\ wheel = [s \in 0..WheelSize - 1 |-> <<>>]
    /\ kos = [u \in Ues |-> [d \in Directions |-> 0]]
    /\ gone = [u \in Ues |-> FALSE]
    /\ todo = <<>>

(* rrc::tti_clock takes a command of a UE it knows, about its timer t. *)
Command(u) == phase = "idle" /\ todo = <<>> /\ ~gone[u]
CommandOn(t) == t \in Timers /\ Command(t[1])

-----------------------------------------------------------------------------
(* Mutant: an OK clears the count but leaves the timer running. *)
LinkOkCountOnly(u, d) ==
    /\ CommandOn(<<u, d>>)
    /\ kos' = [kos EXCEPT ![u][d] = 0]
    /\ UNCHANGED <<wheelVars, gone, todo>>

LinkOk(u, d) ==
    /\ CommandOn(<<u, d>>)
    /\ kos' = [kos EXCEPT ![u][d] = 0]
    /\ IF Wheel!Running(<<u, d>>) THEN Wheel!Stop(<<u, d>>) ELSE UNCHANGED wheelVars
    /\ UNCHANGED <<gone, todo>>

(* KOs are not counted while the timer runs; the count is told apart up to *)
(* MaxKo + 1.                                                              *)
LinkKo(u, d) ==
    /\ CommandOn(<<u, d>>)
    /\ ~Wheel!Running(<<u, d>>)
    /\ kos' = [kos EXCEPT ![u][d] = IF @ <= MaxKo THEN @ + 1 ELSE @]
    /\ IF kos[u][d] >= MaxKo THEN Wheel!Run(<<u, d>>) ELSE UNCHANGED wheelVars
    /\ UNCHANGED <<gone, todo>>

MaxRlcRetxReached(u) ==
    /\ CommandOn(<<u, "rlc">>)
    /\ Wheel!Run(<<u, "rlc">>)
    /\ UNCHANGED <<ueVars, todo>>

SetActivity(u) ==
    /\ CommandOn(<<u, "act">>)
    /\ Wheel!Run(<<u, "act">>)
    /\ UNCHANGED <<ueVars, todo>>

-----------------------------------------------------------------------------
(* The timers of a UE in the order in which rlf_timer_expired stops them,  *)
(* and in which the destructor of ue releases them.                        *)
TimersOf(u, kinds) ==
    LET used(k) == IF <<u, k>> \in Timers THEN << <<u, k>> >> ELSE <<>>
    IN  used(kinds[1]) \o used(kinds[2]) \o used(kinds[3]) \o used(kinds[4])
RlfStops(u) == TimersOf(u, <<"act", "ul", "dl", "rlc">>)
Releases(u) == TimersOf(u, <<"rlc", "ul", "dl", "act">>)

StepBegin == todo = <<>> /\ Wheel!StepBegin /\ UNCHANGED <<ueVars, todo>>
SkipTimer == Wheel!SkipTimer /\ UNCHANGED <<ueVars, todo>>
StepEnd   == Wheel!StepEnd /\ UNCHANGED <<ueVars, todo>>

Expire ==
    /\ Wheel!Expire
    /\ todo' = IF it[2] \in RlfKinds THEN RlfStops(it[1]) ELSE <<>>
    /\ UNCHANGED ueVars

StopNext ==
    /\ phase = "callback" /\ todo # <<>>
    /\ Wheel!Stop(Head(todo))
    /\ todo' = Tail(todo)
    /\ UNCHANGED ueVars

(* The end of rlf_timer_expired and of activity_timer_expired: S1AP is     *)
(* asked for the release of the UE, and answers in its own time.           *)
AskRelease ==
    /\ todo = <<>> /\ Wheel!CallbackReturns
    /\ UNCHANGED <<ueVars, todo>>

(* rem_user, by a command: the UE has been released, for one of these or   *)
(* for another reason.  It is destroyed, and its timers with it.           *)
RemUser(u) ==
    /\ Command(u)
    /\ gone' = [gone EXCEPT ![u] = TRUE]
    /\ todo' = Releases(u)
    /\ UNCHANGED <<wheelVars, kos>>

ReleaseNext ==
    /\ phase = "idle" /\ todo # <<>>
    /\ Wheel!Release(Head(todo))
    /\ todo' = Tail(todo)
    /\ UNCHANGED ueVars

Next ==
    \/ StepBegin \/ SkipTimer \/ Expire \/ StopNext \/ AskRelease \/ StepEnd
    \/ ReleaseNext
    \/ \E u \in Ues :
        \/ MaxRlcRetxReached(u) \/ SetActivity(u) \/ RemUser(u)
        \/ \E d \in Directions : LinkOk(u, d) \/ LinkKo(u, d)

Spec == Init /\ [][Next]_vars

-----------------------------------------------------------------------------
TypeOK ==
    /\ Wheel!TypeOK
    /\ kos \in [Ues -> [Directions -> 0..MaxKo + 1]]
    /\ gone \in [Ues -> BOOLEAN]
    /\ todo \in Seq(Timers)

(* A UE is given up for a radio-link failure only while one of its links   *)
(* is failing, without an OK since, or its RLC has given up.               *)
FailureIsReal ==
    [][cur' # cur /\ cur' # None /\ cur'[2] \in RlfKinds =>
        \/ \E d \in Directions : kos[cur'[1]][d] > MaxKo
        \/ \E t \in Timers : t = <<cur'[1], "rlc">> /\ tm'[t].mode = "expired"]_vars

(* A timer that is due is passed over only in a TTI in which another UE's  *)
(* link failure has expired: a UE alone is always served in time.          *)
ExpiredNow(t) == tm[t].mode = "expired" /\ tm[t].timeout = Wheel!ThisTic

MissedOnlyWithAnother ==
    [][Wheel!StepEnd => \A t \in Timers : Wheel!Due(t) =>
        \E s \in Timers : s[1] # t[1] /\ s[2] \in RlfKinds /\ ExpiredNow(s)]_vars

(* rrc_ue.cc:80: a timeout to release the UE context after the detection   *)
(* of a radio-link failure.                                                *)
RlfTimely ==
    phase = "idle" => \A t \in Timers :
        t[2] \in RlfKinds /\ Wheel!Running(t) => (tm[t].timeout - now) % TicMod \in 1..RlfTime
=============================================================================
