----------------------------- MODULE TimerWheel -----------------------------
(***************************************************************************)
(* srsran::timer_handler (lib/include/srsran/common/timers.h): the timers  *)
(* of the eNB's stack.  Running timers hang in a wheel of lists, indexed   *)
(* by their timeout; step_all, once per TTI, walks one list and calls the  *)
(* callbacks of the timers that are due.                                   *)
(*                                                                         *)
(* Every public operation takes the handler's mutex, and so does step_all, *)
(* but not while it is inside a callback: there the callback, and any      *)
(* other thread, may set, run, stop, release and allocate timers, those of *)
(* the list being walked included.  One iteration of the walk is one       *)
(* action; `it` is the list iterator, already moved past the timer whose   *)
(* callback runs.                                                          *)
(*                                                                         *)
(* cur_time counts modulo 2^32; here modulo TicMod.  The free list of      *)
(* timers and the growth of the deque are abstracted: an allocation takes  *)
(* any timer that is not allocated.                                        *)
(***************************************************************************)
EXTENDS Integers, Sequences, FiniteSets, SequencesExt

CONSTANTS
    Timers,     \* timer_list
    WheelSize,  \* WHEEL_SIZE
    TicMod,     \* 2^32, the range of cur_time
    MaxDur,     \* bound: durations the clients set
    None        \* the end of a list

ASSUME WheelAssumption ==
    /\ IsFiniteSet(Timers) /\ None \notin Timers
    /\ WheelSize \in Nat \ {0} /\ TicMod \in Nat
    /\ TicMod % WheelSize = 0
    /\ MaxDur \in Nat \ {0} /\ MaxDur < TicMod

VARIABLES
    now,        \* cur_time
    tm,         \* timer_impl: allocated, callback, state (mode, dur, timeout)
    wheel,      \* time_wheel: the list of each slot
    nofRunning, \* nof_timers_running_
    phase,      \* "idle", "walk" (step_all holds the mutex) or "callback"
    it,         \* step_all's iterator
    cur,        \* the timer whose callback is running
    touched     \* history: a callback changed what the walk is about

stepVars == <<phase, it, cur>>
vars == <<now, tm, wheel, nofRunning, stepVars, touched>>

Tics  == 0..TicMod - 1
Slots == 0..WheelSize - 1
Durs  == 1..MaxDur
Timer == [allocated : BOOLEAN, callback : BOOLEAN,
          mode : {"stopped", "running", "expired"},
          dur : 0..MaxDur, timeout : Tics]

Slot(x)   == x % WheelSize
Later(d)  == (now + d) % TicMod
ThisTic   == Later(1)               \* cur_time_local of the step in progress
Running(t) == tm[t].mode = "running"
Due(t)     == Running(t) /\ tm[t].timeout = ThisTic

Position(s, t) == CHOOSE i \in DOMAIN s : s[i] = t
Unlink(s, t)   == RemoveAt(s, Position(s, t))

(* Mutant: the iterator is advanced after the timer has left the list. *)
NextOfPopped(t) == None

(* ++it: a timer that is in no list has no successor. *)
NextOf(t) ==
    LET s == wheel[Slot(tm[t].timeout)]
    IN  IF Running(t) /\ Position(s, t) < Len(s) THEN s[Position(s, t) + 1] ELSE None

Fresh == [allocated |-> FALSE, callback |-> FALSE,
          mode |-> "stopped", dur |-> 0, timeout |-> 0]

Init ==
    /\ now = 0
    /\ tm = [t \in Timers |-> Fresh]
    /\ wheel = [s \in Slots |-> <<>>]
    /\ nofRunning = 0
    /\ phase = "idle" /\ it = None /\ cur = None
    /\ touched = FALSE

-----------------------------------------------------------------------------
(* What start_run_ and stop_timer_ do to the wheel. *)
Popped(t) == [wheel EXCEPT ![Slot(tm[t].timeout)] = Unlink(@, t)]
Pushed(w, t, s) == [w EXCEPT ![s] = <<t>> \o @]

(* Mutant: a timer that is running already is linked a second time. *)
StartRunTwice(t, d) ==
    /\ wheel' = Pushed(wheel, t, Slot(Later(d)))
    /\ nofRunning' = nofRunning + (IF Running(t) THEN 0 ELSE 1)

StartRun(t, d) ==
    LET s == Slot(Later(d))
    IN  /\ wheel' = CASE ~Running(t) -> Pushed(wheel, t, s)
                      [] Running(t) /\ Slot(tm[t].timeout) = s -> wheel
                      [] OTHER -> Pushed(Popped(t), t, s)
        /\ nofRunning' = nofRunning + (IF Running(t) THEN 0 ELSE 1)

(* Mutant: stopping a timer that does not run is counted as well. *)
StopTimerCounted(t) ==
    /\ wheel' = IF Running(t) THEN Popped(t) ELSE wheel
    /\ nofRunning' = nofRunning - 1

(* Mutant: a stopped timer stays in its list. *)
StopTimerLinked(t) ==
    /\ wheel' = wheel
    /\ nofRunning' = IF Running(t) THEN nofRunning - 1 ELSE nofRunning

StopTimer(t) ==
    IF Running(t)
      THEN wheel' = Popped(t) /\ nofRunning' = nofRunning - 1
      ELSE UNCHANGED <<wheel, nofRunning>>

(* The list being walked is changed, or a timer in it becomes due. *)
Touches ==
    \/ wheel'[Slot(ThisTic)] # wheel[Slot(ThisTic)]
    \/ \E t \in Timers : Due(t)' /\ ~Due(t)

(* An operation of a client: the mutex is free, the walk stays put. *)
Locked ==
    /\ phase # "walk"
    /\ UNCHANGED <<now, stepVars>>
    /\ touched' = (touched \/ (phase = "callback" /\ Touches))

Alloc(t) ==
    /\ ~tm[t].allocated
    /\ tm' = [tm EXCEPT ![t].allocated = TRUE]
    /\ UNCHANGED <<wheel, nofRunning>>
    /\ Locked

(* A running timer is rescheduled; cb: whether a callback is given too. *)
Set(t, d, cb) ==
    /\ tm[t].allocated
    /\ IF Running(t)
         THEN /\ StartRun(t, d)
              /\ tm' = [tm EXCEPT ![t] = [allocated |-> TRUE, callback |-> cb \/ @.callback,
                            mode |-> "running", dur |-> d, timeout |-> Later(d)]]
         ELSE /\ tm' = [tm EXCEPT ![t] = [allocated |-> TRUE, callback |-> cb \/ @.callback,
                            mode |-> "stopped", dur |-> d, timeout |-> 0]]
              /\ UNCHANGED <<wheel, nofRunning>>
    /\ Locked

(* Clients run a timer only after they have set it. *)
Run(t) ==
    /\ tm[t].allocated /\ tm[t].dur > 0
    /\ StartRun(t, tm[t].dur)
    /\ tm' = [tm EXCEPT ![t].mode = "running", ![t].timeout = Later(tm[t].dur)]
    /\ Locked

Stop(t) ==
    /\ tm[t].allocated
    /\ StopTimer(t)
    /\ tm' = [tm EXCEPT ![t].mode = IF Running(t) THEN "stopped" ELSE @]
    /\ Locked

(* release(): the callback goes, the timer can be allocated again. *)
Release(t) ==
    /\ tm[t].allocated
    /\ StopTimer(t)
    /\ tm' = [tm EXCEPT ![t] = Fresh]
    /\ Locked

(* A callback, or any thread, operates on a timer. *)
Client ==
    \E t \in Timers :
        \/ Alloc(t) \/ Run(t) \/ Stop(t) \/ Release(t)
        \/ \E d \in Durs, cb \in BOOLEAN : Set(t, d, cb)

-----------------------------------------------------------------------------
StepBegin ==
    /\ phase = "idle"
    /\ phase' = "walk"
    /\ it' = LET s == wheel[Slot(ThisTic)] IN IF s = <<>> THEN None ELSE s[1]
    /\ touched' = FALSE
    /\ UNCHANGED <<now, tm, wheel, nofRunning, cur>>

(* A timer of another turn of the wheel. *)
SkipTimer ==
    /\ phase = "walk" /\ it # None
    /\ tm[it].timeout # ThisTic
    /\ it' = NextOf(it)
    /\ UNCHANGED <<now, tm, wheel, nofRunning, phase, cur, touched>>

(* The callback sees the timer expired; without one the walk goes on. *)
Expire ==
    /\ phase = "walk" /\ it # None
    /\ tm[it].timeout = ThisTic
    /\ it' = NextOf(it)
    /\ StopTimer(it)
    /\ tm' = [tm EXCEPT ![it].mode = IF Running(it) THEN "expired" ELSE @]
    /\ IF tm[it].callback THEN phase' = "callback" /\ cur' = it
                          ELSE UNCHANGED <<phase, cur>>
    /\ UNCHANGED <<now, touched>>

CallbackReturns ==
    /\ phase = "callback"
    /\ phase' = "walk" /\ cur' = None
    /\ UNCHANGED <<now, tm, wheel, nofRunning, it, touched>>

StepEnd ==
    /\ phase = "walk" /\ it = None
    /\ phase' = "idle"
    /\ now' = ThisTic
    /\ UNCHANGED <<tm, wheel, nofRunning, it, cur, touched>>

Step == StepBegin \/ SkipTimer \/ Expire \/ CallbackReturns \/ StepEnd

Next == Step \/ Client

Spec == Init /\ [][Next]_vars

-----------------------------------------------------------------------------
TypeOK ==
    /\ now \in Tics
    /\ tm \in [Timers -> Timer]
    /\ wheel \in [Slots -> Seq(Timers)]
    /\ nofRunning \in Nat
    /\ phase \in {"idle", "walk", "callback"}
    /\ it \in Timers \cup {None} /\ cur \in Timers \cup {None}
    /\ touched \in BOOLEAN

(* Whatever callbacks and threads do, a timer hangs in the wheel exactly   *)
(* while it runs, once, in the slot of its timeout, and the counter agrees.*)
WheelOK ==
    /\ \A s \in Slots :
        /\ \A i, j \in DOMAIN wheel[s] : wheel[s][i] = wheel[s][j] => i = j
        /\ ToSet(wheel[s]) = {t \in Timers : Running(t) /\ Slot(tm[t].timeout) = s}
    /\ nofRunning = Cardinality({t \in Timers : Running(t)})

(* A step of the clock during whose callbacks nothing entered or left the  *)
(* list being walked, or became due in it, leaves no timer of this TTI     *)
(* behind, and calls no callback of a timer that does not run.  Durations of a whole turn of    *)
(* the wheel, rescheduling, and lists changed in earlier steps included.   *)
NoneLeftBehind == [][StepEnd /\ ~touched => \A t \in Timers : ~Due(t)]_vars
OnlyRunningCalled == [][cur # cur' /\ cur' # None /\ ~touched => Running(cur')]_vars

Symmetry == Permutations(Timers)
=============================================================================
