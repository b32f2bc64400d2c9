---------------------------- MODULE RrcRlf_proofs ----------------------------
(***************************************************************************)
(* Proofs about RrcRlf, for any number of UEs and whichever of their timers*)
(* are used.                                                               *)
(*                                                                         *)
(* RrcRlf is a client of TimerWheel, so that the invariant proved of the   *)
(* wheel (TW) holds here too.  While step_all walks its list only a link   *)
(* failure changes it: rlf_timer_expired, which stops every timer of its   *)
(* UE.  Hence a timer that is called although it was stopped is of a UE    *)
(* whose link has failed, and one that is passed over is of another.       *)
(***************************************************************************)
EXTENDS RrcRlf, TLAPS

TW == INSTANCE TimerWheel_proofs WITH
    MaxDur <- IF RlfTime < ActTime THEN ActTime ELSE RlfTime

(* A link of the UE is failing, or its RLC has given up. *)
Real(u) ==
    \/ \E d \in Directions : kos[u][d] > MaxKo
    \/ \E t \in Timers : t = <<u, "rlc">> /\ tm[t].mode = "expired"

LinkInv == \A t \in Timers :
    t[2] \in Directions /\ Wheel!Running(t) => kos[t[1]][t[2]] > MaxKo

(* step_all's iterator may have been left on a timer that was stopped. *)
IteratorInv ==
    phase # "idle" /\ it # None /\ ~Wheel!Running(it) /\ it[2] \in RlfKinds => Real(it[1])

(* s expired in this TTI, and no timer of its UE runs that is not about to *)
(* be stopped.                                                             *)
Failed(s) ==
    /\ s[2] \in RlfKinds /\ ExpiredNow(s)
    /\ \A t \in Timers : t[1] = s[1] /\ Wheel!Running(t) =>
        phase = "callback" /\ cur[1] = s[1] /\ t \in ToSet(todo)

CallbackInv ==
    phase = "callback" /\ todo # <<>> =>
        /\ cur \in Timers /\ Real(cur[1])
        /\ \A t \in ToSet(todo) : t[1] = cur[1]
        /\ ~touched => Failed(cur)

MissedInv == phase # "idle" /\ touched => \E s \in Timers : Failed(s)

RInv == TypeOK /\ TW!WInv /\ LinkInv /\ IteratorInv /\ CallbackInv /\ MissedInv

-----------------------------------------------------------------------------
(* The wheel: its operations are those that TimerWheel_proofs is about. *)
LEMMA SameOperations ==
    /\ \A t \in Timers : /\ TW!Stop(t) <=> Wheel!Stop(t)
                         /\ TW!Run(t) <=> Wheel!Run(t)
                         /\ TW!Release(t) <=> Wheel!Release(t)
    /\ TW!SkipTimer <=> Wheel!SkipTimer
    /\ TW!Expire <=> Wheel!Expire
<1> USE DEF TW!Running, Wheel!Running, TW!Slot, Wheel!Slot, TW!Later, Wheel!Later,
            TW!ThisTic, Wheel!ThisTic, TW!Due, Wheel!Due, TW!stepVars, Wheel!stepVars,
            TW!Touches, Wheel!Touches, TW!Locked, Wheel!Locked,
            TW!RemoveAt, Wheel!RemoveAt, TW!Position, Wheel!Position, TW!Unlink, Wheel!Unlink,
            TW!Popped, Wheel!Popped, TW!Pushed, Wheel!Pushed,
            TW!StartRun, Wheel!StartRun, TW!StopTimer, Wheel!StopTimer
<1>1. ASSUME NEW t \in Timers PROVE TW!Stop(t) <=> Wheel!Stop(t)
  BY DEF TW!Stop, Wheel!Stop
<1>2. ASSUME NEW t \in Timers PROVE TW!Run(t) <=> Wheel!Run(t)
  BY DEF TW!Run, Wheel!Run
<1>3. ASSUME NEW t \in Timers PROVE TW!Release(t) <=> Wheel!Release(t)
  BY DEF TW!Release, Wheel!Release, TW!Fresh, Wheel!Fresh
<1>4. TW!SkipTimer <=> Wheel!SkipTimer
  BY DEF TW!SkipTimer, Wheel!SkipTimer, TW!NextOf, Wheel!NextOf
<1>5. TW!Expire <=> Wheel!Expire
  BY DEF TW!Expire, Wheel!Expire, TW!NextOf, Wheel!NextOf
<1> QED
  BY <1>1, <1>2, <1>3, <1>4, <1>5

LEMMA SameSteps ==
    /\ TW!StepBegin <=> Wheel!StepBegin
    /\ TW!CallbackReturns <=> Wheel!CallbackReturns
    /\ TW!StepEnd <=> Wheel!StepEnd
  BY DEF TW!StepBegin, Wheel!StepBegin, TW!CallbackReturns, Wheel!CallbackReturns,
         TW!StepEnd, Wheel!StepEnd, TW!ThisTic, Wheel!ThisTic, TW!Slot, Wheel!Slot,
         TW!Later, Wheel!Later

LEMMA WheelAssumed == TW!WheelAssumption
  BY RlfAssumption DEF TW!WheelAssumption, TW!IsFiniteSet, IsFiniteSet

(* What the wheel's invariant says of lists and running timers. *)
LEMMA WheelFacts ==
    ASSUME TW!WInv
    PROVE  /\ Wheel!TypeOK
           /\ \A s \in 0..WheelSize - 1 :
                /\ wheel[s] \in Seq(Timers)
                /\ \A i, j \in DOMAIN wheel[s] : wheel[s][i] = wheel[s][j] => i = j
                /\ \A t \in ToSet(wheel[s]) : Wheel!Running(t)
                /\ \A t \in Timers :
                    Wheel!Running(t) /\ Wheel!Slot(tm[t].timeout) = s => t \in ToSet(wheel[s])
           /\ \A x \in Nat : Wheel!Slot(x) \in 0..WheelSize - 1
           /\ Wheel!ThisTic \in Nat
           /\ \A t \in Timers : tm[t].timeout \in Nat
<1> USE DEF TW!Tics, Wheel!Tics, TW!Slots, Wheel!Slots, TW!Timer, Wheel!Timer
<1>1. Wheel!TypeOK
  BY DEF TW!WInv, TW!TypeOK, Wheel!TypeOK
<1>2. \A s \in 0..WheelSize - 1 : wheel[s] \in Seq(Timers)
  BY <1>1 DEF Wheel!TypeOK
<1>3. \A s \in 0..WheelSize - 1 :
        /\ \A i, j \in DOMAIN wheel[s] : wheel[s][i] = wheel[s][j] => i = j
        /\ ToSet(wheel[s]) = {t \in Timers : Wheel!Running(t) /\ Wheel!Slot(tm[t].timeout) = s}
  BY DEF TW!WInv, TW!WheelOK, TW!Running, Wheel!Running, TW!Slot, Wheel!Slot, TW!ToSet, ToSet
<1>4. \A x \in Nat : Wheel!Slot(x) \in 0..WheelSize - 1
  BY RlfAssumption DEF Wheel!Slot
<1>5. now \in Nat /\ TicMod \in Nat \ {0}
  BY <1>1, RlfAssumption DEF Wheel!TypeOK
<1>6. Wheel!ThisTic \in Nat
  BY <1>5 DEF Wheel!ThisTic, Wheel!Later
<1>7. \A t \in Timers : tm[t].timeout \in Nat
  BY <1>1 DEF Wheel!TypeOK
<1> QED
  BY <1>1, <1>2, <1>3, <1>4, <1>6, <1>7

(* The iterator moves on to a timer that runs, if it moves on at all. *)
LEMMA NextRuns ==
    ASSUME TW!WInv, it \in Timers, Wheel!NextOf(it) # None
    PROVE  /\ Wheel!NextOf(it) \in Timers /\ Wheel!Running(Wheel!NextOf(it))
           /\ Wheel!NextOf(it) # it
<1> DEFINE s == wheel[Wheel!Slot(tm[it].timeout)]
           p == Wheel!Position(s, it)
<1>1. Wheel!Running(it) /\ p < Len(s) /\ Wheel!NextOf(it) = s[p + 1]
  BY DEF Wheel!NextOf
<1>2. /\ s \in Seq(Timers) /\ it \in ToSet(s)
      /\ \A i, j \in DOMAIN s : s[i] = s[j] => i = j
      /\ \A t \in ToSet(s) : Wheel!Running(t)
  BY <1>1, WheelFacts
<1> HIDE DEF s
<1>3. p \in DOMAIN s /\ s[p] = it
  BY <1>2 DEF Wheel!Position, ToSet
<1>4. p + 1 \in DOMAIN s /\ p + 1 # p
  BY <1>1, <1>2, <1>3
<1>5. s[p + 1] \in ToSet(s) /\ s[p + 1] \in Timers
  BY <1>2, <1>4 DEF ToSet
<1> QED
  BY <1>1, <1>2, <1>3, <1>4, <1>5

LEMMA FirstRuns ==
    ASSUME TW!WInv, Wheel!StepBegin, it' # None
    PROVE  it' \in Timers /\ Wheel!Running(it')
<1> DEFINE s == wheel[Wheel!Slot(Wheel!ThisTic)]
<1>1. s # <<>> /\ it' = s[1]
  BY DEF Wheel!StepBegin
<1>2. s \in Seq(Timers) /\ \A t \in ToSet(s) : Wheel!Running(t)
  BY WheelFacts
<1> HIDE DEF s
<1>3. 1 \in DOMAIN s
  BY <1>1, <1>2
<1> QED
  BY <1>1, <1>2, <1>3 DEF ToSet

(* While nobody has touched the list, the iterator is on a timer that runs.*)
LEMMA IteratorRuns ==
    ASSUME TW!WInv, phase # "idle", ~touched, it # None
    PROVE  Wheel!Running(it)
<1> DEFINE s == wheel[Wheel!Slot(Wheel!ThisTic)]
<1>1. \E p \in DOMAIN s : s[p] = it
  BY DEF TW!WInv, TW!Ahead, TW!ThisTic, Wheel!ThisTic, TW!Later, Wheel!Later, TW!Slot, Wheel!Slot
<1>2. \A t \in ToSet(s) : Wheel!Running(t)
  BY WheelFacts
<1> QED
  BY <1>1, <1>2 DEF ToSet

-----------------------------------------------------------------------------
(* The timers of a UE. *)
LEMMA Joined ==
    ASSUME NEW S, NEW a \in Seq(S), NEW b \in Seq(S)
    PROVE  a \o b \in Seq(S) /\ ToSet(a \o b) = ToSet(a) \cup ToSet(b)
<1> DEFINE c == a \o b
<1>1. /\ c \in Seq(S) /\ Len(c) = Len(a) + Len(b) /\ Len(a) \in Nat /\ Len(b) \in Nat
      /\ DOMAIN a = 1..Len(a) /\ DOMAIN b = 1..Len(b) /\ DOMAIN c = 1..Len(a) + Len(b)
      /\ \A i \in 1..Len(a) : c[i] = a[i]
      /\ \A i \in 1..Len(b) : c[Len(a) + i] = b[i]
      /\ \A i \in 1..Len(a) + Len(b) : i > Len(a) => i - Len(a) \in 1..Len(b) /\ c[i] = b[i - Len(a)]
  OBVIOUS
<1> HIDE DEF c
<1>2. ASSUME NEW x \in ToSet(c) PROVE x \in ToSet(a) \cup ToSet(b)
  <2>1. PICK i \in 1..Len(a) + Len(b) : x = c[i]
    BY <1>1 DEF ToSet
  <2>2. CASE i \in 1..Len(a)
    BY <1>1, <2>1, <2>2 DEF ToSet
  <2>3. CASE i > Len(a)
    BY <1>1, <2>1, <2>3 DEF ToSet
  <2> QED
    BY <1>1, <2>2, <2>3
<1>3. ASSUME NEW i \in 1..Len(a) PROVE a[i] \in ToSet(c)
  <2>1. i \in DOMAIN c
    BY <1>1
  <2> QED
    BY <1>1, <2>1 DEF ToSet
<1>4. ASSUME NEW i \in 1..Len(b) PROVE b[i] \in ToSet(c)
  <2>1. Len(a) + i \in DOMAIN c
    BY <1>1
  <2> QED
    BY <1>1, <2>1 DEF ToSet
<1>5. (\A x \in ToSet(a) : x \in ToSet(c)) /\ \A x \in ToSet(b) : x \in ToSet(c)
  BY <1>1, <1>3, <1>4 DEF ToSet
<1> QED
  BY <1>1, <1>2, <1>5 DEF c

LEMMA JoinedFour ==
    ASSUME NEW S, NEW a \in Seq(S), NEW b \in Seq(S), NEW c \in Seq(S), NEW d \in Seq(S)
    PROVE  /\ a \o b \o c \o d \in Seq(S)
           /\ ToSet(a \o b \o c \o d) = ToSet(a) \cup ToSet(b) \cup ToSet(c) \cup ToSet(d)
<1>1. PICK p : p = a \o b
  OBVIOUS
<1>2. p \in Seq(S) /\ ToSet(p) = ToSet(a) \cup ToSet(b)
  BY <1>1, Joined
<1>3. PICK r : r = p \o c
  OBVIOUS
<1>4. r \in Seq(S) /\ ToSet(r) = ToSet(p) \cup ToSet(c)
  BY <1>2, <1>3, Joined
<1>5. r \o d \in Seq(S) /\ ToSet(r \o d) = ToSet(r) \cup ToSet(d)
  BY <1>4, Joined
<1>6. a \o b \o c \o d = r \o d
  BY <1>1, <1>3
<1> QED
  BY <1>2, <1>4, <1>5, <1>6

LEMMA TimerForm == ASSUME NEW t \in Timers PROVE t[1] \in Ues /\ t[2] \in Kinds /\ t = <<t[1], t[2]>>
<1>1. t \in Ues \X Kinds
  BY RlfAssumption
<1> QED
  BY <1>1

LEMMA TimersOfForm ==
    ASSUME NEW u, NEW a, NEW b, NEW c, NEW d, Kinds = {a, b, c, d},
           NEW q, q = TimersOf(u, <<a, b, c, d>>)
    PROVE  q \in Seq(Timers) /\ ToSet(q) = {t \in Timers : t[1] = u}
<1>1. ASSUME NEW k, NEW w, w = IF <<u, k>> \in Timers THEN << <<u, k>> >> ELSE <<>>
      PROVE  w \in Seq(Timers) /\ ToSet(w) = {t \in Timers : t = <<u, k>>}
  <2>1. CASE <<u, k>> \in Timers
    <3>1. ToSet(<< <<u, k>> >>) = {<<u, k>>}
      BY DEF ToSet
    <3> QED
      BY <1>1, <2>1, <3>1
  <2>2. CASE <<u, k>> \notin Timers
    <3>1. ToSet(<<>>) = {}
      BY DEF ToSet
    <3> QED
      BY <1>1, <2>2, <3>1
  <2> QED
    BY <2>1, <2>2
<1>2. PICK ua, ub, uc, ud :
        /\ ua = IF <<u, a>> \in Timers THEN << <<u, a>> >> ELSE <<>>
        /\ ub = IF <<u, b>> \in Timers THEN << <<u, b>> >> ELSE <<>>
        /\ uc = IF <<u, c>> \in Timers THEN << <<u, c>> >> ELSE <<>>
        /\ ud = IF <<u, d>> \in Timers THEN << <<u, d>> >> ELSE <<>>
        /\ q = ua \o ub \o uc \o ud
  BY DEF TimersOf
<1>3. /\ ua \in Seq(Timers) /\ ToSet(ua) = {t \in Timers : t = <<u, a>>}
      /\ ub \in Seq(Timers) /\ ToSet(ub) = {t \in Timers : t = <<u, b>>}
      /\ uc \in Seq(Timers) /\ ToSet(uc) = {t \in Timers : t = <<u, c>>}
      /\ ud \in Seq(Timers) /\ ToSet(ud) = {t \in Timers : t = <<u, d>>}
  BY <1>1, <1>2
<1>4. /\ q \in Seq(Timers)
      /\ \A t : t \in ToSet(q) <=> t \in Timers /\ (t = <<u, a>> \/ t = <<u, b>> \/ t = <<u, c>> \/ t = <<u, d>>)
  <2>1. q = ua \o ub \o uc \o ud
    BY <1>2
  <2>2. /\ ua \o ub \o uc \o ud \in Seq(Timers)
        /\ ToSet(ua \o ub \o uc \o ud) = ToSet(ua) \cup ToSet(ub) \cup ToSet(uc) \cup ToSet(ud)
    BY <1>3, JoinedFour
  <2> QED
    BY <1>3, <2>1, <2>2
<1>5. ASSUME NEW t \in Timers
      PROVE  t[1] = u <=> t = <<u, a>> \/ t = <<u, b>> \/ t = <<u, c>> \/ t = <<u, d>>
  BY <1>5, TimerForm
<1> QED
  BY <1>4, <1>5

LEMMA Stops ==
    ASSUME NEW u
    PROVE  /\ RlfStops(u) \in Seq(Timers) /\ ToSet(RlfStops(u)) = {t \in Timers : t[1] = u}
           /\ Releases(u) \in Seq(Timers)
<1>1. Kinds = {"act", "ul", "dl", "rlc"} /\ Kinds = {"rlc", "ul", "dl", "act"}
  BY DEF Kinds, RlfKinds, Directions
<1> QED
  BY <1>1, TimersOfForm DEF RlfStops, Releases

LEMMA HeadTail ==
    ASSUME NEW q \in Seq(Timers), q # <<>>
    PROVE  /\ Head(q) \in Timers /\ Tail(q) \in Seq(Timers) /\ Head(q) \in ToSet(q)
           /\ ToSet(Tail(q)) \subseteq ToSet(q)
           /\ \A t \in ToSet(q) : t = Head(q) \/ t \in ToSet(Tail(q))
<1>1. /\ Len(q) \in Nat /\ Len(q) >= 1 /\ DOMAIN q = 1..Len(q) /\ Head(q) = q[1]
      /\ Tail(q) \in Seq(Timers) /\ DOMAIN Tail(q) = 1..Len(q) - 1
      /\ \A i \in 1..Len(q) - 1 : Tail(q)[i] = q[i + 1]
  OBVIOUS
<1>2. Head(q) \in Timers /\ Head(q) \in ToSet(q)
  BY <1>1 DEF ToSet
<1>3. ASSUME NEW i \in 1..Len(q) - 1 PROVE Tail(q)[i] \in ToSet(q)
  BY <1>1, <1>3 DEF ToSet
<1>4. ASSUME NEW i \in 1..Len(q), i # 1 PROVE q[i] \in ToSet(Tail(q))
  <2>1. i - 1 \in DOMAIN Tail(q) /\ Tail(q)[i - 1] = q[i]
    BY <1>1, <1>4
  <2> QED
    BY <2>1 DEF ToSet
<1> QED
  BY <1>1, <1>2, <1>3, <1>4 DEF ToSet

-----------------------------------------------------------------------------
(* The wheel's invariant holds here. *)
LEMMA InitOK == Init => RInv
<1> SUFFICES ASSUME Init PROVE RInv
  OBVIOUS
<1>1. TypeOK
  <2>1. WheelSize \in Nat /\ TicMod \in Nat \ {0} /\ MaxKo \in Nat
    BY RlfAssumption
  <2>2. ASSUME NEW t \in Timers PROVE NewTimer(t[2]) \in Wheel!Timer
    BY RlfAssumption DEF NewTimer, Duration, Wheel!Timer, Wheel!Tics
  <2>3. tm \in [Timers -> Wheel!Timer] /\ now \in Wheel!Tics
    BY <2>1, <2>2 DEF Init, Wheel!Tics
  <2>4. wheel \in [Wheel!Slots -> Seq(Timers)]
    BY DEF Init, Wheel!Slots
  <2>5. Wheel!TypeOK
    BY <2>3, <2>4 DEF Init, Wheel!TypeOK
  <2> QED
    BY <2>1, <2>5 DEF Init, TypeOK
<1>2. \A t \in Timers : ~Wheel!Running(t) /\ ~TW!Running(t)
  BY DEF Init, NewTimer, Wheel!Running, TW!Running
<1>3. TW!WInv
  <2>1. now \in TW!Tics /\ tm \in [Timers -> TW!Timer]
    BY <1>1 DEF TypeOK, Wheel!TypeOK, TW!Tics, Wheel!Tics, TW!Timer, Wheel!Timer
  <2>2. wheel = [s \in TW!Slots |-> <<>>]
    BY DEF Init, TW!Slots
  <2> QED
    BY <1>2, <2>1, <2>2, WheelAssumed, TW!EmptyOK DEF Init
<1> QED
  BY <1>1, <1>2, <1>3 DEF Init, RInv, LinkInv, IteratorInv, CallbackInv, MissedInv

LEMMA WheelKept == ASSUME RInv, [Next]_vars PROVE TW!WInv'
<1> USE WheelAssumed
<1>1. TW!WInv /\ todo \in Seq(Timers)
  BY DEF RInv, TypeOK
<1>2. ASSUME UNCHANGED wheelVars PROVE TW!WInv'
  BY <1>1, <1>2, TW!WInvInductive DEF wheelVars, TW!vars, TW!stepVars
<1>3. CASE StepBegin \/ SkipTimer \/ Expire \/ AskRelease \/ StepEnd
  BY <1>1, <1>3, SameOperations, SameSteps, TW!StepBeginOK, TW!SkipTimerOK, TW!ExpireOK,
     TW!CallbackReturnsOK, TW!StepEndOK
  DEF StepBegin, SkipTimer, Expire, AskRelease, StepEnd
<1>4. CASE StopNext
  BY <1>1, <1>4, HeadTail, SameOperations, TW!StopOK DEF StopNext
<1>5. CASE ReleaseNext
  BY <1>1, <1>5, HeadTail, SameOperations, TW!ReleaseOK DEF ReleaseNext
<1>6. ASSUME NEW u \in Ues, MaxRlcRetxReached(u) \/ SetActivity(u) PROVE TW!WInv'
  BY <1>1, <1>6, SameOperations, TW!RunOK DEF MaxRlcRetxReached, SetActivity, CommandOn
<1>7. ASSUME NEW u \in Ues, RemUser(u) PROVE TW!WInv'
  BY <1>2, <1>7 DEF RemUser
<1>8. ASSUME NEW u \in Ues, NEW d \in Directions, LinkOk(u, d) PROVE TW!WInv'
  BY <1>1, <1>2, <1>8, SameOperations, TW!StopOK DEF LinkOk, CommandOn
<1>9. ASSUME NEW u \in Ues, NEW d \in Directions, LinkKo(u, d) PROVE TW!WInv'
  BY <1>1, <1>2, <1>9, SameOperations, TW!RunOK DEF LinkKo, CommandOn
<1>10. CASE UNCHANGED vars
  BY <1>2, <1>10 DEF vars
<1> QED
  BY <1>3, <1>4, <1>5, <1>6, <1>7, <1>8, <1>9, <1>10 DEF Next

LEMMA TypesKept == ASSUME RInv, [Next]_vars PROVE TypeOK'
<1>1. Wheel!TypeOK'
  BY WheelKept DEF TW!WInv, TW!TypeOK, Wheel!TypeOK, TW!Tics, Wheel!Tics, TW!Slots, Wheel!Slots,
                   TW!Timer, Wheel!Timer
<1>2. /\ kos \in [Ues -> [Directions -> 0..MaxKo + 1]] /\ gone \in [Ues -> BOOLEAN]
      /\ todo \in Seq(Timers) /\ MaxKo \in Nat
  BY RlfAssumption DEF RInv, TypeOK
<1>3. todo' \in Seq(Timers)
  <2>1. CASE Expire
    BY <2>1, Stops DEF Expire
  <2>2. CASE StopNext \/ ReleaseNext
    BY <1>2, <2>2, HeadTail DEF StopNext, ReleaseNext
  <2>3. CASE \E u \in Ues : RemUser(u)
    BY <2>3, Stops DEF RemUser
  <2>4. CASE UNCHANGED todo
    BY <1>2, <2>4
  <2> QED
    BY <2>1, <2>2, <2>3, <2>4
    DEF Next, vars, StepBegin, SkipTimer, AskRelease, StepEnd, MaxRlcRetxReached, SetActivity,
        LinkOk, LinkKo
<1>4. gone' \in [Ues -> BOOLEAN]
  <2>1. CASE \E u \in Ues : RemUser(u)
    BY <1>2, <2>1 DEF RemUser
  <2>2. CASE UNCHANGED gone
    BY <1>2, <2>2
  <2> QED
    BY <2>1, <2>2
    DEF Next, vars, ueVars, StepBegin, SkipTimer, Expire, StopNext, ReleaseNext, AskRelease, StepEnd,
        MaxRlcRetxReached, SetActivity, LinkOk, LinkKo
<1>5. kos' \in [Ues -> [Directions -> 0..MaxKo + 1]]
  <2>1. ASSUME NEW u \in Ues, NEW d \in Directions, NEW n \in 0..MaxKo + 1,
               kos' = [kos EXCEPT ![u][d] = n]
        PROVE  kos' \in [Ues -> [Directions -> 0..MaxKo + 1]]
    BY <1>2, <2>1
  <2>2. ASSUME NEW u \in Ues, NEW d \in Directions, LinkOk(u, d)
        PROVE  kos' \in [Ues -> [Directions -> 0..MaxKo + 1]]
    BY <1>2, <2>1, <2>2 DEF LinkOk
  <2>3. ASSUME NEW u \in Ues, NEW d \in Directions, LinkKo(u, d)
        PROVE  kos' \in [Ues -> [Directions -> 0..MaxKo + 1]]
    <3>1. kos[u][d] \in 0..MaxKo + 1
      BY <1>2
    <3>2. PICK n : n = IF kos[u][d] <= MaxKo THEN kos[u][d] + 1 ELSE kos[u][d]
      OBVIOUS
    <3>3. n \in 0..MaxKo + 1
      BY <1>2, <3>1, <3>2
    <3>4. kos' = [kos EXCEPT ![u][d] = n]
      BY <2>3, <3>2 DEF LinkKo
    <3> QED
      BY <2>1, <3>3, <3>4
  <2>4. CASE UNCHANGED kos
    BY <1>2, <2>4
  <2> QED
    BY <2>2, <2>3, <2>4
    DEF Next, vars, ueVars, StepBegin, SkipTimer, Expire, StopNext, ReleaseNext, AskRelease, StepEnd,
        MaxRlcRetxReached, SetActivity, RemUser
<1> QED
  BY <1>1, <1>3, <1>4, <1>5 DEF TypeOK

-----------------------------------------------------------------------------
(* What the operations do to the timers. *)
Others(t) == \A s \in Timers : s # t => tm'[s] = tm[s]

LEMMA ModeSet ==
    ASSUME Wheel!TypeOK, NEW t \in Timers, NEW m, tm' = [tm EXCEPT ![t].mode = m]
    PROVE  /\ Others(t) /\ tm'[t].mode = m /\ tm'[t].timeout = tm[t].timeout
           /\ (m = tm[t].mode => tm'[t] = tm[t])
<1>1. tm \in [Timers -> Wheel!Timer] /\ tm[t] \in Wheel!Timer
  BY DEF Wheel!TypeOK
<1>2. Others(t) /\ tm'[t] = [tm[t] EXCEPT !.mode = m]
  BY <1>1 DEF Others
<1>3. PICK r \in Wheel!Timer : r = tm[t]
  BY <1>1
<1>4. /\ [r EXCEPT !.mode = m].mode = m /\ [r EXCEPT !.mode = m].timeout = r.timeout
      /\ (m = r.mode => [r EXCEPT !.mode = m] = r)
  BY DEF Wheel!Timer
<1> QED
  BY <1>2, <1>3, <1>4

LEMMA StopEffect ==
    ASSUME Wheel!TypeOK, NEW t \in Timers, Wheel!Stop(t)
    PROVE  /\ Others(t) /\ ~Wheel!Running(t)' /\ (~Wheel!Running(t) => tm'[t] = tm[t])
           /\ UNCHANGED <<now, phase, it, cur>>
<1>1. PICK m : m = IF Wheel!Running(t) THEN "stopped" ELSE tm[t].mode
  OBVIOUS
<1>2. tm' = [tm EXCEPT ![t].mode = m] /\ UNCHANGED <<now, phase, it, cur>>
  BY <1>1 DEF Wheel!Stop, Wheel!Locked, Wheel!stepVars
<1>3. Others(t) /\ tm'[t].mode = m /\ (m = tm[t].mode => tm'[t] = tm[t])
  BY <1>2, ModeSet
<1> QED
  BY <1>1, <1>2, <1>3 DEF Wheel!Running

LEMMA RunEffect ==
    ASSUME Wheel!TypeOK, NEW t \in Timers, Wheel!Run(t)
    PROVE  Others(t) /\ UNCHANGED phase
  BY DEF Wheel!TypeOK, Wheel!Run, Wheel!Locked, Wheel!stepVars, Others

LEMMA ReleaseEffect ==
    ASSUME Wheel!TypeOK, NEW t \in Timers, Wheel!Release(t)
    PROVE  Others(t) /\ ~Wheel!Running(t)' /\ UNCHANGED phase
  BY DEF Wheel!TypeOK, Wheel!Release, Wheel!Fresh, Wheel!Locked, Wheel!Running, Wheel!stepVars, Others

LEMMA ExpireEffect ==
    ASSUME Wheel!TypeOK, Wheel!Expire, NEW t, t = it
    PROVE  /\ t \in Timers /\ Others(t) /\ ~Wheel!Running(t)'
           /\ (~Wheel!Running(t) => tm'[t] = tm[t])
           /\ (Wheel!Running(t) => ExpiredNow(t)' /\ tm'[t].mode = "expired")
           /\ UNCHANGED <<now, touched>> /\ phase = "walk" /\ phase' \in {"walk", "callback"}
           /\ (phase' = "callback" => cur' = t) /\ it' = Wheel!NextOf(it)
           /\ (phase' = "walk" => cur' = cur)
<1>1. t \in Timers
  BY DEF Wheel!TypeOK, Wheel!Expire
<1>2. PICK m : m = IF Wheel!Running(t) THEN "expired" ELSE tm[t].mode
  OBVIOUS
<1>3. /\ tm' = [tm EXCEPT ![t].mode = m]
      /\ tm[t].timeout = Wheel!ThisTic /\ UNCHANGED <<now, touched>> /\ phase = "walk"
  BY <1>2 DEF Wheel!Expire
<1>4. /\ Others(t) /\ tm'[t].mode = m /\ tm'[t].timeout = tm[t].timeout
      /\ (m = tm[t].mode => tm'[t] = tm[t])
  BY <1>1, <1>3, ModeSet
<1>5. /\ ~Wheel!Running(t)' /\ (Wheel!Running(t) => tm'[t].mode = "expired")
      /\ (~Wheel!Running(t) => tm'[t] = tm[t])
  BY <1>2, <1>4 DEF Wheel!Running
<1>6. Wheel!Running(t) => ExpiredNow(t)'
  BY <1>3, <1>4, <1>5 DEF ExpiredNow, Wheel!ThisTic, Wheel!Later
<1>7. /\ phase' \in {"walk", "callback"} /\ it' = Wheel!NextOf(it)
      /\ (phase' = "callback" => cur' = t) /\ (phase' = "walk" => cur' = cur)
  BY <1>3 DEF Wheel!Expire
<1> QED
  BY <1>1, <1>3, <1>4, <1>5, <1>6, <1>7

LEMMA RunningTimer == ASSUME NEW t, tm'[t] = tm[t] PROVE Wheel!Running(t)' <=> Wheel!Running(t)
  BY DEF Wheel!Running

-----------------------------------------------------------------------------
(* The timer of a direction runs only while its KOs are too many. *)
LEMMA FewerRunning ==
    ASSUME LinkInv, UNCHANGED kos, \A t \in Timers : Wheel!Running(t)' => Wheel!Running(t)
    PROVE  LinkInv'
  BY DEF LinkInv

LEMMA LinkKept == ASSUME RInv, [Next]_vars PROVE LinkInv'
<1>1. /\ Wheel!TypeOK /\ TypeOK /\ LinkInv /\ todo \in Seq(Timers) /\ MaxKo \in Nat
      /\ kos \in [Ues -> [Directions -> 0..MaxKo + 1]]
  BY RlfAssumption DEF RInv, TypeOK
<1>2. CASE UNCHANGED <<tm, kos>>
  BY <1>1, <1>2, FewerRunning DEF Wheel!Running
<1>3. CASE StepBegin \/ SkipTimer \/ AskRelease \/ StepEnd \/ UNCHANGED vars
  BY <1>2, <1>3
  DEF StepBegin, SkipTimer, AskRelease, StepEnd, vars, wheelVars, ueVars, Wheel!StepBegin, Wheel!SkipTimer,
      Wheel!CallbackReturns, Wheel!StepEnd
<1>4. CASE Expire
  BY <1>1, <1>4, ExpireEffect, FewerRunning, RunningTimer DEF Expire, ueVars, Others
<1>5. CASE StopNext
  <2>1. Head(todo) \in Timers /\ Wheel!Stop(Head(todo)) /\ UNCHANGED kos
    BY <1>1, <1>5, HeadTail DEF StopNext, ueVars
  <2> QED
    BY <1>1, <2>1, StopEffect, FewerRunning, RunningTimer DEF Others
<1>6. CASE ReleaseNext
  <2>1. Head(todo) \in Timers /\ Wheel!Release(Head(todo)) /\ UNCHANGED kos
    BY <1>1, <1>6, HeadTail DEF ReleaseNext, ueVars
  <2> QED
    BY <1>1, <2>1, ReleaseEffect, FewerRunning, RunningTimer DEF Others
<1>7. ASSUME NEW t \in Timers, t[2] \notin Directions, Wheel!Run(t), UNCHANGED kos
      PROVE  LinkInv'
  BY <1>1, <1>7, RunEffect, RunningTimer DEF LinkInv, Others
<1>8. ASSUME NEW u \in Ues, MaxRlcRetxReached(u) \/ SetActivity(u) PROVE LinkInv'
  BY <1>7, <1>8 DEF MaxRlcRetxReached, SetActivity, CommandOn, ueVars, Directions
<1>9. ASSUME NEW u \in Ues, RemUser(u) PROVE LinkInv'
  BY <1>2, <1>9 DEF RemUser, wheelVars
<1>10. ASSUME NEW u \in Ues, NEW d \in Directions, NEW n \in Nat, <<u, d>> \in Timers,
              kos' = [kos EXCEPT ![u][d] = n], Others(<<u, d>>), Wheel!Running(<<u, d>>)' => n > MaxKo
       PROVE  LinkInv'
  <2> SUFFICES ASSUME NEW t \in Timers, t[2] \in Directions, Wheel!Running(t)'
               PROVE  kos'[t[1]][t[2]] > MaxKo
    BY DEF LinkInv
  <2>1. t[1] \in Ues /\ t = <<t[1], t[2]>>
    BY TimerForm
  <2>2. CASE t = <<u, d>>
    BY <1>1, <1>10, <2>2
  <2>3. CASE t # <<u, d>>
    <3>1. Wheel!Running(t)
      BY <1>10, <2>3, RunningTimer DEF Others
    <3>2. kos[t[1]][t[2]] > MaxKo
      BY <1>1, <3>1 DEF LinkInv
    <3>3. t[1] # u \/ t[2] # d
      BY <2>1, <2>3
    <3>4. kos'[t[1]][t[2]] = kos[t[1]][t[2]]
      BY <1>1, <1>10, <2>1, <3>3
    <3> QED
      BY <3>2, <3>4
  <2> QED
    BY <2>2, <2>3
<1>11. ASSUME NEW u \in Ues, NEW d \in Directions, LinkOk(u, d) PROVE LinkInv'
  <2>1. <<u, d>> \in Timers /\ kos' = [kos EXCEPT ![u][d] = 0]
    BY <1>11 DEF LinkOk, CommandOn
  <2>2. Others(<<u, d>>) /\ ~Wheel!Running(<<u, d>>)'
    <3>1. CASE Wheel!Running(<<u, d>>)
      BY <1>1, <1>11, <2>1, <3>1, StopEffect DEF LinkOk
    <3>2. CASE ~Wheel!Running(<<u, d>>)
      BY <1>11, <3>2 DEF LinkOk, wheelVars, Others, Wheel!Running
    <3> QED
      BY <3>1, <3>2
  <2> QED
    BY <1>10, <2>1, <2>2
<1>12. ASSUME NEW u \in Ues, NEW d \in Directions, LinkKo(u, d) PROVE LinkInv'
  <2>1. PICK n : n = IF kos[u][d] <= MaxKo THEN kos[u][d] + 1 ELSE kos[u][d]
    OBVIOUS
  <2>2. /\ <<u, d>> \in Timers /\ kos' = [kos EXCEPT ![u][d] = n] /\ ~Wheel!Running(<<u, d>>)
        /\ IF kos[u][d] >= MaxKo THEN Wheel!Run(<<u, d>>) ELSE UNCHANGED wheelVars
    BY <1>12, <2>1 DEF LinkKo, CommandOn
  <2>3. kos[u][d] \in Nat
    BY <1>1
  <2>4. n \in Nat /\ (kos[u][d] >= MaxKo => n > MaxKo)
    BY <1>1, <2>1, <2>3
  <2>5. Others(<<u, d>>)
    BY <1>1, <2>2, RunEffect DEF wheelVars, Others
  <2>6. ~(kos[u][d] >= MaxKo) => ~Wheel!Running(<<u, d>>)'
    BY <2>2 DEF wheelVars, Wheel!Running
  <2> QED
    BY <1>10, <2>2, <2>4, <2>5, <2>6
<1> QED
  BY <1>3, <1>4, <1>5, <1>6, <1>8, <1>9, <1>11, <1>12 DEF Next

-----------------------------------------------------------------------------
(* A walk: timers are only halted, by expiry or by rlf_timer_expired. *)
Halted(t) == Others(t) /\ ~Wheel!Running(t)' /\ (~Wheel!Running(t) => tm'[t] = tm[t])

LEMMA HaltedFacts ==
    ASSUME NEW t \in Timers, Halted(t)
    PROVE  \A s \in Timers :
            /\ Wheel!Running(s)' => Wheel!Running(s) /\ s # t
            /\ tm[s].mode = "expired" => tm'[s] = tm[s]
<1> SUFFICES ASSUME NEW s \in Timers
             PROVE  /\ Wheel!Running(s)' => Wheel!Running(s) /\ s # t
                    /\ tm[s].mode = "expired" => tm'[s] = tm[s]
  OBVIOUS
<1>1. CASE s = t
  BY <1>1 DEF Halted, Wheel!Running
<1>2. CASE s # t
  BY <1>2, RunningTimer DEF Halted, Others
<1> QED
  BY <1>1, <1>2

LEMMA RealKept ==
    ASSUME NEW u, Real(u), UNCHANGED kos,
           \A s \in Timers : tm[s].mode = "expired" => tm'[s].mode = "expired"
    PROVE  Real(u)'
  BY DEF Real

(* Failed(s) survives as long as the timers of its UE are only halted; p   *)
(* says where a callback of that UE stands.                                *)
LEMMA FailedKept ==
    ASSUME NEW s \in Timers, Failed(s), UNCHANGED now, tm'[s] = tm[s],
           \A t \in Timers : Wheel!Running(t)' => Wheel!Running(t),
           \A t \in Timers : t[1] = s[1] /\ Wheel!Running(t)' /\ phase = "callback" /\ cur[1] = s[1]
                /\ t \in ToSet(todo) => phase' = "callback" /\ cur' = cur /\ t \in ToSet(todo')
    PROVE  Failed(s)'
<1>1. ExpiredNow(s)'
  BY DEF Failed, ExpiredNow, Wheel!ThisTic, Wheel!Later
<1>2. ASSUME NEW t \in Timers, t[1] = s[1], Wheel!Running(t)'
      PROVE  phase' = "callback" /\ cur'[1] = s[1] /\ t \in ToSet(todo')
  BY <1>2 DEF Failed
<1> QED
  BY <1>1, <1>2 DEF Failed

LEMMA WalkFacts ==
    ASSUME RInv
    PROVE  /\ Wheel!TypeOK /\ TypeOK /\ TW!WInv /\ todo \in Seq(Timers)
           /\ LinkInv /\ IteratorInv /\ CallbackInv /\ MissedInv
           /\ it \in Timers \cup {None} /\ None \notin Timers
  BY RlfAssumption DEF RInv, TypeOK, Wheel!TypeOK

LEMMA StepBeginOK ==
    ASSUME RInv, StepBegin PROVE IteratorInv' /\ CallbackInv' /\ MissedInv'
<1>1. Wheel!StepBegin /\ phase' = "walk" /\ touched' = FALSE /\ tm' = tm
  BY DEF StepBegin, Wheel!StepBegin
<1>2. it' # None => Wheel!Running(it')
  BY <1>1, WalkFacts, FirstRuns
<1>3. it' # None => Wheel!Running(it)'
  BY <1>1, <1>2 DEF Wheel!Running
<1> QED
  BY <1>1, <1>3 DEF IteratorInv, CallbackInv, MissedInv

LEMMA SkipTimerOK ==
    ASSUME RInv, SkipTimer PROVE IteratorInv' /\ CallbackInv' /\ MissedInv'
<1>1. /\ Wheel!SkipTimer /\ phase = "walk" /\ phase' = "walk" /\ it # None /\ it' = Wheel!NextOf(it)
      /\ UNCHANGED <<now, tm, cur, touched, kos, todo>>
  BY DEF SkipTimer, Wheel!SkipTimer, ueVars
<1>2. it \in Timers
  BY <1>1, WalkFacts
<1>3. it' # None => Wheel!Running(it')
  BY <1>1, <1>2, WalkFacts, NextRuns
<1>4. it' # None => Wheel!Running(it)'
  BY <1>1, <1>3 DEF Wheel!Running
<1>5. MissedInv'
  <2> SUFFICES ASSUME touched PROVE \E s \in Timers : Failed(s)'
    BY <1>1 DEF MissedInv
  <2>1. PICK s \in Timers : Failed(s)
    BY <1>1, WalkFacts DEF MissedInv
  <2>2. \A t \in Timers : Wheel!Running(t)' => Wheel!Running(t)
    BY <1>1 DEF Wheel!Running
  <2> QED
    BY <1>1, <2>1, <2>2, FailedKept
<1> QED
  BY <1>1, <1>4, <1>5 DEF IteratorInv, CallbackInv

LEMMA AskReleaseOK ==
    ASSUME RInv, AskRelease PROVE IteratorInv' /\ CallbackInv' /\ MissedInv'
<1>1. /\ todo = <<>> /\ phase = "callback" /\ phase' = "walk"
      /\ UNCHANGED <<now, tm, it, touched, kos, todo>>
  BY DEF AskRelease, Wheel!CallbackReturns, ueVars
<1>2. ToSet(todo) = {}
  BY <1>1 DEF ToSet
<1>3. MissedInv'
  <2> SUFFICES ASSUME touched PROVE \E s \in Timers : Failed(s)'
    BY <1>1 DEF MissedInv
  <2>1. PICK s \in Timers : Failed(s)
    BY <1>1, WalkFacts DEF MissedInv
  <2>2. \A t \in Timers : Wheel!Running(t)' => Wheel!Running(t)
    BY <1>1 DEF Wheel!Running
  <2> QED
    BY <1>1, <1>2, <2>1, <2>2, FailedKept
<1>4. IteratorInv'
  BY <1>1, WalkFacts DEF IteratorInv, Real, Wheel!Running
<1> QED
  BY <1>1, <1>3, <1>4 DEF CallbackInv

(* The callback of a link's timer is called for a UE whose link fails. *)
LEMMA ExpireReal ==
    ASSUME RInv, Expire, NEW t, t = it, t[2] \in RlfKinds
    PROVE  Real(t[1])'
<1>1. /\ t \in Timers /\ Halted(t) /\ (Wheel!Running(t) => tm'[t].mode = "expired")
      /\ phase = "walk" /\ UNCHANGED kos
  BY WalkFacts, ExpireEffect DEF Expire, ueVars, Halted
<1>2. CASE Wheel!Running(t) /\ t[2] \in Directions
  <2>1. kos[t[1]][t[2]] > MaxKo
    BY <1>1, <1>2, WalkFacts DEF LinkInv
  <2> QED
    BY <1>1, <1>2, <2>1 DEF Real
<1>3. CASE Wheel!Running(t) /\ t[2] = "rlc"
  BY <1>1, <1>3, TimerForm DEF Real
<1>4. CASE ~Wheel!Running(t)
  <2>1. Real(t[1])
    BY <1>1, <1>4, WalkFacts DEF IteratorInv
  <2>2. \A s \in Timers : tm[s].mode = "expired" => tm'[s].mode = "expired"
    BY <1>1, HaltedFacts
  <2> QED
    BY <1>1, <2>1, <2>2, RealKept
<1> QED
  BY <1>2, <1>3, <1>4 DEF RlfKinds

LEMMA ExpireOK ==
    ASSUME RInv, Expire PROVE IteratorInv' /\ CallbackInv' /\ MissedInv'
<1>1. PICK t : t = it
  OBVIOUS
<1>2. /\ t \in Timers /\ Halted(t) /\ (Wheel!Running(t) => ExpiredNow(t)')
      /\ UNCHANGED <<now, touched>> /\ phase = "walk" /\ phase' \in {"walk", "callback"}
      /\ (phase' = "callback" => cur' = t) /\ it' = Wheel!NextOf(it)
  BY <1>1, WalkFacts, ExpireEffect DEF Expire, Halted
<1>3. \A s \in Timers : /\ Wheel!Running(s)' => Wheel!Running(s) /\ s # t
                        /\ tm[s].mode = "expired" => tm'[s] = tm[s]
  BY <1>2, HaltedFacts
<1>4. IteratorInv'
  <2> SUFFICES ASSUME it' # None PROVE tm'[it'].mode = "running"
    BY DEF IteratorInv, Wheel!Running
  <2>1. PICK n : n = it'
    OBVIOUS
  <2>2. n \in Timers /\ Wheel!Running(n) /\ n # t
    BY <1>1, <1>2, <2>1, WalkFacts, NextRuns
  <2> QED
    BY <1>2, <2>1, <2>2 DEF Halted, Others, Wheel!Running
<1>5. CallbackInv'
  <2> SUFFICES ASSUME phase' = "callback", todo' # <<>>
               PROVE  /\ cur' \in Timers /\ Real(cur[1])'
                      /\ \A s \in ToSet(todo') : s[1] = cur'[1]
                      /\ ~touched' => Failed(cur)'
    BY DEF CallbackInv
  <2>1. cur' = t /\ t[2] \in RlfKinds /\ todo' = RlfStops(t[1])
    BY <1>1, <1>2 DEF Expire
  <2>2. ToSet(todo') = {s \in Timers : s[1] = t[1]}
    BY <2>1, Stops
  <2>3. Real(t[1])'
    BY <1>1, <2>1, ExpireReal
  <2>4. ASSUME ~touched PROVE Failed(t)'
    <3>1. Wheel!Running(t)
      BY <1>1, <1>2, <2>4, WalkFacts, IteratorRuns
    <3> QED
      BY <1>2, <2>1, <2>2, <3>1 DEF Failed
  <2>5. Real(cur[1])'
    BY <2>1, <2>3 DEF Real
  <2>6. ~touched' => Failed(cur)'
    BY <1>2, <2>1, <2>4 DEF Failed, ExpiredNow, Wheel!Running
  <2> QED
    BY <1>2, <2>1, <2>2, <2>5, <2>6
<1>6. MissedInv'
  <2> SUFFICES ASSUME touched PROVE \E s \in Timers : Failed(s)'
    BY <1>2 DEF MissedInv
  <2>1. PICK s \in Timers : Failed(s)
    BY <1>2, WalkFacts DEF MissedInv
  <2>2. tm'[s] = tm[s]
    BY <1>3, <2>1 DEF Failed, ExpiredNow
  <2> QED
    BY <1>2, <1>3, <2>1, <2>2, FailedKept
<1> QED
  BY <1>4, <1>5, <1>6

LEMMA StopNextOK ==
    ASSUME RInv, StopNext PROVE IteratorInv' /\ CallbackInv' /\ MissedInv'
<1>1. PICK h : h = Head(todo)
  OBVIOUS
<1>2. /\ h \in Timers /\ h \in ToSet(todo) /\ Wheel!Stop(h)
      /\ \A t \in ToSet(todo) : t = h \/ t \in ToSet(todo')
      /\ ToSet(todo') \subseteq ToSet(todo)
      /\ phase = "callback" /\ todo # <<>> /\ UNCHANGED kos
  BY <1>1, WalkFacts, HeadTail DEF StopNext, ueVars
<1>3. Halted(h) /\ UNCHANGED <<now, phase, it, cur>> /\ (~touched' => ~touched)
  BY <1>2, WalkFacts, StopEffect DEF Halted, Wheel!Stop, Wheel!Locked
<1>4. \A s \in Timers : /\ Wheel!Running(s)' => Wheel!Running(s) /\ s # h
                        /\ tm[s].mode = "expired" => tm'[s] = tm[s]
  BY <1>2, <1>3, HaltedFacts
<1>5. /\ cur \in Timers /\ Real(cur[1]) /\ \A t \in ToSet(todo) : t[1] = cur[1]
      /\ ~touched => Failed(cur)
  BY <1>2, WalkFacts DEF CallbackInv
<1>6. ASSUME NEW u, Real(u) PROVE Real(u)'
  BY <1>2, <1>4, <1>6, RealKept
<1>7. ASSUME NEW s \in Timers, Failed(s) PROVE Failed(s)'
  <2>1. tm'[s] = tm[s]
    BY <1>4, <1>7 DEF Failed, ExpiredNow
  <2> QED
    BY <1>2, <1>3, <1>4, <1>7, <2>1, FailedKept
<1>8. PICK c : c = cur
  OBVIOUS
<1>9. Real(c[1])' /\ (~touched => Failed(c)')
  BY <1>5, <1>6, <1>7, <1>8
<1>10. IteratorInv'
  <2> SUFFICES ASSUME it' # None, ~Wheel!Running(it)', it'[2] \in RlfKinds PROVE Real(it[1])'
    BY DEF IteratorInv
  <2>1. PICK i : i = it
    OBVIOUS
  <2>2. i \in Timers /\ ~Wheel!Running(i)' /\ i[2] \in RlfKinds
    BY <1>3, <2>1, WalkFacts DEF Wheel!Running
  <2>3. Real(i[1])'
    <3>1. CASE Wheel!Running(i)
      <4>1. i = h
        BY <1>3, <2>2, <3>1, RunningTimer DEF Halted, Others
      <4> QED
        BY <1>2, <1>5, <1>8, <1>9, <4>1
    <3>2. CASE ~Wheel!Running(i)
      <4>1. Real(i[1])
        BY <1>2, <1>3, <2>1, <2>2, <3>2, WalkFacts DEF IteratorInv
      <4> QED
        BY <1>6, <4>1
    <3> QED
      BY <3>1, <3>2
  <2> QED
    BY <1>3, <2>1, <2>3 DEF Real
<1>11. CallbackInv'
  <2>1. Real(cur[1])' /\ (~touched' => Failed(cur)')
    BY <1>3, <1>8, <1>9 DEF Real, Failed, ExpiredNow, Wheel!Running
  <2> QED
    BY <1>2, <1>3, <1>5, <2>1 DEF CallbackInv
<1>12. MissedInv'
  <2>1. CASE touched
    <3>1. PICK s \in Timers : Failed(s)
      BY <1>2, <2>1, WalkFacts DEF MissedInv
    <3> QED
      BY <1>7, <3>1 DEF MissedInv
  <2>2. CASE ~touched
    BY <1>5, <1>8, <1>9, <2>2 DEF MissedInv
  <2> QED
    BY <2>1, <2>2
<1> QED
  BY <1>10, <1>11, <1>12

-----------------------------------------------------------------------------
LEMMA Inductive == RInv /\ [Next]_vars => RInv'
<1> SUFFICES ASSUME RInv, [Next]_vars PROVE IteratorInv' /\ CallbackInv' /\ MissedInv'
  BY WheelKept, TypesKept, LinkKept DEF RInv
<1>1. ASSUME phase' = "idle" PROVE IteratorInv' /\ CallbackInv' /\ MissedInv'
  BY <1>1 DEF IteratorInv, CallbackInv, MissedInv
<1>2. CASE StepBegin \/ SkipTimer \/ Expire \/ StopNext \/ AskRelease
  BY <1>2, StepBeginOK, SkipTimerOK, ExpireOK, StopNextOK, AskReleaseOK
<1>3. CASE StepEnd
  BY <1>1, <1>3 DEF StepEnd, Wheel!StepEnd
<1>4. CASE ReleaseNext
  BY <1>1, <1>4, WalkFacts, HeadTail, ReleaseEffect DEF ReleaseNext
<1>5. ASSUME NEW u \in Ues, MaxRlcRetxReached(u) \/ SetActivity(u) PROVE phase' = "idle"
  BY <1>5, WalkFacts, RunEffect DEF MaxRlcRetxReached, SetActivity, CommandOn, Command
<1>6. ASSUME NEW u \in Ues, RemUser(u) PROVE phase' = "idle"
  BY <1>6 DEF RemUser, Command, wheelVars
<1>7. ASSUME NEW u \in Ues, NEW d \in Directions, LinkOk(u, d) \/ LinkKo(u, d)
      PROVE  phase' = "idle"
  <2>1. /\ phase = "idle" /\ <<u, d>> \in Timers
        /\ \/ UNCHANGED wheelVars
           \/ Wheel!Stop(<<u, d>>)
           \/ Wheel!Run(<<u, d>>)
    BY <1>7 DEF LinkOk, LinkKo, CommandOn, Command
  <2> QED
    BY <2>1, WalkFacts, StopEffect, RunEffect DEF wheelVars
<1>8. CASE UNCHANGED vars
  BY <1>8, WalkFacts
  DEF vars, wheelVars, ueVars, IteratorInv, CallbackInv, MissedInv, Real, Failed, ExpiredNow,
      Wheel!Running, Wheel!ThisTic, Wheel!Later
<1> QED
  BY <1>1, <1>2, <1>3, <1>4, <1>5, <1>6, <1>7, <1>8 DEF Next

LEMMA Invariant == Spec => []RInv
BY InitOK, Inductive, PTL DEF Spec

(* Every variable keeps its type, the wheel's and the RRC's. *)
THEOREM TypeCorrect == Spec => []TypeOK
<1>1. RInv => TypeOK
  BY DEF RInv
<1> QED
  BY <1>1, Invariant, PTL

(* The wheel holds the running timers of the UEs, each once and in its     *)
(* slot, although rlf_timer_expired stops timers of the list being walked. *)
THEOREM WheelCorrect == Spec => []Wheel!WheelOK
<1>1. \A S : TW!Cardinality(S) = Wheel!Cardinality(S)
  BY Zenon DEF TW!Cardinality, Wheel!Cardinality
<1>2. TW!WheelOK => Wheel!WheelOK
  BY <1>1 DEF TW!WheelOK, Wheel!WheelOK, TW!Slots, Wheel!Slots, TW!Running, Wheel!Running,
              TW!Slot, Wheel!Slot, TW!ToSet, Wheel!ToSet
<1>3. RInv => Wheel!WheelOK
  BY <1>2 DEF RInv, TW!WInv
<1> QED
  BY <1>3, Invariant, PTL

(* rlf_timer_expired runs only for a UE one of whose links has had more    *)
(* KOs than the maximum since its last OK, or whose RLC gave up, even when *)
(* step_all calls a timer that another callback has stopped.               *)
THEOREM FailureReal == Spec => FailureIsReal
<1>1. ASSUME RInv, Next, cur' # cur, cur' # None, cur'[2] \in RlfKinds
      PROVE  \/ \E d \in Directions : kos[cur'[1]][d] > MaxKo
             \/ \E t \in Timers : t = <<cur'[1], "rlc">> /\ tm'[t].mode = "expired"
  <2>1. CASE Expire
    <3>1. PICK t : t = it
      OBVIOUS
    <3>2. cur' = t /\ UNCHANGED kos
      BY <1>1, <2>1, <3>1, WalkFacts, ExpireEffect DEF Expire, ueVars
    <3>3. Real(t[1])'
      BY <1>1, <2>1, <3>1, <3>2, ExpireReal
    <3> QED
      BY <3>2, <3>3 DEF Real
  <2>2. CASE StopNext \/ ReleaseNext
    BY <1>1, <2>2 DEF StopNext, ReleaseNext, Wheel!Stop, Wheel!Release, Wheel!Locked, Wheel!stepVars
  <2>3. CASE StepBegin \/ SkipTimer \/ AskRelease \/ StepEnd
    BY <1>1, <2>3
    DEF StepBegin, SkipTimer, AskRelease, StepEnd, Wheel!StepBegin, Wheel!SkipTimer,
        Wheel!CallbackReturns, Wheel!StepEnd
  <2>4. \A t : Wheel!Stop(t) \/ Wheel!Run(t) => cur' = cur
    BY DEF Wheel!Stop, Wheel!Run, Wheel!Locked, Wheel!stepVars
  <2>5. ASSUME NEW u \in Ues, MaxRlcRetxReached(u) \/ SetActivity(u) \/ RemUser(u)
        PROVE  cur' = cur
    BY <2>4, <2>5 DEF MaxRlcRetxReached, SetActivity, RemUser, wheelVars
  <2>6. ASSUME NEW u \in Ues, NEW d \in Directions, LinkOk(u, d) \/ LinkKo(u, d)
        PROVE  cur' = cur
    BY <2>4, <2>6 DEF LinkOk, LinkKo, wheelVars
  <2> QED
    BY <1>1, <2>1, <2>2, <2>3, <2>5, <2>6 DEF Next
<1>2. RInv /\ [Next]_vars =>
        [cur' # cur /\ cur' # None /\ cur'[2] \in RlfKinds =>
            \/ \E d \in Directions : kos[cur'[1]][d] > MaxKo
            \/ \E t \in Timers : t = <<cur'[1], "rlc">> /\ tm'[t].mode = "expired"]_vars
  BY <1>1
<1> QED
  BY <1>2, Invariant, PTL DEF Spec, FailureIsReal

(* step_all passes over a timer that is due only in a TTI in which the     *)
(* link of another UE has failed: a UE alone is always served in time.     *)
THEOREM OnlyWithAnother == Spec => MissedOnlyWithAnother
<1>1. ASSUME RInv, Wheel!StepEnd, NEW t \in Timers, Wheel!Due(t)
      PROVE  \E s \in Timers : s[1] # t[1] /\ s[2] \in RlfKinds /\ ExpiredNow(s)
  <2>1. phase = "walk" /\ Wheel!Running(t)
    BY <1>1 DEF Wheel!StepEnd, Wheel!Due
  <2>2. TW!StepEnd /\ TW!Due(t)
    BY <1>1, SameSteps
    DEF TW!Due, Wheel!Due, TW!Running, Wheel!Running, TW!ThisTic, Wheel!ThisTic, TW!Later, Wheel!Later
  <2>3. touched
    BY <1>1, <2>2, WalkFacts, WheelAssumed, TW!NoneDue
  <2>4. PICK s \in Timers : Failed(s)
    BY <1>1, <2>1, <2>3, WalkFacts DEF MissedInv
  <2>5. s[1] # t[1]
    BY <2>1, <2>4 DEF Failed
  <2> QED
    BY <2>4, <2>5 DEF Failed
<1>2. RInv /\ [Next]_vars =>
        [Wheel!StepEnd => \A t \in Timers : Wheel!Due(t) =>
            \E s \in Timers : s[1] # t[1] /\ s[2] \in RlfKinds /\ ExpiredNow(s)]_vars
  BY <1>1
<1> QED
  BY <1>2, Invariant, PTL DEF Spec, MissedOnlyWithAnother
=============================================================================
