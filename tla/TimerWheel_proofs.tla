------------------------- MODULE TimerWheel_proofs --------------------------
(***************************************************************************)
(* Proofs about TimerWheel, for every set of timers, size of the wheel and *)
(* range of the clock.                                                     *)
(*                                                                         *)
(* The argument: linking and unlinking a timer changes one list by that    *)
(* timer (Pushing, Unlinking), so that the wheel stays the set of running  *)
(* timers (Started, Stopped).  While nothing touches the list being walked *)
(* every timer of it that is due lies at or behind the iterator (Ahead).   *)
(***************************************************************************)
EXTENDS TimerWheel, FiniteSetTheorems, TLAPS

Distinct(s) == \A i, j \in DOMAIN s : s[i] = s[j] => i = j

InSlot(s) == {t \in Timers : Running(t) /\ Slot(tm[t].timeout) = s}
RunningSet == {t \in Timers : Running(t)}

ListsOK == \A s \in Slots : Distinct(wheel[s]) /\ ToSet(wheel[s]) = InSlot(s)

(* Every timer due lies at or behind the iterator. *)
Ahead ==
    LET s == wheel[Slot(ThisTic)]
    IN  /\ it # None => \E p \in DOMAIN s : s[p] = it
        /\ \A i \in DOMAIN s : Due(s[i]) => it # None /\ \E p \in DOMAIN s : s[p] = it /\ p <= i

WInv == TypeOK /\ WheelOK /\ (phase # "idle" /\ ~touched => Ahead)

-----------------------------------------------------------------------------
(* Slots and times. *)
LEMMA SlotFacts ==
    /\ \A x \in Nat : Slot(x) \in Slots
    /\ \A d \in Nat : now \in Tics => Later(d) \in Tics
    /\ WheelSize \in Nat /\ TicMod \in Nat /\ Tics \subseteq Nat /\ Durs \subseteq Nat
    /\ Durs \subseteq 0..MaxDur /\ 0 \in 0..MaxDur /\ 0 \in Tics
<1>1. WheelSize \in Nat /\ WheelSize > 0 /\ TicMod \in Nat /\ TicMod > 0
      /\ MaxDur \in Nat
  BY WheelAssumption
<1>2. ASSUME NEW x \in Nat PROVE Slot(x) \in Slots
  BY <1>1 DEF Slot, Slots
<1>3. ASSUME NEW d \in Nat, now \in Tics PROVE Later(d) \in Tics
  BY <1>1, <1>3 DEF Later, Tics
<1> QED
  BY <1>1, <1>2, <1>3 DEF Tics, Durs

(* intrusive_double_linked_list::push_front *)
LEMMA Pushing ==
    ASSUME NEW s \in Seq(Timers), NEW t \in Timers, Distinct(s), t \notin ToSet(s)
    PROVE  /\ <<t>> \o s \in Seq(Timers) /\ Distinct(<<t>> \o s)
           /\ ToSet(<<t>> \o s) = ToSet(s) \cup {t}
<1> DEFINE r == <<t>> \o s
<1>1. r \in Seq(Timers) /\ Len(r) = Len(s) + 1 /\ DOMAIN r = 1..Len(s) + 1
  OBVIOUS
<1>2. r[1] = t /\ \A i \in 1..Len(s) + 1 : i # 1 => i - 1 \in 1..Len(s) /\ r[i] = s[i - 1]
  OBVIOUS
<1>3. \A i \in 1..Len(s) : s[i] # t /\ r[i + 1] = s[i]
  BY <1>2 DEF ToSet
<1> HIDE DEF r
<1>4. Distinct(r)
  BY <1>1, <1>2, <1>3 DEF Distinct
<1>5. ToSet(r) = ToSet(s) \cup {t}
  <2>1. ASSUME NEW x \in ToSet(r) PROVE x \in ToSet(s) \cup {t}
    BY <1>1, <1>2 DEF ToSet
  <2>2. t \in ToSet(r)
    BY <1>1, <1>2 DEF ToSet
  <2>3. ASSUME NEW i \in 1..Len(s) PROVE s[i] \in ToSet(r)
    <3>1. i + 1 \in DOMAIN r /\ r[i + 1] = s[i]
      BY <1>1, <1>3
    <3> QED
      BY <3>1 DEF ToSet
  <2>4. \A x \in ToSet(s) : \E i \in 1..Len(s) : x = s[i]
    BY DEF ToSet
  <2> QED
    BY <2>1, <2>2, <2>3, <2>4
<1> QED
  BY <1>1, <1>4, <1>5 DEF r

LEMMA PositionFacts ==
    ASSUME NEW s \in Seq(Timers), NEW t \in ToSet(s), Distinct(s)
    PROVE  /\ Position(s, t) \in 1..Len(s) /\ s[Position(s, t)] = t
           /\ \A i \in 1..Len(s) : s[i] = t => i = Position(s, t)
<1>1. \E i \in DOMAIN s : s[i] = t
  BY DEF ToSet
<1>2. Position(s, t) \in DOMAIN s /\ s[Position(s, t)] = t
  BY <1>1 DEF Position
<1> QED
  BY <1>2 DEF Distinct

(* intrusive_double_linked_list::pop: where the elements go. *)
LEMMA UnlinkFacts ==
    ASSUME NEW s \in Seq(Timers), NEW t \in ToSet(s), Distinct(s), NEW p, p = Position(s, t)
    PROVE  /\ p \in 1..Len(s)
           /\ Unlink(s, t) \in Seq(Timers) /\ Len(Unlink(s, t)) = Len(s) - 1
           /\ \A i \in 1..Len(s) - 1 : Unlink(s, t)[i] = IF i < p THEN s[i] ELSE s[i + 1]
<1>1. p \in 1..Len(s)
  BY PositionFacts
<1> DEFINE a == SubSeq(s, 1, p - 1)
           b == SubSeq(s, p + 1, Len(s))
<1>2. a \in Seq(Timers) /\ Len(a) = p - 1 /\ \A i \in 1..p - 1 : a[i] = s[i]
  BY <1>1
<1>3. b \in Seq(Timers) /\ Len(b) = Len(s) - p /\ \A i \in 1..Len(s) - p : b[i] = s[p + i]
  BY <1>1
<1>4. Unlink(s, t) = a \o b
  BY DEF Unlink, RemoveAt
<1> HIDE DEF a, b
<1>5. a \o b \in Seq(Timers) /\ Len(a \o b) = Len(s) - 1
  BY <1>1, <1>2, <1>3
<1>6. ASSUME NEW i \in 1..Len(s) - 1
      PROVE  (a \o b)[i] = IF i < p THEN s[i] ELSE s[i + 1]
  <2>1. CASE i < p
    BY <1>1, <1>2, <1>3, <2>1
  <2>2. CASE ~(i < p)
    <3>1. i - (p - 1) \in 1..Len(s) - p /\ p + (i - (p - 1)) = i + 1
      BY <1>1, <2>2
    <3>2. (a \o b)[i] = b[i - (p - 1)]
      BY <1>1, <1>2, <1>3, <2>2
    <3> QED
      BY <3>1, <3>2, <1>3, <2>2
  <2> QED
    BY <2>1, <2>2
<1> QED
  BY <1>1, <1>4, <1>5, <1>6

Unlinked(s, r, t) ==
    /\ r \in Seq(Timers) /\ Distinct(r) /\ ToSet(r) = ToSet(s) \ {t}

LEMMA Unlinking ==
    ASSUME NEW s \in Seq(Timers), NEW t \in ToSet(s), Distinct(s)
    PROVE  Unlinked(s, Unlink(s, t), t)
<1> DEFINE r == Unlink(s, t)
           p == Position(s, t)
<1>1. /\ p \in 1..Len(s) /\ r \in Seq(Timers) /\ Len(r) = Len(s) - 1
      /\ \A i \in 1..Len(s) - 1 : r[i] = IF i < p THEN s[i] ELSE s[i + 1]
  BY UnlinkFacts
<1>2. s[p] = t /\ \A i \in 1..Len(s) : s[i] = t => i = p
  BY PositionFacts
<1> HIDE DEF r, p
<1>3. Distinct(r)
  <2>1. ASSUME NEW i \in DOMAIN r
        PROVE  \E k \in DOMAIN s : r[i] = s[k] /\ k = IF i < p THEN i ELSE i + 1
    BY <1>1
  <2> QED
    BY <1>1, <2>1 DEF Distinct
<1>4. ASSUME NEW i \in DOMAIN r PROVE r[i] \in ToSet(s) /\ r[i] # t
  BY <1>1, <1>2 DEF ToSet
<1>5. ASSUME NEW i \in DOMAIN s, s[i] # t PROVE s[i] \in ToSet(r)
  <2>1. CASE i < p
    <3>1. i \in DOMAIN r /\ r[i] = s[i]
      BY <1>1, <2>1
    <3> QED
      BY <3>1 DEF ToSet
  <2>2. CASE i > p
    <3>1. i - 1 \in DOMAIN r /\ r[i - 1] = s[i]
      BY <1>1, <2>2
    <3> QED
      BY <3>1 DEF ToSet
  <2> QED
    BY <1>1, <1>2, <1>5, <2>1, <2>2
<1>6. ToSet(r) = ToSet(s) \ {t}
  <2>1. \A x \in ToSet(r) : \E i \in DOMAIN r : x = r[i]
    BY DEF ToSet
  <2>2. \A x \in ToSet(s) : \E i \in DOMAIN s : x = s[i]
    BY DEF ToSet
  <2> QED
    BY <2>1, <2>2, <1>4, <1>5
<1> QED
  BY <1>1, <1>3, <1>6 DEF Unlinked, r

-----------------------------------------------------------------------------
(* A wheel w in which t is linked into slot z, and was in no list. *)
LEMMA PushedWheel ==
    ASSUME NEW w \in [Slots -> Seq(Timers)], \A s \in Slots : Distinct(w[s]),
           NEW t \in Timers, \A s \in Slots : t \notin ToSet(w[s]), NEW z \in Slots
    PROVE  /\ Pushed(w, t, z) \in [Slots -> Seq(Timers)]
           /\ \A s \in Slots : Distinct(Pushed(w, t, z)[s])
           /\ \A s \in Slots : ToSet(Pushed(w, t, z)[s]) =
                                  IF s = z THEN ToSet(w[s]) \cup {t} ELSE ToSet(w[s])
<1> DEFINE v == Pushed(w, t, z)
<1>1. v[z] = <<t>> \o w[z] /\ \A s \in Slots : s # z => v[s] = w[s]
  BY DEF Pushed
<1>2. v[z] \in Seq(Timers) /\ Distinct(v[z]) /\ ToSet(v[z]) = ToSet(w[z]) \cup {t}
  <2>1. w[z] \in Seq(Timers)
    OBVIOUS
  <2> QED
    BY <1>1, <2>1, Pushing
<1>3. v \in [Slots -> Seq(Timers)]
  BY <1>1, <1>2 DEF Pushed
<1> HIDE DEF v
<1> QED
  BY <1>1, <1>2, <1>3 DEF v

(* The wheel from which the running timer t is unlinked. *)
LEMMA PoppedWheel ==
    ASSUME WInv, NEW t \in Timers, Running(t)
    PROVE  /\ Popped(t) \in [Slots -> Seq(Timers)]
           /\ \A s \in Slots : Distinct(Popped(t)[s])
           /\ \A s \in Slots : ToSet(Popped(t)[s]) = InSlot(s) \ {t}
           /\ Slot(tm[t].timeout) \in Slots
<1> DEFINE z == Slot(tm[t].timeout)
<1>1. tm[t] \in Timer /\ tm[t].timeout \in Nat
  BY SlotFacts DEF WInv, TypeOK, Timer
<1>2. z \in Slots
  BY <1>1, SlotFacts
<1>3. \A s \in Slots : wheel[s] \in Seq(Timers) /\ Distinct(wheel[s]) /\ ToSet(wheel[s]) = InSlot(s)
  BY DEF WInv, TypeOK, WheelOK, Distinct, InSlot
<1>4. t \in ToSet(wheel[z])
  BY <1>2, <1>3 DEF InSlot
<1>5. Unlinked(wheel[z], Unlink(wheel[z], t), t)
  BY <1>2, <1>3, <1>4, Unlinking
<1>6. Popped(t) = [wheel EXCEPT ![z] = Unlink(wheel[z], t)]
  BY <1>2 DEF Popped
<1>7. \A s \in Slots : s # z => t \notin InSlot(s)
  BY DEF InSlot
<1>8. wheel \in [Slots -> Seq(Timers)]
  BY DEF WInv, TypeOK
<1> HIDE DEF z
<1>9. Popped(t)[z] = Unlink(wheel[z], t) /\ \A s \in Slots : s # z => Popped(t)[s] = wheel[s]
  BY <1>2, <1>6, <1>8
<1>10. Popped(t) \in [Slots -> Seq(Timers)]
  BY <1>5, <1>6, <1>8 DEF Unlinked
<1>11. \A s \in Slots : Distinct(Popped(t)[s])
  BY <1>3, <1>5, <1>9 DEF Unlinked
<1>12. ASSUME NEW s \in Slots PROVE ToSet(Popped(t)[s]) = InSlot(s) \ {t}
  BY <1>3, <1>5, <1>7, <1>9 DEF Unlinked
<1> QED
  BY <1>2, <1>10, <1>11, <1>12 DEF z

-----------------------------------------------------------------------------
Others(t) == \A u \in Timers : u # t => tm'[u] = tm[u]

LEMMA Facts ==
    ASSUME WInv
    PROVE  /\ wheel \in [Slots -> Seq(Timers)] /\ ListsOK
           /\ nofRunning = Cardinality(RunningSet) /\ IsFiniteSet(RunningSet)
           /\ nofRunning \in Nat
           /\ \A t \in Timers : tm[t] \in Timer /\ tm[t].timeout \in Nat
           /\ now \in Tics
<1>1. IsFiniteSet(Timers) /\ RunningSet \subseteq Timers
  BY WheelAssumption DEF RunningSet
<1>2. IsFiniteSet(RunningSet)
  BY <1>1, FS_Subset
<1>3. ListsOK /\ nofRunning = Cardinality(RunningSet)
  BY DEF WInv, WheelOK, ListsOK, Distinct, InSlot, RunningSet
<1>4. ASSUME NEW t \in Timers PROVE tm[t] \in Timer /\ tm[t].timeout \in Nat
  BY SlotFacts DEF WInv, TypeOK, Timer
<1> QED
  BY <1>2, <1>3, <1>4 DEF WInv, TypeOK

(* The wheel agrees again once the lists and the counter do. *)
LEMMA WheelAgain ==
    ASSUME \A s \in Slots : Distinct(wheel'[s]) /\ ToSet(wheel'[s]) = InSlot(s)',
           nofRunning' = Cardinality(RunningSet')
    PROVE  WheelOK'
BY DEF WheelOK, Distinct, InSlot, RunningSet

LEMMA Stopped ==
    ASSUME WInv, NEW t \in Timers, StopTimer(t), tm'[t].mode # "running", Others(t)
    PROVE  wheel' \in [Slots -> Seq(Timers)] /\ nofRunning' \in Nat /\ WheelOK'
<1>1. \A s \in Slots : InSlot(s)' = InSlot(s) \ {t}
  BY DEF InSlot, Running, Others
<1>2. RunningSet' = RunningSet \ {t}
  BY DEF RunningSet, Running, Others
<1>3. CASE Running(t)
  <2>1. wheel' = Popped(t) /\ nofRunning' = nofRunning - 1
    BY <1>3 DEF StopTimer
  <2>2. t \in RunningSet
    BY <1>3 DEF RunningSet
  <2>3. nofRunning' = Cardinality(RunningSet')
    BY <1>2, <2>1, <2>2, Facts, FS_RemoveElement
  <2>4. nofRunning' \in Nat
    <3>1. IsFiniteSet(RunningSet')
      BY <1>2, Facts, FS_RemoveElement
    <3> QED
      BY <2>3, <3>1, FS_CardinalityType
  <2> QED
    BY <1>1, <1>3, <2>1, <2>3, <2>4, PoppedWheel, WheelAgain
<1>4. CASE ~Running(t)
  <2>1. wheel' = wheel /\ nofRunning' = nofRunning
    BY <1>4 DEF StopTimer
  <2>2. \A s \in Slots : InSlot(s)' = InSlot(s)
    BY <1>1, <1>4 DEF InSlot
  <2>3. RunningSet' = RunningSet
    BY <1>2, <1>4 DEF RunningSet
  <2> QED
    BY <2>1, <2>2, <2>3, Facts, WheelAgain DEF ListsOK
<1> QED
  BY <1>3, <1>4

LEMMA Started ==
    ASSUME WInv, NEW t \in Timers, NEW d \in Nat, StartRun(t, d),
           tm'[t].mode = "running", tm'[t].timeout = Later(d), Others(t)
    PROVE  wheel' \in [Slots -> Seq(Timers)] /\ nofRunning' \in Nat /\ WheelOK'
<1> DEFINE z == Slot(Later(d))
<1>1. z \in Slots
  BY SlotFacts, Facts
<1>2. \A s \in Slots : InSlot(s)' = IF s = z THEN InSlot(s) \cup {t} ELSE InSlot(s) \ {t}
  BY DEF InSlot, Running, Others
<1>3. RunningSet' = RunningSet \cup {t}
  BY DEF RunningSet, Running, Others
<1>4. nofRunning' = Cardinality(RunningSet') /\ nofRunning' \in Nat
  <2>1. t \in RunningSet <=> Running(t)
    BY DEF RunningSet
  <2>2. nofRunning' = nofRunning + (IF Running(t) THEN 0 ELSE 1)
    BY DEF StartRun
  <2>3. Cardinality(RunningSet \cup {t}) =
          IF t \in RunningSet THEN Cardinality(RunningSet) ELSE Cardinality(RunningSet) + 1
    BY Facts, FS_AddElement
  <2> QED
    BY <1>3, <2>1, <2>2, <2>3, Facts
<1>5. CASE ~Running(t)
  <2>1. wheel' = Pushed(wheel, t, z)
    BY <1>5 DEF StartRun
  <2>2. \A s \in Slots : t \notin InSlot(s)
    BY <1>5 DEF InSlot
  <2>3. \A s \in Slots : Distinct(wheel[s]) /\ t \notin ToSet(wheel[s]) /\ ToSet(wheel[s]) = InSlot(s)
    BY <2>2, Facts DEF ListsOK
  <2>4. \A s \in Slots : InSlot(s)' = IF s = z THEN InSlot(s) \cup {t} ELSE InSlot(s)
    BY <1>2, <2>2
  <2> HIDE DEF z
  <2>5. wheel' \in [Slots -> Seq(Timers)] /\ \A s \in Slots : Distinct(wheel'[s])
    BY <1>1, <2>1, <2>3, Facts, PushedWheel
  <2>6. \A s \in Slots : ToSet(Pushed(wheel, t, z)[s]) =
                           IF s = z THEN ToSet(wheel[s]) \cup {t} ELSE ToSet(wheel[s])
    <3>1. wheel \in [Slots -> Seq(Timers)] /\ \A s \in Slots : Distinct(wheel[s])
      BY <2>3, Facts
    <3>2. \A s \in Slots : t \notin ToSet(wheel[s])
      BY <2>3
    <3> QED
      BY ONLY <1>1, <3>1, <3>2, PushedWheel, ZenonT(60)
  <2> QED
    BY <1>4, <2>1, <2>3, <2>4, <2>5, <2>6, WheelAgain
<1>6. CASE Running(t) /\ Slot(tm[t].timeout) = z
  <2>1. wheel' = wheel
    BY <1>6 DEF StartRun
  <2>2. t \in InSlot(z) /\ \A s \in Slots : s # z => t \notin InSlot(s)
    BY <1>6 DEF InSlot
  <2>3. \A s \in Slots : InSlot(s)' = InSlot(s)
    BY <1>2, <2>2
  <2> QED
    BY <1>4, <2>1, <2>3, Facts, WheelAgain DEF ListsOK
<1>7. CASE Running(t) /\ Slot(tm[t].timeout) # z
  <2>1. wheel' = Pushed(Popped(t), t, z)
    BY <1>7 DEF StartRun
  <2>2. \A s \in Slots : InSlot(s)' = IF s = z THEN (InSlot(s) \ {t}) \cup {t} ELSE InSlot(s) \ {t}
    BY <1>2
  <2>3. /\ Popped(t) \in [Slots -> Seq(Timers)]
        /\ \A s \in Slots : Distinct(Popped(t)[s]) /\ ToSet(Popped(t)[s]) = InSlot(s) \ {t}
    BY <1>7, PoppedWheel
  <2> HIDE DEF z
  <2> DEFINE w == Popped(t)
  <2>4. \A s \in Slots : t \notin ToSet(w[s])
    BY <2>3
  <2> HIDE DEF w
  <2>5. wheel' = Pushed(w, t, z) /\ w \in [Slots -> Seq(Timers)] /\ \A s \in Slots : Distinct(w[s])
    BY <2>1, <2>3 DEF w
  <2>6. wheel' \in [Slots -> Seq(Timers)] /\ \A s \in Slots : Distinct(wheel'[s])
    BY <1>1, <2>4, <2>5, PushedWheel
  <2>7. \A s \in Slots : ToSet(Pushed(w, t, z)[s]) =
                           IF s = z THEN ToSet(w[s]) \cup {t} ELSE ToSet(w[s])
    BY ONLY <1>1, <2>4, <2>5, PushedWheel, ZenonT(60)
  <2>8. \A s \in Slots : ToSet(w[s]) = InSlot(s) \ {t}
    BY <2>3 DEF w
  <2> QED
    BY <1>4, <2>2, <2>5, <2>6, <2>7, <2>8, WheelAgain
<1> QED
  BY <1>5, <1>6, <1>7

-----------------------------------------------------------------------------
(* Whatever the timers have been set to, an empty wheel is right. *)
LEMMA EmptyOK ==
    ASSUME now \in Tics, tm \in [Timers -> Timer], \A t \in Timers : ~Running(t),
           wheel = [s \in Slots |-> <<>>], nofRunning = 0,
           phase = "idle", it = None, cur = None, touched = FALSE
    PROVE  WInv
<1>1. wheel \in [Slots -> Seq(Timers)] /\ \A s \in Slots : wheel[s] = <<>>
  OBVIOUS
<1>2. RunningSet = {} /\ \A s \in Slots : InSlot(s) = {}
  BY DEF RunningSet, InSlot
<1>3. Cardinality(RunningSet) = 0
  BY <1>2, FS_EmptySet
<1>4. \A s \in Slots : Distinct(wheel[s]) /\ ToSet(wheel[s]) = {}
  BY <1>1 DEF Distinct, ToSet
<1>5. TypeOK
  BY <1>1 DEF TypeOK
<1>6. \A s \in Slots : Distinct(wheel[s]) /\ ToSet(wheel[s]) = InSlot(s)
  BY <1>2, <1>4
<1>7. WheelOK
  BY <1>3, <1>6 DEF WheelOK, Distinct, InSlot, RunningSet
<1> QED
  BY <1>5, <1>7 DEF WInv

LEMMA InitOK == Init => WInv
<1> SUFFICES ASSUME Init PROVE WInv
  OBVIOUS
<1>1. tm \in [Timers -> Timer] /\ now \in Tics
  BY SlotFacts DEF Init, Fresh, Timer
<1>2. \A t \in Timers : ~Running(t)
  BY DEF Init, Fresh, Running
<1> QED
  BY <1>1, <1>2, EmptyOK DEF Init

-----------------------------------------------------------------------------
(* The list that step_all walks. *)
Walked == wheel[Slot(ThisTic)]

LEMMA WalkedFacts ==
    ASSUME WInv
    PROVE  /\ ThisTic \in Tics /\ Slot(ThisTic) \in Slots
           /\ Walked \in Seq(Timers) /\ Distinct(Walked)
           /\ ToSet(Walked) = InSlot(Slot(ThisTic))
           /\ \A t \in Timers : Due(t) => \E i \in DOMAIN Walked : Walked[i] = t
           /\ \A i \in DOMAIN Walked : Walked[i] \in Timers /\ Running(Walked[i])
                                       /\ Slot(tm[Walked[i]].timeout) = Slot(ThisTic)
           /\ None \notin Timers
<1>1. ThisTic \in Tics /\ Slot(ThisTic) \in Slots
  BY SlotFacts, Facts DEF ThisTic
<1>2. Walked \in Seq(Timers) /\ Distinct(Walked) /\ ToSet(Walked) = InSlot(Slot(ThisTic))
  BY <1>1, Facts DEF ListsOK, Walked
<1>3. ASSUME NEW t \in Timers, Due(t) PROVE \E i \in DOMAIN Walked : Walked[i] = t
  <2>1. t \in ToSet(Walked)
    BY <1>2, <1>3 DEF InSlot, Due
  <2> QED
    BY <2>1 DEF ToSet
<1>4. ASSUME NEW i \in DOMAIN Walked
      PROVE  Walked[i] \in Timers /\ Running(Walked[i])
             /\ Slot(tm[Walked[i]].timeout) = Slot(ThisTic)
  <2>1. Walked[i] \in ToSet(Walked)
    BY DEF ToSet
  <2> QED
    BY <1>2, <2>1 DEF InSlot
<1> QED
  BY <1>1, <1>2, <1>3, <1>4, WheelAssumption

AheadOf(s) ==
    /\ it # None => \E p \in DOMAIN s : s[p] = it
    /\ \A i \in DOMAIN s : Due(s[i]) => it # None /\ \E p \in DOMAIN s : s[p] = it /\ p <= i

LEMMA AheadDef == Ahead <=> AheadOf(Walked)
BY DEF Ahead, AheadOf, Walked

(* The iterator, where it is in the list, and what follows it. *)
LEMMA IteratorFacts ==
    ASSUME WInv, Ahead, it # None
    PROVE  \E p \in 1..Len(Walked) :
              /\ Walked[p] = it /\ p = Position(Walked, it) /\ it \in ToSet(Walked)
              /\ Running(it) /\ it \in Timers
              /\ NextOf(it) = IF p < Len(Walked) THEN Walked[p + 1] ELSE None
              /\ \A i \in DOMAIN Walked : Due(Walked[i]) => p <= i
<1>1. PICK p \in DOMAIN Walked : Walked[p] = it
  BY AheadDef DEF AheadOf
<1>2. p \in 1..Len(Walked) /\ it \in ToSet(Walked)
  BY <1>1, WalkedFacts DEF ToSet
<1>3. p = Position(Walked, it)
  BY <1>1, <1>2, WalkedFacts, PositionFacts
<1>4. Running(it) /\ it \in Timers /\ Slot(tm[it].timeout) = Slot(ThisTic)
  BY <1>1, WalkedFacts
<1>5. NextOf(it) = IF p < Len(Walked) THEN Walked[p + 1] ELSE None
  BY <1>3, <1>4 DEF NextOf, Walked
<1>6. \A i \in DOMAIN Walked : Due(Walked[i]) => p <= i
  BY <1>1, AheadDef, WalkedFacts DEF AheadOf, Distinct
<1> QED
  BY <1>1, <1>2, <1>3, <1>4, <1>5, <1>6

-----------------------------------------------------------------------------
(* What a client may do keeps the walk where it was, unless it touches it. *)
LEMMA AheadKept ==
    ASSUME WInv, Locked, phase' # "idle", ~touched'
    PROVE  Ahead'
<1>1. /\ phase = "callback" /\ ~touched /\ ~Touches
      /\ now' = now /\ it' = it
  BY DEF Locked, stepVars, WInv, TypeOK
<1>2. ThisTic' = ThisTic
  BY <1>1 DEF ThisTic, Later
<1>3. Walked' = Walked /\ \A t \in Timers : Due(t)' => Due(t)
  BY <1>1, <1>2 DEF Touches, Walked
<1>4. AheadOf(Walked)
  BY <1>1, AheadDef DEF WInv
<1>5. \A i \in DOMAIN Walked : Due(Walked[i])' => Due(Walked[i])
  <2> SUFFICES ASSUME NEW i \in DOMAIN Walked PROVE Due(Walked[i])' => Due(Walked[i])
    BY <1>3
  <2>1. Walked[i] \in Timers /\ Walked[i]' = Walked[i]
    BY <1>3, WalkedFacts
  <2> QED
    BY <1>2, <1>3, <2>1 DEF Due, Running
<1>6. AheadOf(Walked)'
  BY <1>1, <1>3, <1>4, <1>5 DEF AheadOf
<1> QED
  BY <1>6 DEF Ahead, AheadOf, Walked

(* An operation that keeps types and the wheel keeps the invariant. *)
LEMMA ClientAgain ==
    ASSUME WInv, Locked, tm' \in [Timers -> Timer],
           wheel' \in [Slots -> Seq(Timers)], nofRunning' \in Nat, WheelOK'
    PROVE  WInv'
<1>1. /\ now' \in Tics /\ phase' = phase /\ it' = it /\ cur' = cur
      /\ touched' \in BOOLEAN
  BY DEF WInv, TypeOK, Locked, stepVars
<1>2. TypeOK'
  BY <1>1 DEF WInv, TypeOK
<1> QED
  BY <1>2, AheadKept DEF WInv

(* Where neither a mode nor a timeout changes the wheel stays right. *)
LEMMA Untouched ==
    ASSUME WInv, UNCHANGED <<wheel, nofRunning>>,
           \A t \in Timers : tm'[t].mode = tm[t].mode /\ tm'[t].timeout = tm[t].timeout
    PROVE  wheel' \in [Slots -> Seq(Timers)] /\ nofRunning' \in Nat /\ WheelOK'
<1>1. RunningSet' = RunningSet /\ \A s \in Slots : InSlot(s)' = InSlot(s)
  BY DEF RunningSet, InSlot, Running
<1>2. nofRunning' = Cardinality(RunningSet')
  BY <1>1, Facts
<1>3. \A s \in Slots : Distinct(wheel'[s]) /\ ToSet(wheel'[s]) = InSlot(s)'
  BY <1>1, Facts DEF ListsOK
<1> QED
  BY <1>2, <1>3, Facts, WheelAgain

LEMMA AllocOK == ASSUME WInv, NEW t \in Timers, Alloc(t) PROVE WInv'
<1>1. tm \in [Timers -> Timer]
  BY DEF WInv, TypeOK
<1>2. tm' = [tm EXCEPT ![t].allocated = TRUE] /\ UNCHANGED <<wheel, nofRunning>> /\ Locked
  BY DEF Alloc
<1>3. tm' \in [Timers -> Timer]
  BY <1>1, <1>2 DEF Timer
<1>4. \A u \in Timers : tm'[u].mode = tm[u].mode /\ tm'[u].timeout = tm[u].timeout
  BY <1>1, <1>2 DEF Timer
<1> QED
  BY <1>2, <1>3, <1>4, Untouched, ClientAgain

LEMMA SetOK == ASSUME WInv, NEW t \in Timers, NEW d \in Durs, NEW cb \in BOOLEAN, Set(t, d, cb)
               PROVE  WInv'
<1>1. tm \in [Timers -> Timer] /\ Locked
  BY DEF WInv, TypeOK, Set
<1>2. d \in Nat /\ d \in 0..MaxDur /\ Later(d) \in Tics /\ 0 \in Tics
  BY SlotFacts, Facts
<1>3. CASE Running(t)
  <2> DEFINE r == [allocated |-> TRUE, callback |-> cb \/ tm[t].callback,
                   mode |-> "running", dur |-> d, timeout |-> Later(d)]
  <2>1. StartRun(t, d) /\ tm' = [tm EXCEPT ![t] = r]
    BY <1>3 DEF Set
  <2>2. r \in Timer
    <3>1. (cb \/ tm[t].callback) \in BOOLEAN
      OBVIOUS
    <3> QED
      BY <1>2, <3>1 DEF Timer
  <2>3. r.mode = "running" /\ r.timeout = Later(d)
    OBVIOUS
  <2> HIDE DEF r
  <2>4. tm' \in [Timers -> Timer] /\ tm'[t] = r /\ Others(t)
    BY <1>1, <2>1, <2>2 DEF Others
  <2> QED
    BY <1>1, <1>2, <2>1, <2>3, <2>4, Started, ClientAgain
<1>4. CASE ~Running(t)
  <2> DEFINE r == [allocated |-> TRUE, callback |-> cb \/ tm[t].callback,
                   mode |-> "stopped", dur |-> d, timeout |-> 0]
  <2>1. StopTimer(t) /\ tm' = [tm EXCEPT ![t] = r]
    BY <1>4 DEF Set, StopTimer
  <2>2. r \in Timer
    <3>1. (cb \/ tm[t].callback) \in BOOLEAN
      OBVIOUS
    <3> QED
      BY <1>2, <3>1 DEF Timer
  <2>3. r.mode # "running"
    OBVIOUS
  <2> HIDE DEF r
  <2>4. tm' \in [Timers -> Timer] /\ tm'[t] = r /\ Others(t)
    BY <1>1, <2>1, <2>2 DEF Others
  <2> QED
    BY <1>1, <2>1, <2>3, <2>4, Stopped, ClientAgain
<1> QED
  BY <1>3, <1>4

LEMMA RunOK == ASSUME WInv, NEW t \in Timers, Run(t) PROVE WInv'
<1>1. tm \in [Timers -> Timer] /\ Locked
  BY DEF WInv, TypeOK, Run
<1>2. tm[t].dur \in Nat /\ Later(tm[t].dur) \in Tics
  <2>1. tm[t] \in Timer
    BY <1>1
  <2>2. tm[t].dur \in Nat
    BY <2>1, WheelAssumption DEF Timer
  <2> QED
    BY <2>2, SlotFacts, Facts
<1> DEFINE d == tm[t].dur
           e == Later(d)
<1>3. StartRun(t, d) /\ tm' = [tm EXCEPT ![t].mode = "running", ![t].timeout = e]
  BY DEF Run
<1> HIDE DEF d, e
<1>4. tm' \in [Timers -> Timer] /\ tm'[t].mode = "running" /\ tm'[t].timeout = e /\ Others(t)
  BY <1>1, <1>2, <1>3 DEF Timer, Others, e, d
<1> QED
  BY <1>1, <1>2, <1>3, <1>4, Started, ClientAgain DEF d, e

LEMMA StopOK == ASSUME WInv, NEW t \in Timers, Stop(t) PROVE WInv'
<1>1. tm \in [Timers -> Timer] /\ Locked /\ StopTimer(t)
  BY DEF WInv, TypeOK, Stop
<1>2. tm' = [tm EXCEPT ![t].mode = IF Running(t) THEN "stopped" ELSE tm[t].mode]
  BY DEF Stop
<1>3. tm' \in [Timers -> Timer] /\ Others(t) /\ tm'[t].mode # "running"
  BY <1>1, <1>2 DEF Timer, Others, Running
<1> QED
  BY <1>1, <1>3, Stopped, ClientAgain

LEMMA ReleaseOK == ASSUME WInv, NEW t \in Timers, Release(t) PROVE WInv'
<1>1. tm \in [Timers -> Timer] /\ Locked /\ StopTimer(t) /\ tm' = [tm EXCEPT ![t] = Fresh]
  BY DEF WInv, TypeOK, Release
<1>2. Fresh \in Timer /\ Fresh.mode # "running"
  BY SlotFacts DEF Fresh, Timer
<1>3. tm' \in [Timers -> Timer] /\ Others(t) /\ tm'[t].mode # "running"
  BY <1>1, <1>2 DEF Others
<1> QED
  BY <1>1, <1>3, Stopped, ClientAgain

-----------------------------------------------------------------------------
(* Steps that leave every timer alone. *)
LEMMA Calm ==
    ASSUME WInv, UNCHANGED <<tm, wheel, nofRunning>>, now' \in Tics,
           phase' \in {"idle", "walk", "callback"}, it' \in Timers \cup {None},
           cur' \in Timers \cup {None}, touched' \in BOOLEAN
    PROVE  TypeOK' /\ WheelOK'
<1>1. WheelOK'
  BY Untouched
<1> QED
  BY <1>1 DEF WInv, TypeOK

LEMMA NextOfType == ASSUME WInv, it \in Timers PROVE NextOf(it) \in Timers \cup {None}
<1> DEFINE s == wheel[Slot(tm[it].timeout)]
           q == Position(s, it)
<1>1. Slot(tm[it].timeout) \in Slots
  BY Facts, SlotFacts
<1>2. s \in Seq(Timers) /\ Distinct(s) /\ ToSet(s) = InSlot(Slot(tm[it].timeout))
  BY <1>1, Facts DEF ListsOK
<1>3. CASE Running(it)
  <2>1. it \in ToSet(s)
    BY <1>2, <1>3 DEF InSlot
  <2>2. q \in 1..Len(s)
    BY <1>2, <2>1, PositionFacts
  <2>3. NextOf(it) = IF q < Len(s) THEN s[q + 1] ELSE None
    BY <1>3 DEF NextOf
  <2> HIDE DEF s, q
  <2> QED
    BY <1>2, <2>2, <2>3
<1>4. CASE ~Running(it)
  BY <1>4 DEF NextOf
<1> QED
  BY <1>3, <1>4

LEMMA StepBeginOK == ASSUME WInv, StepBegin PROVE WInv'
<1>1. /\ UNCHANGED <<now, tm, wheel, nofRunning, cur>> /\ phase' = "walk" /\ touched' = FALSE
      /\ it' = IF Walked = <<>> THEN None ELSE Walked[1]
  BY DEF StepBegin, Walked
<1>2. Walked' = Walked
  BY <1>1 DEF Walked, ThisTic, Later
<1>3. Walked # <<>> => 1 \in DOMAIN Walked
  BY WalkedFacts
<1>4. it' \in Timers \cup {None}
  BY <1>1, <1>3, WalkedFacts
<1>5. TypeOK' /\ WheelOK'
  BY <1>1, <1>4, Calm DEF WInv, TypeOK
<1>6. CASE Walked = <<>>
  BY <1>1, <1>2, <1>6, <1>5 DEF WInv, Ahead, Walked
<1>7. CASE Walked # <<>>
  <2>1. it' = Walked[1] /\ 1 \in DOMAIN Walked /\ it' # None
    BY <1>1, <1>3, <1>7, WalkedFacts
  <2>2. \A i \in DOMAIN Walked : 1 <= i
    BY WalkedFacts
  <2>3. AheadOf(Walked)'
    BY <1>2, <2>1, <2>2 DEF AheadOf
  <2> QED
    BY <1>5, <2>3 DEF WInv, Ahead, AheadOf, Walked
<1> QED
  BY <1>6, <1>7

LEMMA SkipTimerOK == ASSUME WInv, SkipTimer PROVE WInv'
<1>1. /\ UNCHANGED <<now, tm, wheel, nofRunning, phase, cur, touched>>
      /\ phase = "walk" /\ it # None /\ it' = NextOf(it)
      /\ tm[it].timeout # ThisTic
  BY DEF SkipTimer
<1>2. it \in Timers /\ it' \in Timers \cup {None}
  BY <1>1, NextOfType DEF WInv, TypeOK
<1>3. TypeOK' /\ WheelOK'
  BY <1>1, <1>2, Calm DEF WInv, TypeOK
<1>4. ASSUME ~touched PROVE AheadOf(Walked)'
  <2>1. Ahead
    BY <1>1, <1>4 DEF WInv
  <2>2. PICK p \in 1..Len(Walked) :
              /\ Walked[p] = it /\ Running(it)
              /\ NextOf(it) = IF p < Len(Walked) THEN Walked[p + 1] ELSE None
              /\ \A i \in DOMAIN Walked : Due(Walked[i]) => p <= i
    BY <1>1, <2>1, IteratorFacts
  <2>3. ~Due(Walked[p])
    BY <1>1, <2>2 DEF Due
  <2>4. /\ DOMAIN Walked = 1..Len(Walked) /\ Len(Walked) \in Nat
        /\ \A i \in DOMAIN Walked : Walked[i] # None
    BY WalkedFacts
  <2>5. ASSUME NEW i \in DOMAIN Walked, Due(Walked[i])
        PROVE  p + 1 <= i /\ p + 1 \in DOMAIN Walked /\ it' = Walked[p + 1] /\ it' # None
    <3>1. p + 1 <= i
      BY <2>2, <2>3, <2>4, <2>5
    <3>2. p + 1 \in DOMAIN Walked /\ p < Len(Walked)
      BY <2>4, <3>1
    <3> QED
      BY <1>1, <2>2, <2>4, <3>1, <3>2
  <2>6. it' # None => p + 1 \in DOMAIN Walked /\ Walked[p + 1] = it'
    BY <1>1, <2>2, <2>4
  <2>7. Walked' = Walked /\ \A t \in Timers : Due(t)' = Due(t)
    BY <1>1 DEF Walked, ThisTic, Later, Due, Running
  <2>8. \A i \in DOMAIN Walked : Due(Walked[i])' => Due(Walked[i])
    BY <1>1, <2>7 DEF Due, Running, ThisTic, Later
  <2> QED
    BY <2>5, <2>6, <2>7, <2>8 DEF AheadOf
<1> QED
  BY <1>1, <1>3, <1>4 DEF WInv, Ahead, AheadOf, Walked

LEMMA CallbackReturnsOK == ASSUME WInv, CallbackReturns PROVE WInv'
<1>1. /\ UNCHANGED <<now, tm, wheel, nofRunning, it, touched>>
      /\ phase = "callback" /\ phase' = "walk" /\ cur' = None
  BY DEF CallbackReturns
<1>2. TypeOK' /\ WheelOK'
  BY <1>1, Calm DEF WInv, TypeOK
<1>3. Ahead' = Ahead
  BY <1>1 DEF Ahead, Due, Running, ThisTic, Later
<1> QED
  BY <1>1, <1>2, <1>3 DEF WInv

LEMMA StepEndOK == ASSUME WInv, StepEnd PROVE WInv'
<1>1. /\ UNCHANGED <<tm, wheel, nofRunning, it, cur, touched>>
      /\ phase' = "idle" /\ now' = ThisTic
  BY DEF StepEnd
<1>2. TypeOK' /\ WheelOK'
  BY <1>1, WalkedFacts, Calm DEF WInv, TypeOK
<1> QED
  BY <1>1, <1>2 DEF WInv

(* The timer leaves the list, the iterator is one further. *)
LEMMA ExpireOK == ASSUME WInv, Expire PROVE WInv'
<1>1. /\ phase = "walk" /\ it # None /\ it' = NextOf(it) /\ StopTimer(it)
      /\ UNCHANGED <<now, touched>>
      /\ tm' = [tm EXCEPT ![it].mode = IF Running(it) THEN "expired" ELSE tm[it].mode]
  BY DEF Expire
<1>2. it \in Timers /\ it' \in Timers \cup {None} /\ tm \in [Timers -> Timer]
  BY <1>1, NextOfType DEF WInv, TypeOK
<1>3. tm' \in [Timers -> Timer] /\ Others(it) /\ tm'[it].mode # "running"
  BY <1>1, <1>2 DEF Timer, Others, Running
<1>4. wheel' \in [Slots -> Seq(Timers)] /\ nofRunning' \in Nat /\ WheelOK'
  BY <1>1, <1>2, <1>3, Stopped
<1>5. phase' \in {"idle", "walk", "callback"} /\ cur' \in Timers \cup {None}
  BY <1>2 DEF Expire, WInv, TypeOK
<1>6. TypeOK'
  BY <1>1, <1>2, <1>3, <1>4, <1>5 DEF WInv, TypeOK
<1>7. ASSUME ~touched PROVE AheadOf(Walked)'
  <2> DEFINE r == Unlink(Walked, it)
             n == Len(Walked)
  <2>1. Ahead
    BY <1>1, <1>7 DEF WInv
  <2>2. PICK p \in 1..n :
              /\ Walked[p] = it /\ p = Position(Walked, it) /\ it \in ToSet(Walked) /\ Running(it)
              /\ NextOf(it) = IF p < n THEN Walked[p + 1] ELSE None
              /\ \A i \in DOMAIN Walked : Due(Walked[i]) => p <= i
    BY <1>1, <2>1, IteratorFacts
  <2>3. Slot(tm[it].timeout) = Slot(ThisTic)
    BY <2>2, WalkedFacts
  <2>4. Walked' = r
    <3>1. wheel' = [wheel EXCEPT ![Slot(ThisTic)] = Unlink(wheel[Slot(ThisTic)], it)]
      BY <1>1, <2>2, <2>3, WalkedFacts, Facts DEF StopTimer, Popped
    <3>2. ThisTic' = ThisTic
      BY <1>1 DEF ThisTic, Later
    <3> QED
      BY <3>1, <3>2, WalkedFacts, Facts DEF Walked
  <2>5. /\ r \in Seq(Timers) /\ Len(r) = n - 1
        /\ \A i \in 1..n - 1 : r[i] = IF i < p THEN Walked[i] ELSE Walked[i + 1]
    BY <2>2, WalkedFacts, UnlinkFacts
  <2>6. DOMAIN Walked = 1..n /\ n \in Nat /\ DOMAIN r = 1..n - 1
        /\ \A i \in DOMAIN Walked : Walked[i] # None
    BY <2>5, WalkedFacts
  <2> HIDE DEF r, n
  <2>7. it' # None => p \in DOMAIN r /\ r[p] = it'
    BY <1>1, <2>2, <2>5, <2>6
  <2>8. ASSUME NEW i \in DOMAIN r, NEW u \in Timers, u = r[i], Due(u)'
        PROVE  it' # None /\ p \in DOMAIN r /\ r[p] = it' /\ p <= i
    <3>1. Due(u)
      BY <1>1, <1>3, <2>8 DEF Due, Running, Others, ThisTic, Later
    <3>2. Due(r[i])
      BY <2>8, <3>1
    <3>3. ~(i < p)
      BY <2>2, <2>5, <2>6, <3>2
    <3>4. p < n /\ p \in DOMAIN r /\ r[p] = Walked[p + 1]
      BY <2>2, <2>5, <2>6, <3>3
    <3> QED
      BY <1>1, <2>2, <2>6, <3>3, <3>4
  <2>9. ASSUME NEW i \in DOMAIN Walked', Due(Walked[i])'
        PROVE  it' # None /\ p \in DOMAIN r /\ r[p] = it' /\ p <= i
    <3>1. i \in DOMAIN r /\ r[i] \in Timers /\ Walked'[i] = r[i]
      BY <2>4, <2>5, <2>9
    <3>2. PICK u \in Timers : u = r[i]
      BY <3>1
    <3>3. Due(u)'
      BY <2>9, <3>1, <3>2 DEF Due, Running
    <3> QED
      BY <2>8, <3>1, <3>2, <3>3
  <2>10. it' # None => \E q \in DOMAIN Walked' : Walked'[q] = it'
    BY <2>4, <2>7
  <2>11. ASSUME NEW i \in DOMAIN Walked', Due(Walked[i])'
         PROVE  it' # None /\ \E q \in DOMAIN Walked' : Walked'[q] = it' /\ q <= i
    BY <2>4, <2>9, <2>11
  <2> QED
    BY <2>10, <2>11 DEF AheadOf
<1> QED
  BY <1>1, <1>4, <1>6, <1>7 DEF WInv, Ahead, AheadOf, Walked

-----------------------------------------------------------------------------
LEMMA WInvInductive == WInv /\ [Next]_vars => WInv'
<1> SUFFICES ASSUME WInv, [Next]_vars PROVE WInv'
  OBVIOUS
<1>1. CASE Client
  <2>1. PICK t \in Timers :
           \/ Alloc(t) \/ Run(t) \/ Stop(t) \/ Release(t)
           \/ \E d \in Durs, cb \in BOOLEAN : Set(t, d, cb)
    BY <1>1 DEF Client
  <2> QED
    BY <2>1, AllocOK, RunOK, StopOK, ReleaseOK, SetOK
<1>2. CASE Step
  BY <1>2, StepBeginOK, SkipTimerOK, ExpireOK, CallbackReturnsOK, StepEndOK DEF Step
<1>3. CASE UNCHANGED vars
  <2>1. /\ UNCHANGED <<tm, wheel, nofRunning>>
        /\ now' = now /\ phase' = phase /\ it' = it /\ cur' = cur /\ touched' = touched
    BY <1>3 DEF vars, stepVars
  <2>2. TypeOK' /\ WheelOK'
    BY <2>1, Calm DEF WInv, TypeOK
  <2>3. Ahead' = Ahead
    BY <2>1 DEF Ahead, Due, Running, ThisTic, Later
  <2> QED
    BY <2>1, <2>2, <2>3 DEF WInv
<1> QED
  BY <1>1, <1>2, <1>3 DEF Next

LEMMA Invariant == Spec => []WInv
BY InitOK, WInvInductive, PTL DEF Spec

(* Every variable keeps its type. *)
THEOREM TypeCorrect == Spec => []TypeOK
<1>1. WInv => TypeOK
  BY DEF WInv
<1> QED
  BY <1>1, Invariant, PTL

(* The wheel holds the running timers, each once, in the slot of its       *)
(* timeout, and nof_timers_running_ counts them, whatever callbacks do.    *)
THEOREM WheelCorrect == Spec => []WheelOK
<1>1. WInv => WheelOK
  BY DEF WInv
<1> QED
  BY <1>1, Invariant, PTL

(* A step_all whose list nobody touched leaves no due timer behind. *)
LEMMA NoneDue == ASSUME WInv, StepEnd, ~touched, NEW t \in Timers PROVE ~Due(t)
<1>1. it = None /\ Ahead
  BY DEF StepEnd, WInv
<1>2. \A i \in DOMAIN Walked : ~Due(Walked[i])
  BY <1>1, AheadDef DEF AheadOf
<1> QED
  BY <1>2, WalkedFacts

(* A step_all during which nobody touched the list it walks leaves no      *)
(* timer of its TTI behind.                                                *)
THEOREM AllDueCalled == Spec => NoneLeftBehind
<1>1. WInv /\ [Next]_vars => [StepEnd /\ ~touched => \A t \in Timers : ~Due(t)]_vars
  BY NoneDue
<1> QED
  BY <1>1, Invariant, PTL DEF Spec, NoneLeftBehind

(* and calls no callback of a timer that does not run. *)
THEOREM NoStrayCallback == Spec => OnlyRunningCalled
<1>1. ASSUME WInv, Next, cur # cur', cur' # None, ~touched PROVE Running(cur')
  <2>1. CASE Expire
    <3>1. phase = "walk" /\ it # None /\ cur' = it
      BY <1>1, <2>1 DEF Expire
    <3>2. Ahead
      BY <1>1, <3>1 DEF WInv
    <3> QED
      BY <1>1, <3>1, <3>2, IteratorFacts
  <2>2. CASE Client
    BY <1>1, <2>2 DEF Client, Alloc, Set, Run, Stop, Release, Locked, stepVars
  <2>3. CASE StepBegin \/ SkipTimer \/ CallbackReturns \/ StepEnd
    BY <1>1, <2>3 DEF StepBegin, SkipTimer, CallbackReturns, StepEnd
  <2> QED
    BY <1>1, <2>1, <2>2, <2>3 DEF Next, Step
<1>2. WInv /\ [Next]_vars => [cur # cur' /\ cur' # None /\ ~touched => Running(cur')]_vars
  BY <1>1
<1> QED
  BY <1>2, Invariant, PTL DEF Spec, OnlyRunningCalled
=============================================================================
