------------------------ MODULE PrachWorker_proofs --------------------------
(***************************************************************************)
(* Proofs about PrachWorker, for every number of buffers, preamble length  *)
(* and set of opportunities that PrachAssumption allows.                   *)
(***************************************************************************)
EXTENDS PrachWorker, TLAPS

Running == mainPc \in {"run", "flag"}

(* Free buffers are empty, and the capture under way began sfCnt ago.      *)
CaptureInv ==
    /\ \A x \in free : buf[x].n = 0
    /\ sfCnt > 0 => current \in Buffers /\ tti = buf[current].tti + sfCnt

(* The thread only meets nullptr, or a cleared flag, after stop().         *)
ThreadInv ==
    /\ wpc = "detect" => b \in Buffers
    /\ Running /\ wpc \in {"pop", "got", "detect"} => running
    /\ Running /\ wpc = "got" => b \in Buffers
    /\ Running \/ mainPc = "push" => \A i \in 1..Len(queue) : queue[i] \in Buffers

(* The inductive invariant. *)
PInv == TypeOK /\ OwnedOnce /\ PreambleIntact /\ CaptureInv /\ ThreadInv

-----------------------------------------------------------------------------
LEMMA QueueAppend ==
    ASSUME NEW S, NEW s \in Seq(S), NEW e \in S
    PROVE  /\ Append(s, e) \in Seq(S) /\ Len(Append(s, e)) = Len(s) + 1
           /\ \A i \in 1..Len(s) : Append(s, e)[i] = s[i]
           /\ Append(s, e)[Len(s) + 1] = e
           /\ 1..Len(s) + 1 = (1..Len(s)) \cup {Len(s) + 1}
  OBVIOUS

LEMMA QueueTail ==
    ASSUME NEW S, NEW s \in Seq(S), s # <<>>
    PROVE  /\ Tail(s) \in Seq(S) /\ Len(Tail(s)) = Len(s) - 1
           /\ \A i \in 1..Len(Tail(s)) : i + 1 \in 1..Len(s) /\ Tail(s)[i] = s[i + 1]
           /\ \A i \in 1..Len(s) : i # 1 => i - 1 \in 1..Len(Tail(s)) /\ s[i] = Tail(s)[i - 1]
           /\ Head(s) = s[1] /\ Head(s) \in S /\ 1 \in 1..Len(s)
  OBVIOUS

(* What a capture has stored after one more subframe. *)
LEMMA StoredFacts ==
    ASSUME PInv, NEW x \in Buffers,
           \/ sfCnt > 0 /\ x = current
           \/ sfCnt = 0 /\ tti \in Opps /\ x \in free
    PROVE  /\ buf[x].n = sfCnt /\ buf[x].n < Room
           /\ Stored(x).n = sfCnt + 1
           /\ Stored(x).tti \in Opps /\ Stored(x).tti \in Nat
           /\ Stored(x).tti + sfCnt = tti
           /\ Stored(x).sf \in [Slots -> Nat \cup {Null}]
           /\ \A i \in 0..sfCnt : Stored(x).sf[i] = Stored(x).tti + i
           /\ Stored(x) \in [n : 0..NofSf, tti : Nat, sf : [Slots -> Nat \cup {Null}]]
<1> USE DEF PInv
<1>1. sfCnt \in Slots /\ sfCnt \in Nat /\ sfCnt < NofSf /\ tti \in Nat
      /\ NofSf \in Nat /\ Room \in Nat /\ NofSf <= Room /\ Opps \subseteq Nat
      /\ buf[x] \in [n : 0..NofSf, tti : Nat, sf : [Slots -> Nat \cup {Null}]]
  BY PrachAssumption DEF TypeOK, Slots
<1>2. buf[x].n = sfCnt
  BY <1>1 DEF CaptureInv, PreambleIntact, Holds
<1>3. /\ Stored(x).n = buf[x].n + 1
      /\ Stored(x).tti = IF sfCnt = 0 THEN tti ELSE buf[x].tti
      /\ Stored(x).sf = [buf[x].sf EXCEPT ![sfCnt] = tti]
  BY DEF Stored
<1>4. Stored(x).tti \in Opps /\ Stored(x).tti + sfCnt = tti
  BY <1>1, <1>3 DEF CaptureInv, PreambleIntact, Holds
<1>5. Stored(x).sf \in [Slots -> Nat \cup {Null}]
  BY <1>1, <1>3
<1>6. \A i \in 0..sfCnt : Stored(x).sf[i] = Stored(x).tti + i
  <2> SUFFICES ASSUME NEW i \in 0..sfCnt PROVE Stored(x).sf[i] = Stored(x).tti + i
    OBVIOUS
  <2>1. i \in Slots
    BY <1>1 DEF Slots
  <2>2. CASE i = sfCnt
    BY <2>1, <2>2, <1>1, <1>3, <1>4
  <2>3. CASE i # sfCnt
    <3>1. i \in 0..sfCnt - 1 /\ sfCnt > 0
      BY <2>3, <1>1
    <3>2. buf[x].sf[i] = buf[x].tti + i
      BY <3>1 DEF PreambleIntact, Holds
    <3> QED BY <3>1, <3>2, <2>1, <2>3, <1>1, <1>3
  <2> QED BY <2>2, <2>3
<1>7. Stored(x) \in [n : 0..NofSf, tti : Nat, sf : [Slots -> Nat \cup {Null}]]
  <2>1. sfCnt + 1 \in 0..NofSf
    BY <1>1
  <2> QED BY <2>1, <1>1, <1>2, <1>3, <1>4, <1>5 DEF Stored
<1> QED BY <1>1, <1>2, <1>3, <1>4, <1>5, <1>6, <1>7

(* The three ways a subframe of a preamble ends up: in an unfinished       *)
(* capture, in one pushed to the thread, in one examined by TXRX itself.   *)
LEMMA CaptureStep ==
    ASSUME PInv, NEW x \in Buffers, NEW others \in SUBSET Buffers,
           \/ sfCnt > 0 /\ x = current /\ others = free
           \/ sfCnt = 0 /\ tti \in Opps /\ x \in free /\ others = free \ {x},
           mainPc = "run", tti < MaxTti, tti' = tti + 1,
           Capture(x, others), UNCHANGED <<running, thrVars, mainPc>>
    PROVE  PInv'
<1> DEFINE s == Stored(x)
<1>1. /\ buf[x].n = sfCnt /\ buf[x].n < Room /\ s.n = sfCnt + 1
      /\ s.tti \in Opps /\ s.tti \in Nat /\ s.tti + sfCnt = tti
      /\ \A i \in 0..sfCnt : s.sf[i] = s.tti + i
      /\ s \in [n : 0..NofSf, tti : Nat, sf : [Slots -> Nat \cup {Null}]]
  BY StoredFacts
<1>2. /\ TypeOK /\ OwnedOnce /\ PreambleIntact /\ CaptureInv /\ ThreadInv
      /\ sfCnt \in Nat /\ sfCnt < NofSf /\ NofSf \in Nat /\ tti \in Nat /\ MaxTti \in Nat
      /\ Null \notin Buffers /\ 0 \in Slots
  BY PrachAssumption DEF PInv, TypeOK, Slots
<1>3. /\ current' = x /\ tti' = tti + 1 /\ skipped' = skipped
      /\ sfCnt' = IF sfCnt + 1 = NofSf THEN 0 ELSE sfCnt + 1
      /\ running' = running /\ wpc' = wpc /\ b' = b /\ failed' = failed /\ mainPc' = mainPc
  BY <1>1 DEF Capture, thrVars
<1>4. x \notin others /\ x \notin Queued /\ x \notin InHand /\ others \subseteq free
  BY <1>2 DEF OwnedOnce, Filling
<1>5. InHand' = InHand
  BY <1>3 DEF InHand
<1>6. free \cup Filling = others \cup {x}
  BY <1>2 DEF Filling
<1>7. others \cap (Queued \cup InHand) = {} /\ others \cup {x} \cup Queued \cup InHand = Buffers
  BY <1>2, <1>4, <1>6 DEF OwnedOnce
<1>8. \A y \in InHand \cup Queued : y \in Buffers /\ y # x
  BY <1>2, <1>4, <1>7
<1> HIDE DEF s
<1>9. CASE sfCnt + 1 # NofSf
  <2>1. /\ sfCnt' = sfCnt + 1 /\ buf' = [buf EXCEPT ![x] = s]
        /\ free' = others /\ queue' = queue /\ examined' = examined
    BY <1>1, <1>2, <1>3, <1>9 DEF Capture, s
  <2>2. TypeOK'
    BY <1>1, <1>2, <1>3, <1>9, <2>1, SMTT(30) DEF TypeOK, Slots
  <2>3. Queued' = Queued /\ Filling' = {x}
    BY <1>2, <1>3, <2>1 DEF Queued, Filling
  <2>4. OwnedOnce'
    BY <1>2, <1>4, <1>5, <1>7, <2>1, <2>3 DEF OwnedOnce
  <2>5. \A y \in Buffers : buf'[y] = IF y = x THEN s ELSE buf[y]
    BY <2>1, <1>2 DEF TypeOK
  <2>6. PreambleIntact'
    <3>1. Holds(current, sfCnt)'
      BY <1>1, <1>2, <1>3, <2>1, <2>5 DEF Holds
    <3>2. \A y \in Queued \cup InHand : Holds(y, NofSf)'
      BY <1>2, <1>8, <2>5 DEF PreambleIntact, Holds
    <3> QED BY <3>1, <3>2, <1>5, <2>3 DEF PreambleIntact
  <2>7. CaptureInv'
    BY <1>1, <1>2, <1>3, <1>4, <2>1, <2>5 DEF CaptureInv
  <2>8. ThreadInv'
    BY <1>2, <1>3, <2>1 DEF ThreadInv, Running
  <2> QED BY <2>2, <2>4, <2>6, <2>7, <2>8 DEF PInv
<1>10. CASE sfCnt + 1 = NofSf /\ HasThread
  <2>1. /\ sfCnt' = 0 /\ buf' = [buf EXCEPT ![x] = s]
        /\ free' = others /\ queue' = Append(queue, x) /\ examined' = examined
    BY <1>1, <1>2, <1>3, <1>10 DEF Capture, Complete, Enqueue, s
  <2>2. queue \in Seq(Buffers \cup {Null}) /\ x \in Buffers \cup {Null}
    BY <1>2 DEF TypeOK
  <2>3. /\ queue' \in Seq(Buffers \cup {Null}) /\ Len(queue') = Len(queue) + 1
        /\ \A i \in 1..Len(queue) : queue'[i] = queue[i]
        /\ queue'[Len(queue) + 1] = x
        /\ 1..Len(queue) + 1 = (1..Len(queue)) \cup {Len(queue) + 1}
    BY <2>1, <2>2, QueueAppend
  <2>4. TypeOK'
    BY <1>1, <1>2, <1>3, <2>1, <2>3, SMTT(30) DEF TypeOK
  <2>5. Queued' = Queued \cup {x} /\ Filling' = {}
    BY <1>2, <2>1, <2>3 DEF Queued, Filling
  <2>6. \A i \in 1..Len(queue) : queue[i] # x
    BY <1>2, <1>4 DEF Queued
  <2>7. \A i, j \in 1..Len(queue') : queue'[i] = queue'[j] => i = j
    BY <1>2, <2>3, <2>6 DEF OwnedOnce
  <2>8. OwnedOnce'
    <3>1. /\ free' \cap (Filling' \cup Queued' \cup InHand') = {}
          /\ Filling' \cap (Queued' \cup InHand') = {}
          /\ free' \cup Filling' \cup Queued' \cup InHand' = Buffers
      BY <1>4, <1>5, <1>7, <2>1, <2>5
    <3>2. Queued' \cap InHand' = {}
      BY <1>2, <1>4, <1>5, <2>5 DEF OwnedOnce
    <3> QED BY <2>7, <3>1, <3>2 DEF OwnedOnce
  <2>9. \A y \in Buffers : buf'[y] = IF y = x THEN s ELSE buf[y]
    BY <2>1, <1>2 DEF TypeOK
  <2>10. PreambleIntact'
    <3>1. Holds(x, NofSf)'
      BY <1>1, <1>2, <1>10, <2>9 DEF Holds
    <3>2. \A y \in Queued \cup InHand : Holds(y, NofSf)'
      BY <1>2, <1>8, <2>9 DEF PreambleIntact, Holds
    <3> QED BY <3>1, <3>2, <1>5, <2>1, <2>5 DEF PreambleIntact
  <2>11. CaptureInv'
    BY <1>2, <1>4, <2>1, <2>9 DEF CaptureInv
  <2>12. ThreadInv'
    BY <1>2, <1>3, <2>3 DEF ThreadInv, Running
  <2> QED BY <2>4, <2>8, <2>10, <2>11, <2>12 DEF PInv
<1>11. CASE sfCnt + 1 = NofSf /\ ~HasThread
  <2>1. /\ sfCnt' = 0 /\ buf' = [buf EXCEPT ![x] = Reset(s)]
        /\ free' = others \cup {x} /\ queue' = queue
        /\ examined' = Append(examined, s.tti)
    BY <1>1, <1>2, <1>3, <1>11 DEF Capture, Complete, Enqueue, s
  <2>2. /\ Reset(s) \in [n : 0..NofSf, tti : Nat, sf : [Slots -> Nat \cup {Null}]]
        /\ Reset(s).n = 0
    BY <1>1, <1>2 DEF Reset
  <2>3. TypeOK'
    <3>1. buf' \in [Buffers -> [n : 0..NofSf, tti : Nat, sf : [Slots -> Nat \cup {Null}]]]
      BY <1>2, <2>1, <2>2 DEF TypeOK
    <3>2. examined' \in Seq(Nat)
      BY <1>1, <1>2, <2>1 DEF TypeOK
    <3> QED BY <1>2, <1>3, <2>1, <3>1, <3>2 DEF TypeOK
  <2>4. Queued' = Queued /\ Filling' = {}
    BY <1>2, <2>1 DEF Queued, Filling
  <2>5. OwnedOnce'
    BY <1>2, <1>4, <1>5, <1>7, <2>1, <2>4 DEF OwnedOnce
  <2>6. \A y \in Buffers : buf'[y] = IF y = x THEN Reset(s) ELSE buf[y]
    BY <2>1, <1>2 DEF TypeOK
  <2>7. PreambleIntact'
    BY <1>2, <1>5, <1>8, <2>1, <2>4, <2>6 DEF PreambleIntact, Holds
  <2>8. CaptureInv'
    BY <1>2, <1>4, <2>1, <2>2, <2>6 DEF CaptureInv
  <2>9. ThreadInv'
    BY <1>2, <1>3, <2>1 DEF ThreadInv, Running
  <2> QED BY <2>3, <2>5, <2>7, <2>8, <2>9 DEF PInv
<1> QED BY <1>9, <1>10, <1>11

LEMMA InitPInv == Init => PInv
<1> SUFFICES ASSUME Init PROVE PInv
  OBVIOUS
<1> USE PrachAssumption DEF Init
<1>1. Clean \in [Slots -> Nat \cup {Null}] /\ 0 \in Slots
  BY DEF Clean, Slots
<1>2. TypeOK
  <2>1. [n |-> 0, tti |-> 0, sf |-> Clean]
          \in [n : 0..NofSf, tti : Nat, sf : [Slots -> Nat \cup {Null}]]
    BY <1>1
  <2>2. buf \in [Buffers -> [n : 0..NofSf, tti : Nat, sf : [Slots -> Nat \cup {Null}]]]
    BY <2>1
  <2>3. tti \in 0..MaxTti /\ queue \in Seq(Buffers \cup {Null}) /\ examined \in Seq(Nat)
    OBVIOUS
  <2> QED BY <1>1, <2>2, <2>3 DEF TypeOK
<1>3. Queued = {} /\ Filling = {} /\ InHand = {}
  BY DEF Queued, Filling, InHand
<1>4. OwnedOnce /\ PreambleIntact
  BY <1>3 DEF OwnedOnce, PreambleIntact
<1>5. CaptureInv /\ ThreadInv
  BY DEF CaptureInv, ThreadInv, Running
<1> QED BY <1>2, <1>4, <1>5 DEF PInv

LEMMA NewTtiPInv == PInv /\ NewTti => PInv'
<1> SUFFICES ASSUME PInv, NewTti PROVE PInv'
  OBVIOUS
<1>1. /\ TypeOK /\ OwnedOnce /\ PreambleIntact /\ CaptureInv /\ ThreadInv
      /\ tti \in Nat /\ MaxTti \in Nat /\ sfCnt \in Nat
  BY PrachAssumption DEF PInv, TypeOK, Slots
<1>2. /\ mainPc = "run" /\ tti < MaxTti /\ tti' = tti + 1
      /\ UNCHANGED <<running, thrVars, mainPc>>
  BY DEF NewTti
<1>3. CASE sfCnt > 0 /\ Capture(current, free)
  BY <1>1, <1>2, <1>3, CaptureStep DEF CaptureInv, TypeOK
<1>4. CASE sfCnt = 0 /\ tti \in Opps /\ \E x \in free : Capture(x, free \ {x})
  <2>1. PICK x \in free : Capture(x, free \ {x})
    BY <1>4
  <2> QED BY <1>1, <1>2, <1>4, <2>1, CaptureStep DEF TypeOK
<1>5. CASE /\ sfCnt = 0 /\ UNCHANGED <<sfCnt, poolVars>>
           /\ current' \in {Null, current} /\ skipped' \in {skipped, skipped \cup ({tti} \cap Opps)}
  <2>1. /\ sfCnt' = sfCnt /\ free' = free /\ buf' = buf /\ queue' = queue /\ examined' = examined
        /\ running' = running /\ wpc' = wpc /\ b' = b /\ failed' = failed /\ mainPc' = mainPc
    BY <1>2, <1>5 DEF poolVars, thrVars
  <2>2. TypeOK'
    BY <1>1, <1>2, <1>5, <2>1 DEF TypeOK
  <2>3. Queued' = Queued /\ Filling' = Filling /\ InHand' = InHand
    BY <1>5, <2>1 DEF Queued, Filling, InHand
  <2>4. OwnedOnce'
    BY <1>1, <2>1, <2>3 DEF OwnedOnce
  <2>5. PreambleIntact'
    BY <1>1, <1>5, <2>1, <2>3 DEF PreambleIntact, Holds
  <2>6. CaptureInv' /\ ThreadInv'
    BY <1>1, <1>5, <2>1 DEF CaptureInv, ThreadInv, Running
  <2> QED BY <2>2, <2>4, <2>5, <2>6 DEF PInv
<1> QED BY <1>3, <1>4, <1>5 DEF NewTti

(* Steps that leave TXRX, the pool, the queue and the buffers alone; after *)
(* stop() the thread may forget the buffer it holds.                       *)
LEMMA ControlPInv ==
    ASSUME PInv, UNCHANGED <<txrxVars, poolVars, b, failed>>,
           TypeOK', ThreadInv', InHand' \subseteq InHand,
           Running' => Running /\ InHand' = InHand
    PROVE  PInv'
<1>1. TypeOK /\ OwnedOnce /\ PreambleIntact /\ CaptureInv
  BY DEF PInv
<1>2. /\ tti' = tti /\ current' = current /\ sfCnt' = sfCnt /\ free' = free
      /\ buf' = buf /\ queue' = queue
  BY DEF txrxVars, poolVars
<1>3. Queued' = Queued /\ Filling' = Filling
  BY <1>2 DEF Queued, Filling
<1>4. OwnedOnce'
  BY <1>1, <1>2, <1>3 DEF OwnedOnce, Running
<1>5. PreambleIntact'
  BY <1>1, <1>2, <1>3 DEF PreambleIntact, Holds
<1>6. CaptureInv'
  BY <1>1, <1>2 DEF CaptureInv
<1> QED BY <1>4, <1>5, <1>6 DEF PInv

LEMMA PopPInv == PInv /\ Pop => PInv'
<1> SUFFICES ASSUME PInv, Pop PROVE PInv'
  OBVIOUS
<1>1. /\ TypeOK /\ OwnedOnce /\ PreambleIntact /\ CaptureInv /\ ThreadInv
      /\ queue \in Seq(Buffers \cup {Null}) /\ Null \notin Buffers
  BY PrachAssumption DEF PInv, TypeOK
<1>2. /\ wpc = "pop" /\ queue # <<>> /\ b' = Head(queue) /\ queue' = Tail(queue) /\ wpc' = "got"
      /\ tti' = tti /\ current' = current /\ sfCnt' = sfCnt /\ skipped' = skipped
      /\ free' = free /\ buf' = buf /\ examined' = examined
      /\ running' = running /\ failed' = failed /\ mainPc' = mainPc
  BY DEF Pop, txrxVars
<1>3. /\ queue' \in Seq(Buffers \cup {Null}) /\ Len(queue') = Len(queue) - 1
      /\ \A i \in 1..Len(queue') : i + 1 \in 1..Len(queue) /\ queue'[i] = queue[i + 1]
      /\ \A i \in 1..Len(queue) : i # 1 => i - 1 \in 1..Len(queue') /\ queue[i] = queue'[i - 1]
      /\ b' = queue[1] /\ b' \in Buffers \cup {Null} /\ 1 \in 1..Len(queue)
  BY <1>1, <1>2, QueueTail
<1>4. TypeOK'
  BY <1>1, <1>2, <1>3 DEF TypeOK
<1>5. Filling' = Filling /\ InHand = {} /\ InHand' = {b'} \ {Null}
  BY <1>2 DEF Filling, InHand
<1>6. b' \notin Queued'
  BY <1>1, <1>3 DEF OwnedOnce, Queued
<1>7. Queued = Queued' \cup InHand'
  <2>1. ASSUME NEW i \in 1..Len(queue), queue[i] # Null
        PROVE  queue[i] \in Queued' \cup {b'}
    <3>1. CASE i = 1
      BY <1>3, <3>1
    <3>2. CASE i # 1
      BY <1>3, <2>1, <3>2 DEF Queued
    <3> QED BY <3>1, <3>2
  <2>2. ASSUME NEW i \in 1..Len(queue'), queue'[i] # Null PROVE queue'[i] \in Queued
    BY <1>3, <2>2 DEF Queued
  <2>3. b' # Null => b' \in Queued
    BY <1>3 DEF Queued
  <2>4. Queued \subseteq Queued' \cup InHand'
    BY <1>5, <2>1 DEF Queued
  <2>5. Queued' \cup InHand' \subseteq Queued
    BY <1>5, <2>2, <2>3 DEF Queued
  <2> QED BY <2>4, <2>5
<1>8. \A i, j \in 1..Len(queue') : queue'[i] = queue'[j] => i = j
  BY <1>1, <1>3 DEF OwnedOnce
<1>9. OwnedOnce'
  <2>1. /\ free' \cap (Filling' \cup Queued' \cup InHand') = {}
        /\ Filling' \cap (Queued' \cup InHand') = {}
        /\ mainPc' \in {"run", "flag"} =>
             free' \cup Filling' \cup Queued' \cup InHand' = Buffers
    BY <1>1, <1>2, <1>5, <1>7 DEF OwnedOnce
  <2>2. Queued' \cap InHand' = {}
    BY <1>5, <1>6
  <2> QED BY <1>8, <2>1, <2>2 DEF OwnedOnce
<1>10. PreambleIntact'
  BY <1>1, <1>2, <1>5, <1>7 DEF PreambleIntact, Holds
<1>11. CaptureInv'
  BY <1>1, <1>2 DEF CaptureInv
<1>12. ThreadInv'
  BY <1>1, <1>2, <1>3 DEF ThreadInv, Running
<1> QED BY <1>4, <1>9, <1>10, <1>11, <1>12 DEF PInv

LEMMA ExaminePInv == ASSUME PInv, NEW ok \in BOOLEAN, Examine(ok) PROVE PInv'
<1>1. /\ TypeOK /\ OwnedOnce /\ PreambleIntact /\ CaptureInv /\ ThreadInv
      /\ Null \notin Buffers /\ NofSf \in Nat
  BY PrachAssumption DEF PInv
<1>2. /\ wpc = "detect" /\ b \in Buffers /\ b' = b /\ wpc' = "loop"
      /\ examined' = Append(examined, buf[b].tti)
      /\ buf' = [buf EXCEPT ![b] = Reset(buf[b])] /\ free' = free \cup {b}
      /\ running' = (running /\ ok) /\ failed' = (failed \/ ~ok)
      /\ tti' = tti /\ current' = current /\ sfCnt' = sfCnt /\ skipped' = skipped
      /\ queue' = queue /\ mainPc' = mainPc
  BY <1>1 DEF Examine, GoesOn, txrxVars, ThreadInv
<1>3. buf[b] \in [n : 0..NofSf, tti : Nat, sf : [Slots -> Nat \cup {Null}]]
  BY <1>1, <1>2 DEF TypeOK
<1>4. /\ Reset(buf[b]) \in [n : 0..NofSf, tti : Nat, sf : [Slots -> Nat \cup {Null}]]
      /\ Reset(buf[b]).n = 0
  BY <1>1, <1>3 DEF Reset
<1>5. TypeOK'
  <2>1. buf' \in [Buffers -> [n : 0..NofSf, tti : Nat, sf : [Slots -> Nat \cup {Null}]]]
    BY <1>1, <1>2, <1>4 DEF TypeOK
  <2>2. examined' \in Seq(Nat)
    BY <1>1, <1>2, <1>3 DEF TypeOK
  <2>3. running' \in BOOLEAN /\ failed' \in BOOLEAN
    BY <1>2
  <2> QED BY <1>1, <1>2, <2>1, <2>2, <2>3 DEF TypeOK
<1>6. Queued' = Queued /\ Filling' = Filling /\ InHand = {b} /\ InHand' = {}
  BY <1>1, <1>2 DEF Queued, Filling, InHand
<1>7. OwnedOnce'
  BY <1>1, <1>2, <1>6 DEF OwnedOnce
<1>8. \A y \in Buffers : buf'[y] = IF y = b THEN Reset(buf[b]) ELSE buf[y]
  BY <1>1, <1>2 DEF TypeOK
<1>9. b \notin Queued \cup Filling /\ Queued \subseteq Buffers
  BY <1>1, <1>6 DEF OwnedOnce, Queued, TypeOK
<1>10. sfCnt > 0 => current \in Buffers /\ current # b
  BY <1>1, <1>9 DEF CaptureInv, Filling
<1>11. PreambleIntact'
  <2>1. sfCnt > 0 => Holds(current, sfCnt)'
    BY <1>1, <1>2, <1>8, <1>10 DEF PreambleIntact, Holds
  <2>2. \A y \in Queued : Holds(y, NofSf)'
    BY <1>1, <1>8, <1>9 DEF PreambleIntact, Holds
  <2> QED BY <2>1, <2>2, <1>2, <1>6 DEF PreambleIntact
<1>12. CaptureInv'
  BY <1>1, <1>2, <1>4, <1>8, <1>10 DEF CaptureInv, TypeOK
<1>13. ThreadInv'
  BY <1>1, <1>2 DEF ThreadInv, Running
<1> QED BY <1>5, <1>7, <1>11, <1>12, <1>13 DEF PInv

LEMMA StopPushPInv == PInv /\ StopPush => PInv'
<1> SUFFICES ASSUME PInv, StopPush PROVE PInv'
  OBVIOUS
<1>1. /\ TypeOK /\ OwnedOnce /\ PreambleIntact /\ CaptureInv /\ ThreadInv
      /\ queue \in Seq(Buffers \cup {Null}) /\ Null \notin Buffers
  BY PrachAssumption DEF PInv, TypeOK
<1>2. /\ mainPc = "push" /\ mainPc' \in {"join", "end"} /\ queue' = Append(queue, Null)
      /\ tti' = tti /\ current' = current /\ sfCnt' = sfCnt /\ skipped' = skipped
      /\ free' = free /\ buf' = buf /\ examined' = examined
      /\ running' = running /\ failed' = failed /\ wpc' = wpc /\ b' = b
  BY DEF StopPush, txrxVars, thrVars
<1>3. /\ queue' \in Seq(Buffers \cup {Null}) /\ Len(queue') = Len(queue) + 1
      /\ \A i \in 1..Len(queue) : queue'[i] = queue[i]
      /\ queue'[Len(queue) + 1] = Null
      /\ 1..Len(queue) + 1 = (1..Len(queue)) \cup {Len(queue) + 1}
  BY <1>1, <1>2, QueueAppend
<1>4. \A i \in 1..Len(queue) : queue[i] # Null
  BY <1>1, <1>2 DEF ThreadInv
<1>5. TypeOK'
  BY <1>1, <1>2, <1>3 DEF TypeOK
<1>6. Queued' = Queued /\ Filling' = Filling /\ InHand' = InHand
  BY <1>2, <1>3, <1>4 DEF Queued, Filling, InHand
<1>7. \A i, j \in 1..Len(queue') : queue'[i] = queue'[j] => i = j
  BY <1>1, <1>3, <1>4 DEF OwnedOnce
<1>8. OwnedOnce'
  BY <1>1, <1>2, <1>6, <1>7 DEF OwnedOnce
<1>9. PreambleIntact' /\ CaptureInv'
  BY <1>1, <1>2, <1>6 DEF PreambleIntact, Holds, CaptureInv
<1>10. ThreadInv'
  BY <1>1, <1>2 DEF ThreadInv, Running
<1> QED BY <1>5, <1>8, <1>9, <1>10 DEF PInv

LEMMA StepPInv == PInv /\ [Next]_vars => PInv'
<1> SUFFICES ASSUME PInv, [Next]_vars PROVE PInv'
  OBVIOUS
<1>1. TypeOK /\ ThreadInv /\ OwnedOnce /\ Null \notin Buffers
  BY PrachAssumption DEF PInv
<1> DEFINE Control ==
      /\ UNCHANGED <<txrxVars, poolVars, b, failed>>
      /\ TypeOK' /\ ThreadInv' /\ InHand' \subseteq InHand
      /\ Running' => Running /\ InHand' = InHand
<1>2. CASE NewTti
  BY <1>2, NewTtiPInv
<1>3. CASE Start
  <2>1. Control
    BY <1>1, <1>3 DEF Start, TypeOK, ThreadInv, InHand, Running, txrxVars, poolVars
  <2> QED BY <2>1, ControlPInv
<1>4. CASE Loop
  <2>1. Control
    BY <1>1, <1>4 DEF Loop, TypeOK, ThreadInv, InHand, Running, txrxVars, poolVars
  <2> QED BY <2>1, ControlPInv
<1>5. CASE Pop
  BY <1>5, PopPInv
<1>6. CASE Got
  <2>1. CASE running /\ b # Null
    <3>1. Control
      BY <1>1, <1>6, <2>1 DEF Got, TypeOK, ThreadInv, InHand, Running, txrxVars, poolVars
    <3> QED BY <3>1, ControlPInv
  <2>2. CASE ~(running /\ b # Null)
    <3>1. ~Running /\ wpc' = "loop"
      BY <1>1, <1>6, <2>2 DEF Got, ThreadInv
    <3>2. Control
      BY <1>1, <1>6, <3>1 DEF Got, TypeOK, ThreadInv, InHand, Running, txrxVars, poolVars
    <3> QED BY <3>2, ControlPInv
  <2> QED BY <2>1, <2>2
<1>7. ASSUME NEW ok \in BOOLEAN, Examine(ok) PROVE PInv'
  BY <1>7, ExaminePInv
<1>8. CASE StopTxRx
  <2>1. Control
    BY <1>1, <1>8 DEF StopTxRx, TypeOK, ThreadInv, InHand, Running, txrxVars, poolVars, thrVars
  <2> QED BY <2>1, ControlPInv
<1>9. CASE StopFlag
  <2>1. Control
    BY <1>1, <1>9 DEF StopFlag, TypeOK, ThreadInv, InHand, Running, txrxVars, poolVars, thrVars
  <2> QED BY <2>1, ControlPInv
<1>10. CASE StopPush
  BY <1>10, StopPushPInv
<1>11. CASE StopJoin
  <2>1. Control
    BY <1>1, <1>11 DEF StopJoin, TypeOK, ThreadInv, InHand, Running, txrxVars, poolVars, thrVars
  <2> QED BY <2>1, ControlPInv
<1>12. CASE UNCHANGED vars
  <2>1. Control
    BY <1>1, <1>12 DEF vars, TypeOK, ThreadInv, InHand, Running, txrxVars, poolVars, thrVars
  <2> QED BY <2>1, ControlPInv
<1> QED BY <1>2, <1>3, <1>4, <1>5, <1>6, <1>7, <1>8, <1>9, <1>10, <1>11, <1>12
        DEF Next, Thread, Stop

-----------------------------------------------------------------------------
LEMMA Invariance == Spec => []PInv
<1> QED BY InitPInv, StepPInv, PTL DEF Spec

(* TypeOK always holds.  That a buffer never counts more subframes than a  *)
(* preamble has rests on reset() having been called on every free buffer.  *)
THEOREM TypeCorrect == Spec => []TypeOK
<1>1. PInv => TypeOK
  BY DEF PInv
<1> QED BY <1>1, Invariance, PTL

(* A buffer of the pool is owned by one of the pool, new_tti's capture,    *)
(* pending_buffers and run_thread, and by nobody else; none is lost before *)
(* stop(), whatever detections fail.                                       *)
THEOREM SoleOwner == Spec => []OwnedOnce
<1>1. PInv => OwnedOnce
  BY DEF PInv
<1> QED BY <1>1, Invariance, PTL

(* run_tti reads one whole preamble, however the threads interleave.       *)
THEOREM WholePreambles == Spec => []PreambleIntact
<1>1. PInv => PreambleIntact
  BY DEF PInv
<1> QED BY <1>1, Invariance, PTL

-----------------------------------------------------------------------------
(* The order of the captures.  DueInOrder needs to know what becomes of an *)
(* opportunity until its last subframe: it is being captured, or was       *)
(* passed; and that without a thread nothing is ever queued.               *)
ProgressInv ==
    /\ \A t \in Opps : t < tti /\ tti < t + NofSf =>
          t \in skipped \/ (sfCnt > 0 /\ buf[current].tti = t)
    /\ \A t \in skipped : t < tti
    /\ sfCnt > 0 => buf[current].tti \notin skipped
    /\ Running /\ ~HasThread => queue = <<>>

OInv == PInv /\ ProgressInv /\ DueInOrder

Held   == IF InHand = {} THEN <<>> ELSE <<buf[b].tti>>
Behind == [i \in 1..Len(queue) |-> buf[queue[i]].tti]

LEMMA JoinFacts ==
    ASSUME NEW u \in Seq(Nat), NEW v \in Seq(Nat), NEW w \in Seq(Nat)
    PROVE  /\ u \o v \o w \in Seq(Nat) /\ Len(u \o v \o w) = Len(u) + Len(v) + Len(w)
           /\ \A i \in 1..Len(u) + Len(v) + Len(w) :
                 (u \o v \o w)[i] = IF i <= Len(u) THEN u[i]
                                    ELSE IF i <= Len(u) + Len(v) THEN v[i - Len(u)]
                                    ELSE w[i - Len(u) - Len(v)]
<1>1. /\ u \o v \in Seq(Nat) /\ Len(u \o v) = Len(u) + Len(v)
      /\ \A i \in 1..Len(u) + Len(v) :
            (u \o v)[i] = IF i <= Len(u) THEN u[i] ELSE v[i - Len(u)]
  OBVIOUS
<1> DEFINE x == u \o v
<1>2. /\ x \o w \in Seq(Nat) /\ Len(x \o w) = Len(x) + Len(w)
      /\ \A i \in 1..Len(x) + Len(w) :
            (x \o w)[i] = IF i <= Len(x) THEN x[i] ELSE w[i - Len(x)]
  BY <1>1
<1> HIDE DEF x
<1>3. Len(u) \in Nat /\ Len(v) \in Nat /\ Len(w) \in Nat /\ Len(x) = Len(u) + Len(v)
  BY <1>1 DEF x
<1>4. \A i \in 1..Len(u) + Len(v) : x[i] = IF i <= Len(u) THEN u[i] ELSE v[i - Len(u)]
  BY <1>1 DEF x
<1>5. ASSUME NEW i \in 1..Len(u) + Len(v) + Len(w)
      PROVE  (x \o w)[i] = IF i <= Len(u) THEN u[i]
                           ELSE IF i <= Len(u) + Len(v) THEN v[i - Len(u)]
                           ELSE w[i - Len(u) - Len(v)]
  <2>1. CASE i <= Len(x)
    BY <1>2, <1>3, <1>4, <2>1, SMTT(30)
  <2>2. CASE ~(i <= Len(x))
    <3>1. (x \o w)[i] = w[i - Len(x)] /\ i - Len(x) = i - Len(u) - Len(v)
      BY <1>2, <1>3, <2>2
    <3> QED
      BY <1>3, <2>2, <3>1
  <2> QED
    BY <2>1, <2>2
<1> QED
  BY <1>2, <1>3, <1>5 DEF x

(* Pieces of the captures are sequences of times. *)
LEMMA PieceTypes ==
    ASSUME PInv, Running
    PROVE  /\ examined \in Seq(Nat) /\ Held \in Seq(Nat) /\ Behind \in Seq(Nat)
           /\ Len(Held) = (IF InHand = {} THEN 0 ELSE 1) /\ Len(Behind) = Len(queue)
           /\ InHand # {} => b \in Buffers /\ Held[1] = buf[b].tti
           /\ \A i \in 1..Len(queue) : queue[i] \in Buffers /\ Behind[i] = buf[queue[i]].tti
           /\ Len(examined) \in Nat /\ Len(queue) \in Nat
           /\ Captures = examined \o Held \o Behind
<1>1. /\ TypeOK /\ \A i \in 1..Len(queue) : queue[i] \in Buffers
  BY DEF PInv, ThreadInv
<1>2. \A x \in Buffers : buf[x].tti \in Nat
  BY <1>1 DEF TypeOK
<1>3. Len(queue) \in Nat /\ Len(examined) \in Nat /\ examined \in Seq(Nat)
  BY <1>1 DEF TypeOK
<1>4. \A i \in 1..Len(queue) : buf[queue[i]].tti \in Nat
  BY <1>1, <1>2
<1>5. Behind \in Seq(Nat) /\ Len(Behind) = Len(queue)
      /\ \A i \in 1..Len(queue) : Behind[i] = buf[queue[i]].tti
  BY <1>3, <1>4 DEF Behind
<1>6. InHand # {} => b \in Buffers
  BY <1>1 DEF InHand, TypeOK
<1>7. Held \in Seq(Nat) /\ Len(Held) = (IF InHand = {} THEN 0 ELSE 1)
      /\ (InHand # {} => Held[1] = buf[b].tti)
  <2>1. CASE InHand = {}
    BY <2>1 DEF Held
  <2>2. CASE InHand # {}
    <3>1. buf[b].tti \in Nat /\ Held = <<buf[b].tti>>
      BY <1>2, <1>6, <2>2 DEF Held
    <3> QED
      BY <2>2, <3>1
  <2> QED
    BY <2>1, <2>2
<1> QED
  BY <1>1, <1>3, <1>5, <1>6, <1>7 DEF Captures, Held, Behind

LEMMA JoinTwo ==
    ASSUME NEW u \in Seq(Nat), NEW v \in Seq(Nat)
    PROVE  /\ Len(u \o v) = Len(u) + Len(v)
           /\ \A i \in 1..Len(u) + Len(v) :
                 (u \o v)[i] = IF i <= Len(u) THEN u[i] ELSE v[i - Len(u)]
  OBVIOUS

(* One more at the end of the last piece is one more at the end. *)
LEMMA JoinMore ==
    ASSUME NEW p \in Seq(Nat), NEW w \in Seq(Nat), NEW w1 \in Seq(Nat),
           Len(w1) = Len(w) + 1, \A i \in 1..Len(w) : w1[i] = w[i]
    PROVE  /\ Len(p \o w1) = Len(p \o w) + 1
           /\ \A i \in 1..Len(p \o w) : (p \o w1)[i] = (p \o w)[i]
           /\ (p \o w1)[Len(p \o w) + 1] = w1[Len(w) + 1]
<1> DEFINE x == p \o w
           y == p \o w1
<1>1. Len(p) \in Nat /\ Len(w) \in Nat
  OBVIOUS
<1>2. /\ Len(x) = Len(p) + Len(w)
      /\ \A i \in 1..Len(p) + Len(w) : x[i] = IF i <= Len(p) THEN p[i] ELSE w[i - Len(p)]
  OBVIOUS
<1>3. /\ Len(y) = Len(p) + Len(w1)
      /\ \A i \in 1..Len(p) + Len(w1) : y[i] = IF i <= Len(p) THEN p[i] ELSE w1[i - Len(p)]
  <2> w1 \in Seq(Nat) /\ p \in Seq(Nat)
    OBVIOUS
  <2> QED
    BY JoinTwo
<1> HIDE DEF x, y
<1>4. ASSUME NEW i \in 1..Len(x) PROVE y[i] = x[i]
  <2>1. i \in 1..Len(p) + Len(w) /\ i \in 1..Len(p) + Len(w1)
    BY <1>1, <1>2
  <2>2. CASE i <= Len(p)
    BY <1>2, <1>3, <2>1, <2>2
  <2>3. CASE ~(i <= Len(p))
    <3>1. i - Len(p) \in 1..Len(w)
      BY <1>1, <2>1, <2>3
    <3>2. x[i] = w[i - Len(p)] /\ y[i] = w1[i - Len(p)]
      BY <1>2, <1>3, <2>1, <2>3
    <3> QED
      BY <3>1, <3>2
  <2> QED
    BY <2>2, <2>3
<1>5. y[Len(x) + 1] = w1[Len(w) + 1]
  <2>1. /\ Len(x) + 1 \in 1..Len(p) + Len(w1) /\ ~(Len(x) + 1 <= Len(p))
        /\ Len(x) + 1 - Len(p) = Len(w) + 1
    BY <1>1, <1>2
  <2> QED
    BY <1>3, <2>1
<1> QED
  BY <1>1, <1>2, <1>3, <1>4, <1>5 DEF x, y

LEMMA CapturesType == ASSUME PInv, Running PROVE Captures \in Seq(Nat)
<1>1. /\ examined \in Seq(Nat) /\ Held \in Seq(Nat) /\ Behind \in Seq(Nat)
      /\ Captures = examined \o Held \o Behind
  BY PieceTypes
<1>2. examined \o Held \o Behind \in Seq(Nat)
  BY ONLY <1>1, JoinFacts
<1> QED
  BY <1>1, <1>2

(* A step after which the captures are the same, element by element. *)
Keep ==
    /\ Captures \in Seq(Nat) /\ Len(Captures') = Len(Captures)
    /\ \A i \in 1..Len(Captures) : Captures'[i] = Captures[i]

LEMMA KeepOrder ==
    ASSUME OInv, Running, Keep, Due' = Due
    PROVE  DueInOrder'
<1>1. /\ {Captures[i] : i \in 1..Len(Captures)} = Due
      /\ \A i, j \in 1..Len(Captures) : i < j => Captures[i] < Captures[j]
  BY DEF OInv, DueInOrder, Running
<1>2. {Captures'[i] : i \in 1..Len(Captures')} = Due'
  BY <1>1 DEF Keep
<1>3. \A i, j \in 1..Len(Captures') : i < j => Captures'[i] < Captures'[j]
  BY <1>1 DEF Keep
<1> QED
  BY <1>2, <1>3 DEF DueInOrder

(* A step that adds capture e, later than all the others. *)
LEMMA MoreOrder ==
    ASSUME OInv, Running, NEW e \in Nat, Captures \in Seq(Nat),
           Len(Captures') = Len(Captures) + 1,
           \A i \in 1..Len(Captures) : Captures'[i] = Captures[i],
           Captures'[Len(Captures) + 1] = e,
           \A t \in Due : t < e, Due' = Due \cup {e}
    PROVE  DueInOrder'
<1>1. /\ {Captures[i] : i \in 1..Len(Captures)} = Due
      /\ \A i, j \in 1..Len(Captures) : i < j => Captures[i] < Captures[j]
  BY DEF OInv, DueInOrder, Running
<1>2. Len(Captures) \in Nat
  OBVIOUS
<1>3. \A i \in 1..Len(Captures') :
         \/ i \in 1..Len(Captures) /\ Captures'[i] = Captures[i] /\ Captures[i] < e
         \/ i = Len(Captures) + 1 /\ Captures'[i] = e
  BY <1>1, <1>2
<1>4. \A i \in 1..Len(Captures) : i \in 1..Len(Captures')
  BY <1>2
<1>5. Len(Captures) + 1 \in 1..Len(Captures')
  BY <1>2
<1>6. {Captures'[i] : i \in 1..Len(Captures')} = Due'
  BY <1>1, <1>3, <1>4, <1>5
<1>7. \A i, j \in 1..Len(Captures') : i < j => Captures'[i] < Captures'[j]
  BY <1>1, <1>2, <1>3
<1> QED
  BY <1>6, <1>7 DEF DueInOrder

(* The captures after a step that leaves those in the queue and in the     *)
(* thread's hand as they are.                                              *)
LEMMA SamePieces ==
    ASSUME PInv, PInv', Running, Running', UNCHANGED <<queue, thrVars>>,
           \A y \in Queued \cup InHand : buf'[y].tti = buf[y].tti
    PROVE  /\ Len(Held') = Len(Held) /\ Len(Behind') = Len(Behind)
           /\ \A i \in 1..Len(Held) : Held'[i] = Held[i]
           /\ \A i \in 1..Len(Behind) : Behind'[i] = Behind[i]
<1>1. /\ queue' = queue /\ wpc' = wpc /\ b' = b
  BY DEF thrVars
<1>2. InHand' = InHand
  BY <1>1 DEF InHand
<1>3. \A i \in 1..Len(queue) : queue[i] \in Buffers /\ queue[i] # Null /\ queue[i] \in Queued
  BY PrachAssumption DEF PInv, ThreadInv, Queued
<1>4. Held' = Held
  <2>1. InHand # {} => b \in InHand
    BY DEF InHand
  <2> QED
    BY <1>1, <1>2, <2>1 DEF Held
<1>5. Behind' = Behind
  BY <1>1, <1>3 DEF Behind
<1> QED
  BY <1>4, <1>5

LEMMA TtiFacts ==
    ASSUME OInv, NewTti
    PROVE  /\ tti \in Nat /\ NofSf \in Nat /\ NofSf > 0 /\ Opps \subseteq Nat
           /\ tti' = tti + 1 /\ Running /\ Running' /\ sfCnt \in 0..NofSf - 1
           /\ \A t, u \in Opps : t < u => t + NofSf <= u
           /\ UNCHANGED <<running, thrVars, mainPc>>
<1>1. TypeOK /\ tti \in Nat
  BY PrachAssumption DEF OInv, PInv, TypeOK
<1> QED
  BY <1>1, PrachAssumption DEF TypeOK, NewTti, Running, Slots

(* An opportunity passed, or none. *)
LEMMA PassOInv ==
    ASSUME OInv, NewTti, sfCnt = 0, UNCHANGED <<sfCnt, poolVars>>,
           \/ tti \in Opps /\ skipped' = skipped \cup {tti}
           \/ tti \notin Opps /\ skipped' = skipped
    PROVE  OInv'
<1>1. PInv' /\ ProgressInv /\ PInv
  BY NewTtiPInv DEF OInv
<1>2. /\ sfCnt' = 0 /\ queue' = queue /\ buf' = buf /\ examined' = examined
  BY DEF poolVars
<1>3. ProgressInv'
  <2>1. \A t \in Opps : t < tti' /\ tti' < t + NofSf => t \in skipped'
    BY <1>1, TtiFacts DEF ProgressInv
  <2>2. \A t \in skipped' : t < tti'
    <3>1. \A t \in skipped : t \in Nat /\ t < tti
      BY <1>1, TtiFacts DEF ProgressInv, PInv, TypeOK
    <3> QED
      BY <3>1, TtiFacts
  <2>3. HasThread' = HasThread
    BY TtiFacts DEF HasThread, thrVars
  <2> QED
    BY <1>1, <1>2, <2>1, <2>2, <2>3, TtiFacts DEF ProgressInv
<1>4. Due' = Due
  <2>1. ASSUME NEW t \in Opps
        PROVE  t + NofSf <= tti' /\ t \notin skipped' <=> t + NofSf <= tti /\ t \notin skipped
    BY <1>1, TtiFacts DEF ProgressInv
  <2> QED
    BY <2>1 DEF Due
<1>5. Keep
  <2>1. /\ examined' = examined /\ Len(Held') = Len(Held) /\ Len(Behind') = Len(Behind)
        /\ \A i \in 1..Len(Held) : Held'[i] = Held[i]
        /\ \A i \in 1..Len(Behind) : Behind'[i] = Behind[i]
    BY <1>1, <1>2, TtiFacts, SamePieces
  <2>2. Captures' = Captures
    BY <1>2, TtiFacts DEF Captures, InHand, thrVars
  <2>3. Captures \in Seq(Nat)
    BY <1>1, TtiFacts, CapturesType
  <2> QED
    BY <2>2, <2>3 DEF Keep
<1> QED
  BY <1>1, <1>3, <1>4, <1>5, TtiFacts, KeepOrder DEF OInv

(* One more subframe of a capture. *)
LEMMA CaptureOInv ==
    ASSUME OInv, NewTti, NEW x \in Buffers, NEW others \in SUBSET Buffers,
           \/ sfCnt > 0 /\ x = current /\ others = free
           \/ sfCnt = 0 /\ tti \in Opps /\ x \in free /\ others = free \ {x},
           Capture(x, others)
    PROVE  OInv'
<1> DEFINE s == Stored(x)
           e == s.tti
<1>1. PInv /\ PInv' /\ ProgressInv
  BY NewTtiPInv DEF OInv
<1>2. /\ buf[x].n < Room /\ e \in Opps /\ e \in Nat /\ e + sfCnt = tti
  BY <1>1, StoredFacts
<1>3. /\ current' = x /\ skipped' = skipped
      /\ sfCnt' = IF sfCnt + 1 = NofSf THEN 0 ELSE sfCnt + 1
      /\ IF sfCnt' = 0 THEN Complete(x, others)
         ELSE buf' = [buf EXCEPT ![x] = s] /\ UNCHANGED <<queue, examined>>
  BY <1>2 DEF Capture
<1>4. e \notin skipped
  BY <1>1, <1>2, TtiFacts DEF ProgressInv, Stored
<1>5. x \notin Queued \cup InHand
  BY <1>1 DEF PInv, OwnedOnce, Filling
<1>6. \A y \in Buffers : y # x => buf'[y] = buf[y]
  BY <1>1, <1>3 DEF PInv, TypeOK, Complete
<1>7. \A y \in Queued \cup InHand : y \in Buffers /\ buf'[y].tti = buf[y].tti
  <2>1. \A i \in 1..Len(queue) : queue[i] \in Buffers \cup {Null}
    BY <1>1 DEF PInv, TypeOK
  <2>2. Queued \subseteq Buffers
    BY <2>1 DEF Queued
  <2>3. InHand \subseteq Buffers
    BY <1>1 DEF PInv, TypeOK, InHand
  <2> QED
    BY <1>5, <1>6, <2>2, <2>3
<1>8. HasThread' = HasThread
  BY TtiFacts DEF HasThread, thrVars
<1>9. Captures \in Seq(Nat)
  BY <1>1, TtiFacts, CapturesType
<1> HIDE DEF e, s
<1>10. CASE sfCnt + 1 # NofSf
  <2>1. /\ sfCnt' = sfCnt + 1 /\ buf' = [buf EXCEPT ![x] = s] /\ queue' = queue
        /\ examined' = examined /\ sfCnt' # 0
    BY <1>3, <1>10, TtiFacts
  <2>2. buf'[x].tti = e
    BY <1>1, <2>1 DEF e, PInv, TypeOK
  <2>3. ProgressInv'
    <3>1. \A t \in Opps : t < tti' /\ tti' < t + NofSf => t \in skipped \/ t = e
      <4>1. e = IF sfCnt = 0 THEN tti ELSE buf[x].tti
        BY DEF e, s, Stored
      <4>2. ASSUME NEW t \in Opps, t < tti, tti < t + NofSf PROVE t \in skipped \/ t = e
        BY <1>1, <4>1, <4>2 DEF ProgressInv
      <4>3. tti \in Opps => tti = e
        BY <1>2, TtiFacts
      <4> QED
        BY <4>2, <4>3, TtiFacts
    <3>2. \A t \in skipped : t < tti'
      BY <1>1, TtiFacts DEF ProgressInv, PInv, TypeOK
    <3> QED
      BY <1>1, <1>3, <1>4, <1>8, <2>1, <2>2, <3>1, <3>2, TtiFacts DEF ProgressInv
  <2>4. Due' = Due
    <3>1. ASSUME NEW t \in Opps, t \notin skipped
          PROVE  t + NofSf <= tti' <=> t + NofSf <= tti
      <4>1. e = IF sfCnt = 0 THEN tti ELSE buf[x].tti
        BY DEF e, s, Stored
      <4>2. t < tti /\ tti < t + NofSf => t = e
        BY <1>1, <3>1, <4>1 DEF ProgressInv
      <4> QED
        BY <1>2, <1>10, <4>2, TtiFacts
    <3> QED
      BY <1>3, <3>1 DEF Due
  <2>5. Keep
    <3>1. /\ Len(Held') = Len(Held) /\ Len(Behind') = Len(Behind)
          /\ \A i \in 1..Len(Held) : Held'[i] = Held[i]
          /\ \A i \in 1..Len(Behind) : Behind'[i] = Behind[i]
      BY <1>1, <1>7, <2>1, TtiFacts, SamePieces
    <3>2. Captures' = Captures
      <4>1. InHand' = InHand /\ b' = b
        BY TtiFacts DEF InHand, thrVars
      <4>2. \A i \in 1..Len(queue) : buf'[queue[i]].tti = buf[queue[i]].tti
        BY <1>1, <1>7, TtiFacts, PrachAssumption DEF Queued, PInv, ThreadInv
      <4>3. InHand # {} => buf'[b].tti = buf[b].tti
        BY <1>7 DEF InHand
      <4> QED
        BY <2>1, <4>1, <4>2, <4>3, SMTT(30) DEF Captures
    <3> QED
      BY <1>9, <3>2 DEF Keep
  <2> QED
    BY <1>1, <2>3, <2>4, <2>5, TtiFacts, KeepOrder DEF OInv
<1>11. CASE sfCnt + 1 = NofSf
  <2>1. sfCnt' = 0 /\ Complete(x, others)
    BY <1>3, <1>11
  <2>2. Due' = Due \cup {e} /\ \A t \in Due : t < e
    <3>1. ASSUME NEW t \in Opps, t \notin skipped
          PROVE  t + NofSf <= tti' <=> t + NofSf <= tti \/ t = e
      BY <1>1, <1>2, <1>11, <3>1, TtiFacts
    <3>2. ASSUME NEW t \in Opps, t + NofSf <= tti PROVE t < e
      <4>1. t \in Nat /\ e \in Nat /\ NofSf \in Nat /\ tti \in Nat
        BY <1>2, TtiFacts
      <4>2. e + (NofSf - 1) = tti
        BY <1>2, <1>11, <4>1, TtiFacts
      <4> QED
        BY <3>2, <4>1, <4>2
    <3> QED
      BY <1>2, <1>3, <1>4, <3>1, <3>2 DEF Due
  <2>3. \A t \in Opps : ~(t < tti' /\ tti' < t + NofSf)
    BY <1>2, <1>11, TtiFacts
  <2>4. \A t \in skipped : t < tti'
    BY <1>1, TtiFacts DEF ProgressInv, PInv, TypeOK
  <2>5. CASE HasThread
    <3>1. queue' = Append(queue, x) /\ buf' = [buf EXCEPT ![x] = s] /\ examined' = examined
      BY <2>1, <2>5 DEF Complete, Enqueue, s
    <3>2. ProgressInv'
      BY <1>3, <1>8, <2>1, <2>3, <2>4, <2>5 DEF ProgressInv
    <3>3. /\ queue \in Seq(Buffers \cup {Null}) /\ x \in Buffers \cup {Null}
      BY <1>1 DEF PInv, TypeOK
    <3>4. /\ Len(queue') = Len(queue) + 1 /\ queue'[Len(queue) + 1] = x
          /\ \A i \in 1..Len(queue) : queue'[i] = queue[i]
      BY <3>1, <3>3, QueueAppend
    <3>5. /\ InHand' = InHand /\ b' = b /\ Len(Held') = Len(Held)
          /\ \A i \in 1..Len(Held) : Held'[i] = Held[i]
      <4>1. InHand' = InHand /\ b' = b
        BY TtiFacts DEF InHand, thrVars
      <4>2. InHand # {} => buf'[b].tti = buf[b].tti
        BY <1>7 DEF InHand
      <4>3. Held' = Held
        BY <4>1, <4>2 DEF Held
      <4> QED
        BY <4>1, <4>3
    <3>6. buf'[x].tti = e
      BY <1>1, <3>1 DEF e, PInv, TypeOK
    <3>7. /\ Len(Behind') = Len(Behind) + 1 /\ Len(Behind) = Len(queue)
          /\ \A i \in 1..Len(Behind) : Behind'[i] = Behind[i]
          /\ Behind'[Len(Behind) + 1] = e
      <4>1. /\ Len(queue) \in Nat /\ Len(Behind) = Len(queue)
            /\ \A i \in 1..Len(queue) : queue[i] \in Buffers /\ Behind[i] = buf[queue[i]].tti
        BY <1>1, TtiFacts, PieceTypes
      <4>2. Len(queue') \in Nat /\ Len(Behind') = Len(queue')
            /\ \A i \in 1..Len(queue') : Behind'[i] = buf'[queue'[i]].tti
        BY <3>4, <4>1 DEF Behind
      <4>3. \A i \in 1..Len(queue) : buf'[queue[i]].tti = buf[queue[i]].tti
        BY <1>7, <4>1, PrachAssumption DEF Queued
      <4> QED
        BY <3>4, <3>6, <4>1, <4>2, <4>3
    <3>8. /\ Len(Captures') = Len(Captures) + 1
          /\ \A i \in 1..Len(Captures) : Captures'[i] = Captures[i]
          /\ Captures'[Len(Captures) + 1] = e
      <4>1. /\ examined \in Seq(Nat) /\ Held \in Seq(Nat) /\ Behind \in Seq(Nat)
            /\ Captures = examined \o Held \o Behind
        BY <1>1, TtiFacts, PieceTypes
      <4>2. Held' \in Seq(Nat) /\ Behind' \in Seq(Nat)
        <5>1. \A i \in 1..Len(queue') : buf'[queue'[i]].tti \in Nat
          BY <1>1, <1>2, <1>6, <3>3, <3>4, <3>6, TtiFacts DEF PInv, ThreadInv, TypeOK
        <5>2. Len(queue') \in Nat
          BY <3>3, <3>4
        <5>3. Behind' \in Seq(Nat)
          BY <5>1, <5>2 DEF Behind
        <5>4. Held' = Held
          <6>1. InHand # {} => buf'[b].tti = buf[b].tti
            BY <1>7 DEF InHand
          <6> QED
            BY <3>5, <6>1 DEF Held
        <5> QED
          BY <4>1, <5>3, <5>4
      <4>3. Captures' = examined \o Held' \o Behind'
        BY <3>1 DEF Captures, Held, Behind
      <4>4. Held' = Held
        <5>1. InHand # {} => buf'[b].tti = buf[b].tti
          BY <1>7 DEF InHand
        <5> QED
          BY <3>5, <5>1 DEF Held
      <4>5. PICK p, w, w1 : p = examined \o Held /\ w = Behind /\ w1 = Behind'
        OBVIOUS
      <4>6. /\ p \in Seq(Nat) /\ w \in Seq(Nat) /\ w1 \in Seq(Nat)
            /\ Len(w1) = Len(w) + 1 /\ w1[Len(w) + 1] = e
            /\ \A i \in 1..Len(w) : w1[i] = w[i]
        BY ONLY <3>7, <4>1, <4>2, <4>5
      <4>7. Captures = p \o w /\ Captures' = p \o w1
        BY ONLY <4>1, <4>3, <4>4, <4>5
      <4>8. /\ Len(p \o w1) = Len(p \o w) + 1
            /\ \A i \in 1..Len(p \o w) : (p \o w1)[i] = (p \o w)[i]
            /\ (p \o w1)[Len(p \o w) + 1] = w1[Len(w) + 1]
        BY ONLY <4>6, JoinMore
      <4> QED
        BY ONLY <4>6, <4>7, <4>8
    <3> QED
      BY <1>1, <1>2, <1>9, <2>2, <3>2, <3>8, TtiFacts, MoreOrder DEF OInv
  <2>6. CASE ~HasThread
    <3>1. queue' = queue /\ queue = <<>> /\ examined' = Append(examined, e)
      BY <1>1, <2>1, <2>6, TtiFacts DEF Complete, ProgressInv, e, s
    <3>2. ProgressInv'
      BY <1>3, <1>8, <2>1, <2>3, <2>4, <3>1 DEF ProgressInv
    <3>3. InHand = {} /\ InHand' = {}
      BY <2>6, TtiFacts DEF InHand, HasThread, thrVars
    <3>4. examined \in Seq(Nat)
      BY <1>1 DEF PInv, TypeOK
    <3>5. Captures = examined /\ Captures' = Append(examined, e)
      <4>1. [i \in 1..Len(queue) |-> buf[queue[i]].tti] = <<>>
        BY <3>1
      <4>2. [i \in 1..Len(queue) |-> buf[queue[i]].tti]' = <<>>
        BY <3>1
      <4>3. Append(examined, e) \in Seq(Nat)
        BY <1>2, <3>4
      <4> QED
        BY <3>1, <3>3, <3>4, <4>1, <4>2, <4>3 DEF Captures
    <3>6. /\ Len(Captures') = Len(Captures) + 1
          /\ \A i \in 1..Len(Captures) : Captures'[i] = Captures[i]
          /\ Captures'[Len(Captures) + 1] = e
      BY <1>2, <3>4, <3>5
    <3> QED
      BY <1>1, <1>2, <1>9, <2>2, <3>2, <3>6, TtiFacts, MoreOrder DEF OInv
  <2> QED
    BY <2>5, <2>6
<1> QED
  BY <1>10, <1>11

(* A step that leaves the capture under way and the captures made alone. *)
LEMMA SameOInv ==
    ASSUME OInv, PInv', UNCHANGED txrxVars, HasThread' = HasThread,
           sfCnt > 0 => buf'[current].tti = buf[current].tti,
           Running' => Running /\ Keep /\ (queue = <<>> => queue' = <<>>)
    PROVE  OInv'
<1>1. tti' = tti /\ current' = current /\ sfCnt' = sfCnt /\ skipped' = skipped
  BY DEF txrxVars
<1>2. ProgressInv'
  BY <1>1 DEF OInv, ProgressInv
<1>3. Due' = Due
  BY <1>1 DEF Due
<1>4. DueInOrder'
  <2>1. CASE Running'
    BY <1>3, <2>1, KeepOrder
  <2>2. CASE ~Running'
    BY <2>2 DEF DueInOrder, Running
  <2> QED
    BY <2>1, <2>2
<1> QED
  BY <1>2, <1>4 DEF OInv

(* The steps that only move the threads' control. *)
LEMMA ControlOInv ==
    ASSUME OInv, PInv', UNCHANGED <<txrxVars, poolVars, b>>, HasThread' = HasThread,
           Running' => Running /\ InHand' = InHand
    PROVE  OInv'
<1>1. free' = free /\ buf' = buf /\ queue' = queue /\ examined' = examined /\ b' = b
  BY DEF poolVars
<1>2. UNCHANGED txrxVars /\ current' = current
  BY DEF txrxVars
<1>3. Running' => Keep
  <2> SUFFICES ASSUME Running' PROVE Keep
    OBVIOUS
  <2>1. Captures' = Captures
    BY <1>1 DEF Captures
  <2>2. Captures \in Seq(Nat)
    BY CapturesType DEF OInv
  <2> QED
    BY <2>1, <2>2 DEF Keep
<1> QED
  BY <1>1, <1>2, <1>3, SameOInv

(* The first piece of one sequence moves to the end of the one before. *)
LEMMA ShiftToHand ==
    ASSUME NEW u \in Seq(Nat), NEW w \in Seq(Nat), NEW w1 \in Seq(Nat), NEW e \in Nat,
           Len(w) = Len(w1) + 1, w[1] = e, \A i \in 1..Len(w1) : w1[i] = w[i + 1]
    PROVE  /\ Len(u \o <<e>> \o w1) = Len(u \o <<>> \o w)
           /\ \A i \in 1..Len(u \o <<>> \o w) : (u \o <<e>> \o w1)[i] = (u \o <<>> \o w)[i]
<1> DEFINE x == u \o <<>> \o w
           y == u \o <<e>> \o w1
<1>1. Len(u) \in Nat /\ Len(w1) \in Nat /\ Len(w) \in Nat
  OBVIOUS
<1>2. /\ <<>> \in Seq(Nat) /\ Len(<<>>) = 0
      /\ <<e>> \in Seq(Nat) /\ Len(<<e>>) = 1 /\ <<e>>[1] = e
  OBVIOUS
<1>3. /\ Len(x) = Len(u) + Len(w)
      /\ \A i \in 1..Len(u) + Len(w) : x[i] = IF i <= Len(u) THEN u[i] ELSE w[i - Len(u)]
  <2>1. /\ Len(x) = Len(u) + 0 + Len(w)
        /\ \A i \in 1..Len(u) + 0 + Len(w) :
              x[i] = IF i <= Len(u) THEN u[i]
                     ELSE IF i <= Len(u) + 0 THEN <<>>[i - Len(u)]
                     ELSE w[i - Len(u) - 0]
    <3>1. PICK v : v = <<>>
      OBVIOUS
    <3>2. v \in Seq(Nat) /\ Len(v) = 0
      BY <1>2, <3>1
    <3>3. /\ Len(u \o v \o w) = Len(u) + Len(v) + Len(w)
          /\ \A i \in 1..Len(u) + Len(v) + Len(w) :
                (u \o v \o w)[i] = IF i <= Len(u) THEN u[i]
                                   ELSE IF i <= Len(u) + Len(v) THEN v[i - Len(u)]
                                   ELSE w[i - Len(u) - Len(v)]
      BY <3>2, JoinFacts, ZenonT(60)
    <3> QED
      BY ONLY <3>1, <3>2, <3>3
  <2> HIDE DEF x
  <2> QED
    BY <1>1, <2>1
<1>4. /\ Len(y) = Len(u) + 1 + Len(w1)
      /\ \A i \in 1..Len(u) + 1 + Len(w1) :
            y[i] = IF i <= Len(u) THEN u[i]
                   ELSE IF i <= Len(u) + 1 THEN <<e>>[i - Len(u)]
                   ELSE w1[i - Len(u) - 1]
  BY <1>2, JoinFacts
<1> HIDE DEF x, y
<1>5. ASSUME NEW i \in 1..Len(x) PROVE y[i] = x[i]
  <2>1. i \in 1..Len(u) + Len(w) /\ i \in 1..Len(u) + 1 + Len(w1)
    BY <1>1, <1>3
  <2>2. CASE i <= Len(u)
    BY <1>3, <1>4, <2>1, <2>2
  <2>3. CASE i = Len(u) + 1
    <3>1. i - Len(u) = 1 /\ ~(i <= Len(u)) /\ i <= Len(u) + 1
      BY <1>1, <2>3
    <3> QED
      BY <1>2, <1>3, <1>4, <2>1, <3>1
  <2>4. CASE ~(i <= Len(u) + 1)
    <3>1. /\ i - Len(u) - 1 \in 1..Len(w1) /\ ~(i <= Len(u))
          /\ (i - Len(u) - 1) + 1 = i - Len(u)
      BY <1>1, <2>1, <2>4
    <3>2. y[i] = w1[i - Len(u) - 1] /\ x[i] = w[i - Len(u)]
      BY <1>3, <1>4, <2>1, <2>4, <3>1
    <3> QED
      BY <3>1, <3>2
  <2> QED
    BY <1>1, <2>1, <2>2, <2>3, <2>4
<1> QED
  BY <1>1, <1>3, <1>4, <1>5 DEF x, y

LEMMA ShiftToSeen ==
    ASSUME NEW u \in Seq(Nat), NEW w \in Seq(Nat), NEW e \in Nat
    PROVE  Append(u, e) \o <<>> \o w = u \o <<e>> \o w
<1>1. Append(u, e) \o <<>> = u \o <<e>>
  OBVIOUS
<1> QED
  BY <1>1

(* wait_pop: the oldest capture queued goes to the thread's hand. *)
LEMMA PopOInv == ASSUME OInv, Pop PROVE OInv'
<1>1. PInv /\ PInv' /\ TypeOK
  BY PopPInv DEF OInv, PInv
<1>2. /\ wpc = "pop" /\ wpc' = "got" /\ queue # <<>> /\ b' = Head(queue)
      /\ queue' = Tail(queue) /\ buf' = buf /\ examined' = examined
      /\ UNCHANGED txrxVars /\ current' = current /\ mainPc' = mainPc
  BY DEF Pop, txrxVars
<1>3. HasThread' = HasThread
  BY <1>2 DEF HasThread
<1>4. ASSUME Running PROVE Keep
  <2>1. queue \in Seq(Buffers \cup {Null})
    BY <1>1 DEF TypeOK
  <2>2. /\ Len(queue') = Len(queue) - 1 /\ b' = queue[1]
        /\ \A i \in 1..Len(queue') : i + 1 \in 1..Len(queue) /\ queue'[i] = queue[i + 1]
        /\ 1 \in 1..Len(queue)
    BY <1>2, <2>1, QueueTail
  <2>3. /\ examined \in Seq(Nat) /\ Behind \in Seq(Nat)
        /\ Len(Behind) = Len(queue) /\ Len(queue) \in Nat
        /\ \A i \in 1..Len(queue) : queue[i] \in Buffers /\ Behind[i] = buf[queue[i]].tti
    BY <1>1, <1>4, PieceTypes
  <2>4. b' \in Buffers /\ b' # Null /\ buf[b'].tti \in Nat
    BY <1>1, <2>2, <2>3, PrachAssumption DEF TypeOK
  <2>5. InHand = {} /\ InHand' # {}
    BY <1>2, <2>4 DEF InHand
  <2>6. Len(queue') \in Nat
    BY <2>2, <2>3
  <2>7. \A i \in 1..Len(queue') : buf'[queue'[i]].tti = Behind[i + 1] /\ Behind[i + 1] \in Nat
    BY <1>2, <2>2, <2>3
  <2>8. /\ Behind' \in Seq(Nat) /\ Len(Behind') = Len(queue')
        /\ \A i \in 1..Len(queue') : Behind'[i] = Behind[i + 1]
    <3>1. PICK m, z : m = Len(queue') /\ z = Behind
      OBVIOUS
    <3>2. Behind' = [i \in 1..m |-> z[i + 1]]
      BY <2>7, <3>1 DEF Behind
    <3>3. m \in Nat /\ \A i \in 1..m : z[i + 1] \in Nat
      BY ONLY <2>6, <2>7, <3>1
    <3>4. [i \in 1..m |-> z[i + 1]] \in Seq(Nat) /\ Len([i \in 1..m |-> z[i + 1]]) = m
      BY ONLY <3>3
    <3> QED
      BY ONLY <3>1, <3>2, <3>3, <3>4
  <2>9. /\ Captures = examined \o <<>> \o Behind
        /\ Captures' = examined \o <<buf[b'].tti>> \o Behind'
    BY <1>2, <2>5 DEF Captures, Behind
  <2>10. Captures \in Seq(Nat)
    BY <1>1, <1>4, CapturesType
  <2>11. PICK w, w1, e : w = Behind /\ w1 = Behind' /\ e = buf[b'].tti
    OBVIOUS
  <2>12. /\ w \in Seq(Nat) /\ w1 \in Seq(Nat) /\ e \in Nat /\ Len(w) = Len(w1) + 1
         /\ w[1] = e
    BY <2>2, <2>3, <2>4, <2>6, <2>8, <2>11
  <2>13. \A i \in 1..Len(w1) : w1[i] = w[i + 1]
    BY <2>8, <2>11
  <2>14. Captures = examined \o <<>> \o w /\ Captures' = examined \o <<e>> \o w1
    BY ONLY <2>9, <2>11
  <2>15. /\ Len(examined \o <<e>> \o w1) = Len(examined \o <<>> \o w)
         /\ \A i \in 1..Len(examined \o <<>> \o w) :
               (examined \o <<e>> \o w1)[i] = (examined \o <<>> \o w)[i]
    BY ONLY <2>3, <2>12, <2>13, ShiftToHand, ZenonT(60)
  <2> QED
    BY ONLY <2>10, <2>14, <2>15 DEF Keep
<1>5. Running' => Running
  BY <1>2 DEF Running
<1> QED
  BY <1>1, <1>2, <1>3, <1>4, <1>5, SameOInv

(* run_tti: the capture in the thread's hand is the last one examined. *)
LEMMA ExamineOInv == ASSUME OInv, NEW ok \in BOOLEAN, Examine(ok) PROVE OInv'
<1>1. PInv /\ PInv' /\ TypeOK /\ OwnedOnce /\ ThreadInv
  BY ExaminePInv DEF OInv, PInv
<1>2. /\ wpc = "detect" /\ wpc' = "loop" /\ b' = b /\ b \in Buffers /\ b # Null
      /\ examined' = Append(examined, buf[b].tti) /\ queue' = queue
      /\ buf' = [buf EXCEPT ![b] = Reset(@)]
      /\ UNCHANGED txrxVars /\ current' = current /\ mainPc' = mainPc
  BY <1>1, PrachAssumption DEF Examine, ThreadInv, txrxVars
<1>3. HasThread' = HasThread
  BY <1>2 DEF HasThread
<1>4. InHand = {b} /\ InHand' = {}
  BY <1>2 DEF InHand
<1>5. b \notin Queued /\ b \notin Filling
  BY <1>1, <1>4 DEF OwnedOnce
<1>6. \A y \in Buffers : y # b => buf'[y] = buf[y]
  BY <1>1, <1>2 DEF TypeOK
<1>7. sfCnt > 0 => buf'[current].tti = buf[current].tti
  BY <1>1, <1>5, <1>6 DEF Filling, PInv, CaptureInv
<1>8. ASSUME Running PROVE Keep
  <2>1. /\ examined \in Seq(Nat) /\ Behind \in Seq(Nat) /\ Len(queue) \in Nat
        /\ \A i \in 1..Len(queue) : queue[i] \in Buffers
    BY <1>1, <1>8, PieceTypes
  <2>2. \A i \in 1..Len(queue) : queue[i] # b
    BY <1>2, <1>5, <2>1, PrachAssumption DEF Queued
  <2>3. \A i \in 1..Len(queue) : buf'[queue[i]].tti = buf[queue[i]].tti
    BY <1>6, <2>1, <2>2
  <2>4. Behind' = Behind
    BY <1>2, <2>3 DEF Behind
  <2>5. /\ Captures = examined \o <<buf[b].tti>> \o Behind
        /\ Captures' = Append(examined, buf[b].tti) \o <<>> \o Behind
    BY <1>2, <1>4, <2>4 DEF Captures, Behind
  <2>6. buf[b].tti \in Nat
    BY <1>1, <1>2 DEF TypeOK
  <2>7. Captures' = Captures
    BY ONLY <2>1, <2>5, <2>6, ShiftToSeen
  <2>8. Captures \in Seq(Nat)
    BY <1>1, <1>8, CapturesType
  <2> QED
    BY ONLY <2>7, <2>8 DEF Keep
<1>9. Running' => Running
  BY <1>2 DEF Running
<1> QED
  BY <1>1, <1>2, <1>3, <1>7, <1>8, <1>9, SameOInv

(* prach_worker::new_tti, in each of its four outcomes. *)
LEMMA NewTtiOInv == ASSUME OInv, NewTti PROVE OInv'
<1>1. /\ PInv /\ TypeOK /\ CaptureInv
  BY DEF OInv, PInv
<1>2. CASE sfCnt > 0 /\ Capture(current, free)
  <2>1. current \in Buffers /\ free \in SUBSET Buffers
    BY <1>1, <1>2 DEF CaptureInv, TypeOK
  <2> QED
    BY <1>2, <2>1, CaptureOInv
<1>3. ASSUME sfCnt = 0, tti \in Opps, NEW x \in free, Capture(x, free \ {x}) PROVE OInv'
  <2>1. x \in Buffers /\ free \ {x} \in SUBSET Buffers
    BY <1>1 DEF TypeOK
  <2> QED
    BY <1>3, <2>1, CaptureOInv
<1>4. CASE /\ sfCnt = 0 /\ tti \in Opps /\ skipped' = skipped \cup {tti}
           /\ UNCHANGED <<sfCnt, poolVars>>
  BY <1>4, PassOInv
<1>5. CASE sfCnt = 0 /\ tti \notin Opps /\ UNCHANGED <<current, sfCnt, skipped, poolVars>>
  BY <1>5, PassOInv
<1> QED
  BY <1>2, <1>3, <1>4, <1>5 DEF NewTti

LEMMA InitOInv == ASSUME Init PROVE OInv
<1>1. PInv /\ PrachAssumption
  BY InitPInv, PrachAssumption
<1>2. /\ tti = 0 /\ sfCnt = 0 /\ skipped = {} /\ examined = <<>> /\ queue = <<>>
      /\ wpc \in {"start", "none"} /\ InHand = {}
  BY DEF Init, InHand
<1>3. ProgressInv
  BY <1>2, PrachAssumption DEF ProgressInv
<1>4. Captures = <<>> /\ Len(Captures) = 0
  <2>1. [i \in 1..Len(queue) |-> buf[queue[i]].tti] = <<>>
    BY <1>2
  <2> QED
    BY <1>2, <2>1 DEF Captures
<1>5. Due = {}
  <2>1. ASSUME NEW t \in Opps PROVE ~(t + NofSf <= tti)
    BY <1>2, PrachAssumption
  <2> QED
    BY <2>1 DEF Due
<1>6. DueInOrder
  BY <1>4, <1>5 DEF DueInOrder
<1> QED
  BY <1>1, <1>3, <1>6 DEF OInv

LEMMA StepOInv == OInv /\ [Next]_vars => OInv'
<1> SUFFICES ASSUME OInv, [Next]_vars PROVE OInv'
  OBVIOUS
<1>1. PInv /\ PInv' /\ ThreadInv
  BY StepPInv DEF OInv, PInv
<1> DEFINE Control ==
      /\ UNCHANGED <<txrxVars, poolVars, b>> /\ HasThread' = HasThread
      /\ Running' => Running /\ InHand' = InHand
<1>2. ASSUME Control PROVE OInv'
  BY <1>1, <1>2, ControlOInv
<1>3. CASE NewTti
  BY <1>3, NewTtiOInv
<1>4. CASE Start \/ Loop
  <2>1. Control
    BY <1>4 DEF Start, Loop, InHand, Running, HasThread
  <2> QED
    BY <1>2, <2>1
<1>5. CASE Pop
  BY <1>5, PopOInv
<1>6. CASE Got
  <2>1. Running => wpc' = "detect"
    BY <1>1, <1>6, PrachAssumption DEF Got, ThreadInv
  <2>2. Control
    BY <1>6, <2>1 DEF Got, InHand, Running, HasThread
  <2> QED
    BY <1>2, <2>2
<1>7. ASSUME NEW ok \in BOOLEAN, Examine(ok) PROVE OInv'
  BY <1>7, ExamineOInv
<1>8. CASE StopTxRx \/ StopFlag \/ StopJoin
  <2>1. Control
    BY <1>8 DEF StopTxRx, StopFlag, StopJoin, InHand, Running, HasThread, thrVars
  <2> QED
    BY <1>2, <2>1
<1>9. CASE StopPush
  <2>1. ~Running' /\ UNCHANGED txrxVars /\ HasThread' = HasThread
        /\ buf' = buf
    BY <1>9 DEF StopPush, Running, HasThread, thrVars
  <2> QED
    BY <1>1, <2>1, SameOInv
<1>10. CASE UNCHANGED vars
  <2>1. Control
    BY <1>10 DEF vars, InHand, Running, HasThread, thrVars
  <2> QED
    BY <1>2, <2>1
<1> QED
  BY <1>3, <1>4, <1>5, <1>6, <1>7, <1>8, <1>9, <1>10 DEF Next, Thread, Stop

(* Until stop(), the captures examined, being examined and queued are the  *)
(* opportunities received in full and not passed for want of a buffer,     *)
(* each once and in their order, whatever buffers carried them.            *)
THEOREM InOrder == Spec => []DueInOrder
<1>1. OInv => DueInOrder
  BY DEF OInv
<1> QED
  BY <1>1, InitOInv, StepOInv, PTL DEF Spec
=============================================================================
