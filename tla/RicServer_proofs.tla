-------------------------- MODULE RicServer_proofs ---------------------------
(***************************************************************************)
(* What the two MIMO-RIC servers promise: first the lemmas about the pipes,*)
(* the types and the clock that they share, where HandleWith(r) is taken   *)
(* with any weight r; then AlphaServer, for every HWM, every pair of timers*)
(* with Timer1 <= Timer2 and any number of servers started; and            *)
(* AlphaServerToggle, whenever the button is pressed.                      *)
(***************************************************************************)
EXTENDS AlphaServer, AlphaServerToggle, SequenceTheorems, TLAPS

(* The steps of the shared loop that answer nothing. *)
Quiet ==
    \/ Sound \/ Poll \/ Flush \/ ConnectSub \/ ConnectPub
    \/ Stamp \/ Die \/ Restart \/ UNCHANGED ricVars

(* The weight applied and those on their way. *)
Visible == {alpha} \cup {repq[i] : i \in DOMAIN repq}

ClockInv == elapsed <= age

-----------------------------------------------------------------------------
(* Sequence facts about the pipes. *)

LEMMA TailElements ==
    ASSUME NEW S, NEW s \in Seq(S), s # <<>>
    PROVE  /\ Tail(s) \in Seq(S) /\ Len(Tail(s)) = Len(s) - 1
           /\ \A i \in 1..Len(Tail(s)) : Tail(s)[i] = s[i + 1]
           /\ Head(s) = s[1] /\ Head(s) \in S
  OBVIOUS

LEMMA PrefixElements ==
    ASSUME NEW S, NEW s \in Seq(S), NEW n \in 0..Len(s)
    PROVE  /\ SubSeq(s, 1, n) \in Seq(S) /\ Len(SubSeq(s, 1, n)) = n
           /\ \A i \in 1..n : SubSeq(s, 1, n)[i] = s[i]
  OBVIOUS

LEMMA AppendElements ==
    ASSUME NEW S, NEW s \in Seq(S), NEW e \in S
    PROVE  /\ Append(s, e) \in Seq(S) /\ Len(Append(s, e)) = Len(s) + 1
           /\ \A i \in 1..Len(s) : Append(s, e)[i] = s[i]
           /\ Append(s, e)[Len(s) + 1] = e
  OBVIOUS

LEMMA EmptyPipe == ASSUME NEW S PROVE <<>> \in Seq(S) /\ Len(<<>>) = 0 /\ 0 <= HWM
  BY HWMAssumption

LEMMA PublishType ==
    ASSUME NEW S, NEW pipe \in Seq(S), Len(pipe) <= HWM, NEW connected \in BOOLEAN,
           NEW msg \in S
    PROVE  Publish(pipe, connected, msg) \in Seq(S) /\ Len(Publish(pipe, connected, msg)) <= HWM
  BY HWMAssumption, AppendElements DEF Publish

(* Ages are naturals and 0 is one; the weight before any server is one. *)
LEMMA AgesFacts ==
    /\ 0 \in Ages /\ Ages \subseteq Nat /\ NoData \notin Ages
    /\ \A a \in Ages : a < AgeCap => a + 1 \in Ages
  BY RicAssumption DEF Ages

LEMMA WeightFacts ==
    \A l, n \in Nat :
        /\ [life |-> l, num |-> n] \in Weight
        /\ [life |-> l, num |-> n].life = l /\ [life |-> l, num |-> n].num = n
  BY DEF Weight

(* The pipe, in terms of its elements. *)
LEMMA PipeDomain ==
    ASSUME RicTypeOK
    PROVE  /\ DOMAIN repq = 1..Len(repq) /\ Len(repq) \in Nat
           /\ \A i \in 1..Len(repq) : repq[i] \in Weight
           /\ alpha \in Weight /\ life \in Nat /\ num \in Nat
           /\ age \in Nat /\ elapsed \in Nat /\ late \in Nat
  BY AgesFacts, RicAssumption DEF RicTypeOK, LinkTypeOK

-----------------------------------------------------------------------------
(* Types *)

LEMMA LoseRicType ==
    ASSUME LinkTypeOK(Ages, Weight), LoseRic
    PROVE  LinkTypeOK(Ages, Weight)'
<1> USE DEF LinkTypeOK
<1>1. PICK n \in 0..Len(repq) : repq' = SubSeq(repq, 1, n)
  BY DEF LoseRic
<1>2. repq' \in Seq(Weight) /\ Len(repq') = n
  BY <1>1, PrefixElements
<1>3. Len(repq') <= HWM
  BY <1>2, HWMAssumption
<1>4. pubq' = <<>> /\ ricq' = <<>> /\ UNCHANGED <<ranPc, alpha, sbuf>>
      /\ upLink' = FALSE /\ downLink' = FALSE
  BY DEF LoseRic
<1> QED
  <2>1. pubq' \in Seq(Ages) /\ Len(pubq') <= HWM
    BY <1>4, EmptyPipe
  <2>2. ricq' \in Seq(Ages \cup {Garbage}) /\ Len(ricq') <= HWM
    BY <1>4, EmptyPipe
  <2> QED
    BY <1>2, <1>3, <1>4, <2>1, <2>2

LEMMA RicInitType == RicInit => RicTypeOK /\ ClockInv /\ late = 0 /\ Visible = {alpha}
<1> USE HWMAssumption, RicAssumption
<1> SUFFICES ASSUME RicInit PROVE RicTypeOK /\ ClockInv /\ late = 0 /\ Visible = {alpha}
  OBVIOUS
<1> USE DEF RicInit, LinkInit
<1>1. LinkTypeOK(Ages, Weight)
  <2>1. pubq \in Seq(Ages) /\ Len(pubq) <= HWM
    BY EmptyPipe
  <2>2. ricq \in Seq(Ages \cup {Garbage}) /\ Len(ricq) <= HWM
    BY EmptyPipe
  <2>3. repq \in Seq(Weight) /\ Len(repq) <= HWM
    BY EmptyPipe
  <2>4. alpha \in Weight /\ sbuf \in Ages
    BY AgesFacts, WeightFacts
  <2> QED
    BY <2>1, <2>2, <2>3, <2>4 DEF LinkTypeOK
<1>2. life \in 1..MaxLives
  OBVIOUS
<1>3. age \in Ages /\ elapsed \in Ages /\ num \in Nat /\ late \in Nat
  BY AgesFacts
<1>4. data \in Ages \cup {NoData} /\ samples \subseteq Ages
  OBVIOUS
<1>5. Visible = {alpha}
  BY DEF Visible
<1>6. RicTypeOK
  BY <1>1, <1>2, <1>3, <1>4 DEF RicTypeOK
<1>7. ClockInv /\ late = 0
  BY AgesFacts DEF ClockInv
<1> QED
  BY <1>5, <1>6, <1>7

LEMMA QuietType == ASSUME RicTypeOK, Quiet PROVE RicTypeOK'
<1> USE HWMAssumption, RicAssumption
<1> USE DEF RicTypeOK, serverVars, loopVars
<1>1. CASE Sound
  <2>1. age' \in Ages
    BY <1>1, AgesFacts DEF Sound
  <2>2. pubq' \in Seq(Ages) /\ Len(pubq') <= HWM
    BY <1>1, <2>1, PublishType DEF Sound, SendY1Y2, LinkTypeOK
  <2> QED
    BY <1>1, <2>1, <2>2 DEF Sound, SendY1Y2, LinkTypeOK
<1>2. CASE Poll
  <2>1. alpha' \in Weight /\ repq' \in Seq(Weight) /\ Len(repq') <= HWM
    <3>1. CASE repq # <<>>
      <4>1. alpha' = Head(repq) /\ repq' = Tail(repq)
        BY <1>2, <3>1 DEF Poll, PollAlpha
      <4>2. repq \in Seq(Weight) /\ Len(repq) <= HWM /\ Len(repq) \in Nat
        BY DEF LinkTypeOK
      <4> QED
        BY <3>1, <4>1, <4>2, TailElements
    <3>2. CASE repq = <<>>
      BY <1>2, <3>2 DEF Poll, PollAlpha, LinkTypeOK
    <3> QED
      BY <3>1, <3>2
  <2> QED
    BY <1>2, <2>1 DEF Poll, PollAlpha, LinkTypeOK
<1>3. CASE Flush
  <2> USE <1>3 DEF Flush, Transmit, LinkTypeOK
  <2>1. PICK body \in {Head(pubq), sbuf, Garbage} : ricq' = Append(ricq, body)
    OBVIOUS
  <2>2. body \in Ages \cup {Garbage}
    BY TailElements
  <2>3. pubq' \in Seq(Ages) /\ Len(pubq') <= HWM
    BY TailElements
  <2>4. ricq' \in Seq(Ages \cup {Garbage}) /\ Len(ricq') <= HWM
    BY <2>1, <2>2, AppendElements
  <2> QED
    BY <2>3, <2>4
<1>4. CASE ConnectSub
  BY <1>4 DEF ConnectSub, ConnectUp, LinkTypeOK
<1>5. CASE ConnectPub
  BY <1>5 DEF ConnectPub, ConnectDown, LinkTypeOK
<1>6. CASE Die
  BY <1>6, LoseRicType DEF Die
<1>7. CASE Stamp
  BY <1>7 DEF Stamp, linkVars, LinkTypeOK
<1>8. CASE Restart
  <2> USE <1>8 DEF Restart
  <2>1. LinkTypeOK(Ages, Weight)'
    BY DEF linkVars, LinkTypeOK
  <2>2. life' \in 1..MaxLives
    OBVIOUS
  <2>3. age' \in Ages /\ elapsed' \in Ages /\ num' \in Nat /\ late' \in Nat
    BY AgesFacts
  <2>4. data' \in Ages \cup {NoData} /\ samples' \subseteq Ages
    OBVIOUS
  <2> QED
    BY <2>1, <2>2, <2>3, <2>4
<1>9. CASE UNCHANGED ricVars
  BY <1>9 DEF ricVars, linkVars, LinkTypeOK
<1> QED
  BY <1>1, <1>2, <1>3, <1>4, <1>5, <1>6, <1>7, <1>8, <1>9 DEF Quiet

(* The sum after the message, on which a reply may depend. *)
LEMMA SumType == ASSUME RicTypeOK, Accumulate PROVE num' \in Nat
  BY DEF RicTypeOK, Accumulate

LEMMA HandleType == ASSUME RicTypeOK, NEW r \in Weight, HandleWith(r) PROVE RicTypeOK'
<1> USE HWMAssumption, RicAssumption
<1> USE DEF RicTypeOK, HandleWith, Pending, Answer, LinkTypeOK
<1>1. ricq' \in Seq(Ages \cup {Garbage}) /\ Len(ricq') <= HWM
  BY TailElements
<1>2. Unpacked \in Ages
  BY TailElements DEF Unpacked
<1>3. num' \in Nat /\ samples' \subseteq Ages /\ late' \in Nat
  BY <1>2 DEF Accumulate
<1>4. repq' \in Seq(Weight) /\ Len(repq') <= HWM
  BY PublishType
<1> QED
  BY <1>1, <1>2, <1>3, <1>4

-----------------------------------------------------------------------------
(* elapsed_time never runs ahead of the clock. *)
LEMMA ClockStep ==
    ASSUME RicTypeOK, ClockInv, Quiet \/ \E r \in Weight : HandleWith(r)
    PROVE  ClockInv'
<1> USE PipeDomain DEF ClockInv
<1>1. CASE Sound
  BY <1>1 DEF Sound
<1>2. CASE Poll \/ Flush \/ ConnectSub \/ ConnectPub
  BY <1>2 DEF Poll, Flush, ConnectSub, ConnectPub, serverVars, loopVars
<1>3. CASE \E r \in Weight : HandleWith(r)
  BY <1>3 DEF HandleWith
<1>4. CASE Die
  BY <1>4 DEF Die, loopVars
<1>5. CASE Stamp
  BY <1>5 DEF Stamp
<1>6. CASE Restart
  BY <1>6 DEF Restart
<1>7. CASE UNCHANGED ricVars
  BY <1>7 DEF ricVars, serverVars, loopVars
<1> QED
  BY <1>1, <1>2, <1>3, <1>4, <1>5, <1>6, <1>7 DEF Quiet

-----------------------------------------------------------------------------
(* What a step does to the weight applied and to the pipe: nothing, the    *)
(* eNB takes the oldest, or a dying server's last ones are lost.           *)
PipeQuiet ==
    \/ UNCHANGED <<alpha, repq>>
    \/ repq # <<>> /\ alpha' = repq[1] /\ Len(repq') = Len(repq) - 1
       /\ \A i \in 1..Len(repq') : repq'[i] = repq[i + 1]
    \/ alpha' = alpha /\ \E n \in 0..Len(repq) :
           Len(repq') = n /\ \A i \in 1..n : repq'[i] = repq[i]

LEMMA QuietPipe == ASSUME RicTypeOK, Quiet PROVE PipeQuiet
<1> repq \in Seq(Weight)
  BY DEF RicTypeOK, LinkTypeOK
<1>1. CASE Sound \/ Flush \/ ConnectSub \/ ConnectPub \/ Stamp \/ Restart \/ UNCHANGED ricVars
  <2> UNCHANGED <<alpha, repq>>
    BY <1>1 DEF Sound, SendY1Y2, Flush, Transmit, ConnectSub, ConnectUp, ConnectPub,
                ConnectDown, Stamp, Restart, ricVars, linkVars
  <2> QED
    BY DEF PipeQuiet
<1>2. CASE Poll
  <2>1. CASE repq = <<>>
    BY <1>2, <2>1 DEF Poll, PollAlpha, PipeQuiet
  <2>2. CASE repq # <<>>
    <3>1. alpha' = Head(repq) /\ repq' = Tail(repq)
      BY <1>2, <2>2 DEF Poll, PollAlpha
    <3>2. /\ Len(Tail(repq)) = Len(repq) - 1 /\ Head(repq) = repq[1]
          /\ \A i \in 1..Len(Tail(repq)) : Tail(repq)[i] = repq[i + 1]
      BY <2>2, TailElements
    <3> QED
      BY <2>2, <3>1, <3>2 DEF PipeQuiet
  <2> QED
    BY <2>1, <2>2
<1>3. CASE Die
  <2>1. alpha' = alpha
    BY <1>3 DEF Die, LoseRic
  <2>2. PICK n \in 0..Len(repq) : repq' = SubSeq(repq, 1, n)
    BY <1>3 DEF Die, LoseRic
  <2>3. Len(repq') = n /\ \A i \in 1..n : repq'[i] = repq[i]
    BY <2>2, PrefixElements
  <2> QED
    BY <2>1, <2>3 DEF PipeQuiet
<1> QED
  BY <1>1, <1>2, <1>3 DEF Quiet

(* An answer is dropped, or put behind the others. *)
Appended(r) ==
    /\ alpha' = alpha /\ Len(repq') = Len(repq) + 1
    /\ \A i \in 1..Len(repq) : repq'[i] = repq[i]
    /\ repq'[Len(repq) + 1] = r

LEMMA HandlePipe ==
    ASSUME RicTypeOK, NEW r \in Weight, HandleWith(r)
    PROVE  UNCHANGED <<alpha, repq>> \/ Appended(r)
<1>1. repq \in Seq(Weight)
  BY DEF RicTypeOK, LinkTypeOK
<1>2. alpha' = alpha /\ repq' = Publish(repq, downLink, r)
  BY DEF HandleWith, Answer
<1>3. CASE repq' = repq
  BY <1>2, <1>3
<1>4. CASE repq' # repq
  <2>1. repq' = Append(repq, r)
    BY <1>2, <1>4 DEF Publish
  <2> QED
    BY <1>1, <1>2, <2>1, AppendElements DEF Appended
<1> QED
  BY <1>3, <1>4

(* No weight appears from nowhere. *)
LEMMA QuietVisible == ASSUME RicTypeOK, Quiet, RicTypeOK' PROVE Visible' \subseteq Visible
<1>1. /\ DOMAIN repq = 1..Len(repq) /\ Len(repq) \in Nat
      /\ DOMAIN repq' = 1..Len(repq') /\ Len(repq') \in Nat
  BY DEF RicTypeOK, LinkTypeOK
<1>2. CASE UNCHANGED <<alpha, repq>>
  BY <1>2 DEF Visible
<1>3. CASE /\ repq # <<>> /\ alpha' = repq[1] /\ Len(repq') = Len(repq) - 1
           /\ \A i \in 1..Len(repq') : repq'[i] = repq[i + 1]
  <2>1. 1 \in 1..Len(repq) /\ \A i \in 1..Len(repq') : i + 1 \in 1..Len(repq)
    BY <1>1, <1>3
  <2> QED
    BY <1>1, <1>3, <2>1 DEF Visible
<1>4. CASE alpha' = alpha /\ \E n \in 0..Len(repq) :
           Len(repq') = n /\ \A i \in 1..n : repq'[i] = repq[i]
  <2>1. \A i \in 1..Len(repq') : i \in 1..Len(repq) /\ repq'[i] = repq[i]
    BY <1>1, <1>4
  <2> QED
    BY <1>1, <1>4, <2>1 DEF Visible
<1> QED
  BY <1>2, <1>3, <1>4, QuietPipe DEF PipeQuiet

LEMMA HandleVisible ==
    ASSUME RicTypeOK, NEW r \in Weight, HandleWith(r), RicTypeOK'
    PROVE  Visible' \subseteq Visible \cup {r}
<1>1. /\ DOMAIN repq = 1..Len(repq) /\ Len(repq) \in Nat
      /\ DOMAIN repq' = 1..Len(repq') /\ Len(repq') \in Nat
  BY DEF RicTypeOK, LinkTypeOK
<1>2. CASE UNCHANGED <<alpha, repq>>
  BY <1>2 DEF Visible
<1>3. CASE Appended(r)
  <2>1. \A i \in 1..Len(repq') : \/ i = Len(repq) + 1 /\ repq'[i] = r
                                 \/ i \in 1..Len(repq) /\ repq'[i] = repq[i]
    BY <1>1, <1>3 DEF Appended
  <2> QED
    BY <1>1, <1>3, <2>1 DEF Visible, Appended
<1> QED
  BY <1>2, <1>3, HandlePipe

-----------------------------------------------------------------------------
(* The automatic demo.                                                     *)

(* Where a weight that is not zeros can come from: an earlier server, or   *)
(* the present one once its clock has passed Timer 2 -- and then the sum   *)
(* it averages is closed, because Timer 1 has passed too.                  *)
Served(w) ==
    \/ w.life < life
    \/ w.life = life /\ w.num = 0
    \/ w.life = life /\ w.num = num /\ elapsed >= Timer2

ServedInv == Served(alpha) /\ \A i \in 1..Len(repq) : Served(repq[i])

OrderInv ==
    /\ \A i \in 1..Len(repq) : Follows(alpha, repq[i])
    /\ \A i, j \in 1..Len(repq) : i < j => Follows(repq[i], repq[j])

(* WeightsInOrder alone is not inductive: that a new reply follows those   *)
(* already in the pipe rests on where they came from.                      *)
IInv == TypeOK /\ ClockInv /\ ServedInv /\ OrderInv

(* A late sample closes the sum at the Stamp that follows it. *)
LateInv ==
    \/ late = 0
    \/ /\ late = 1
       /\ elapsed >= Timer1 \/ (ricPc = "stamp" /\ age >= Timer1)

-----------------------------------------------------------------------------
(* Types *)

LEMMA ReplyWeight == ASSUME RicTypeOK, HandleWith(Reply) PROVE Reply \in Weight
<1>1. num' \in Nat
  BY SumType DEF HandleWith
<1> QED
  BY <1>1, PipeDomain DEF Reply, Weight

(* The steps, in the terms of RicServer_proofs. *)
LEMMA StepKinds ==
    ASSUME [Next]_vars
    PROVE  Quiet \/ Handle
  BY DEF Next, Quiet, Raise, Kill, vars

LEMMA NextType ==
    ASSUME TypeOK, [Next]_vars
    PROVE  TypeOK'
<1> USE DEF TypeOK
<1>1. CASE Quiet
  BY <1>1, QuietType
<1>2. CASE Handle
  <2>1. PICK r : r = Reply
    OBVIOUS
  <2>2. r \in Weight /\ HandleWith(r)
    BY <1>2, <2>1, ReplyWeight DEF Handle
  <2> QED
    BY <2>2, HandleType
<1> QED
  BY <1>1, <1>2, StepKinds

(* Every variable keeps its type, and the pipes their bound. *)
THEOREM TypeCorrect == Spec => []TypeOK
<1>1. Init => TypeOK
  BY RicInitType DEF Init, TypeOK
<1>2. TypeOK /\ [Next]_vars => TypeOK'
  BY NextType
<1> QED
  BY <1>1, <1>2, PTL DEF Spec

-----------------------------------------------------------------------------
(* The order of weights *)

LEMMA ClockKept ==
    ASSUME TypeOK, ClockInv, [Next]_vars
    PROVE  ClockInv'
<1>1. CASE Quiet
  BY <1>1, ClockStep DEF TypeOK
<1>2. CASE Handle
  <2>1. PICK r : r = Reply
    OBVIOUS
  <2>2. r \in Weight /\ HandleWith(r)
    BY <1>2, <2>1, ReplyWeight DEF Handle, TypeOK
  <2> QED
    BY <2>2, ClockStep DEF TypeOK
<1> QED
  BY <1>1, <1>2, StepKinds

(* A weight served before a step was served before the next one, too: the *)
(* sum it averages is closed once Timer 2 >= Timer 1 has been seen.        *)
LEMMA ServedStable ==
    ASSUME TimerOrder, TypeOK, ClockInv, [Next]_vars, NEW w \in Weight, Served(w)
    PROVE  Served(w)'
<1> w.life \in Nat /\ w.num \in Nat
  BY DEF Weight
<1> USE PipeDomain, RicAssumption, Timer2Assumption DEF TypeOK, Served
<1>1. CASE Sound
  BY <1>1 DEF Sound
<1>2. CASE Poll \/ Flush \/ ConnectSub \/ ConnectPub
  BY <1>2 DEF Poll, Flush, ConnectSub, ConnectPub, serverVars, loopVars
<1>3. CASE Handle
  <2>1. life' = life /\ elapsed' = elapsed
    BY <1>3 DEF Handle, HandleWith
  <2>2. elapsed >= Timer2 => num' = num
    BY <1>3 DEF Handle, HandleWith, Accumulate, Estimating, TimerOrder
  <2> QED
    BY <2>1, <2>2
<1>4. CASE Raise \/ Kill
  BY <1>4 DEF Raise, Kill, Die, loopVars
<1>5. CASE Stamp
  <2>1. life' = life /\ num' = num /\ elapsed' = age
    BY <1>5 DEF Stamp
  <2> QED
    BY <2>1 DEF ClockInv
<1>6. CASE Restart
  <2>1. life' = life + 1
    BY <1>6 DEF Restart
  <2> QED
    BY <2>1
<1>7. CASE UNCHANGED vars
  BY <1>7 DEF vars, ricVars, serverVars, loopVars
<1> QED
  BY <1>1, <1>2, <1>3, <1>4, <1>5, <1>6, <1>7 DEF Next

(* What a step does to the weight applied and to the pipe. *)
PipeStep == PipeQuiet \/ (Handle /\ \E r \in Weight : r = Reply /\ Appended(r))

LEMMA PipeSteps ==
    ASSUME TypeOK, [Next]_vars
    PROVE  PipeStep
<1>1. CASE Quiet
  BY <1>1, QuietPipe DEF TypeOK, PipeStep
<1>2. CASE Handle
  <2>1. PICK r : r = Reply
    OBVIOUS
  <2>2. r \in Weight /\ HandleWith(r)
    BY <1>2, <2>1, ReplyWeight DEF Handle, TypeOK
  <2>3. CASE UNCHANGED <<alpha, repq>>
    BY <2>3 DEF PipeStep, PipeQuiet
  <2>4. CASE Appended(r)
    BY <1>2, <2>1, <2>2, <2>4 DEF PipeStep
  <2> QED
    BY <2>2, <2>3, <2>4, HandlePipe DEF TypeOK
<1> QED
  BY <1>1, <1>2, StepKinds

(* A new reply follows every weight served before it. *)
LEMMA ReplyFollows ==
    ASSUME TimerOrder, TypeOK, Handle, NEW r, r = Reply
    PROVE  /\ r \in Weight /\ Served(r)'
           /\ \A w \in Weight : Served(w) => Follows(w, r)
<1> USE PipeDomain, RicAssumption, Timer2Assumption DEF TypeOK
<1>1. life' = life /\ elapsed' = elapsed /\ num' \in Nat
  BY DEF Handle, HandleWith, Accumulate
<1>2. elapsed >= Timer2 => num' = num
  BY DEF Handle, HandleWith, Accumulate, Estimating, TimerOrder
<1>3. \A w \in Weight : w.life \in Nat /\ w.num \in Nat
  BY DEF Weight
<1>4. r \in Weight /\ r.life = life /\ r.num = IF elapsed < Timer2 THEN 0 ELSE num'
  BY <1>1, WeightFacts DEF Reply
<1>5. Served(r)'
  BY <1>1, <1>4 DEF Served
<1>6. \A w \in Weight : Served(w) => Follows(w, r)
  BY <1>2, <1>3, <1>4 DEF Served, Follows
<1> QED
  BY <1>4, <1>5, <1>6

LEMMA ServedStep ==
    ASSUME TimerOrder, IInv, [Next]_vars
    PROVE  ServedInv'
<1> USE PipeDomain DEF TypeOK, IInv, ServedInv
<1>1. Len(repq) \in Nat /\ alpha \in Weight /\ \A i \in 1..Len(repq) : repq[i] \in Weight
  OBVIOUS
<1>2. \A w \in Weight : Served(w) => Served(w)'
  BY ServedStable
<1>3. CASE UNCHANGED <<alpha, repq>>
  BY <1>1, <1>2, <1>3 DEF Served
<1>4. CASE /\ repq # <<>> /\ alpha' = repq[1] /\ Len(repq') = Len(repq) - 1
           /\ \A i \in 1..Len(repq') : repq'[i] = repq[i + 1]
  <2>1. Len(repq) >= 1
    <3>1. repq \in Seq(Weight)
      BY DEF TypeOK, RicTypeOK, LinkTypeOK
    <3> QED
      BY <1>4, <3>1
  <2>2. repq[1] \in Weight /\ Served(repq[1])
    BY <1>1, <2>1
  <2>3. \A i \in 1..Len(repq') : repq[i + 1] \in Weight /\ Served(repq[i + 1])
    BY <1>1, <1>4, <2>1
  <2> QED
    BY <1>2, <1>4, <2>2, <2>3 DEF Served
<1>5. CASE alpha' = alpha /\ \E n \in 0..Len(repq) :
           Len(repq') = n /\ \A i \in 1..n : repq'[i] = repq[i]
  <2>1. \A i \in 1..Len(repq') : i \in 1..Len(repq) /\ repq'[i] = repq[i]
    BY <1>1, <1>5
  <2> QED
    BY <1>1, <1>2, <1>5, <2>1 DEF Served
<1>6. CASE Handle /\ \E r \in Weight : r = Reply /\ Appended(r)
  <2> USE DEF Appended
  <2>1. PICK r \in Weight : r = Reply /\ Appended(r)
    BY <1>6
  <2>2. Served(r)'
    BY <1>6, <2>1, ReplyFollows
  <2>3. \A i \in 1..Len(repq') : repq'[i] = r \/ (i \in 1..Len(repq) /\ repq'[i] = repq[i])
    BY <1>1, <1>6, <2>1
  <2> QED
    BY <1>1, <1>2, <1>6, <2>2, <2>3 DEF Served
<1> QED
  BY <1>3, <1>4, <1>5, <1>6, PipeSteps DEF PipeStep, PipeQuiet

LEMMA OrderStep ==
    ASSUME TimerOrder, IInv, [Next]_vars
    PROVE  OrderInv'
<1> USE DEF OrderInv
<1>1. /\ Len(repq) \in Nat /\ alpha \in Weight /\ repq \in Seq(Weight)
      /\ \A i \in 1..Len(repq) : repq[i] \in Weight
  BY PipeDomain DEF IInv, TypeOK, RicTypeOK, LinkTypeOK
<1>2. OrderInv
  BY DEF IInv
<1>3. CASE UNCHANGED <<alpha, repq>>
  BY <1>2, <1>3 DEF Follows
<1>4. CASE /\ repq # <<>> /\ alpha' = repq[1] /\ Len(repq') = Len(repq) - 1
           /\ \A i \in 1..Len(repq') : repq'[i] = repq[i + 1]
  <2>1. \A i \in 1..Len(repq') : i + 1 \in 1..Len(repq) /\ 1 < i + 1
    BY <1>1, <1>4
  <2>2. 1 \in 1..Len(repq)
    BY <1>1, <1>4
  <2>3. \A i \in 1..Len(repq') : Follows(alpha', repq'[i])
    BY <1>2, <1>4, <2>1, <2>2 DEF Follows
  <2>4. \A i, j \in 1..Len(repq') : i < j => Follows(repq'[i], repq'[j])
    BY <1>1, <1>2, <1>4, <2>1 DEF Follows
  <2> QED
    BY <2>3, <2>4 DEF Follows
<1>5. CASE alpha' = alpha /\ \E n \in 0..Len(repq) :
           Len(repq') = n /\ \A i \in 1..n : repq'[i] = repq[i]
  <2>1. \A i \in 1..Len(repq') : i \in 1..Len(repq) /\ repq'[i] = repq[i]
    BY <1>1, <1>5
  <2> QED
    BY <1>2, <1>5, <2>1 DEF Follows
<1>6. CASE Handle /\ \E r \in Weight : r = Reply /\ Appended(r)
  <2> USE DEF Appended
  <2>1. PICK r \in Weight : r = Reply /\ Appended(r)
    BY <1>6
  <2>2. \A w \in Weight : Served(w) => Follows(w, r)
    BY <1>6, <2>1, ReplyFollows DEF IInv
  <2>3. Follows(alpha, r) /\ \A i \in 1..Len(repq) : Follows(repq[i], r)
    BY <1>1, <2>2 DEF IInv, ServedInv
  <2>4. \A i \in 1..Len(repq') : \/ i = Len(repq) + 1 /\ repq'[i] = r
                                 \/ i \in 1..Len(repq) /\ repq'[i] = repq[i]
    BY <1>1, <1>6, <2>1
  <2>5. \A i, j \in 1..Len(repq') : i < j => i \in 1..Len(repq)
    BY <1>1, <1>6
  <2> QED
    BY <1>2, <1>6, <2>3, <2>4, <2>5 DEF Follows
<1> QED
  BY <1>3, <1>4, <1>5, <1>6, PipeSteps DEF PipeStep, PipeQuiet, Appended, IInv

-----------------------------------------------------------------------------
(* Theorems *)

LEMMA InvInit == Init => IInv
<1> SUFFICES ASSUME Init PROVE IInv
  OBVIOUS
<1>1. TypeOK
  BY RicInitType DEF Init, TypeOK
<1>2. Len(repq) = 0 /\ ClockInv /\ alpha.life = 0 /\ life = 1
  BY DEF Init, RicInit, LinkInit, ClockInv
<1>3. ServedInv
  BY <1>2 DEF ServedInv, Served
<1>4. OrderInv
  BY <1>2 DEF OrderInv
<1> QED
  BY <1>1, <1>2, <1>3, <1>4 DEF IInv

LEMMA InvStep ==
    ASSUME TimerOrder, IInv, [Next]_vars
    PROVE  IInv'
  BY NextType, ClockKept, ServedStep, OrderStep DEF IInv

(* Used within Timer 1 <= Timer 2, the zeros and the estimates of one      *)
(* server and of its successors reach the eNB in the order they were made, *)
(* however many messages zmq drops and whenever servers die.               *)
THEOREM Ordered ==
    ASSUME TimerOrder PROVE Spec => []WeightsInOrder
<1>1. IInv => WeightsInOrder
  BY PipeDomain DEF TypeOK, IInv, OrderInv, WeightsInOrder
<1>2. IInv /\ [Next]_vars => IInv'
  BY InvStep
<1> QED
  BY <1>1, <1>2, InvInit, PTL DEF Spec

(* A weight that nulls is never on its way, let alone applied, before its  *)
(* server has been running for Timer 2.                                    *)
THEOREM NullAfterTimer2 ==
    ASSUME TimerOrder PROVE Spec => []NullOnlyAfterTimer2
<1>1. IInv => NullOnlyAfterTimer2
  <2> SUFFICES ASSUME IInv, NEW w \in {alpha} \cup {repq[i] : i \in DOMAIN repq},
                      w.life = life, w.num > 0
               PROVE  age >= Timer2
    BY DEF NullOnlyAfterTimer2
  <2>1. Served(w) /\ elapsed <= age /\ elapsed \in Nat /\ age \in Nat /\ life \in Nat
    BY PipeDomain DEF TypeOK, IInv, ServedInv, ClockInv
  <2> QED
    BY <2>1, Timer2Assumption DEF Served
<1>2. IInv /\ [Next]_vars => IInv'
  BY InvStep
<1> QED
  BY <1>1, <1>2, InvInit, PTL DEF Spec

(* The weight the eNB applies implements BeamWeight: one server engages    *)
(* nulling at most once and keeps its estimate.                            *)
THEOREM ImplementsBeamWeight ==
    ASSUME TimerOrder PROVE Spec => BeamSpec
<1>1. Init => Beam!Init
  BY DEF Init, RicInit, LinkInit, Beam!Init, Beam!Zero
<1>2. IInv /\ [Next]_vars => [Beam!Next]_alpha
  <2> SUFFICES ASSUME IInv, [Next]_vars PROVE [Beam!Next]_alpha
    OBVIOUS
  <2>1. CASE alpha' = alpha
    BY <2>1
  <2>2. CASE repq # <<>> /\ alpha' = repq[1]
    <3>1. alpha \in Weight /\ repq[1] \in Weight /\ Follows(alpha, repq[1])
      <4>1. repq \in Seq(Weight)
        BY DEF IInv, TypeOK, RicTypeOK, LinkTypeOK
      <4>2. 1 \in 1..Len(repq)
        BY <2>2, <4>1
      <4> QED
        BY <4>2, PipeDomain DEF TypeOK, IInv, OrderInv
    <3>2. CASE alpha.life < alpha'.life
      BY <2>2, <3>1, <3>2 DEF Beam!Next, Beam!NewServer, Beam!Weight, Weight
    <3>3. CASE alpha.life = alpha'.life /\ alpha.num = alpha'.num
      BY <2>2, <3>1, <3>3 DEF Weight
    <3>4. CASE alpha.life = alpha'.life /\ alpha.num = 0 /\ alpha'.num # 0
      BY <2>2, <3>1, <3>4 DEF Beam!Next, Beam!Engage, Beam!Weight, Weight
    <3> QED
      BY <2>2, <3>1, <3>2, <3>3, <3>4 DEF Follows
  <2> QED
    BY <2>1, <2>2, PipeSteps DEF PipeStep, PipeQuiet, Appended, IInv
<1>3. IInv /\ [Next]_vars => IInv'
  BY InvStep
<1> QED
  BY <1>1, <1>2, <1>3, InvInit, PTL DEF Spec, BeamSpec, Beam!Spec

(* elapsed_time may be old by any amount when a sounding is summed; still  *)
(* a server sums at most one after Timer 1, in whatever order the timers.  *)
THEOREM OneLateSample == Spec => []AtMostOneLateSample
<1>1. Init => LateInv
  BY DEF Init, RicInit, LateInv
<1>2. TypeOK /\ ClockInv /\ LateInv /\ [Next]_vars => LateInv'
  <2> SUFFICES ASSUME TypeOK, ClockInv, LateInv, [Next]_vars PROVE LateInv'
    OBVIOUS
  <2> USE PipeDomain, RicAssumption DEF TypeOK, LateInv
  <2>1. CASE Sound
    BY <2>1 DEF Sound
  <2>2. CASE Poll \/ Flush \/ ConnectSub \/ ConnectPub
    BY <2>2 DEF Poll, Flush, ConnectSub, ConnectPub, serverVars, loopVars
  <2>3. CASE Handle
    BY <2>3 DEF Handle, HandleWith, Pending, Accumulate, Estimating
  <2>4. CASE Raise \/ Kill
    BY <2>4 DEF Raise, Kill, Die, loopVars
  <2>5. CASE Stamp
    BY <2>5 DEF Stamp, ClockInv
  <2>6. CASE Restart
    BY <2>6 DEF Restart
  <2>7. CASE UNCHANGED vars
    BY <2>7 DEF vars, ricVars, serverVars, loopVars
  <2> QED
    BY <2>1, <2>2, <2>3, <2>4, <2>5, <2>6, <2>7 DEF Next
<1>3. LateInv => AtMostOneLateSample
  BY DEF LateInv, AtMostOneLateSample
<1>4. Init => ClockInv
  BY DEF Init, RicInit, ClockInv
<1>5. TypeOK /\ ClockInv /\ [Next]_vars => ClockInv'
  BY ClockKept
<1> QED
  BY <1>1, <1>2, <1>3, <1>4, <1>5, TypeCorrect, PTL DEF Spec

(* A delay once accumulated between samples and weight stays: the poll     *)
(* takes one reply for each sounding sent, so as long as nothing is lost   *)
(* no step reduces the soundings that wait for their weight.               *)
THEOREM NeverCatchesUp == Spec => NoCatchUp
<1>1. TypeOK /\ [Next]_vars => [Lossless => Lag' >= Lag]_ricVars
  <2> SUFFICES ASSUME TypeOK, [Next]_vars, Lossless PROVE Lag' >= Lag
    OBVIOUS
  <2>1. /\ pubq \in Seq(Ages) /\ ricq \in Seq(Ages \cup {Garbage}) /\ repq \in Seq(Weight)
        /\ Len(pubq) \in Nat /\ Len(ricq) \in Nat /\ Len(repq) \in Nat
    BY DEF TypeOK, RicTypeOK, LinkTypeOK
  <2> USE <2>1 DEF Lag, InFlight
  <2>2. CASE UNCHANGED linkVars
    BY <2>2 DEF linkVars
  <2>3. CASE Sound
    <3>1. PICK s : pubq' = Append(pubq, s)
      BY <2>3 DEF Sound, SendY1Y2, Publish, Lossless, Dropped
    <3>2. Len(pubq') = Len(pubq) + 1
      BY <3>1
    <3> QED
      BY <2>3, <3>2 DEF Sound, SendY1Y2
  <2>4. CASE Poll
    <3>1. CASE repq # <<>>
      <4>1. Len(repq') = Len(repq) - 1
        BY <2>4, <3>1, TailElements DEF Poll, PollAlpha
      <4> QED
        BY <2>4, <4>1 DEF Poll, PollAlpha
    <3>2. CASE repq = <<>>
      BY <2>4, <3>2 DEF Poll, PollAlpha
    <3> QED
      BY <3>1, <3>2
  <2>5. CASE Flush
    <3>1. PICK body : ricq' = Append(ricq, body)
      BY <2>5 DEF Flush, Transmit
    <3>2. Len(ricq') = Len(ricq) + 1
      BY <3>1
    <3>3. Len(pubq') = Len(pubq) - 1
      BY <2>5, TailElements DEF Flush, Transmit
    <3> QED
      BY <2>5, <3>2, <3>3 DEF Flush, Transmit
  <2>6. CASE ConnectSub \/ ConnectPub
    BY <2>6 DEF ConnectSub, ConnectPub, ConnectUp, ConnectDown
  <2>7. CASE Handle
    <3>1. Len(ricq') = Len(ricq) - 1
      BY <2>7, TailElements DEF Handle, HandleWith, Pending, Answer
    <3>2. repq' = Append(repq, Reply)
      BY <2>7 DEF Handle, HandleWith, Pending, Answer, Publish, Lossless, Dropped
    <3>3. Len(repq') = Len(repq) + 1
      BY <3>2
    <3> QED
      <4>1. pubq' = pubq /\ ranPc' = ranPc
        BY <2>7 DEF Handle, HandleWith, Answer
      <4> QED
        BY <3>1, <3>3, <4>1
  <2>8. CASE Raise \/ Kill
    BY <2>8 DEF Raise, Kill, Die, Lossless
  <2>9. CASE Stamp \/ Restart \/ UNCHANGED vars
    BY <2>2, <2>9 DEF Stamp, Restart, vars, ricVars
  <2> QED
    BY <2>3, <2>4, <2>5, <2>6, <2>7, <2>8, <2>9 DEF Next
<1> QED
  BY <1>1, TypeCorrect, PTL DEF Spec, NoCatchUp, vars

-----------------------------------------------------------------------------
(* The manual demo.                                                        *)

(* OneEstimatePerServer needs that the estimate stays closed, which rests  *)
(* on the clock, and that no weight is of a server not started yet.        *)
TInv ==
    /\ ManualTypeOK /\ ClockInv
    /\ final > 0 => final = num /\ ~Estimating
    /\ \A w \in Visible : w.life <= life /\ (w.life = life => w.num \in {0, final})

LEMMA InitTInv == ManualInit => TInv
<1> SUFFICES ASSUME ManualInit PROVE TInv
  OBVIOUS
<1>1. RicTypeOK /\ ClockInv /\ Visible = {alpha}
  BY RicInitType DEF ManualInit
<1>2. alpha.life = 0 /\ life = 1 /\ final = 0 /\ toggle = FALSE
  BY DEF ManualInit, RicInit, LinkInit
<1>3. ManualTypeOK
  BY <1>1, <1>2 DEF ManualTypeOK
<1>4. \A w \in Visible : w.life <= life /\ w.life # life
  BY <1>1, <1>2
<1> QED
  BY <1>1, <1>2, <1>3, <1>4 DEF TInv

LEMMA VisibleWeights == ASSUME RicTypeOK PROVE \A w \in Visible : w.life \in Nat /\ w.num \in Nat
<1>1. Visible \subseteq Weight
  BY PipeDomain DEF Visible
<1> QED
  BY <1>1 DEF Weight

(* The steps of the loop that answer nothing, but for a restart. *)
LEMMA QuietTInv ==
    ASSUME TInv, Quiet, toggle' \in BOOLEAN, final' = final, life' = life, num' = num,
           elapsed' \in {elapsed, age}
    PROVE  TInv'
<1>1. RicTypeOK /\ final \in Nat
  BY DEF TInv, ManualTypeOK
<1>2. RicTypeOK'
  BY <1>1, QuietType
<1>3. ClockInv'
  BY <1>1, ClockStep DEF TInv
<1>4. Visible' \subseteq Visible
  BY <1>1, <1>2, QuietVisible
<1>5. ~Estimating => ~Estimating'
  BY <1>1, PipeDomain, RicAssumption DEF Estimating, TInv, ClockInv
<1> QED
  BY <1>1, <1>2, <1>3, <1>4, <1>5 DEF TInv, ManualTypeOK

LEMMA HandleTInv == ASSUME TInv, ManualHandle PROVE TInv'
<1>1. RicTypeOK /\ final \in Nat /\ toggle \in BOOLEAN /\ num \in Nat
  BY PipeDomain DEF TInv, ManualTypeOK
<1>2. final' = IF ~Estimating /\ final = 0 THEN num ELSE final
  BY DEF ManualHandle, Conclude
<1>3. PICK r : r = [life |-> life, num |-> IF toggle THEN final' ELSE 0]
  OBVIOUS
<1>4. HandleWith(r) /\ toggle' = toggle
  BY <1>3 DEF ManualHandle
<1>5. /\ r \in Weight /\ r.life = life /\ r.num \in {0, final'}
  BY <1>1, <1>2, <1>3, WeightFacts, PipeDomain
<1>6. RicTypeOK'
  BY <1>1, <1>4, <1>5, HandleType
<1>7. ClockInv'
  BY <1>1, <1>4, <1>5, ClockStep DEF TInv
<1>8. Visible' \subseteq Visible \cup {r}
  BY <1>1, <1>4, <1>5, <1>6, HandleVisible
<1>9. life' = life /\ elapsed' = elapsed /\ (~Estimating => num' = num)
  BY <1>4 DEF HandleWith, Accumulate
<1>10. Estimating' <=> Estimating
  BY <1>9 DEF Estimating
<1>11. final > 0 => final' = final
  BY <1>1, <1>2
<1>12. final' > 0 => final' = num' /\ ~Estimating'
  BY <1>1, <1>2, <1>9, <1>10 DEF TInv
<1>13. ASSUME NEW w \in Visible'
       PROVE  w.life <= life' /\ (w.life = life' => w.num \in {0, final'})
  <2>1. CASE w \in Visible
    BY <1>1, <1>9, <1>11, <2>1, VisibleWeights DEF TInv
  <2>2. CASE w = r
    BY <1>1, <1>5, <1>9, <2>2, PipeDomain
  <2> QED
    BY <1>8, <2>1, <2>2
<1> QED
  BY <1>1, <1>2, <1>4, <1>6, <1>7, <1>12, <1>13 DEF TInv, ManualTypeOK

LEMMA RelaunchTInv == ASSUME TInv, Relaunch PROVE TInv'
<1>1. RicTypeOK /\ Restart /\ toggle' = FALSE /\ final' = 0 /\ life' = life + 1
  BY DEF TInv, ManualTypeOK, Relaunch, Restart
<1>2. RicTypeOK' /\ ClockInv'
  BY <1>1, QuietType, ClockStep DEF Quiet, TInv
<1>3. Visible' \subseteq Visible
  BY <1>1, <1>2, QuietVisible DEF Quiet
<1>4. \A w \in Visible' : w.life <= life' /\ w.life # life'
  BY <1>1, <1>3, VisibleWeights, PipeDomain DEF TInv
<1>5. ManualTypeOK'
  BY <1>1, <1>2 DEF ManualTypeOK
<1>6. ~(final' > 0)
  BY <1>1
<1> QED
  BY <1>2, <1>4, <1>5, <1>6 DEF TInv

LEMMA NextTInv == TInv /\ [ManualNext]_manualVars => TInv'
<1> SUFFICES ASSUME TInv, [ManualNext]_manualVars PROVE TInv'
  OBVIOUS
<1> toggle \in BOOLEAN
  BY DEF TInv, ManualTypeOK
<1>1. CASE (Sound \/ Poll \/ Flush \/ ConnectSub \/ ConnectPub) /\ UNCHANGED guiVars
  BY <1>1, QuietTInv DEF Quiet, guiVars, Sound, Poll, Flush, ConnectSub, ConnectPub,
                         serverVars, loopVars
<1>2. CASE (Stamp \/ Kill) /\ UNCHANGED guiVars
  BY <1>2, QuietTInv DEF Quiet, guiVars, Stamp, Kill, Die, loopVars
<1>3. CASE ManualHandle
  BY <1>3, HandleTInv
<1>4. CASE ManualRaise
  BY <1>4, QuietTInv DEF Quiet, ManualRaise, guiVars, Die, loopVars
<1>5. CASE Toggle
  BY <1>5, QuietTInv DEF Quiet, Toggle, ricVars, serverVars, loopVars
<1>6. CASE Relaunch
  BY <1>6, RelaunchTInv
<1>7. CASE UNCHANGED manualVars
  BY <1>7, QuietTInv DEF Quiet, manualVars, guiVars, ricVars, serverVars, loopVars
<1> QED
  BY <1>1, <1>2, <1>3, <1>4, <1>5, <1>6, <1>7 DEF ManualNext

-----------------------------------------------------------------------------
LEMMA ManualInvariance == ManualSpec => []TInv
  BY InitTInv, NextTInv, PTL DEF ManualSpec

(* Every variable keeps its type, and the pipes their bound. *)
THEOREM ManualTypeCorrect == ManualSpec => []ManualTypeOK
<1>1. TInv => ManualTypeOK
  BY DEF TInv
<1> QED
  BY <1>1, ManualInvariance, PTL

(* Whatever the button does, and whatever zmq loses, all weights of one    *)
(* server that are not zeros are one average, whose sum is closed.         *)
THEOREM OneEstimate == ManualSpec => []OneEstimatePerServer
<1>1. TInv => OneEstimatePerServer
  BY DEF TInv, OneEstimatePerServer, Visible
<1> QED
  BY <1>1, ManualInvariance, PTL

(* A server sums at most one sample after Timer 1, in the manual demo too. *)
THEOREM ManualOneLateSample == ManualSpec => []AtMostOneLateSample
<1>1. ManualInit => LateInv
  BY DEF ManualInit, RicInit, LateInv
<1>2. TInv /\ LateInv /\ [ManualNext]_manualVars => LateInv'
  <2> SUFFICES ASSUME TInv, LateInv, [ManualNext]_manualVars PROVE LateInv'
    OBVIOUS
  <2> RicTypeOK /\ ClockInv
    BY DEF TInv, ManualTypeOK
  <2> USE PipeDomain, RicAssumption DEF LateInv
  <2>1. CASE Sound
    BY <2>1 DEF Sound
  <2>2. CASE Poll \/ Flush \/ ConnectSub \/ ConnectPub
    BY <2>2 DEF Poll, Flush, ConnectSub, ConnectPub, serverVars, loopVars
  <2>3. CASE ManualHandle
    BY <2>3 DEF ManualHandle, HandleWith, Pending, Accumulate, Estimating
  <2>4. CASE ManualRaise \/ Kill
    BY <2>4 DEF ManualRaise, Kill, Die, loopVars
  <2>5. CASE Stamp
    BY <2>5 DEF Stamp, ClockInv
  <2>6. CASE Relaunch
    BY <2>6 DEF Relaunch, Restart
  <2>7. CASE Toggle \/ UNCHANGED manualVars
    BY <2>7 DEF Toggle, manualVars, ricVars, serverVars, loopVars
  <2> QED
    BY <2>1, <2>2, <2>3, <2>4, <2>5, <2>6, <2>7 DEF ManualNext
<1>3. LateInv => AtMostOneLateSample
  BY DEF LateInv, AtMostOneLateSample
<1> QED
  BY <1>1, <1>2, <1>3, ManualInvariance, PTL DEF ManualSpec
=============================================================================
