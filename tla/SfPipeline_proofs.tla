------------------------- MODULE SfPipeline_proofs --------------------------
(***************************************************************************)
(* Proofs about SfPipeline, for pools of any size, any number of subframes *)
(* and of UEs removed.  HoldInv says who holds which worker and that the   *)
(* semaphore holds exactly the workers between push and release; OrderInv  *)
(* adds the order of the semaphore, SignalInv what has been combined, and  *)
(* SyncInv the order of the NR scheduler.                                  *)
(***************************************************************************)
EXTENDS SfPipeline, TLAPS

Elements(s) == {s[i] : i \in 1..Len(s)}

-----------------------------------------------------------------------------
(* Who holds which worker. *)

(* Workers that TXRX has reserved and not started. *)
Reserved ==
    (IF NofLte > 0 /\ txPc \in {"nr", "pushNr", "startNr", "pushLte", "startLte"}
       THEN {lteWorker} ELSE {})
    \cup (IF txPc \in {"pushNr", "startNr"} THEN {nrWorker} ELSE {})

(* Workers on the way from semaphore.push to semaphore.release. *)
Pushed(w) ==
    \/ txPc = "startLte" /\ w = lteWorker
    \/ txPc = "startNr" /\ w = nrWorker
    \/ status[w] = "START_WORK"
    \/ wpc[w] \in {"begin", "sync", "dl", "end", "hold", "tx", "last", "release"}

(* A pool is stopped when phy::stop says so, after TXRX has ended and the  *)
(* semaphore has drained.                                                  *)
StopInv ==
    /\ mainPc = "run" => running
    /\ mainPc \notin {"run", "joinTxrx"} => txPc = "done"
    /\ mainPc \in {"stopLte", "joinLte", "stopNr", "joinNr", "end"} => fifo = <<>>
    /\ poolRun["lte"] <=> mainPc \notin {"joinLte", "stopNr", "joinNr", "end"}
    /\ poolRun["nr"] <=> mainPc \notin {"joinNr", "end"}
    /\ \A w \in Workers : status[w] = "STOP" <=> ~poolRun[Pool(w)]

TxrxInv ==
    /\ txPc \in {"lte", "pushLte", "startLte"} => NofLte > 0
    /\ txPc \in {"nr", "pushNr", "startNr", "pushLte", "startLte"} /\ NofLte > 0 =>
          lteWorker \in Lte
    /\ txPc \in {"nr", "pushNr", "startNr"} => NofNr > 0
    /\ txPc \in {"pushNr", "startNr"} => nrWorker \in Nr

(* The status of a worker and where its thread is. *)
WorkerInv ==
    /\ \A w \in Workers :
        /\ status[w] \in {"IDLE", "START_WORK", "WORKER_READY"} => wpc[w] = "start"
        /\ status[w] = "WORKING" => wpc[w] \notin {"start", "exit"}
        /\ wpc[w] = "exit" => status[w] = "STOP"
        /\ w \in Reserved => status[w] = "WORKER_READY"
        /\ Pool(w) = "lte" => wpc[w] \notin {"sync", "dl", "hold", "wait"}
    /\ remPc # "idle" => NofLte > 0 /\ remId \in 0..NofLte - 1
    /\ remPc = "hold" =>
        /\ status[<<"lte", remId>>] \in {"WORKER_READY", "STOP"}
        /\ wpc[<<"lte", remId>>] \in {"start", "exit"}
        /\ <<"lte", remId>> \notin Reserved

(* The semaphore holds the workers pushed, each once. *)
FifoInv ==
    /\ Elements(fifo) = {w \in Workers : Pushed(w)}
    /\ \A i, j \in 1..Len(fifo) : fifo[i] = fifo[j] => i = j
    /\ \A w \in Workers :
        wpc[w] \in {"hold", "tx", "last", "release"} => fifo # <<>> /\ fifo[1] = w

HoldInv == TypeOK /\ StopInv /\ TxrxInv /\ WorkerInv /\ FifoInv

-----------------------------------------------------------------------------
(* What is transmitted. *)

(* TXRX has yet to push the last worker of the present subframe. *)
Pending ==
    \/ NofLte > 0 /\ txPc \in {"lte", "nr", "pushNr", "startNr", "pushLte"}
    \/ NofLte = 0 /\ txPc \in {"nr", "pushNr"}

(* The transmission of w's subframe is over. *)
Sent(w) == IsLast(w) /\ wpc[w] \in {"last", "release"}

Precedes(w, v) == ctx[w] < ctx[v] \/ (ctx[w] = ctx[v] /\ Pool(w) = "nr" /\ Pool(v) = "lte")

(* Only the last worker of a subframe transmits; the others are held back. *)
PlaceInv ==
    \A w \in Workers : /\ IsLast(w) => wpc[w] \notin {"hold", "wait"}
                       /\ wpc[w] \in {"tx", "last"} => IsLast(w)

(* The semaphore is in the order of the subframes, from the one after the  *)
(* last transmitted, and every subframe has its last worker in it.         *)
OrderInv ==
    /\ air.tti <= tti
    /\ \A i, j \in 1..Len(fifo) : i < j => Precedes(fifo[i], fifo[j])
    /\ \A w \in Elements(fifo) : IF Sent(w) THEN ctx[w] = air.tti ELSE ctx[w] > air.tti
    /\ \A t \in air.tti + 1..tti :
        \/ \E w \in Elements(fifo) : IsLast(w) /\ ctx[w] = t
        \/ t = tti /\ Pending
    /\ Pending => air.tti < tti
    /\ Pending => \A w \in Elements(fifo) :
        ctx[w] = tti => Pool(w) = "nr" /\ NofLte > 0 /\ txPc \in {"startNr", "pushLte"}

(* Signals on their way to the radio. *)
SignalInv ==
    \A w \in Workers :
        /\ w \in txBuffer =>
              /\ wpc[w] \in {"hold", "tx", "release", "wait"}
              /\ buf[w] = ctx[w] /\ ctx[w] = air.tti + 1 /\ sig[w]
              /\ wpc[w] \in {"release", "wait"} => txHold
        /\ wpc[w] \in {"end", "hold", "tx", "last", "release", "wait"} /\ sig[w] => buf[w] = ctx[w]
        /\ wpc[w] = "last" => txBuffer = {}
        /\ sig[w] /\ ctx[w] > air.tti => Pushed(w) \/ w \in txBuffer
        /\ wpc[w] \in {"hold", "tx", "release"} /\ sig[w] /\ ctx[w] > air.tti => w \in txBuffer

(* The order of the NR scheduler. *)
ToSchedule(w) ==
    Pool(w) = "nr" /\ (status[w] = "START_WORK" \/ wpc[w] \in {"begin", "sync"})

SyncInv ==
    /\ Elements(sync) = {w \in Workers : ToSchedule(w)}
    /\ \A i, j \in 1..Len(sync) : i < j => ctx[sync[i]] < ctx[sync[j]]
    /\ \A w \in Elements(sync) : ctx[w] > schedSlot
    /\ schedSlot <= tti
    /\ txPc \in {"lte", "nr", "pushNr", "startNr"} =>
        schedSlot < tti /\ \A w \in Elements(sync) : ctx[w] < tti
    /\ txPc = "startNr" => ctx[nrWorker] = tti

-----------------------------------------------------------------------------
LEMMA Names ==
    /\ \A w \in Workers : /\ Pool(w) \in Pools /\ w # None
                          /\ w \in Lte <=> Pool(w) = "lte"
                          /\ w \in Nr <=> Pool(w) = "nr"
    /\ Lte \subseteq Workers /\ Nr \subseteq Workers
    /\ \A w \in Lte : Pool(w) = "lte"
    /\ \A w \in Nr : Pool(w) = "nr"
    /\ \A i \in 0..NofLte - 1 : <<"lte", i>> \in Lte
    /\ NofLte = 0 => Lte = {}
    /\ NofNr = 0 => Nr = {}
    /\ NofLte \in Nat /\ NofNr \in Nat /\ (NofLte > 0 \/ NofNr > 0)
    /\ None \notin Workers
<1>1. \A w \in Lte : Pool(w) = "lte" /\ w # None
  BY DEF Lte, Pool, None
<1>2. \A w \in Nr : Pool(w) = "nr" /\ w # None
  BY DEF Nr, Pool, None
<1>3. NofLte \in Nat /\ NofNr \in Nat /\ (NofLte > 0 \/ NofNr > 0)
  BY PipelineAssumption
<1>4. /\ NofLte = 0 => Lte = {}
      /\ NofNr = 0 => Nr = {}
      /\ \A i \in 0..NofLte - 1 : <<"lte", i>> \in Lte
  BY <1>3 DEF Lte, Nr
<1> QED
  BY <1>1, <1>2, <1>3, <1>4 DEF Workers, Pools

LEMMA PushFacts ==
    ASSUME NEW S, NEW s \in Seq(S), NEW e \in S
    PROVE  /\ Append(s, e) \in Seq(S) /\ Len(Append(s, e)) = Len(s) + 1 /\ Append(s, e) # <<>>
           /\ \A i \in 1..Len(s) : Append(s, e)[i] = s[i]
           /\ Append(s, e)[Len(s) + 1] = e
           /\ Elements(Append(s, e)) = Elements(s) \cup {e}
           /\ s # <<>> => Append(s, e)[1] = s[1]
           /\ s # <<>> => 1 \in 1..Len(s)
           /\ s = <<>> => Elements(s) = {} /\ Append(s, e)[1] = e
<1>1. /\ Append(s, e) \in Seq(S) /\ Len(Append(s, e)) = Len(s) + 1 /\ Append(s, e) # <<>>
      /\ \A i \in 1..Len(s) : Append(s, e)[i] = s[i]
      /\ Append(s, e)[Len(s) + 1] = e /\ Len(s) \in Nat
  OBVIOUS
<1>2. Elements(Append(s, e)) = Elements(s) \cup {e}
  BY <1>1 DEF Elements
<1>3. s # <<>> => 1 \in 1..Len(s)
  OBVIOUS
<1>4. s = <<>> => Elements(s) = {} /\ Append(s, e)[1] = e
  BY <1>1 DEF Elements
<1> QED
  BY <1>1, <1>2, <1>3, <1>4

LEMMA ReleaseFacts ==
    ASSUME NEW S, NEW s \in Seq(S), s # <<>>, \A i, j \in 1..Len(s) : s[i] = s[j] => i = j
    PROVE  /\ Release(s) \in Seq(S) /\ Len(Release(s)) = Len(s) - 1 /\ Head(s) = s[1]
           /\ \A i \in 1..Len(Release(s)) : i + 1 \in 1..Len(s) /\ Release(s)[i] = s[i + 1]
           /\ Elements(Release(s)) = Elements(s) \ {s[1]}
           /\ \A i, j \in 1..Len(Release(s)) : Release(s)[i] = Release(s)[j] => i = j
<1>1. /\ Release(s) \in Seq(S) /\ Len(Release(s)) = Len(s) - 1 /\ Head(s) = s[1]
      /\ Len(s) \in Nat /\ Len(s) >= 1
      /\ \A i \in 1..Len(Release(s)) : i + 1 \in 1..Len(s) /\ Release(s)[i] = s[i + 1]
  BY DEF Release
<1>2. \A i, j \in 1..Len(Release(s)) : Release(s)[i] = Release(s)[j] => i = j
  BY <1>1
<1>3. ASSUME NEW x \in Elements(Release(s)) PROVE x \in Elements(s) \ {s[1]}
  <2>1. PICK i \in 1..Len(Release(s)) : x = Release(s)[i]
    BY <1>3 DEF Elements
  <2>2. x = s[i + 1] /\ i + 1 \in 1..Len(s) /\ 1 \in 1..Len(s) /\ i + 1 # 1
    BY <1>1, <2>1
  <2> QED
    BY <2>2 DEF Elements
<1>4. ASSUME NEW x \in Elements(s) \ {s[1]} PROVE x \in Elements(Release(s))
  <2>1. PICK i \in 1..Len(s) : x = s[i] /\ i # 1
    BY <1>4 DEF Elements
  <2>2. i - 1 \in 1..Len(Release(s)) /\ (i - 1) + 1 = i
    BY <1>1, <2>1
  <2>3. Release(s)[i - 1] = s[i]
    BY <1>1, <2>2
  <2> QED
    BY <2>1, <2>2, <2>3 DEF Elements
<1> QED
  BY <1>1, <1>2, <1>3, <1>4

LEMMA ElementFacts ==
    ASSUME NEW S, NEW s \in Seq(S)
    PROVE  /\ Elements(s) \subseteq S /\ Len(s) \in Nat
           /\ \A i \in 1..Len(s) : s[i] \in Elements(s)
           /\ \A x \in Elements(s) : \E i \in 1..Len(s) : s[i] = x
           /\ s = <<>> <=> Elements(s) = {}
           /\ s # <<>> => 1 \in 1..Len(s) /\ Head(s) = s[1]
<1>1. s # <<>> => 1 \in 1..Len(s) /\ Head(s) = s[1]
  OBVIOUS
<1>2. s = <<>> => Len(s) = 0
  OBVIOUS
<1> QED
  BY <1>1, <1>2 DEF Elements

-----------------------------------------------------------------------------
LEMMA InitHoldInv == ASSUME Init PROVE HoldInv
<1>1. \A w \in Workers : wpc[w] = "start" /\ status[w] = "IDLE"
  BY DEF Init
<1>2. TypeOK
  <2>1. fifo \in Seq(Workers) /\ sync \in Seq(Workers) /\ ctx \in [Workers -> 0..tti]
    BY DEF Init
  <2> QED
    BY <2>1 DEF Init, TypeOK, Statuses
<1>3. StopInv
  BY <1>1, Names DEF Init, StopInv, Pools
<1>4. TxrxInv
  BY DEF Init, TxrxInv
<1>5. WorkerInv
  BY <1>1 DEF Init, WorkerInv, Reserved
<1>6. FifoInv
  <2>1. fifo = <<>> /\ Len(fifo) = 0
    BY DEF Init
  <2>2. \A w \in Workers : ~Pushed(w)
    BY <1>1 DEF Init, Pushed
  <2> QED
    BY <1>1, <2>1, <2>2 DEF FifoInv, Elements
<1> QED
  BY <1>2, <1>3, <1>4, <1>5, <1>6 DEF HoldInv

(* Whatever has been pushed keeps the pools running. *)
LEMMA PushedRuns ==
    ASSUME HoldInv, NEW w \in Workers, Pushed(w)
    PROVE  /\ fifo # <<>> /\ w \in Elements(fifo) /\ poolRun[Pool(w)]
           /\ mainPc \in {"run", "joinTxrx", "waitAll"}
<1>1. w \in Elements(fifo) /\ fifo \in Seq(Workers)
  BY DEF HoldInv, FifoInv, TypeOK
<1>2. fifo # <<>>
  BY <1>1, ElementFacts
<1>3. mainPc \in {"run", "joinTxrx", "waitAll"}
  BY <1>2 DEF HoldInv, TypeOK, StopInv
<1>4. poolRun["lte"] /\ poolRun["nr"]
  BY <1>3 DEF HoldInv, StopInv
<1> QED
  BY <1>1, <1>2, <1>3, <1>4, Names DEF Pools

(* Types. *)
Places == {"start", "begin", "sync", "dl", "end", "hold", "tx",
           "last", "release", "wait", "finish", "exit"}

(* A worker's step, as far as the pools and the other threads can tell. *)
Move(w, q) ==
    /\ wpc' = [wpc EXCEPT ![w] = q]
    /\ UNCHANGED <<poolRun, running, tti, txPc, lteWorker, nrWorker, mainPc, remPc, remId, removals>>

LEMMA WorkerType ==
    ASSUME TypeOK, NEW w \in Workers, Worker(w)
    PROVE  TypeOK'
<1> USE DEF TypeOK, sigVars, comVars, txrxVars, remVars
<1>1. CASE WaitToStart(w)
  <2>1. status' \in [Workers -> Statuses]
    BY <1>1 DEF WaitToStart, Statuses
  <2>2. wpc' \in [Workers -> Places]
    BY <1>1 DEF WaitToStart, Places
  <2> QED
    BY <1>1, <2>1, <2>2 DEF WaitToStart, Places
<1>2. CASE Begin(w)
  <2>1. buf' \in [Workers -> Nat] /\ sig' \in [Workers -> BOOLEAN]
    BY <1>2 DEF Begin
  <2> QED
    BY <1>2, <2>1 DEF Begin
<1>3. CASE Schedule(w)
  <2>1. sync' \in Seq(Workers)
    BY <1>3 DEF Schedule, Release
  <2>2. schedSlot' \in Nat
    BY <1>3 DEF Schedule
  <2> QED
    BY <1>3, <2>1, <2>2 DEF Schedule
<1>4. CASE WorkDl(w)
  <2>1. buf' \in [Workers -> Nat] /\ sig' \in [Workers -> BOOLEAN]
    BY <1>4 DEF WorkDl
  <2> QED
    BY <1>4, <2>1 DEF WorkDl
<1>5. CASE Combine(w)
  BY <1>5 DEF Combine
<1>6. CASE ResetLastWorker(w)
  BY <1>6 DEF ResetLastWorker
<1>7. CASE Transmit(w)
  <2>1. ctx[w] \in Nat /\ {buf[v] : v \in txBuffer} \in SUBSET Nat
    OBVIOUS
  <2>2. air' \in [tti : Nat, signals : SUBSET Nat]
    BY <1>7, <2>1 DEF Transmit
  <2> QED
    BY <1>7, <2>2 DEF Transmit
<1>8. CASE LastWorker(w)
  BY <1>8, ZenonT(60) DEF LastWorker
<1>9. CASE ReleaseTx(w)
  <2>1. fifo' \in Seq(Workers)
    BY <1>9 DEF ReleaseTx, Release
  <2>2. AfterRelease(w) \in Places
    BY DEF AfterRelease, Places
  <2> QED
    BY <1>9, <2>1, <2>2 DEF ReleaseTx, Places
<1>10. CASE WaitLastWorker(w)
  BY <1>10 DEF WaitLastWorker
<1>11. CASE Finish(w)
  BY <1>11 DEF Finish, Finished, Statuses
<1> QED
  BY <1>1, <1>2, <1>3, <1>4, <1>5, <1>6, <1>7, <1>8, <1>9, <1>10, <1>11 DEF Worker

LEMMA TxrxType ==
    ASSUME TypeOK, TxrxInv, Txrx
    PROVE  TypeOK'
<1> USE DEF TypeOK, poolVars, sigVars, comVars, remVars
<1>0. \A t \in Nat : 0..t \subseteq 0..t + 1
  OBVIOUS
<1>1. CASE NextTti
  <2>1. ctx' \in [Workers -> 0..tti']
    BY <1>0, <1>1 DEF NextTti
  <2> QED
    BY <1>1, <2>1 DEF NextTti
<1>2. CASE Quit
  BY <1>2 DEF Quit
<1>3. CASE WaitLte
  <2>1. CASE \E w \in FirstIdle("lte") : lteWorker' = w /\ Reserve(w)
    <3>1. PICK w \in FirstIdle("lte") : lteWorker' = w /\ Reserve(w)
      BY <2>1
    <3>2. w \in Lte
      BY Names DEF FirstIdle, Idle, Members
    <3> QED
      BY <1>3, <3>1, <3>2, Names DEF WaitLte, Reserve, Statuses
  <2>2. CASE ~poolRun["lte"]
    BY <1>3, <2>2 DEF WaitLte
  <2> QED
    BY <1>3, <2>1, <2>2 DEF WaitLte
<1>4. CASE WaitNr
  <2>1. CASE \E w \in FirstIdle("nr") : nrWorker' = w /\ Reserve(w)
    <3>1. PICK w \in FirstIdle("nr") : nrWorker' = w /\ Reserve(w)
      BY <2>1
    <3>2. w \in Nr
      BY Names DEF FirstIdle, Idle, Members
    <3> QED
      BY <1>4, <3>1, <3>2, Names DEF WaitNr, Reserve, Statuses
  <2>2. CASE ~poolRun["nr"]
    BY <1>4, <2>2 DEF WaitNr
  <2> QED
    BY <1>4, <2>1, <2>2 DEF WaitNr
<1>5. CASE PushNr
  <2>1. nrWorker \in Workers
    BY <1>5, Names DEF TxrxInv, PushNr
  <2>2. ctx' \in [Workers -> 0..tti'] /\ fifo' \in Seq(Workers)
    BY <1>5, <2>1 DEF PushNr, SetContext
  <2> QED
    BY <1>5, <2>2 DEF PushNr
<1>6. CASE StartNr
  <2>1. nrWorker \in Workers
    BY <1>6, Names DEF TxrxInv, StartNr
  <2>2. sync' \in Seq(Workers) /\ status' \in [Workers -> Statuses]
    BY <1>6, <2>1 DEF StartNr, StartWorker, Statuses
  <2> QED
    BY <1>6, <2>2 DEF StartNr
<1>7. CASE PushLte
  <2>1. lteWorker \in Workers
    BY <1>7, Names DEF TxrxInv, PushLte
  <2>2. ctx' \in [Workers -> 0..tti'] /\ fifo' \in Seq(Workers)
    BY <1>7, <2>1 DEF PushLte, SetContext
  <2> QED
    BY <1>7, <2>2 DEF PushLte
<1>8. CASE StartLte
  <2>1. status' \in [Workers -> Statuses]
    BY <1>8 DEF StartLte, StartWorker, Statuses
  <2> QED
    BY <1>8, <2>1 DEF StartLte
<1> QED
  BY <1>1, <1>2, <1>3, <1>4, <1>5, <1>6, <1>7, <1>8 DEF Txrx

LEMMA NextRemFacts ==
    ASSUME TypeOK, WorkerInv, remPc # "idle"
    PROVE  /\ NofLte > 0 /\ remId \in 0..NofLte - 1
           /\ (remId + 1) % NofLte \in 0..NofLte - 1 /\ (remId + 1) % NofLte \in Nat
           /\ NextRem \in {"wait", "idle"}
           /\ <<"lte", remId>> \in Lte /\ <<"lte", remId>> \in Workers
           /\ Pool(<<"lte", remId>>) = "lte"
<1>1. NofLte > 0 /\ NofLte \in Nat /\ remId \in 0..NofLte - 1
  BY Names DEF WorkerInv
<1>2. (remId + 1) % NofLte \in 0..NofLte - 1
  BY <1>1
<1> QED
  BY <1>1, <1>2, Names DEF NextRem

LEMMA OtherType ==
    ASSUME TypeOK, WorkerInv, Stack \/ Stop \/ StopStep \/ UNCHANGED vars
    PROVE  TypeOK'
<1> USE DEF TypeOK, poolVars, sigVars, comVars, txrxVars, remVars
<1>1. CASE Stack
  <2>1. CASE RemRnti
    BY <2>1 DEF RemRnti
  <2>2. CASE WaitWorkerId
    <3>1. NextRem \in {"wait", "idle"} /\ (remId + 1) % NofLte \in Nat
      BY <2>2, NextRemFacts DEF WaitWorkerId
    <3>2. status' \in [Workers -> Statuses]
      BY <2>2 DEF WaitWorkerId, Reserve, Statuses
    <3> QED
      BY <2>2, <3>1, <3>2, SMTT(30) DEF WaitWorkerId
  <2>3. CASE RemRelease
    <3>1. NextRem \in {"wait", "idle"} /\ (remId + 1) % NofLte \in Nat
      BY <2>3, NextRemFacts DEF RemRelease
    <3>2. status' \in [Workers -> Statuses]
      BY <2>3 DEF RemRelease, Finished, Statuses
    <3> QED
      BY <2>3, <3>1, <3>2 DEF RemRelease
  <2> QED
    BY <1>1, <2>1, <2>2, <2>3 DEF Stack
<1>2. CASE Stop
  BY <1>2 DEF Stop
<1>3. CASE StopStep
  <2>1. status' \in [Workers -> Statuses] /\ poolRun' \in [Pools -> BOOLEAN]
    BY <1>3 DEF StopStep, StopPool, Statuses
  <2> QED
    BY <1>3, <2>1 DEF StopStep, MainStep
<1>4. CASE UNCHANGED vars
  BY <1>4 DEF vars
<1> QED
  BY <1>1, <1>2, <1>3, <1>4

-----------------------------------------------------------------------------
(* HoldInv: the steps of a worker. *)
Heads == {"hold", "tx", "last", "release"}
Inside == {"begin", "sync", "dl", "end"} \cup Heads

LEMMA MoveHoldInv ==
    ASSUME HoldInv, NEW w \in Workers, NEW q, Move(w, q), status' = status,
           wpc[w] \notin {"start", "exit"}, q \notin {"start", "exit"},
           Pool(w) = "lte" => q \notin {"sync", "dl", "hold", "wait"},
           fifo = <<>> => fifo' = <<>>
    PROVE  StopInv' /\ TxrxInv' /\ WorkerInv' /\ Reserved' = Reserved
<1>1. TypeOK /\ StopInv /\ TxrxInv /\ WorkerInv
  BY DEF HoldInv
<1>2. /\ poolRun' = poolRun /\ running' = running /\ tti' = tti /\ txPc' = txPc
      /\ lteWorker' = lteWorker /\ nrWorker' = nrWorker /\ mainPc' = mainPc
      /\ remPc' = remPc /\ remId' = remId /\ status' = status
  BY DEF Move
<1>3. \A v \in Workers : wpc'[v] = IF v = w THEN q ELSE wpc[v]
  BY <1>1 DEF Move, TypeOK
<1>4. Reserved' = Reserved
  BY <1>2 DEF Reserved
<1>5. StopInv'
  BY <1>1, <1>2 DEF StopInv
<1>6. TxrxInv'
  BY <1>1, <1>2 DEF TxrxInv
<1>7. WorkerInv'
  <2>1. ASSUME NEW v \in Workers
        PROVE /\ status'[v] \in {"IDLE", "START_WORK", "WORKER_READY"} => wpc'[v] = "start"
              /\ status'[v] = "WORKING" => wpc'[v] \notin {"start", "exit"}
              /\ wpc'[v] = "exit" => status'[v] = "STOP"
              /\ v \in Reserved' => status'[v] = "WORKER_READY"
              /\ Pool(v) = "lte" => wpc'[v] \notin {"sync", "dl", "hold", "wait"}
    BY <1>1, <1>2, <1>3, <1>4 DEF WorkerInv
  <2>2. /\ remPc' # "idle" => NofLte > 0 /\ remId' \in 0..NofLte - 1
        /\ remPc' = "hold" =>
              /\ status'[<<"lte", remId'>>] \in {"WORKER_READY", "STOP"}
              /\ wpc'[<<"lte", remId'>>] \in {"start", "exit"}
              /\ <<"lte", remId'>> \notin Reserved'
    <3>1. /\ remPc # "idle" => NofLte > 0 /\ remId \in 0..NofLte - 1
          /\ remPc = "hold" =>
              /\ status[<<"lte", remId>>] \in {"WORKER_READY", "STOP"}
              /\ wpc[<<"lte", remId>>] \in {"start", "exit"}
              /\ <<"lte", remId>> \notin Reserved
      BY <1>1 DEF WorkerInv
    <3>2. remPc = "hold" => <<"lte", remId>> \in Workers /\ <<"lte", remId>> # w
      BY <1>1, <3>1, Names
    <3> QED
      BY <1>2, <1>3, <1>4, <3>1, <3>2
  <2> QED
    BY <2>1, <2>2 DEF WorkerInv
<1> QED
  BY <1>4, <1>5, <1>6, <1>7

LEMMA FifoKept ==
    ASSUME HoldInv, fifo' = fifo, \A v \in Workers : Pushed(v)' <=> Pushed(v),
           \A v \in Workers : wpc'[v] \in Heads =>
              wpc[v] \in Heads \/ (fifo # <<>> /\ fifo[1] = v)
    PROVE  FifoInv'
<1>1. /\ Elements(fifo) = {w \in Workers : Pushed(w)}
      /\ \A i, j \in 1..Len(fifo) : fifo[i] = fifo[j] => i = j
      /\ \A w \in Workers : wpc[w] \in Heads => fifo # <<>> /\ fifo[1] = w
  BY DEF HoldInv, FifoInv, Heads
<1>2. Elements(fifo)' = {w \in Workers : Pushed(w)'}
  BY <1>1 DEF Elements
<1>3. \A w \in Workers : wpc'[w] \in Heads => fifo' # <<>> /\ fifo'[1] = w
  BY <1>1
<1> QED
  BY <1>1, <1>2, <1>3 DEF FifoInv, Heads

(* A move that stays on one side of semaphore.release. *)
LEMMA MoveFifoKept ==
    ASSUME HoldInv, NEW w \in Workers, NEW q, Move(w, q), status' = status, fifo' = fifo,
           wpc[w] \in Inside <=> q \in Inside,
           q \in Heads => wpc[w] \in Heads \/ (fifo # <<>> /\ fifo[1] = w)
    PROVE  FifoInv'
<1>1. \A v \in Workers : wpc'[v] = IF v = w THEN q ELSE wpc[v]
  BY DEF Move, HoldInv, TypeOK
<1>2. /\ txPc' = txPc /\ lteWorker' = lteWorker /\ nrWorker' = nrWorker
  BY DEF Move
<1>3. ASSUME NEW v \in Workers PROVE Pushed(v)' <=> Pushed(v)
  <2>1. Pushed(v) <=> \/ txPc = "startLte" /\ v = lteWorker
                      \/ txPc = "startNr" /\ v = nrWorker
                      \/ status[v] = "START_WORK" \/ wpc[v] \in Inside
    BY DEF Pushed, Inside, Heads
  <2>2. Pushed(v)' <=> \/ txPc' = "startLte" /\ v = lteWorker'
                       \/ txPc' = "startNr" /\ v = nrWorker'
                       \/ status'[v] = "START_WORK" \/ wpc'[v] \in Inside
    BY DEF Pushed, Inside, Heads
  <2> QED
    BY <1>1, <1>2, <2>1, <2>2
<1> QED
  BY <1>1, <1>3, FifoKept

(* A worker inside that the semaphore lets pass is the first in it. *)
LEMMA FirstPasses ==
    ASSUME HoldInv, NEW w \in Workers, wpc[w] \in Inside, MayPass(fifo, w)
    PROVE  fifo # <<>> /\ fifo[1] = w /\ Head(fifo) = w
<1>1. Pushed(w)
  BY DEF Pushed, Inside, Heads
<1>2. fifo # <<>> /\ fifo \in Seq(Workers)
  BY <1>1, PushedRuns DEF HoldInv, TypeOK
<1> QED
  BY <1>2, ElementFacts DEF MayPass

LEMMA WorkerHoldInv ==
    ASSUME HoldInv, NEW w \in Workers, Worker(w)
    PROVE  HoldInv'
<1>0. TypeOK' /\ TypeOK /\ StopInv /\ TxrxInv /\ WorkerInv /\ FifoInv
  BY WorkerType DEF HoldInv
<1> USE DEF sigVars, comVars, txrxVars, remVars
<1>1. CASE Begin(w)
  <2>1. wpc[w] \in Inside
    BY <1>1 DEF Begin, Inside
  <2>2. poolRun[Pool(w)]
    BY <2>1, PushedRuns DEF Pushed, Inside, Heads
  <2>3. PICK q : Move(w, q) /\ q = IF Pool(w) = "lte" THEN "end" ELSE "sync"
    BY <1>1, <2>2 DEF Begin, Move
  <2>4. /\ status' = status /\ fifo' = fifo /\ wpc[w] = "begin"
        /\ q \in Inside /\ q \notin Heads /\ q \notin {"start", "exit"}
        /\ Pool(w) = "lte" => q \notin {"sync", "dl", "hold", "wait"}
    BY <1>1, <2>3 DEF Begin, Inside, Heads
  <2>5. FifoInv'
    BY <2>1, <2>3, <2>4, MoveFifoKept
  <2>6. StopInv' /\ TxrxInv' /\ WorkerInv'
    BY <2>3, <2>4, MoveHoldInv
  <2> QED
    BY <1>0, <2>5, <2>6 DEF HoldInv
<1>2. CASE Schedule(w) \/ WorkDl(w)
  <2>1. PICK q : Move(w, q) /\ q \in {"dl", "end"} /\ (q = "dl" => wpc[w] = "sync")
    BY <1>2 DEF Schedule, WorkDl, Move
  <2>2. /\ status' = status /\ fifo' = fifo /\ wpc[w] \in {"sync", "dl"}
        /\ q \in Inside /\ q \notin Heads /\ q \notin {"start", "exit"} /\ wpc[w] \in Inside
    BY <1>2, <2>1 DEF Schedule, WorkDl, Inside, Heads
  <2>3. Pool(w) # "lte"
    BY <1>0, <2>2 DEF WorkerInv
  <2>4. FifoInv'
    BY <2>1, <2>2, MoveFifoKept
  <2>5. StopInv' /\ TxrxInv' /\ WorkerInv'
    BY <2>1, <2>2, <2>3, MoveHoldInv
  <2> QED
    BY <1>0, <2>4, <2>5 DEF HoldInv
<1>3. CASE Combine(w)
  <2>1. wpc[w] \in Inside /\ wpc[w] = "end" /\ MayPass(fifo, w)
    BY <1>3 DEF Combine, Inside
  <2>2. PICK q : Move(w, q) /\ q = IF IsLast(w) THEN "tx" ELSE IF TxEnable(w) THEN "hold" ELSE "release"
    BY <1>3 DEF Combine, Move
  <2>3. /\ status' = status /\ fifo' = fifo
        /\ q \in Inside /\ q \notin {"start", "exit"}
        /\ Pool(w) = "lte" => q = "tx"
    BY <1>3, <2>2 DEF Combine, Inside, Heads, IsLast
  <2>4. fifo # <<>> /\ fifo[1] = w
    BY <2>1, FirstPasses
  <2>5. FifoInv'
    BY <2>1, <2>2, <2>3, <2>4, MoveFifoKept
  <2>6. StopInv' /\ TxrxInv' /\ WorkerInv'
    BY <2>1, <2>2, <2>3, MoveHoldInv
  <2> QED
    BY <1>0, <2>5, <2>6 DEF HoldInv
<1>4. CASE ResetLastWorker(w) \/ Transmit(w) \/ LastWorker(w)
  <2>1. PICK q : Move(w, q) /\ q \in {"release", "last"}
    BY <1>4 DEF ResetLastWorker, Transmit, LastWorker, Move
  <2>2. /\ status' = status /\ fifo' = fifo /\ wpc[w] \in Heads
        /\ q \in Inside /\ wpc[w] \in Inside /\ wpc[w] \notin {"start", "exit"}
    BY <1>4, <2>1 DEF ResetLastWorker, Transmit, LastWorker, Inside, Heads
  <2>3. FifoInv'
    BY <2>1, <2>2, MoveFifoKept
  <2>4. StopInv' /\ TxrxInv' /\ WorkerInv'
    BY <2>1, <2>2, MoveHoldInv
  <2> QED
    BY <1>0, <2>3, <2>4 DEF HoldInv
<1>5. CASE WaitLastWorker(w)
  <2>1. Move(w, "finish") /\ status' = status /\ fifo' = fifo /\ wpc[w] = "wait"
    BY <1>5 DEF WaitLastWorker, Move
  <2>2. "finish" \notin Inside /\ wpc[w] \notin Inside
    BY <2>1 DEF Inside, Heads
  <2>3. FifoInv'
    BY <2>1, <2>2, MoveFifoKept DEF Inside
  <2>4. StopInv' /\ TxrxInv' /\ WorkerInv'
    BY <2>1, MoveHoldInv
  <2> QED
    BY <1>0, <2>3, <2>4 DEF HoldInv
<1>6. CASE ReleaseTx(w)
  <2>1. PICK q : Move(w, q) /\ q = AfterRelease(w)
    BY <1>6 DEF ReleaseTx, Move
  <2>2. /\ status' = status /\ fifo' = Release(fifo) /\ wpc[w] = "release"
        /\ q \in {"wait", "finish"} /\ (Pool(w) = "lte" => q = "finish")
    BY <1>6, <2>1 DEF ReleaseTx, AfterRelease, IsLast
  <2>3. StopInv' /\ TxrxInv' /\ WorkerInv'
    BY <2>1, <2>2, MoveHoldInv DEF Release
  <2>4. /\ fifo # <<>> /\ fifo[1] = w /\ fifo \in Seq(Workers)
        /\ Elements(fifo) = {v \in Workers : Pushed(v)}
        /\ \A i, j \in 1..Len(fifo) : fifo[i] = fifo[j] => i = j
        /\ \A v \in Workers : wpc[v] \in Heads => v = w
    BY <1>0, <2>2 DEF FifoInv, TypeOK, Heads
  <2>5. /\ Elements(Release(fifo)) = Elements(fifo) \ {w}
        /\ \A i, j \in 1..Len(Release(fifo)) : Release(fifo)[i] = Release(fifo)[j] => i = j
    BY <2>4, ReleaseFacts
  <2>6. \A v \in Workers : wpc'[v] = IF v = w THEN q ELSE wpc[v]
    BY <1>0, <2>1 DEF Move, TypeOK
  <2>7. \A v \in Workers : wpc'[v] \notin Heads
    BY <2>2, <2>4, <2>6 DEF Heads
  <2>8. ~(txPc = "startLte" /\ w = lteWorker) /\ ~(txPc = "startNr" /\ w = nrWorker)
        /\ status[w] # "START_WORK"
    <3>1. status[w] \notin {"WORKER_READY", "START_WORK"}
      BY <1>0, <2>2 DEF WorkerInv
    <3>2. w \notin Reserved
      BY <1>0, <3>1 DEF WorkerInv
    <3>3. txPc = "startLte" => NofLte > 0
      BY <1>0 DEF TxrxInv
    <3> QED
      BY <3>1, <3>2, <3>3 DEF Reserved
  <2>9. ASSUME NEW v \in Workers PROVE Pushed(v)' <=> Pushed(v) /\ v # w
    <3>1. /\ txPc' = txPc /\ lteWorker' = lteWorker /\ nrWorker' = nrWorker
      BY <2>1 DEF Move
    <3>2. q \notin Inside
      BY <2>2 DEF Inside, Heads
    <3> QED
      BY <2>2, <2>6, <2>8, <3>1, <3>2 DEF Pushed, Inside, Heads
  <2>10. Elements(fifo)' = {v \in Workers : Pushed(v)'}
    <3>1. Elements(fifo)' = Elements(fifo) \ {w}
      BY <2>2, <2>5 DEF Elements
    <3> QED
      BY <2>4, <2>9, <3>1
  <2>11. FifoInv'
    BY <2>2, <2>5, <2>7, <2>10 DEF FifoInv, Heads
  <2> QED
    BY <1>0, <2>3, <2>11 DEF HoldInv

<1>7. CASE WaitToStart(w) \/ Finish(w)
  <2>0. /\ poolRun' = poolRun /\ running' = running /\ tti' = tti /\ txPc' = txPc
        /\ lteWorker' = lteWorker /\ nrWorker' = nrWorker /\ mainPc' = mainPc
        /\ remPc' = remPc /\ remId' = remId /\ fifo' = fifo
    BY <1>7 DEF WaitToStart, Finish
  <2>1. /\ status[w] = "STOP" <=> ~poolRun[Pool(w)]
        /\ status[w] = "START_WORK" => wpc[w] = "start"
        /\ w \in Reserved => status[w] = "WORKER_READY"
        /\ status[w] \in {"IDLE", "START_WORK", "WORKER_READY"} => wpc[w] = "start"
        /\ status[w] \in Statuses /\ DOMAIN status = Workers /\ DOMAIN wpc = Workers
    BY <1>0 DEF StopInv, WorkerInv, TypeOK
  <2>2. PICK r, q :
        /\ status' = [status EXCEPT ![w] = r] /\ wpc' = [wpc EXCEPT ![w] = q]
        /\ \/ /\ status[w] = "START_WORK" /\ wpc[w] = "start" /\ r = "WORKING" /\ q = "begin"
              /\ poolRun[Pool(w)]
           \/ status[w] = "STOP" /\ r = "STOP" /\ q = "exit" /\ wpc[w] \in {"start", "finish"}
           \/ /\ status[w] = "WORKING" /\ wpc[w] = "finish" /\ r = "IDLE" /\ q = "start"
              /\ poolRun[Pool(w)]
    <3>1. CASE WaitToStart(w) /\ status[w] = "START_WORK"
      BY <2>1, <3>1 DEF WaitToStart
    <3>2. CASE WaitToStart(w) /\ status[w] = "STOP"
      <4>1. status' = [status EXCEPT ![w] = "STOP"]
        BY <1>0, <3>2 DEF WaitToStart, TypeOK
      <4> QED
        BY <3>2, <4>1 DEF WaitToStart
    <3>3. CASE Finish(w)
      <4>1. status[w] \in {"WORKING", "STOP"}
        BY <2>1, <3>3 DEF Finish, Statuses
      <4>2. CASE status[w] = "STOP"
        BY <2>1, <3>3, <4>2 DEF Finish, Finished
      <4>3. CASE status[w] = "WORKING"
        BY <2>1, <3>3, <4>3 DEF Finish, Finished
      <4> QED
        BY <4>1, <4>2, <4>3
    <3> QED
      BY <1>7, <3>1, <3>2, <3>3 DEF WaitToStart
  <2>3. \A v \in Workers : /\ status'[v] = IF v = w THEN r ELSE status[v]
                           /\ wpc'[v] = IF v = w THEN q ELSE wpc[v]
    BY <2>1, <2>2
  <2>4. /\ Reserved' = Reserved
        /\ w \notin Reserved \/ status[w] = "STOP"
    <3>1. Reserved' = Reserved
      BY <2>0 DEF Reserved
    <3> QED
      BY <2>1, <2>2, <3>1
  <2>5. StopInv'
    BY <1>0, <2>0, <2>1, <2>2, <2>3 DEF StopInv
  <2>6. TxrxInv'
    BY <1>0, <2>0 DEF TxrxInv
  <2>7. WorkerInv'
    <3>1. ASSUME NEW v \in Workers
          PROVE /\ status'[v] \in {"IDLE", "START_WORK", "WORKER_READY"} => wpc'[v] = "start"
                /\ status'[v] = "WORKING" => wpc'[v] \notin {"start", "exit"}
                /\ wpc'[v] = "exit" => status'[v] = "STOP"
                /\ v \in Reserved' => status'[v] = "WORKER_READY"
                /\ Pool(v) = "lte" => wpc'[v] \notin {"sync", "dl", "hold", "wait"}
      <4>1. CASE v = w
        BY <2>1, <2>2, <2>3, <2>4, <4>1
      <4>2. CASE v # w
        BY <1>0, <2>3, <2>4, <4>2 DEF WorkerInv
      <4> QED
        BY <4>1, <4>2
    <3>2. /\ remPc # "idle" => NofLte > 0 /\ remId \in 0..NofLte - 1
          /\ remPc = "hold" =>
              /\ status[<<"lte", remId>>] \in {"WORKER_READY", "STOP"}
              /\ wpc[<<"lte", remId>>] \in {"start", "exit"}
              /\ <<"lte", remId>> \notin Reserved
      BY <1>0 DEF WorkerInv
    <3>3. /\ remPc' # "idle" => NofLte > 0 /\ remId' \in 0..NofLte - 1
          /\ remPc' = "hold" =>
              /\ status'[<<"lte", remId'>>] \in {"WORKER_READY", "STOP"}
              /\ wpc'[<<"lte", remId'>>] \in {"start", "exit"}
              /\ <<"lte", remId'>> \notin Reserved'
      <4>1. remPc = "hold" => <<"lte", remId>> \in Workers
        BY <3>2, Names
      <4> QED
        BY <2>0, <2>2, <2>3, <2>4, <3>2, <4>1
    <3> QED
      BY <3>1, <3>3 DEF WorkerInv
  <2>8. FifoInv'
    <3>1. q \notin Heads /\ (q \in Inside <=> r = "WORKING") /\ wpc[w] \notin Inside
      BY <2>2 DEF Heads, Inside
    <3>2. ASSUME NEW v \in Workers PROVE Pushed(v)' <=> Pushed(v)
      <4>1. Pushed(v) <=> \/ txPc = "startLte" /\ v = lteWorker
                          \/ txPc = "startNr" /\ v = nrWorker
                          \/ status[v] = "START_WORK" \/ wpc[v] \in Inside
        BY DEF Pushed, Inside, Heads
      <4>2. Pushed(v)' <=> \/ txPc' = "startLte" /\ v = lteWorker'
                           \/ txPc' = "startNr" /\ v = nrWorker'
                           \/ status'[v] = "START_WORK" \/ wpc'[v] \in Inside
        BY DEF Pushed, Inside, Heads
      <4> QED
        BY <2>0, <2>2, <2>3, <3>1, <4>1, <4>2
    <3>3. \A v \in Workers : wpc'[v] \in Heads => wpc[v] \in Heads
      BY <2>3, <3>1
    <3> QED
      BY <2>0, <3>2, <3>3, FifoKept
  <2> QED
    BY <1>0, <2>5, <2>6, <2>7, <2>8 DEF HoldInv
<1> QED
  BY <1>1, <1>2, <1>3, <1>4, <1>5, <1>6, <1>7 DEF Worker

-----------------------------------------------------------------------------
(* HoldInv: the steps of TXRX, which hand on a worker w. *)
LEMMA HandOn ==
    ASSUME HoldInv, wpc' = wpc, poolRun' = poolRun, mainPc' = mainPc, remPc' = remPc, remId' = remId,
           mainPc \in {"run", "joinTxrx"}, mainPc = "run" => running',
           NEW w \in Workers, NEW r \in {"WORKER_READY", "START_WORK"},
           status[w] \in {"IDLE", "WORKER_READY"},
           \A v \in Workers : status'[v] = IF v = w THEN r ELSE status[v],
           Reserved' \subseteq Reserved \cup {w}, w \in Reserved' => r = "WORKER_READY",
           remPc = "hold" => w # <<"lte", remId>>
    PROVE  StopInv' /\ WorkerInv'
<1>1. StopInv /\ WorkerInv
  BY DEF HoldInv
<1>2. StopInv'
  <2>1. /\ poolRun["lte"] <=> mainPc \notin {"joinLte", "stopNr", "joinNr", "end"}
        /\ poolRun["nr"] <=> mainPc \notin {"joinNr", "end"}
        /\ \A v \in Workers : status[v] = "STOP" <=> ~poolRun[Pool(v)]
    BY <1>1 DEF StopInv
  <2>2. \A v \in Workers : status'[v] = "STOP" <=> ~poolRun'[Pool(v)]
    BY <2>1
  <2> QED
    BY <2>1, <2>2 DEF StopInv
<1>3. WorkerInv'
  <2>1. ASSUME NEW v \in Workers
        PROVE /\ status'[v] \in {"IDLE", "START_WORK", "WORKER_READY"} => wpc'[v] = "start"
              /\ status'[v] = "WORKING" => wpc'[v] \notin {"start", "exit"}
              /\ wpc'[v] = "exit" => status'[v] = "STOP"
              /\ v \in Reserved' => status'[v] = "WORKER_READY"
              /\ Pool(v) = "lte" => wpc'[v] \notin {"sync", "dl", "hold", "wait"}
    <3>1. /\ status[v] \in {"IDLE", "START_WORK", "WORKER_READY"} => wpc[v] = "start"
          /\ status[v] = "WORKING" => wpc[v] \notin {"start", "exit"}
          /\ wpc[v] = "exit" => status[v] = "STOP"
          /\ v \in Reserved => status[v] = "WORKER_READY"
          /\ Pool(v) = "lte" => wpc[v] \notin {"sync", "dl", "hold", "wait"}
      BY <1>1 DEF WorkerInv
    <3>2. CASE v = w
      BY <3>1, <3>2
    <3>3. CASE v # w
      BY <3>1, <3>3
    <3> QED
      BY <3>2, <3>3
  <2>2. /\ remPc # "idle" => NofLte > 0 /\ remId \in 0..NofLte - 1
        /\ remPc = "hold" =>
              /\ status[<<"lte", remId>>] \in {"WORKER_READY", "STOP"}
              /\ wpc[<<"lte", remId>>] \in {"start", "exit"}
              /\ <<"lte", remId>> \notin Reserved
    BY <1>1 DEF WorkerInv
  <2>3. remPc = "hold" => <<"lte", remId>> \in Workers
    BY <2>2, Names
  <2>4. /\ remPc' # "idle" => NofLte > 0 /\ remId' \in 0..NofLte - 1
        /\ remPc' = "hold" =>
              /\ status'[<<"lte", remId'>>] \in {"WORKER_READY", "STOP"}
              /\ wpc'[<<"lte", remId'>>] \in {"start", "exit"}
              /\ <<"lte", remId'>> \notin Reserved'
    BY <2>2, <2>3
  <2> QED
    BY <2>1, <2>4 DEF WorkerInv
<1> QED
  BY <1>2, <1>3

LEMMA PushFifo ==
    ASSUME HoldInv, wpc' = wpc, NEW w \in Workers, ~Pushed(w), fifo' = Append(fifo, w),
           \A v \in Workers : Pushed(v)' <=> Pushed(v) \/ v = w
    PROVE  FifoInv'
<1>1. /\ fifo \in Seq(Workers)
      /\ Elements(fifo) = {v \in Workers : Pushed(v)}
      /\ \A i, j \in 1..Len(fifo) : fifo[i] = fifo[j] => i = j
      /\ \A v \in Workers :
            wpc[v] \in {"hold", "tx", "last", "release"} => fifo # <<>> /\ fifo[1] = v
  BY DEF HoldInv, TypeOK, FifoInv
<1>2. PICK s : s = fifo'
  OBVIOUS
<1>3. /\ s \in Seq(Workers) /\ Len(s) = Len(fifo) + 1 /\ s # <<>> /\ Len(fifo) \in Nat
      /\ \A i \in 1..Len(fifo) : s[i] = fifo[i] /\ fifo[i] \in Elements(fifo)
      /\ s[Len(fifo) + 1] = w
      /\ Elements(s) = Elements(fifo) \cup {w}
      /\ fifo # <<>> => s[1] = fifo[1]
  BY <1>1, <1>2, PushFacts, ElementFacts
<1>4. Elements(fifo)' = {v \in Workers : Pushed(v)'}
  <2>1. Elements(fifo)' = Elements(s)
    BY <1>2 DEF Elements
  <2> QED
    BY <1>1, <1>3, <2>1
<1>5. w \notin Elements(fifo)
  BY <1>1
<1>6. ASSUME NEW i \in 1..Len(s), NEW j \in 1..Len(s), s[i] = s[j] PROVE i = j
  <2>1. i \in 1..Len(fifo) \/ i = Len(fifo) + 1
    BY <1>3
  <2>2. j \in 1..Len(fifo) \/ j = Len(fifo) + 1
    BY <1>3
  <2> QED
    BY <1>1, <1>3, <1>5, <1>6, <2>1, <2>2
<1>7. \A v \in Workers :
          wpc'[v] \in {"hold", "tx", "last", "release"} => fifo' # <<>> /\ fifo'[1] = v
  BY <1>1, <1>2, <1>3
<1> QED
  BY <1>2, <1>4, <1>6, <1>7 DEF FifoInv

LEMMA TxrxHoldInv ==
    ASSUME HoldInv, Txrx
    PROVE  HoldInv'
<1>0. /\ TypeOK' /\ TypeOK /\ StopInv /\ TxrxInv /\ WorkerInv /\ FifoInv
      /\ DOMAIN status = Workers
  BY TxrxType DEF HoldInv, TypeOK
<1>a. txPc # "done" /\ mainPc \in {"run", "joinTxrx"} /\ poolRun["lte"] /\ poolRun["nr"]
  <2>1. txPc # "done"
    BY DEF Txrx, NextTti, Quit, WaitLte, WaitNr, PushNr, StartNr, PushLte, StartLte
  <2> QED
    BY <1>0, <2>1 DEF StopInv, TypeOK
<1>b. /\ wpc' = wpc /\ poolRun' = poolRun /\ mainPc' = mainPc /\ remPc' = remPc /\ remId' = remId
      /\ running' = running
  BY <1>a DEF Txrx, NextTti, Quit, WaitLte, WaitNr, PushNr, StartNr, PushLte, StartLte,
              poolVars, remVars
<1>c. mainPc = "run" => running'
  BY <1>0, <1>b DEF StopInv
<1>d. \A v \in Workers : (status[v] \in {"IDLE", "WORKER_READY"} => wpc[v] = "start")
  BY <1>0 DEF WorkerInv
<1>1. CASE NextTti \/ Quit
  <2>1. /\ txPc = "loop" /\ status' = status /\ fifo' = fifo
        /\ txPc' \in {"lte", "nr", "done"}
        /\ txPc' = "lte" => NofLte > 0
        /\ txPc' = "nr" => ~(NofLte > 0)
        /\ txPc' = "done" => mainPc # "run"
    BY <1>0, <1>1 DEF NextTti, Quit, poolVars, comVars, StopInv
  <2>2. Reserved = {} /\ Reserved' = {}
    BY <2>1 DEF Reserved
  <2>3. StopInv'
    BY <1>0, <1>a, <1>b, <2>1 DEF StopInv
  <2>4. TxrxInv'
    BY <2>1, Names DEF TxrxInv
  <2>5. WorkerInv'
    BY <1>0, <1>b, <2>1, <2>2 DEF WorkerInv
  <2>6. \A v \in Workers : Pushed(v)' <=> Pushed(v)
    BY <1>b, <2>1 DEF Pushed
  <2>7. FifoInv'
    BY <1>b, <2>1, <2>6, FifoKept
  <2> QED
    BY <1>0, <2>3, <2>4, <2>5, <2>7 DEF HoldInv
<1>2. CASE WaitLte
  <2>1. PICK w \in FirstIdle("lte") : lteWorker' = w /\ Reserve(w)
    BY <1>2, <1>a DEF WaitLte
  <2>2. w \in Workers /\ w \in Lte /\ status[w] = "IDLE"
    BY <2>1, Names DEF FirstIdle, Idle, Members
  <2>3. /\ txPc = "lte" /\ fifo' = fifo /\ nrWorker' = nrWorker
        /\ txPc' = IF NofNr > 0 THEN "nr" ELSE "pushLte"
        /\ \A v \in Workers : status'[v] = IF v = w THEN "WORKER_READY" ELSE status[v]
    BY <1>0, <1>2, <1>a, <2>1, <2>2 DEF WaitLte, comVars, Reserve
  <2>4. NofLte > 0
    BY <1>0, <2>3 DEF TxrxInv
  <2>5. Reserved = {} /\ Reserved' = {w}
    BY <2>1, <2>3, <2>4 DEF Reserved
  <2>6. remPc = "hold" => w # <<"lte", remId>>
    BY <1>0, <2>2 DEF WorkerInv
  <2>7. StopInv' /\ WorkerInv'
    BY <1>a, <1>b, <1>c, <2>2, <2>3, <2>5, <2>6, HandOn
  <2>8. TxrxInv'
    BY <2>1, <2>2, <2>3, <2>4 DEF TxrxInv
  <2>9. \A v \in Workers : Pushed(v)' <=> Pushed(v)
    BY <1>b, <2>2, <2>3 DEF Pushed
  <2>10. FifoInv'
    BY <1>b, <2>3, <2>9, FifoKept
  <2> QED
    BY <1>0, <2>7, <2>8, <2>10 DEF HoldInv
<1>3. CASE WaitNr
  <2>1. PICK w \in FirstIdle("nr") : nrWorker' = w /\ Reserve(w)
    BY <1>3, <1>a DEF WaitNr
  <2>2. w \in Workers /\ w \in Nr /\ status[w] = "IDLE"
    BY <2>1, Names DEF FirstIdle, Idle, Members
  <2>3. /\ txPc = "nr" /\ fifo' = fifo /\ lteWorker' = lteWorker /\ txPc' = "pushNr"
        /\ \A v \in Workers : status'[v] = IF v = w THEN "WORKER_READY" ELSE status[v]
    BY <1>0, <1>3, <1>a, <2>1, <2>2 DEF WaitNr, comVars, Reserve
  <2>5. Reserved' = Reserved \cup {w}
    BY <2>1, <2>3 DEF Reserved
  <2>6. remPc = "hold" => w # <<"lte", remId>>
    BY <1>0, <2>2 DEF WorkerInv
  <2>7. StopInv' /\ WorkerInv'
    BY <1>a, <1>b, <1>c, <2>2, <2>3, <2>5, <2>6, HandOn
  <2>8. TxrxInv'
    BY <1>0, <2>1, <2>2, <2>3 DEF TxrxInv
  <2>9. \A v \in Workers : Pushed(v)' <=> Pushed(v)
    BY <1>b, <2>2, <2>3 DEF Pushed
  <2>10. FifoInv'
    BY <1>b, <2>3, <2>9, FifoKept
  <2> QED
    BY <1>0, <2>7, <2>8, <2>10 DEF HoldInv
<1>4. CASE PushNr \/ PushLte
  <2>1. PICK w \in Workers :
          /\ w \in Reserved /\ fifo' = Append(fifo, w) /\ status' = status
          /\ \/ txPc = "pushNr" /\ txPc' = "startNr" /\ w = nrWorker
             \/ txPc = "pushLte" /\ txPc' = "startLte" /\ w = lteWorker /\ NofLte > 0
          /\ lteWorker' = lteWorker /\ nrWorker' = nrWorker
    <3>1. CASE PushNr
      <4>1. nrWorker \in Workers /\ nrWorker \in Reserved
        BY <1>0, <3>1, Names DEF PushNr, TxrxInv, Reserved
      <4> QED
        BY <3>1, <4>1 DEF PushNr, poolVars
    <3>2. CASE PushLte
      <4>1. lteWorker \in Workers /\ lteWorker \in Reserved /\ NofLte > 0
        BY <1>0, <3>2, Names DEF PushLte, TxrxInv, Reserved
      <4> QED
        BY <3>2, <4>1 DEF PushLte, poolVars
    <3> QED
      BY <1>4, <3>1, <3>2
  <2>2. Reserved' = Reserved
    BY <2>1 DEF Reserved
  <2>3. status[w] = "WORKER_READY" /\ wpc[w] = "start"
    BY <1>0, <2>1 DEF WorkerInv
  <2>4. remPc = "hold" => w # <<"lte", remId>>
    BY <1>0, <2>1 DEF WorkerInv
  <2>5. StopInv' /\ WorkerInv'
    BY <1>a, <1>b, <1>c, <2>1, <2>2, <2>3, <2>4, HandOn
  <2>6. TxrxInv'
    BY <1>0, <2>1 DEF TxrxInv
  <2>7. ~Pushed(w)
    BY <2>1, <2>3 DEF Pushed
  <2>8. \A v \in Workers : Pushed(v)' <=> Pushed(v) \/ v = w
    BY <1>b, <2>1 DEF Pushed
  <2>9. FifoInv'
    BY <1>b, <2>1, <2>7, <2>8, PushFifo
  <2> QED
    BY <1>0, <2>5, <2>6, <2>9 DEF HoldInv
<1>5. CASE StartNr \/ StartLte
  <2>1. PICK w \in Workers :
          /\ w \in Reserved /\ fifo' = fifo /\ StartWorker(w)
          /\ \/ /\ txPc = "startNr" /\ w = nrWorker /\ w \in Nr
                /\ txPc' = IF NofLte > 0 THEN "pushLte" ELSE "loop"
             \/ txPc = "startLte" /\ txPc' = "loop" /\ w = lteWorker /\ NofLte > 0
          /\ lteWorker' = lteWorker /\ nrWorker' = nrWorker
    <3>1. CASE StartNr
      <4>1. nrWorker \in Workers /\ nrWorker \in Reserved /\ nrWorker \in Nr
        BY <1>0, <3>1, Names DEF StartNr, TxrxInv, Reserved
      <4> QED
        BY <3>1, <4>1 DEF StartNr
    <3>2. CASE StartLte
      <4>1. lteWorker \in Workers /\ lteWorker \in Reserved /\ NofLte > 0
        BY <1>0, <3>2, Names DEF StartLte, TxrxInv, Reserved
      <4> QED
        BY <3>2, <4>1 DEF StartLte, comVars
    <3> QED
      BY <1>5, <3>1, <3>2
  <2>2. status[w] = "WORKER_READY" /\ wpc[w] = "start"
    BY <1>0, <2>1 DEF WorkerInv
  <2>3. \A v \in Workers : status'[v] = IF v = w THEN "START_WORK" ELSE status[v]
    BY <1>0, <2>1, <2>2 DEF StartWorker
  <2>4. Reserved' \subseteq Reserved /\ w \notin Reserved'
    <3>1. (lteWorker \in Lte /\ NofLte > 0) \/ ~(NofLte > 0)
      BY <1>0, <2>1 DEF TxrxInv
    <3>2. w \in Nr => w # lteWorker \/ ~(NofLte > 0)
      BY <3>1, Names
    <3> QED
      BY <2>1, <3>2 DEF Reserved
  <2>5. remPc = "hold" => w # <<"lte", remId>>
    BY <1>0, <2>1 DEF WorkerInv
  <2>6. StopInv' /\ WorkerInv'
    BY <1>a, <1>b, <1>c, <2>2, <2>3, <2>4, <2>5, HandOn
  <2>7. TxrxInv'
    BY <1>0, <2>1 DEF TxrxInv
  <2>8. \A v \in Workers : Pushed(v)' <=> Pushed(v)
    BY <1>b, <2>1, <2>3 DEF Pushed
  <2>9. FifoInv'
    BY <1>b, <2>1, <2>8, FifoKept
  <2> QED
    BY <1>0, <2>6, <2>7, <2>9 DEF HoldInv
<1> QED
  BY <1>1, <1>2, <1>3, <1>4, <1>5 DEF Txrx

LEMMA OtherHoldInv ==
    ASSUME HoldInv, Stack \/ Stop \/ StopStep \/ UNCHANGED vars
    PROVE  HoldInv'
<1>0. /\ TypeOK' /\ TypeOK /\ StopInv /\ TxrxInv /\ WorkerInv /\ FifoInv
      /\ DOMAIN status = Workers
  BY OtherType DEF HoldInv, TypeOK
<1>a. /\ wpc' = wpc /\ txPc' = txPc /\ lteWorker' = lteWorker /\ nrWorker' = nrWorker
      /\ fifo' = fifo /\ tti' = tti
  BY DEF Stack, RemRnti, WaitWorkerId, RemRelease, Stop, StopStep, StopPool, vars,
         poolVars, comVars, txrxVars
<1>b. Reserved' = Reserved /\ TxrxInv'
  BY <1>0, <1>a DEF Reserved, TxrxInv
<1>c. (\A v \in Workers : status'[v] = "START_WORK" <=> status[v] = "START_WORK") => FifoInv'
  <2>1. HAVE \A v \in Workers : status'[v] = "START_WORK" <=> status[v] = "START_WORK"
  <2>2. \A v \in Workers : Pushed(v)' <=> Pushed(v)
    BY <1>a, <2>1 DEF Pushed
  <2> QED
    BY <1>a, <2>2, FifoKept
<1>1. CASE WaitWorkerId \/ RemRelease
  <2>1. PICK w \in Workers : w = <<"lte", remId>> /\ w \in Lte /\ Pool(w) = "lte"
    BY <1>0, <1>1, NextRemFacts DEF WaitWorkerId, RemRelease
  <2>2. /\ (remId + 1) % NofLte \in 0..NofLte - 1 /\ NextRem \in {"wait", "idle"}
        /\ NofLte > 0 /\ remId \in 0..NofLte - 1
    BY <1>0, <1>1, NextRemFacts DEF WaitWorkerId, RemRelease
  <2>3. poolRun' = poolRun /\ mainPc' = mainPc /\ running' = running
    BY <1>1 DEF WaitWorkerId, RemRelease, txrxVars
  <2>4. /\ remPc = "hold" => status[w] \in {"WORKER_READY", "STOP"} /\ w \notin Reserved
        /\ status[w] \in {"IDLE", "WORKER_READY"} => wpc[w] = "start"
        /\ status[w] = "STOP" <=> ~poolRun["lte"]
        /\ w \in Reserved => status[w] = "WORKER_READY"
    BY <1>0, <2>1 DEF WorkerInv, StopInv
  <2>5. PICK r :
          /\ \A v \in Workers : status'[v] = IF v = w THEN r ELSE status[v]
          /\ \/ /\ status[w] = "IDLE" /\ r = "WORKER_READY"
                /\ remPc' = "hold" /\ remId' = remId
             \/ /\ status[w] = "STOP" /\ r = "STOP"
                /\ remPc' \in {"wait", "idle"} /\ remId' \in 0..NofLte - 1
             \/ /\ status[w] = "WORKER_READY" /\ r = "IDLE" /\ w \notin Reserved
                /\ remPc' \in {"wait", "idle"} /\ remId' \in 0..NofLte - 1
    <3>1. CASE WaitWorkerId
      BY <1>0, <2>1, <2>2, <2>4, <3>1 DEF WaitWorkerId, Reserve
    <3>2. CASE RemRelease
      BY <1>0, <2>1, <2>2, <2>4, <3>2 DEF RemRelease, Finished
    <3> QED
      BY <1>1, <3>1, <3>2
  <2>6. StopInv'
    <3>1. \A v \in Workers : status'[v] = "STOP" <=> ~poolRun'[Pool(v)]
      BY <1>0, <2>3, <2>5 DEF StopInv
    <3> QED
      BY <1>0, <1>a, <2>3, <3>1 DEF StopInv
  <2>7. WorkerInv'
    <3>1. ASSUME NEW v \in Workers
          PROVE /\ status'[v] \in {"IDLE", "START_WORK", "WORKER_READY"} => wpc'[v] = "start"
                /\ status'[v] = "WORKING" => wpc'[v] \notin {"start", "exit"}
                /\ wpc'[v] = "exit" => status'[v] = "STOP"
                /\ v \in Reserved' => status'[v] = "WORKER_READY"
                /\ Pool(v) = "lte" => wpc'[v] \notin {"sync", "dl", "hold", "wait"}
      BY <1>0, <1>a, <1>b, <2>4, <2>5 DEF WorkerInv
    <3>2. /\ remPc' # "idle" => NofLte > 0 /\ remId' \in 0..NofLte - 1
          /\ remPc' = "hold" =>
                /\ status'[<<"lte", remId'>>] \in {"WORKER_READY", "STOP"}
                /\ wpc'[<<"lte", remId'>>] \in {"start", "exit"}
                /\ <<"lte", remId'>> \notin Reserved'
      BY <1>a, <1>b, <2>1, <2>2, <2>4, <2>5
    <3> QED
      BY <3>1, <3>2 DEF WorkerInv
  <2>8. FifoInv'
    BY <1>c, <2>5
  <2> QED
    BY <1>0, <1>b, <2>6, <2>7, <2>8 DEF HoldInv
<1>2. CASE RemRnti \/ Stop \/ UNCHANGED vars
  <2>1. /\ status' = status /\ poolRun' = poolRun
        /\ \/ remPc' = remPc /\ remId' = remId
           \/ remPc' = "wait" /\ remId' = 0 /\ NofLte > 0
        /\ \/ mainPc' = mainPc /\ running' = running
           \/ mainPc = "run" /\ running /\ mainPc' = "joinTxrx"
    BY <1>0, <1>2 DEF RemRnti, Stop, vars, poolVars, txrxVars, remVars, StopInv
  <2>2. StopInv'
    BY <1>0, <1>a, <2>1 DEF StopInv
  <2>3. WorkerInv'
    BY <1>0, <1>a, <1>b, <2>1, Names DEF WorkerInv
  <2>4. FifoInv'
    BY <1>c, <2>1
  <2> QED
    BY <1>0, <1>b, <2>2, <2>3, <2>4 DEF HoldInv
<1>3. CASE StopStep
  <2>1. running' = running /\ remPc' = remPc /\ remId' = remId
    BY <1>3 DEF StopStep, txrxVars, remVars
  <2>2. StopInv' /\ \A v \in Workers : status'[v] = status[v] \/ (status'[v] = "STOP" /\ fifo = <<>> /\ mainPc \notin {"run", "joinTxrx"})
    <3>1. CASE MainStep("joinTxrx", "waitAll") /\ txPc = "done" /\ UNCHANGED poolVars
      BY <1>0, <1>a, <2>1, <3>1 DEF StopInv, MainStep, poolVars
    <3>2. CASE MainStep("waitAll", "stopLte") /\ Drained /\ UNCHANGED poolVars
      BY <1>0, <1>a, <2>1, <3>2 DEF StopInv, MainStep, poolVars, Drained
    <3>3. CASE MainStep("stopLte", "joinLte") /\ StopPool("lte") /\ UNCHANGED wpc
      <4>1. /\ mainPc = "stopLte" /\ mainPc' = "joinLte" /\ fifo = <<>>
            /\ poolRun'["lte"] = FALSE /\ poolRun'["nr"] = poolRun["nr"] /\ poolRun["nr"]
            /\ poolRun["lte"]
            /\ \A v \in Workers : status'[v] = IF Pool(v) = "lte" THEN "STOP" ELSE status[v]
        BY <1>0, <3>3 DEF StopInv, MainStep, StopPool, TypeOK, Pools
      <4> QED
        BY <1>0, <1>a, <2>1, <4>1, Names DEF StopInv, Pools
    <3>4. CASE MainStep("joinLte", "stopNr") /\ Joined("lte") /\ UNCHANGED poolVars
      BY <1>0, <1>a, <2>1, <3>4 DEF StopInv, MainStep, poolVars
    <3>5. CASE MainStep("stopNr", "joinNr") /\ StopPool("nr") /\ UNCHANGED wpc
      <4>1. /\ mainPc = "stopNr" /\ mainPc' = "joinNr" /\ fifo = <<>>
            /\ poolRun'["nr"] = FALSE /\ poolRun'["lte"] = poolRun["lte"] /\ ~poolRun["lte"]
            /\ \A v \in Workers : status'[v] = IF Pool(v) = "nr" THEN "STOP" ELSE status[v]
        BY <1>0, <3>5 DEF StopInv, MainStep, StopPool, TypeOK, Pools
      <4> QED
        BY <1>0, <1>a, <2>1, <4>1, Names DEF StopInv, Pools
    <3>6. CASE MainStep("joinNr", "end") /\ Joined("nr") /\ UNCHANGED poolVars
      BY <1>0, <1>a, <2>1, <3>6 DEF StopInv, MainStep, poolVars
    <3> QED
      BY <1>3, <3>1, <3>2, <3>3, <3>4, <3>5, <3>6 DEF StopStep
  <2>3. mainPc \notin {"run", "joinTxrx"} => Reserved = {}
    BY <1>0 DEF StopInv, Reserved
  <2>4. fifo = <<>> => \A v \in Workers : status[v] # "START_WORK"
    <3>1. \A v \in Workers : status[v] = "START_WORK" => Pushed(v)
      BY DEF Pushed
    <3> QED
      BY <3>1, PushedRuns
  <2>5. FifoInv'
    BY <1>c, <2>2, <2>4
  <2>6. WorkerInv'
    <3>1. ASSUME NEW v \in Workers
          PROVE /\ status'[v] \in {"IDLE", "START_WORK", "WORKER_READY"} => wpc'[v] = "start"
                /\ status'[v] = "WORKING" => wpc'[v] \notin {"start", "exit"}
                /\ wpc'[v] = "exit" => status'[v] = "STOP"
                /\ v \in Reserved' => status'[v] = "WORKER_READY"
                /\ Pool(v) = "lte" => wpc'[v] \notin {"sync", "dl", "hold", "wait"}
      BY <1>0, <1>a, <1>b, <2>2, <2>3 DEF WorkerInv
    <3>2. /\ remPc # "idle" => NofLte > 0 /\ remId \in 0..NofLte - 1
          /\ remPc = "hold" =>
              /\ status[<<"lte", remId>>] \in {"WORKER_READY", "STOP"}
              /\ wpc[<<"lte", remId>>] \in {"start", "exit"}
              /\ <<"lte", remId>> \notin Reserved
      BY <1>0 DEF WorkerInv
    <3>3. remPc = "hold" => <<"lte", remId>> \in Workers
      BY <3>2, Names
    <3>4. /\ remPc' # "idle" => NofLte > 0 /\ remId' \in 0..NofLte - 1
          /\ remPc' = "hold" =>
                /\ status'[<<"lte", remId'>>] \in {"WORKER_READY", "STOP"}
                /\ wpc'[<<"lte", remId'>>] \in {"start", "exit"}
                /\ <<"lte", remId'>> \notin Reserved'
      BY <1>a, <1>b, <2>1, <2>2, <3>2, <3>3
    <3> QED
      BY <3>1, <3>4 DEF WorkerInv
  <2> QED
    BY <1>0, <1>b, <2>2, <2>5, <2>6 DEF HoldInv
<1> QED
  BY <1>1, <1>2, <1>3 DEF Stack

LEMMA HoldInvStep == HoldInv /\ [Next]_vars => HoldInv'
<1> SUFFICES ASSUME HoldInv, [Next]_vars PROVE HoldInv'
  OBVIOUS
<1>1. CASE \E w \in Workers : Worker(w)
  BY <1>1, WorkerHoldInv
<1>2. CASE Txrx
  BY <1>2, TxrxHoldInv
<1>3. CASE Stack \/ Stop \/ StopStep \/ UNCHANGED vars
  BY <1>3, OtherHoldInv
<1>4. CASE Stopped
  BY <1>4, OtherHoldInv DEF Stopped
<1> QED
  BY <1>1, <1>2, <1>3, <1>4 DEF Next

LEMMA HoldInvAlways == Spec => []HoldInv
<1>1. Init => HoldInv
  BY InitHoldInv
<1> QED
  BY <1>1, HoldInvStep, PTL DEF Spec

(* The variables of the pipeline keep their types: for one, no subframe is *)
(* given the context of one that the radio has not delivered.              *)
THEOREM TypeCorrect == Spec => []TypeOK
<1>1. HoldInv => TypeOK
  BY DEF HoldInv
<1> QED
  BY <1>1, HoldInvAlways, PTL

(* Between wait_worker_id and release of phy::rem_rnti the worker is the   *)
(* stack thread's alone: it is neither processing or transmitting a        *)
(* subframe nor in the hands of TXRX, although both threads take workers   *)
(* from the same pool and phy::stop may stop it in between.                *)
THEOREM RemovesAlone == Spec => []RemovalExclusive
<1>1. ASSUME HoldInv PROVE RemovalExclusive
  <2> SUFFICES ASSUME remPc = "hold"
               PROVE  LET w == <<"lte", remId>> IN
                      /\ wpc[w] \in {"start", "exit"}
                      /\ \A i \in DOMAIN fifo : fifo[i] # w
                      /\ txPc \in {"nr", "pushNr", "startNr", "pushLte", "startLte"} => lteWorker # w
    BY DEF RemovalExclusive
  <2>1. PICK w \in Workers : w = <<"lte", remId>> /\ w \in Lte /\ NofLte > 0
    BY <1>1, NextRemFacts DEF HoldInv
  <2>2. /\ status[w] \in {"WORKER_READY", "STOP"} /\ wpc[w] \in {"start", "exit"}
        /\ w \notin Reserved
    BY <1>1, <2>1 DEF HoldInv, WorkerInv
  <2>3. txPc \in {"nr", "pushNr", "startNr", "pushLte", "startLte"} => lteWorker # w
    BY <2>1, <2>2 DEF Reserved
  <2>4. ~Pushed(w)
    <3>1. txPc = "startNr" => nrWorker # w
      BY <2>2 DEF Reserved
    <3> QED
      BY <2>2, <2>3, <3>1 DEF Pushed
  <2>5. \A i \in DOMAIN fifo : fifo[i] # w
    <3>1. w \notin Elements(fifo) /\ fifo \in Seq(Workers)
      BY <1>1, <2>4 DEF HoldInv, FifoInv, TypeOK
    <3>2. DOMAIN fifo = 1..Len(fifo)
      BY <3>1
    <3> QED
      BY <3>1, <3>2, ElementFacts
  <2> QED
    BY <2>1, <2>2, <2>3, <2>5
<1> QED
  BY <1>1, HoldInvAlways, PTL

-----------------------------------------------------------------------------
(* The order of the semaphore. *)
LEMMA PlaceStep == TypeOK /\ PlaceInv /\ [Next]_vars => PlaceInv'
<1> SUFFICES ASSUME TypeOK, PlaceInv, [Next]_vars PROVE PlaceInv'
  OBVIOUS
<1>1. CASE \E w \in Workers : Worker(w)
  <2>1. PICK w \in Workers : Worker(w)
    BY <1>1
  <2>2. PICK q : /\ wpc' = [wpc EXCEPT ![w] = q]
                 /\ IsLast(w) => q \notin {"hold", "wait"}
                 /\ q \in {"tx", "last"} => IsLast(w)
    <3>1. CASE Combine(w)
      <4>1. PICK q : /\ wpc' = [wpc EXCEPT ![w] = q]
                     /\ q = IF IsLast(w) THEN "tx" ELSE IF TxEnable(w) THEN "hold" ELSE "release"
        BY <3>1 DEF Combine
      <4>2. /\ IsLast(w) => q \notin {"hold", "wait"}
            /\ q \in {"tx", "last"} => IsLast(w)
        BY <4>1
      <4> QED
        BY <4>1, <4>2
    <3>2. CASE Transmit(w)
      BY <3>2 DEF Transmit, PlaceInv
    <3>3. CASE ReleaseTx(w)
      <4>1. PICK q : /\ wpc' = [wpc EXCEPT ![w] = q]
                     /\ q = IF ~IsLast(w) /\ TxEnable(w) THEN "wait" ELSE "finish"
        BY <3>3 DEF ReleaseTx, AfterRelease
      <4>2. /\ IsLast(w) => q \notin {"hold", "wait"}
            /\ q \in {"tx", "last"} => IsLast(w)
        BY <4>1
      <4> QED
        BY <4>1, <4>2
    <3>4. CASE Begin(w)
      <4>1. PICK q : wpc' = [wpc EXCEPT ![w] = q] /\ q \in {"exit", "end", "sync"}
        BY <3>4 DEF Begin
      <4> QED
        BY <4>1
    <3>5. CASE WaitToStart(w)
      BY <3>5 DEF WaitToStart
    <3> QED
      BY <2>1, <3>1, <3>2, <3>3, <3>4, <3>5 DEF Worker, Schedule, WorkDl, ResetLastWorker,
         LastWorker, WaitLastWorker, Finish
  <2>3. \A v \in Workers : wpc'[v] = IF v = w THEN q ELSE wpc[v]
    BY <2>2 DEF TypeOK
  <2> QED
    BY <2>2, <2>3 DEF PlaceInv, IsLast
<1>2. CASE wpc' = wpc
  BY <1>2 DEF PlaceInv, IsLast
<1>3. Txrx \/ Stack \/ Stop \/ StopStep \/ Stopped \/ UNCHANGED vars => wpc' = wpc
  BY DEF Txrx, NextTti, Quit, WaitLte, WaitNr, PushNr, StartNr, PushLte, StartLte, Stack,
     RemRnti, WaitWorkerId, RemRelease, Stop, StopStep, StopPool, Stopped, vars, poolVars
<1> QED
  BY <1>1, <1>2, <1>3 DEF Next

(* The first worker of the semaphore is of the subframe after the last     *)
(* one transmitted, unless it has transmitted it.                          *)
LEMMA HeadCtx ==
    ASSUME HoldInv, OrderInv, fifo # <<>>
    PROVE  /\ fifo[1] \in Workers /\ fifo[1] \in Elements(fifo)
           /\ ~Sent(fifo[1]) => ctx[fifo[1]] = air.tti + 1
           /\ Sent(fifo[1]) => ctx[fifo[1]] = air.tti
           /\ ctx[fifo[1]] \in Nat /\ ctx[fifo[1]] <= tti /\ air.tti \in Nat /\ tti \in Nat
<1>1. fifo \in Seq(Workers) /\ tti \in Nat /\ air.tti \in Nat
  BY DEF HoldInv, TypeOK
<1>2. fifo[1] \in Workers /\ fifo[1] \in Elements(fifo) /\ 1 \in 1..Len(fifo)
  BY <1>1, ElementFacts
<1>3. \A v \in Workers : ctx[v] \in Nat /\ ctx[v] <= tti
  BY <1>1 DEF HoldInv, TypeOK
<1>4. ASSUME ~Sent(fifo[1]) PROVE ctx[fifo[1]] = air.tti + 1
  <2>1. ctx[fifo[1]] > air.tti
    BY <1>2, <1>4 DEF OrderInv
  <2>2. air.tti + 1 \in air.tti + 1..tti
    BY <1>1, <1>2, <1>3, <2>1
  <2>3. CASE air.tti + 1 = tti
    BY <1>1, <1>2, <1>3, <2>1, <2>3
  <2>4. CASE \E v \in Elements(fifo) : IsLast(v) /\ ctx[v] = air.tti + 1
    <3>1. PICK v \in Elements(fifo) : ctx[v] = air.tti + 1
      BY <2>4
    <3>2. PICK j \in 1..Len(fifo) : fifo[j] = v
      BY <3>1, <1>1, ElementFacts
    <3>3. j = 1 \/ 1 < j
      OBVIOUS
    <3>4. 1 < j => Precedes(fifo[1], v)
      BY <1>2, <3>2 DEF OrderInv
    <3> QED
      BY <1>1, <1>2, <1>3, <2>1, <3>1, <3>2, <3>3, <3>4 DEF Precedes
  <2> QED
    BY <2>2, <2>3, <2>4 DEF OrderInv
<1> QED
  BY <1>1, <1>2, <1>3, <1>4 DEF OrderInv

(* The semaphore and the contexts stay. *)
LEMMA OrderKept ==
    ASSUME HoldInv, OrderInv, fifo' = fifo, ctx' = ctx, air' = air, tti' = tti,
           \A v \in Workers : Sent(v)' <=> Sent(v),
           Pending' <=> Pending,
           Pending /\ txPc \in {"startNr", "pushLte"} => txPc' \in {"startNr", "pushLte"}
    PROVE  OrderInv'
<1>1. /\ air.tti <= tti
      /\ \A i, j \in 1..Len(fifo) : i < j => Precedes(fifo[i], fifo[j])
      /\ \A w \in Elements(fifo) : IF Sent(w) THEN ctx[w] = air.tti ELSE ctx[w] > air.tti
      /\ \A t \in air.tti + 1..tti :
            (\E w \in Elements(fifo) : IsLast(w) /\ ctx[w] = t) \/ (t = tti /\ Pending)
      /\ Pending => air.tti < tti
      /\ Pending => \A w \in Elements(fifo) :
            ctx[w] = tti => Pool(w) = "nr" /\ NofLte > 0 /\ txPc \in {"startNr", "pushLte"}
  BY DEF OrderInv
<1>2. Elements(fifo)' = Elements(fifo) /\ Elements(fifo) \subseteq Workers
  BY ElementFacts DEF Elements, HoldInv, TypeOK
<1>3. \A i, j \in 1..Len(fifo') : i < j => Precedes(fifo[i], fifo[j])'
  BY <1>1 DEF Precedes
<1>4. \A w \in Elements(fifo)' : IF Sent(w)' THEN ctx'[w] = air'.tti ELSE ctx'[w] > air'.tti
  BY <1>1, <1>2
<1>5. \A t \in air'.tti + 1..tti' :
          (\E w \in Elements(fifo)' : IsLast(w) /\ ctx'[w] = t) \/ (t = tti' /\ Pending')
  BY <1>1, <1>2
<1>6. Pending' => \A w \in Elements(fifo)' :
          ctx'[w] = tti' => Pool(w) = "nr" /\ NofLte > 0 /\ txPc' \in {"startNr", "pushLte"}
  BY <1>1, <1>2
<1> QED
  BY <1>1, <1>3, <1>4, <1>5, <1>6 DEF OrderInv, IsLast

(* TXRX gives w the context of the present subframe and pushes it. *)
LEMMA PushOrder ==
    ASSUME HoldInv, OrderInv, NEW w \in Workers, ~Pushed(w), ~Sent(w), Pending,
           fifo' = Append(fifo, w), ctx' = [ctx EXCEPT ![w] = tti], air' = air, tti' = tti,
           \A v \in Workers : Sent(v)' <=> Sent(v),
           \A u \in Elements(fifo) : ctx[u] = tti => Pool(w) = "lte",
           \/ Pending' /\ Pool(w) = "nr" /\ NofLte > 0 /\ txPc' = "startNr" /\ txPc = "pushNr"
           \/ ~Pending' /\ IsLast(w)
    PROVE  OrderInv'
<1>1. /\ air.tti <= tti
      /\ \A i, j \in 1..Len(fifo) : i < j => Precedes(fifo[i], fifo[j])
      /\ \A u \in Elements(fifo) : IF Sent(u) THEN ctx[u] = air.tti ELSE ctx[u] > air.tti
      /\ \A t \in air.tti + 1..tti :
            (\E u \in Elements(fifo) : IsLast(u) /\ ctx[u] = t) \/ (t = tti /\ Pending)
      /\ air.tti < tti
      /\ \A u \in Elements(fifo) : ctx[u] = tti => Pool(u) = "nr" /\ NofLte > 0
  BY DEF OrderInv
<1>2. /\ fifo \in Seq(Workers) /\ tti \in Nat /\ air.tti \in Nat
      /\ \A v \in Workers : ctx[v] \in Nat /\ ctx[v] <= tti
      /\ \A v \in Workers : ctx'[v] = IF v = w THEN tti ELSE ctx[v]
      /\ w \notin Elements(fifo)
  BY DEF HoldInv, TypeOK, FifoInv
<1>3. PICK s : s = fifo'
  OBVIOUS
<1>4. /\ s \in Seq(Workers) /\ Len(s) = Len(fifo) + 1 /\ Len(fifo) \in Nat
      /\ \A i \in 1..Len(fifo) : s[i] = fifo[i] /\ fifo[i] \in Elements(fifo)
      /\ s[Len(fifo) + 1] = w
      /\ Elements(s) = Elements(fifo) \cup {w} /\ Elements(fifo) \subseteq Workers
  BY <1>2, <1>3, PushFacts, ElementFacts
<1>5. Elements(fifo)' = Elements(s)
  BY <1>3 DEF Elements
<1>6. ASSUME NEW i \in 1..Len(s), NEW j \in 1..Len(s), i < j PROVE Precedes(s[i], s[j])'
  <2>1. i \in 1..Len(fifo) /\ (j \in 1..Len(fifo) \/ j = Len(fifo) + 1)
    BY <1>4, <1>6
  <2>2. PICK u \in Elements(fifo) : u = s[i] /\ u = fifo[i] /\ u # w /\ u \in Workers
    BY <1>2, <1>4, <2>1
  <2>3. CASE j \in 1..Len(fifo)
    <3>1. PICK v \in Elements(fifo) : v = s[j] /\ v = fifo[j] /\ v # w /\ v \in Workers
      BY <1>2, <1>4, <2>3
    <3>2. Precedes(u, v)
      BY <1>1, <1>6, <2>1, <2>2, <2>3, <3>1
    <3> QED
      BY <1>2, <2>2, <3>1, <3>2 DEF Precedes
  <2>4. CASE j = Len(fifo) + 1
    <3>1. s[j] = w
      BY <1>4, <2>4
    <3>2. ctx[u] < tti \/ (ctx[u] = tti /\ Pool(u) = "nr" /\ Pool(w) = "lte")
      BY <1>1, <1>2, <2>2
    <3> QED
      BY <1>2, <2>2, <3>1, <3>2 DEF Precedes
  <2> QED
    BY <2>1, <2>3, <2>4
<1>7. ASSUME NEW i \in 1..Len(fifo'), NEW j \in 1..Len(fifo'), i < j
      PROVE  Precedes(fifo[i], fifo[j])'
  <2>1. i \in 1..Len(s) /\ j \in 1..Len(s) /\ fifo'[i] = s[i] /\ fifo'[j] = s[j]
    BY <1>3
  <2>2. Precedes(s[i], s[j])'
    BY <1>6, <1>7, <2>1
  <2> QED
    BY <2>1, <2>2 DEF Precedes
<1>8. \A u \in Elements(fifo)' : IF Sent(u)' THEN ctx'[u] = air'.tti ELSE ctx'[u] > air'.tti
  BY <1>1, <1>2, <1>4, <1>5
<1>9. ASSUME NEW t \in air'.tti + 1..tti'
      PROVE  (\E u \in Elements(fifo)' : IsLast(u) /\ ctx'[u] = t) \/ (t = tti' /\ Pending')
  <2>1. CASE \E u \in Elements(fifo) : IsLast(u) /\ ctx[u] = t
    BY <1>2, <1>4, <1>5, <2>1
  <2>2. CASE t = tti
    <3>1. IsLast(w) => \E u \in Elements(fifo)' : IsLast(u) /\ ctx'[u] = t
      BY <1>2, <1>4, <1>5, <2>2
    <3> QED
      BY <2>2, <3>1
  <2> QED
    BY <1>1, <1>9, <2>1, <2>2
<1>10. Pending' => \A u \in Elements(fifo)' :
          ctx'[u] = tti' => Pool(u) = "nr" /\ NofLte > 0 /\ txPc' \in {"startNr", "pushLte"}
  <2>1. Pending' => Pool(w) = "nr" /\ NofLte > 0 /\ txPc' = "startNr"
    OBVIOUS
  <2> QED
    BY <1>1, <1>2, <1>4, <1>5, <2>1
<1> QED
  BY <1>1, <1>7, <1>8, <1>9, <1>10 DEF OrderInv, IsLast

(* The first worker transmits. *)
LEMMA TransmitOrder ==
    ASSUME HoldInv, PlaceInv, OrderInv, NEW w \in Workers, Transmit(w)
    PROVE  OrderInv' /\ ctx[w] = air.tti + 1 /\ air'.tti = air.tti + 1 /\ air.tti < tti
<1>0. /\ TypeOK /\ fifo' = fifo /\ ctx' = ctx /\ tti' = tti /\ wpc[w] = "tx"
      /\ wpc' = [wpc EXCEPT ![w] = "last"] /\ air'.tti = ctx[w]
      /\ txPc' = txPc
  BY DEF HoldInv, Transmit, sigVars, txrxVars
<1>1. /\ air.tti <= tti
      /\ \A i, j \in 1..Len(fifo) : i < j => Precedes(fifo[i], fifo[j])
      /\ \A u \in Elements(fifo) : IF Sent(u) THEN ctx[u] = air.tti ELSE ctx[u] > air.tti
      /\ \A t \in air.tti + 1..tti :
            (\E u \in Elements(fifo) : IsLast(u) /\ ctx[u] = t) \/ (t = tti /\ Pending)
      /\ Pending => air.tti < tti
      /\ Pending => \A u \in Elements(fifo) :
            ctx[u] = tti => Pool(u) = "nr" /\ NofLte > 0 /\ txPc \in {"startNr", "pushLte"}
  BY DEF OrderInv
<1>2. IsLast(w) /\ fifo # <<>> /\ fifo[1] = w
  BY <1>0 DEF HoldInv, FifoInv, PlaceInv
<1>3. /\ w \in Elements(fifo) /\ ctx[w] = air.tti + 1 /\ ctx[w] \in Nat /\ ctx[w] <= tti
      /\ air.tti \in Nat /\ tti \in Nat
  BY <1>0, <1>2, HeadCtx DEF Sent
<1>4. \A v \in Workers : wpc'[v] = IF v = w THEN "last" ELSE wpc[v]
  BY <1>0 DEF TypeOK
<1>5. \A v \in Workers : v # w => ~Sent(v) /\ ~Sent(v)'
  <2>1. \A v \in Workers : v # w => wpc[v] \notin {"last", "release"}
    BY <1>2 DEF HoldInv, FifoInv
  <2> QED
    BY <1>4, <2>1 DEF Sent
<1>6. Sent(w)'
  BY <1>2, <1>4 DEF Sent, IsLast
<1>7. /\ Elements(fifo)' = Elements(fifo) /\ Elements(fifo) \subseteq Workers
      /\ \A v \in Workers : ctx[v] \in Nat
      /\ \A v \in Elements(fifo) : \E i \in 1..Len(fifo) : fifo[i] = v
      /\ 1 \in 1..Len(fifo)
  BY <1>0, <1>2, ElementFacts DEF Elements, TypeOK
<1>8. ASSUME NEW v \in Elements(fifo), v # w PROVE ctx[v] > ctx[w]
  <2>1. PICK j \in 1..Len(fifo) : fifo[j] = v
    BY <1>7
  <2>2. 1 < j
    BY <1>2, <1>8, <2>1
  <2>3. Precedes(w, v)
    BY <1>1, <1>2, <1>7, <2>1, <2>2
  <2>4. ~(Pool(w) = "nr" /\ Pool(v) = "lte")
    BY <1>2, <1>7, Names DEF IsLast
  <2> QED
    BY <1>3, <1>7, <2>3, <2>4 DEF Precedes
<1>9. \A i, j \in 1..Len(fifo') : i < j => Precedes(fifo[i], fifo[j])'
  BY <1>0, <1>1 DEF Precedes
<1>10. \A u \in Elements(fifo)' : IF Sent(u)' THEN ctx'[u] = air'.tti ELSE ctx'[u] > air'.tti
  BY <1>0, <1>5, <1>6, <1>7, <1>8
<1>11. Pending' <=> Pending
  BY <1>0 DEF Pending
<1>12. \A t \in air'.tti + 1..tti' :
          (\E u \in Elements(fifo)' : IsLast(u) /\ ctx'[u] = t) \/ (t = tti' /\ Pending')
  <2>1. \A t \in air'.tti + 1..tti' : t \in air.tti + 1..tti
    BY <1>0, <1>3
  <2> QED
    BY <1>0, <1>1, <1>7, <1>11, <2>1
<1>13. Pending' => air'.tti < tti'
  <2>1. Pending => ctx[w] # tti
    BY <1>1, <1>2, <1>3, Names DEF IsLast
  <2> QED
    BY <1>0, <1>3, <1>11, <2>1
<1>14. Pending' => \A u \in Elements(fifo)' :
          ctx'[u] = tti' => Pool(u) = "nr" /\ NofLte > 0 /\ txPc' \in {"startNr", "pushLte"}
  BY <1>0, <1>1, <1>7, <1>11
<1>15. OrderInv'
  BY <1>0, <1>3, <1>9, <1>10, <1>12, <1>13, <1>14 DEF OrderInv, IsLast
<1> QED
  BY <1>0, <1>3, <1>15

(* The first worker leaves the semaphore. *)
LEMMA ReleaseOrder ==
    ASSUME HoldInv, OrderInv, NEW w \in Workers, ReleaseTx(w)
    PROVE  OrderInv'
<1>0. /\ TypeOK /\ fifo' = Release(fifo) /\ ctx' = ctx /\ tti' = tti /\ wpc[w] = "release"
      /\ wpc' = [wpc EXCEPT ![w] = AfterRelease(w)] /\ air' = air
      /\ txPc' = txPc
  BY DEF HoldInv, ReleaseTx, sigVars, txrxVars
<1>1. /\ air.tti <= tti
      /\ \A i, j \in 1..Len(fifo) : i < j => Precedes(fifo[i], fifo[j])
      /\ \A u \in Elements(fifo) : IF Sent(u) THEN ctx[u] = air.tti ELSE ctx[u] > air.tti
      /\ \A t \in air.tti + 1..tti :
            (\E u \in Elements(fifo) : IsLast(u) /\ ctx[u] = t) \/ (t = tti /\ Pending)
      /\ Pending => air.tti < tti
      /\ Pending => \A u \in Elements(fifo) :
            ctx[u] = tti => Pool(u) = "nr" /\ NofLte > 0 /\ txPc \in {"startNr", "pushLte"}
  BY DEF OrderInv
<1>2. /\ fifo # <<>> /\ fifo[1] = w /\ fifo \in Seq(Workers)
      /\ \A i, j \in 1..Len(fifo) : fifo[i] = fifo[j] => i = j
      /\ tti \in Nat /\ air.tti \in Nat
  BY <1>0 DEF HoldInv, FifoInv, TypeOK
<1>3. PICK s : s = fifo'
  OBVIOUS
<1>4. /\ s \in Seq(Workers) /\ Len(s) \in Nat
      /\ \A i \in 1..Len(s) : i + 1 \in 1..Len(fifo) /\ s[i] = fifo[i + 1]
      /\ Elements(s) = Elements(fifo) \ {w} /\ Elements(fifo) \subseteq Workers
      /\ w \in Elements(fifo)
  BY <1>0, <1>2, <1>3, ReleaseFacts, ElementFacts
<1>5. Elements(fifo)' = Elements(s)
  BY <1>3 DEF Elements
<1>6. \A i, j \in 1..Len(s) : i < j => Precedes(s[i], s[j])
  BY <1>1, <1>4
<1>7. \A i, j \in 1..Len(fifo') : i < j => Precedes(fifo[i], fifo[j])'
  BY <1>0, <1>3, <1>6 DEF Precedes
<1>8. \A v \in Workers : v # w => (Sent(v)' <=> Sent(v))
  BY <1>0 DEF TypeOK, Sent, IsLast
<1>9. \A u \in Elements(fifo)' : IF Sent(u)' THEN ctx'[u] = air'.tti ELSE ctx'[u] > air'.tti
  BY <1>0, <1>1, <1>4, <1>5, <1>8
<1>10. Pending' <=> Pending
  BY <1>0 DEF Pending
<1>11. ASSUME NEW t \in air'.tti + 1..tti'
       PROVE  (\E u \in Elements(fifo)' : IsLast(u) /\ ctx'[u] = t) \/ (t = tti' /\ Pending')
  <2>1. CASE \E u \in Elements(fifo) : IsLast(u) /\ ctx[u] = t
    <3>1. PICK u \in Elements(fifo) : IsLast(u) /\ ctx[u] = t
      BY <2>1
    <3>2. u # w
      <4>1. t # air.tti
        BY <1>0, <1>2
      <4> QED
        BY <1>0, <1>1, <1>4, <3>1, <4>1 DEF Sent
    <3> QED
      BY <1>0, <1>4, <1>5, <3>1, <3>2
  <2> QED
    BY <1>0, <1>1, <1>10, <2>1
<1>12. Pending' => \A u \in Elements(fifo)' :
          ctx'[u] = tti' => Pool(u) = "nr" /\ NofLte > 0 /\ txPc' \in {"startNr", "pushLte"}
  BY <1>0, <1>1, <1>4, <1>5, <1>10
<1> QED
  BY <1>0, <1>1, <1>7, <1>9, <1>10, <1>11, <1>12 DEF OrderInv, IsLast

LEMMA WorkerOrder ==
    ASSUME HoldInv, PlaceInv, OrderInv, NEW w \in Workers, Worker(w)
    PROVE  OrderInv'
<1>1. CASE Transmit(w)
  BY <1>1, TransmitOrder
<1>2. CASE ReleaseTx(w)
  BY <1>2, ReleaseOrder
<1>3. CASE \/ WaitToStart(w) \/ Begin(w) \/ Schedule(w) \/ WorkDl(w) \/ Combine(w)
           \/ ResetLastWorker(w) \/ LastWorker(w) \/ WaitLastWorker(w) \/ Finish(w)
  <2>1. fifo' = fifo /\ ctx' = ctx /\ air' = air /\ tti' = tti /\ txPc' = txPc
    BY <1>3 DEF WaitToStart, Begin, Schedule, WorkDl, Combine, ResetLastWorker, LastWorker,
                WaitLastWorker, Finish, sigVars, comVars, txrxVars
  <2>2. PICK q : /\ wpc' = [wpc EXCEPT ![w] = q]
                 /\ (IsLast(w) /\ q \in {"last", "release"}) <=> Sent(w)
    <3>1. CASE WaitToStart(w)
      BY <3>1 DEF WaitToStart, Sent
    <3>2. CASE Begin(w)
      <4>1. PICK q : wpc' = [wpc EXCEPT ![w] = q] /\ q \in {"exit", "end", "sync"}
        BY <3>2 DEF Begin
      <4> QED
        BY <3>2, <4>1 DEF Begin, Sent
    <3>3. CASE Combine(w)
      <4>1. PICK q : /\ wpc' = [wpc EXCEPT ![w] = q]
                     /\ q = IF IsLast(w) THEN "tx" ELSE IF TxEnable(w) THEN "hold" ELSE "release"
        BY <3>3 DEF Combine
      <4>2. ~Sent(w) /\ ~(IsLast(w) /\ q \in {"last", "release"})
        BY <3>3, <4>1 DEF Combine, Sent
      <4> QED
        BY <4>1, <4>2
    <3>4. CASE ResetLastWorker(w)
      <4>1. ~IsLast(w)
        BY <3>4 DEF ResetLastWorker, PlaceInv
      <4> QED
        BY <3>4, <4>1 DEF ResetLastWorker, Sent
    <3>5. CASE LastWorker(w)
      BY <3>5 DEF LastWorker, Sent
    <3>6. CASE Schedule(w)
      <4>1. ~Sent(w) /\ wpc' = [wpc EXCEPT ![w] = "dl"]
        BY <3>6 DEF Schedule, Sent
      <4>2. ~(IsLast(w) /\ "dl" \in {"last", "release"})
        OBVIOUS
      <4> QED
        BY <4>1, <4>2
    <3>7. CASE WorkDl(w)
      <4>1. ~Sent(w) /\ wpc' = [wpc EXCEPT ![w] = "end"]
        BY <3>7 DEF WorkDl, Sent
      <4>2. ~(IsLast(w) /\ "end" \in {"last", "release"})
        OBVIOUS
      <4> QED
        BY <4>1, <4>2
    <3>8. CASE WaitLastWorker(w)
      <4>1. ~Sent(w) /\ wpc' = [wpc EXCEPT ![w] = "finish"]
        BY <3>8 DEF WaitLastWorker, Sent
      <4>2. ~(IsLast(w) /\ "finish" \in {"last", "release"})
        OBVIOUS
      <4> QED
        BY <4>1, <4>2
    <3>9. CASE Finish(w)
      <4>1. PICK q : wpc' = [wpc EXCEPT ![w] = q] /\ q \in {"start", "exit"}
        BY <3>9 DEF Finish
      <4> QED
        BY <3>9, <4>1 DEF Finish, Sent
    <3> QED
      BY <1>3, <3>1, <3>2, <3>3, <3>4, <3>5, <3>6, <3>7, <3>8, <3>9
  <2>3. \A v \in Workers : wpc'[v] = IF v = w THEN q ELSE wpc[v]
    BY <2>2 DEF HoldInv, TypeOK
  <2>4. ASSUME NEW v \in Workers PROVE Sent(v)' <=> Sent(v)
    BY <2>2, <2>3 DEF Sent, IsLast
  <2>5. Pending' <=> Pending
    BY <2>1 DEF Pending
  <2> QED
    BY <2>1, <2>4, <2>5, OrderKept
<1> QED
  BY <1>1, <1>2, <1>3 DEF Worker

(* The next subframe is begun. *)
LEMMA BeginOrder ==
    ASSUME HoldInv, OrderInv, txPc = "loop", txPc' \in {"lte", "nr"}, Pending',
           fifo' = fifo, ctx' = ctx, air' = air, wpc' = wpc, tti' = tti + 1
    PROVE  OrderInv'
<1>1. /\ air.tti <= tti
      /\ \A i, j \in 1..Len(fifo) : i < j => Precedes(fifo[i], fifo[j])
      /\ \A w \in Elements(fifo) : IF Sent(w) THEN ctx[w] = air.tti ELSE ctx[w] > air.tti
      /\ \A t \in air.tti + 1..tti :
            (\E w \in Elements(fifo) : IsLast(w) /\ ctx[w] = t) \/ (t = tti /\ Pending)
  BY DEF OrderInv
<1>2. /\ tti \in Nat /\ air.tti \in Nat /\ ~Pending
      /\ \A v \in Workers : ctx[v] \in Nat /\ ctx[v] <= tti
  BY DEF HoldInv, TypeOK, Pending
<1>3. Elements(fifo)' = Elements(fifo) /\ Elements(fifo) \subseteq Workers
  <2>1. fifo \in Seq(Workers)
    BY DEF HoldInv, TypeOK
  <2>2. Elements(fifo)' = Elements(fifo)
    BY DEF Elements
  <2> QED
    BY <2>1, <2>2, ElementFacts
<1>4. \A i, j \in 1..Len(fifo') : i < j => Precedes(fifo[i], fifo[j])'
  BY <1>1 DEF Precedes
<1>5. \A w \in Elements(fifo)' : IF Sent(w)' THEN ctx'[w] = air'.tti ELSE ctx'[w] > air'.tti
  BY <1>1, <1>3 DEF Sent, IsLast
<1>6. ASSUME NEW t \in air'.tti + 1..tti'
      PROVE  (\E w \in Elements(fifo)' : IsLast(w) /\ ctx'[w] = t) \/ (t = tti' /\ Pending')
  <2>1. t \in air.tti + 1..tti \/ t = tti'
    BY <1>2
  <2> QED
    BY <1>1, <1>2, <1>3, <2>1
<1>7. \A w \in Elements(fifo)' : ctx'[w] # tti'
  BY <1>2, <1>3
<1> QED
  BY <1>1, <1>2, <1>4, <1>5, <1>6, <1>7 DEF OrderInv, IsLast

LEMMA TxrxOrder ==
    ASSUME HoldInv, OrderInv, Txrx
    PROVE  OrderInv'
<1>0. /\ air' = air /\ wpc' = wpc
      /\ \A v \in Workers : Sent(v)' <=> Sent(v)
  <2>1. air' = air /\ wpc' = wpc
    BY DEF Txrx, NextTti, Quit, WaitLte, WaitNr, PushNr, StartNr, PushLte, StartLte, poolVars, comVars
  <2> QED
    BY <2>1 DEF Sent, IsLast
<1>a. TxrxInv /\ WorkerInv /\ TypeOK
  BY DEF HoldInv
<1>1. CASE NextTti
  <2>1. /\ txPc = "loop" /\ txPc' = (IF NofLte > 0 THEN "lte" ELSE "nr") /\ tti' = tti + 1
        /\ fifo' = fifo /\ ctx' = ctx
    BY <1>1 DEF NextTti, sigVars, comVars
  <2>2. Pending' /\ txPc' \in {"lte", "nr"}
    BY <2>1, Names DEF Pending
  <2> QED
    BY <1>0, <2>1, <2>2, BeginOrder
<1>2. CASE Quit \/ WaitLte \/ WaitNr \/ StartNr \/ StartLte
  <2>1. fifo' = fifo /\ ctx' = ctx /\ tti' = tti
    BY <1>2 DEF Quit, WaitLte, WaitNr, StartNr, StartLte, sigVars, comVars
  <2>2. \/ txPc = "loop" /\ txPc' = "done"
        \/ txPc = "lte" /\ NofLte > 0 /\ txPc' \in {"nr", "pushLte"}
        \/ txPc = "nr" /\ txPc' = "pushNr"
        \/ txPc = "startNr" /\ txPc' = (IF NofLte > 0 THEN "pushLte" ELSE "loop")
        \/ txPc = "startLte" /\ txPc' = "loop"
    <3>1. txPc \in {"lte", "nr"} => poolRun["lte"] /\ poolRun["nr"]
      BY DEF HoldInv, StopInv, TypeOK
    <3>2. txPc = "lte" => NofLte > 0
      BY <1>a DEF TxrxInv
    <3> QED
      BY <1>2, <3>1, <3>2 DEF Quit, WaitLte, WaitNr, StartNr, StartLte
  <2>3. Pending' <=> Pending
    BY <2>2, Names DEF Pending
  <2>4. Pending /\ txPc \in {"startNr", "pushLte"} => txPc' \in {"startNr", "pushLte"}
    BY <2>2, Names DEF Pending
  <2> QED
    BY <1>0, <2>1, <2>3, <2>4, OrderKept
<1>3. CASE PushNr
  <2>1. PICK w \in Workers : w = nrWorker /\ w \in Nr /\ Pool(w) = "nr" /\ NofNr > 0
    BY <1>3, <1>a, Names DEF PushNr, TxrxInv
  <2>2. /\ txPc = "pushNr" /\ txPc' = "startNr" /\ fifo' = Append(fifo, w) /\ tti' = tti
        /\ ctx' = [ctx EXCEPT ![w] = tti]
    BY <1>3, <2>1 DEF PushNr, SetContext
  <2>3. status[w] = "WORKER_READY" /\ wpc[w] = "start"
    BY <1>a, <2>1, <2>2 DEF WorkerInv, Reserved
  <2>4. ~Pushed(w) /\ ~Sent(w)
    BY <2>2, <2>3 DEF Pushed, Sent
  <2>5. Pending /\ (NofLte > 0 => Pending') /\ (~(NofLte > 0) => ~Pending' /\ IsLast(w))
    BY <2>2, Names DEF Pending, IsLast
  <2>6. \A u \in Elements(fifo) : ctx[u] # tti
    BY <2>2, <2>5 DEF OrderInv
  <2> QED
    BY <1>0, <2>1, <2>2, <2>4, <2>5, <2>6, PushOrder
<1>4. CASE PushLte
  <2>1. PICK w \in Workers : w = lteWorker /\ w \in Lte /\ Pool(w) = "lte" /\ NofLte > 0
    BY <1>4, <1>a, Names DEF PushLte, TxrxInv
  <2>2. /\ txPc = "pushLte" /\ txPc' = "startLte" /\ fifo' = Append(fifo, w) /\ tti' = tti
        /\ ctx' = [ctx EXCEPT ![w] = tti]
    BY <1>4, <2>1 DEF PushLte, SetContext
  <2>3. status[w] = "WORKER_READY" /\ wpc[w] = "start"
    BY <1>a, <2>1, <2>2 DEF WorkerInv, Reserved
  <2>4. ~Pushed(w) /\ ~Sent(w)
    BY <2>2, <2>3 DEF Pushed, Sent
  <2>5. Pending /\ ~Pending' /\ IsLast(w)
    BY <2>1, <2>2, Names DEF Pending, IsLast
  <2> QED
    BY <1>0, <2>1, <2>2, <2>4, <2>5, PushOrder
<1> QED
  BY <1>1, <1>2, <1>3, <1>4 DEF Txrx

LEMMA OrderStep == HoldInv /\ PlaceInv /\ OrderInv /\ [Next]_vars => OrderInv'
<1> SUFFICES ASSUME HoldInv, PlaceInv, OrderInv, [Next]_vars PROVE OrderInv'
  OBVIOUS
<1>1. CASE \E w \in Workers : Worker(w)
  BY <1>1, WorkerOrder
<1>2. CASE Txrx
  BY <1>2, TxrxOrder
<1>3. CASE Stack \/ Stop \/ StopStep \/ Stopped \/ UNCHANGED vars
  <2>1. fifo' = fifo /\ ctx' = ctx /\ air' = air /\ tti' = tti /\ txPc' = txPc /\ wpc' = wpc
    BY <1>3 DEF Stack, RemRnti, WaitWorkerId, RemRelease, Stop, StopStep, StopPool, Stopped,
                vars, poolVars, sigVars, comVars, txrxVars
  <2>2. \A v \in Workers : Sent(v)' <=> Sent(v)
    BY <2>1 DEF Sent, IsLast
  <2>3. Pending' <=> Pending
    BY <2>1 DEF Pending
  <2> QED
    BY <2>1, <2>2, <2>3, OrderKept
<1> QED
  BY <1>1, <1>2, <1>3 DEF Next

LEMMA InitOrder == ASSUME Init PROVE PlaceInv /\ OrderInv
<1>1. PlaceInv
  BY DEF Init, PlaceInv
<1>2. fifo = <<>> /\ Len(fifo) = 0 /\ air.tti = 0 /\ tti = 0 /\ ~Pending
  BY DEF Init, Pending
<1>3. OrderInv
  BY <1>2 DEF OrderInv, Elements
<1> QED
  BY <1>1, <1>3

-----------------------------------------------------------------------------
(* Signals. *)
LEMMA PushedKept ==
    ASSUME HoldInv, HoldInv', fifo' = fifo
    PROVE  \A v \in Workers : Pushed(v)' <=> Pushed(v)
<1>1. Elements(fifo) = {v \in Workers : Pushed(v)}
  BY DEF HoldInv, FifoInv
<1>2. Elements(fifo)' = {v \in Workers : Pushed(v)'}
  BY DEF HoldInv, FifoInv
<1>3. Elements(fifo)' = Elements(fifo)
  BY DEF Elements
<1> QED
  BY <1>1, <1>2, <1>3

(* A step that changes the signal of no worker but w. *)
LEMMA SignalLocal ==
    ASSUME SignalInv, NEW w \in Workers, ctx' = ctx, air' = air, txBuffer' = txBuffer,
           txHold' = txHold \/ txHold' = TRUE \/ txBuffer = {},
           \A v \in Workers : v # w =>
              wpc'[v] = wpc[v] /\ sig'[v] = sig[v] /\ buf'[v] = buf[v] /\ (Pushed(v) => Pushed(v)'),
           w \in txBuffer =>
              /\ wpc'[w] \in {"hold", "tx", "release", "wait"}
              /\ buf'[w] = ctx[w] /\ ctx[w] = air.tti + 1 /\ sig'[w]
              /\ wpc'[w] \in {"release", "wait"} => txHold',
           wpc'[w] \in {"end", "hold", "tx", "last", "release", "wait"} /\ sig'[w] => buf'[w] = ctx[w],
           wpc'[w] = "last" => txBuffer = {},
           sig'[w] /\ ctx[w] > air.tti => Pushed(w)' \/ w \in txBuffer,
           wpc'[w] \in {"hold", "tx", "release"} /\ sig'[w] /\ ctx[w] > air.tti => w \in txBuffer
    PROVE  SignalInv'
<1> SUFFICES ASSUME NEW v \in Workers
             PROVE /\ v \in txBuffer' =>
                        /\ wpc'[v] \in {"hold", "tx", "release", "wait"}
                        /\ buf'[v] = ctx'[v] /\ ctx'[v] = air'.tti + 1 /\ sig'[v]
                        /\ wpc'[v] \in {"release", "wait"} => txHold'
                   /\ wpc'[v] \in {"end", "hold", "tx", "last", "release", "wait"} /\ sig'[v] =>
                        buf'[v] = ctx'[v]
                   /\ wpc'[v] = "last" => txBuffer' = {}
                   /\ sig'[v] /\ ctx'[v] > air'.tti => Pushed(v)' \/ v \in txBuffer'
                   /\ wpc'[v] \in {"hold", "tx", "release"} /\ sig'[v] /\ ctx'[v] > air'.tti =>
                        v \in txBuffer'
  BY DEF SignalInv
<1>1. CASE v = w
  BY <1>1
<1>2. CASE v # w
  <2>1. /\ v \in txBuffer =>
              /\ wpc[v] \in {"hold", "tx", "release", "wait"}
              /\ buf[v] = ctx[v] /\ ctx[v] = air.tti + 1 /\ sig[v]
              /\ wpc[v] \in {"release", "wait"} => txHold
        /\ wpc[v] \in {"end", "hold", "tx", "last", "release", "wait"} /\ sig[v] => buf[v] = ctx[v]
        /\ wpc[v] = "last" => txBuffer = {}
        /\ sig[v] /\ ctx[v] > air.tti => Pushed(v) \/ v \in txBuffer
        /\ wpc[v] \in {"hold", "tx", "release"} /\ sig[v] /\ ctx[v] > air.tti => v \in txBuffer
    BY DEF SignalInv
  <2> QED
    BY <1>2, <2>1
<1> QED
  BY <1>1, <1>2

(* Steps that change no signal and do not move a worker. *)
LEMMA SignalKept ==
    ASSUME SignalInv, ctx' = ctx, air' = air, txBuffer' = txBuffer, txHold' = txHold,
           wpc' = wpc, sig' = sig, buf' = buf, \A v \in Workers : Pushed(v) => Pushed(v)'
    PROVE  SignalInv'
  BY DEF SignalInv

(* The first worker combines its signal. *)
LEMMA CombineSignal ==
    ASSUME HoldInv, HoldInv', PlaceInv, OrderInv, SignalInv, NEW w \in Workers, Combine(w)
    PROVE  SignalInv'
<1>1. PICK q : /\ wpc' = [wpc EXCEPT ![w] = q]
               /\ q = IF IsLast(w) THEN "tx" ELSE IF TxEnable(w) THEN "hold" ELSE "release"
  BY DEF Combine
<1>2. /\ wpc[w] = "end" /\ MayPass(fifo, w) /\ fifo' = fifo /\ ctx' = ctx /\ air' = air
      /\ sig' = sig /\ buf' = buf /\ txHold' = txHold
      /\ txBuffer' = IF sig[w] THEN txBuffer \cup {w} ELSE txBuffer
  BY DEF Combine, sigVars
<1>3. \A v \in Workers : wpc'[v] = IF v = w THEN q ELSE wpc[v]
  BY <1>1 DEF HoldInv, TypeOK
<1>4. fifo # <<>> /\ fifo[1] = w
  BY <1>2, FirstPasses DEF Inside
<1>5. ctx[w] = air.tti + 1
  BY <1>2, <1>4, HeadCtx DEF Sent
<1>6. \A v \in Workers : wpc[v] # "last"
  BY <1>2, <1>4 DEF HoldInv, FifoInv
<1>7. \A v \in Workers : Pushed(v)' <=> Pushed(v)
  BY <1>2, PushedKept
<1>8. q \in {"hold", "tx", "release"} /\ (sig[w] => q \in {"hold", "tx"})
  BY <1>1 DEF TxEnable
<1>9. Pushed(w)
  BY <1>2 DEF Pushed
<1> SUFFICES ASSUME NEW v \in Workers
             PROVE /\ v \in txBuffer' =>
                        /\ wpc'[v] \in {"hold", "tx", "release", "wait"}
                        /\ buf'[v] = ctx'[v] /\ ctx'[v] = air'.tti + 1 /\ sig'[v]
                        /\ wpc'[v] \in {"release", "wait"} => txHold'
                   /\ wpc'[v] \in {"end", "hold", "tx", "last", "release", "wait"} /\ sig'[v] =>
                        buf'[v] = ctx'[v]
                   /\ wpc'[v] = "last" => txBuffer' = {}
                   /\ sig'[v] /\ ctx'[v] > air'.tti => Pushed(v)' \/ v \in txBuffer'
                   /\ wpc'[v] \in {"hold", "tx", "release"} /\ sig'[v] /\ ctx'[v] > air'.tti =>
                        v \in txBuffer'
  BY DEF SignalInv
<1>10. /\ v \in txBuffer =>
              /\ wpc[v] \in {"hold", "tx", "release", "wait"}
              /\ buf[v] = ctx[v] /\ ctx[v] = air.tti + 1 /\ sig[v]
              /\ wpc[v] \in {"release", "wait"} => txHold
       /\ wpc[v] \in {"end", "hold", "tx", "last", "release", "wait"} /\ sig[v] => buf[v] = ctx[v]
       /\ sig[v] /\ ctx[v] > air.tti => Pushed(v) \/ v \in txBuffer
       /\ wpc[v] \in {"hold", "tx", "release"} /\ sig[v] /\ ctx[v] > air.tti => v \in txBuffer
  BY DEF SignalInv
<1>11. CASE v = w
  <2>1. w \notin txBuffer
    BY <1>2, <1>10, <1>11
  <2>2. sig[w] <=> w \in txBuffer'
    BY <1>2, <2>1
  <2>3. sig[w] => buf[w] = ctx[w]
    BY <1>2, <1>10, <1>11
  <2> QED
    BY <1>2, <1>3, <1>5, <1>7, <1>8, <1>9, <1>11, <2>2, <2>3
<1>12. CASE v # w
  <2>1. v \in txBuffer' <=> v \in txBuffer
    BY <1>2, <1>12
  <2> QED
    BY <1>2, <1>3, <1>6, <1>7, <1>10, <1>12, <2>1
<1> QED
  BY <1>11, <1>12

(* The radio takes what has been combined. *)
LEMMA TransmitSignal ==
    ASSUME HoldInv, HoldInv', PlaceInv, OrderInv, SignalInv, NEW w \in Workers, Transmit(w)
    PROVE  SignalInv'
<1>1. /\ wpc' = [wpc EXCEPT ![w] = "last"] /\ wpc[w] = "tx" /\ fifo' = fifo /\ ctx' = ctx
      /\ sig' = sig /\ buf' = buf /\ txBuffer' = {}
  BY DEF Transmit, sigVars
<1>2. ctx[w] = air.tti + 1 /\ air'.tti = air.tti + 1 /\ air.tti \in Nat
  BY TransmitOrder DEF HoldInv, TypeOK
<1>3. /\ \A v \in Workers : wpc'[v] = IF v = w THEN "last" ELSE wpc[v]
      /\ \A v \in Workers : ctx[v] \in Nat
  BY <1>1 DEF HoldInv, TypeOK
<1>4. \A v \in Workers : v # w => wpc[v] \notin {"hold", "tx", "last", "release"}
  BY <1>1 DEF HoldInv, FifoInv
<1>5. \A v \in Workers : Pushed(v)' <=> Pushed(v)
  BY <1>1, PushedKept
<1>6. ASSUME NEW v \in Workers
      PROVE /\ wpc'[v] \in {"end", "hold", "tx", "last", "release", "wait"} /\ sig[v] => buf[v] = ctx[v]
            /\ sig[v] /\ ctx[v] > air'.tti => Pushed(v)'
            /\ wpc'[v] \notin {"hold", "tx", "release"}
  <2>1. /\ v \in txBuffer => ctx[v] = air.tti + 1
        /\ wpc[v] \in {"end", "hold", "tx", "last", "release", "wait"} /\ sig[v] => buf[v] = ctx[v]
        /\ sig[v] /\ ctx[v] > air.tti => Pushed(v) \/ v \in txBuffer
    BY DEF SignalInv
  <2>2. ctx[v] > air'.tti => ctx[v] > air.tti /\ ctx[v] # air.tti + 1
    BY <1>2, <1>3
  <2> QED
    BY <1>1, <1>3, <1>4, <1>5, <2>1, <2>2
<1> QED
  BY <1>1, <1>6 DEF SignalInv

LEMMA WorkerSignal ==
    ASSUME HoldInv, HoldInv', PlaceInv, OrderInv, SignalInv, NEW w \in Workers, Worker(w)
    PROVE  SignalInv'
<1>0. /\ w \in txBuffer =>
            /\ wpc[w] \in {"hold", "tx", "release", "wait"}
            /\ buf[w] = ctx[w] /\ ctx[w] = air.tti + 1 /\ sig[w]
            /\ wpc[w] \in {"release", "wait"} => txHold
      /\ wpc[w] \in {"end", "hold", "tx", "last", "release", "wait"} /\ sig[w] => buf[w] = ctx[w]
      /\ wpc[w] = "last" => txBuffer = {}
      /\ sig[w] /\ ctx[w] > air.tti => Pushed(w) \/ w \in txBuffer
      /\ wpc[w] \in {"hold", "tx", "release"} /\ sig[w] /\ ctx[w] > air.tti => w \in txBuffer
  BY DEF SignalInv
<1>a. /\ DOMAIN wpc = Workers /\ DOMAIN sig = Workers /\ DOMAIN buf = Workers
      /\ air.tti \in Nat /\ \A v \in Workers : ctx[v] \in Nat
  BY DEF HoldInv, TypeOK
<1> USE DEF sigVars, comVars
<1>1. CASE Combine(w)
  BY <1>1, CombineSignal
<1>2. CASE Transmit(w)
  BY <1>2, TransmitSignal
<1>3. CASE WaitToStart(w) \/ Finish(w)
  <2>1. /\ ctx' = ctx /\ air' = air /\ txBuffer' = txBuffer /\ txHold' = txHold /\ sig' = sig
        /\ buf' = buf /\ fifo' = fifo /\ wpc[w] \in {"start", "finish"}
    BY <1>3 DEF WaitToStart, Finish
  <2>2. PICK q : wpc' = [wpc EXCEPT ![w] = q] /\ q \in {"begin", "start", "exit"}
    <3>1. CASE WaitToStart(w)
      BY <3>1 DEF WaitToStart
    <3>2. CASE Finish(w)
      BY <3>2 DEF Finish
    <3> QED
      BY <1>3, <3>1, <3>2
  <2>3. \A v \in Workers : Pushed(v)' <=> Pushed(v)
    BY <2>1, PushedKept
  <2>4. \A v \in Workers : wpc'[v] = IF v = w THEN q ELSE wpc[v]
    BY <1>a, <2>2
  <2> QED
    BY <1>0, <2>1, <2>2, <2>3, <2>4, SignalLocal
<1>4. CASE Begin(w)
  <2>1. /\ ctx' = ctx /\ air' = air /\ txBuffer' = txBuffer /\ txHold' = txHold
        /\ fifo' = fifo /\ wpc[w] = "begin"
    BY <1>4 DEF Begin
  <2>2. Pushed(w) /\ poolRun[Pool(w)]
    BY <2>1, PushedRuns DEF Pushed
  <2>3. PICK q, sg : /\ wpc' = [wpc EXCEPT ![w] = q] /\ q = IF Pool(w) = "lte" THEN "end" ELSE "sync"
                     /\ sig' = [sig EXCEPT ![w] = sg]
                     /\ buf' = IF sig'[w] /\ Pool(w) = "lte" THEN [buf EXCEPT ![w] = ctx[w]] ELSE buf
    BY <1>4, <2>2 DEF Begin
  <2>4. /\ \A v \in Workers : wpc'[v] = IF v = w THEN q ELSE wpc[v]
        /\ \A v \in Workers : v # w => sig'[v] = sig[v] /\ buf'[v] = buf[v]
        /\ sig'[w] /\ q = "end" => buf'[w] = ctx[w]
    BY <1>a, <2>3
  <2>5. \A v \in Workers : Pushed(v)' <=> Pushed(v)
    BY <2>1, PushedKept
  <2>6. w \notin txBuffer /\ q \in {"end", "sync"}
    BY <1>0, <2>1, <2>3
  <2> QED
    BY <2>1, <2>2, <2>4, <2>5, <2>6, SignalLocal
<1>5. CASE Schedule(w)
  <2>1. /\ ctx' = ctx /\ air' = air /\ txBuffer' = txBuffer /\ txHold' = txHold /\ sig' = sig
        /\ buf' = buf /\ fifo' = fifo /\ wpc[w] = "sync" /\ wpc' = [wpc EXCEPT ![w] = "dl"]
    BY <1>5 DEF Schedule
  <2>2. \A v \in Workers : wpc'[v] = IF v = w THEN "dl" ELSE wpc[v]
    BY <1>a, <2>1
  <2>3. \A v \in Workers : Pushed(v)' <=> Pushed(v)
    BY <2>1, PushedKept
  <2> QED
    BY <1>0, <2>1, <2>2, <2>3, SignalLocal
<1>6. CASE WorkDl(w)
  <2>1. /\ ctx' = ctx /\ air' = air /\ txBuffer' = txBuffer /\ txHold' = txHold
        /\ fifo' = fifo /\ wpc[w] = "dl" /\ wpc' = [wpc EXCEPT ![w] = "end"]
    BY <1>6 DEF WorkDl
  <2>2. PICK sg : /\ sig' = [sig EXCEPT ![w] = sg]
                  /\ buf' = IF sig'[w] THEN [buf EXCEPT ![w] = ctx[w]] ELSE buf
    BY <1>6 DEF WorkDl
  <2>3. /\ \A v \in Workers : wpc'[v] = IF v = w THEN "end" ELSE wpc[v]
        /\ \A v \in Workers : v # w => sig'[v] = sig[v] /\ buf'[v] = buf[v]
        /\ sig'[w] => buf'[w] = ctx[w]
    BY <1>a, <2>1, <2>2
  <2>4. \A v \in Workers : Pushed(v)' <=> Pushed(v)
    BY <2>1, PushedKept
  <2>5. w \notin txBuffer /\ Pushed(w)
    BY <1>0, <2>1 DEF Pushed
  <2> QED
    BY <2>1, <2>3, <2>4, <2>5, SignalLocal
<1>7. CASE ResetLastWorker(w)
  <2>1. /\ ctx' = ctx /\ air' = air /\ txBuffer' = txBuffer /\ txHold' = TRUE /\ sig' = sig
        /\ buf' = buf /\ fifo' = fifo /\ wpc[w] = "hold" /\ wpc' = [wpc EXCEPT ![w] = "release"]
    BY <1>7 DEF ResetLastWorker
  <2>2. \A v \in Workers : wpc'[v] = IF v = w THEN "release" ELSE wpc[v]
    BY <1>a, <2>1
  <2>3. \A v \in Workers : Pushed(v)' <=> Pushed(v)
    BY <2>1, PushedKept
  <2> QED
    BY <1>0, <2>1, <2>2, <2>3, SignalLocal
<1>8. CASE LastWorker(w)
  <2>1. /\ ctx' = ctx /\ air' = air /\ txBuffer' = txBuffer /\ sig' = sig
        /\ buf' = buf /\ fifo' = fifo /\ wpc[w] = "last" /\ wpc' = [wpc EXCEPT ![w] = "release"]
    BY <1>8 DEF LastWorker
  <2>2. \A v \in Workers : wpc'[v] = IF v = w THEN "release" ELSE wpc[v]
    BY <1>a, <2>1
  <2>3. \A v \in Workers : Pushed(v)' <=> Pushed(v)
    BY <2>1, PushedKept
  <2>4. txBuffer = {}
    BY <1>0, <2>1
  <2>5. ctx[w] = air.tti
    <3>1. fifo # <<>> /\ fifo[1] = w
      BY <2>1 DEF HoldInv, FifoInv
    <3>2. Sent(w)
      BY <2>1 DEF Sent, PlaceInv
    <3> QED
      BY <3>1, <3>2, HeadCtx
  <2> QED
    BY <1>0, <1>a, <2>1, <2>2, <2>3, <2>4, <2>5, SignalLocal
<1>9. CASE ReleaseTx(w)
  <2>1. /\ ctx' = ctx /\ air' = air /\ txBuffer' = txBuffer /\ txHold' = txHold /\ sig' = sig
        /\ buf' = buf /\ fifo' = Release(fifo) /\ wpc[w] = "release"
    BY <1>9 DEF ReleaseTx
  <2>2. PICK q : wpc' = [wpc EXCEPT ![w] = q] /\ q = IF ~IsLast(w) /\ TxEnable(w) THEN "wait" ELSE "finish"
    BY <1>9 DEF ReleaseTx, AfterRelease
  <2>3. \A v \in Workers : wpc'[v] = IF v = w THEN q ELSE wpc[v]
    BY <1>a, <2>2
  <2>4. /\ fifo # <<>> /\ fifo[1] = w /\ fifo \in Seq(Workers)
        /\ \A i, j \in 1..Len(fifo) : fifo[i] = fifo[j] => i = j
        /\ Elements(fifo) = {v \in Workers : Pushed(v)}
    BY <2>1 DEF HoldInv, FifoInv, TypeOK
  <2>5. Elements(Release(fifo)) = Elements(fifo) \ {w}
    BY <2>4, ReleaseFacts
  <2>6. \A v \in Workers : v # w => (Pushed(v) => Pushed(v)')
    <3>1. Elements(fifo)' = {v \in Workers : Pushed(v)'}
      BY DEF HoldInv, FifoInv
    <3>2. Elements(fifo)' = Elements(Release(fifo))
      BY <2>1 DEF Elements
    <3> QED
      BY <2>4, <2>5, <3>1, <3>2
  <2>7. w \in txBuffer => q = "wait"
    <3>1. IsLast(w) => ctx[w] = air.tti
      BY <2>1, <2>4, HeadCtx DEF Sent
    <3> QED
      BY <1>0, <1>a, <2>2, <3>1 DEF TxEnable
  <2>8. q \in {"wait", "finish"}
    BY <2>2
  <2> QED
    BY <1>0, <2>1, <2>3, <2>6, <2>7, <2>8, SignalLocal
<1>10. CASE WaitLastWorker(w)
  <2>1. /\ ctx' = ctx /\ air' = air /\ txBuffer' = txBuffer /\ txHold' = txHold /\ sig' = sig
        /\ buf' = buf /\ fifo' = fifo /\ wpc[w] = "wait" /\ wpc' = [wpc EXCEPT ![w] = "finish"]
        /\ ~txHold
    BY <1>10 DEF WaitLastWorker
  <2>2. \A v \in Workers : wpc'[v] = IF v = w THEN "finish" ELSE wpc[v]
    BY <1>a, <2>1
  <2>3. \A v \in Workers : Pushed(v)' <=> Pushed(v)
    BY <2>1, PushedKept
  <2> QED
    BY <1>0, <2>1, <2>2, <2>3, SignalLocal
<1> QED
  BY <1>1, <1>2, <1>3, <1>4, <1>5, <1>6, <1>7, <1>8, <1>9, <1>10 DEF Worker

LEMMA TxrxSignal ==
    ASSUME HoldInv, HoldInv', OrderInv, SignalInv, Txrx
    PROVE  SignalInv'
<1>1. /\ wpc' = wpc /\ sig' = sig /\ buf' = buf /\ air' = air /\ txBuffer' = txBuffer
      /\ txHold' = txHold
  BY DEF Txrx, NextTti, Quit, WaitLte, WaitNr, PushNr, StartNr, PushLte, StartLte,
         poolVars, sigVars, comVars
<1>2. CASE NextTti \/ Quit \/ WaitLte \/ WaitNr \/ StartNr \/ StartLte
  <2>1. ctx' = ctx /\ fifo' = fifo
    BY <1>2 DEF NextTti, Quit, WaitLte, WaitNr, StartNr, StartLte, sigVars, comVars
  <2>2. \A v \in Workers : Pushed(v)' <=> Pushed(v)
    BY <2>1, PushedKept
  <2> QED
    BY <1>1, <2>1, <2>2, SignalKept
<1>3. CASE PushNr \/ PushLte
  <2>1. PICK w \in Workers :
          /\ w \in Reserved /\ ctx' = [ctx EXCEPT ![w] = tti] /\ fifo' = Append(fifo, w)
          /\ (txPc' = "startNr" /\ w = nrWorker') \/ (txPc' = "startLte" /\ w = lteWorker')
    <3>1. CASE PushNr
      BY <3>1, Names DEF PushNr, SetContext, HoldInv, TxrxInv, Reserved
    <3>2. CASE PushLte
      BY <3>2, Names DEF PushLte, SetContext, HoldInv, TxrxInv, Reserved
    <3> QED
      BY <1>3, <3>1, <3>2
  <2>2. wpc[w] = "start"
    BY <2>1 DEF HoldInv, WorkerInv
  <2>3. Pushed(w)'
    BY <2>1 DEF Pushed
  <2>4. \A v \in Workers : v # w => ctx'[v] = ctx[v]
    BY <2>1 DEF HoldInv, TypeOK
  <2>5. \A v \in Workers : Pushed(v) => Pushed(v)'
    <3>1. PICK s : s = fifo'
      OBVIOUS
    <3>2. Elements(fifo) \subseteq Elements(s)
      BY <2>1, <3>1, PushFacts DEF HoldInv, TypeOK
    <3>3. Elements(fifo)' = Elements(s)
      BY <3>1 DEF Elements
    <3>4. Elements(fifo)' = {v \in Workers : Pushed(v)'}
      BY DEF HoldInv, FifoInv
    <3>5. Elements(fifo) = {v \in Workers : Pushed(v)}
      BY DEF HoldInv, FifoInv
    <3> QED
      BY <3>2, <3>3, <3>4, <3>5
  <2>6. ASSUME NEW v \in Workers
        PROVE /\ v \in txBuffer' =>
                  /\ wpc'[v] \in {"hold", "tx", "release", "wait"}
                  /\ buf'[v] = ctx'[v] /\ ctx'[v] = air'.tti + 1 /\ sig'[v]
                  /\ wpc'[v] \in {"release", "wait"} => txHold'
              /\ wpc'[v] \in {"end", "hold", "tx", "last", "release", "wait"} /\ sig'[v] =>
                  buf'[v] = ctx'[v]
              /\ wpc'[v] = "last" => txBuffer' = {}
              /\ sig'[v] /\ ctx'[v] > air'.tti => Pushed(v)' \/ v \in txBuffer'
              /\ wpc'[v] \in {"hold", "tx", "release"} /\ sig'[v] /\ ctx'[v] > air'.tti =>
                  v \in txBuffer'
    <3>1. /\ v \in txBuffer =>
                /\ wpc[v] \in {"hold", "tx", "release", "wait"}
                /\ buf[v] = ctx[v] /\ ctx[v] = air.tti + 1 /\ sig[v]
                /\ wpc[v] \in {"release", "wait"} => txHold
          /\ wpc[v] \in {"end", "hold", "tx", "last", "release", "wait"} /\ sig[v] => buf[v] = ctx[v]
          /\ wpc[v] = "last" => txBuffer = {}
          /\ sig[v] /\ ctx[v] > air.tti => Pushed(v) \/ v \in txBuffer
          /\ wpc[v] \in {"hold", "tx", "release"} /\ sig[v] /\ ctx[v] > air.tti => v \in txBuffer
      BY DEF SignalInv
    <3>2. CASE v = w
      BY <1>1, <2>2, <2>3, <3>1, <3>2
    <3>3. CASE v # w
      BY <1>1, <2>4, <2>5, <3>1, <3>3
    <3> QED
      BY <3>2, <3>3
  <2> QED
    BY <2>6 DEF SignalInv
<1> QED
  BY <1>2, <1>3 DEF Txrx

LEMMA SignalStep ==
    ASSUME HoldInv, HoldInv', PlaceInv, OrderInv, SignalInv, [Next]_vars
    PROVE  SignalInv'
<1>1. CASE \E w \in Workers : Worker(w)
  BY <1>1, WorkerSignal
<1>2. CASE Txrx
  BY <1>2, TxrxSignal
<1>3. CASE Stack \/ Stop \/ StopStep \/ Stopped \/ UNCHANGED vars
  <2>1. /\ wpc' = wpc /\ sig' = sig /\ buf' = buf /\ air' = air /\ txBuffer' = txBuffer
        /\ txHold' = txHold /\ ctx' = ctx /\ fifo' = fifo
    BY <1>3 DEF Stack, RemRnti, WaitWorkerId, RemRelease, Stop, StopStep, StopPool, Stopped,
                vars, poolVars, sigVars, comVars
  <2>2. \A v \in Workers : Pushed(v)' <=> Pushed(v)
    BY <2>1, PushedKept
  <2> QED
    BY <2>1, <2>2, SignalKept
<1> QED
  BY <1>1, <1>2, <1>3 DEF Next

LEMMA InitSignal == ASSUME Init PROVE SignalInv
<1>1. txBuffer = {} /\ \A w \in Workers : wpc[w] = "start" /\ sig[w] = FALSE
  BY DEF Init
<1> QED
  BY <1>1 DEF SignalInv

SentInv == HoldInv /\ PlaceInv /\ OrderInv /\ SignalInv

LEMMA SentInvAlways == Spec => []SentInv
<1>1. Init => SentInv
  BY InitHoldInv, InitOrder, InitSignal DEF SentInv
<1>2. SentInv /\ [Next]_vars => SentInv'
  BY HoldInvStep, PlaceStep, OrderStep, SignalStep DEF SentInv, HoldInv
<1> QED
  BY <1>1, <1>2, PTL DEF Spec

(* What tx_buffer points to stays in place until the radio has taken it:   *)
(* phy_common::worker_end holds back every worker that combined, and it is *)
(* the tx_hold of its own subframe that does so.                           *)
THEOREM HeldBack == Spec => []HeldUntilSent
<1>1. SentInv => HeldUntilSent
  <2> SUFFICES ASSUME SentInv, NEW w \in txBuffer
               PROVE  /\ wpc[w] \in {"hold", "tx", "release", "wait"}
                      /\ buf[w] = ctx[w] /\ ctx[w] = air.tti + 1
    BY DEF HeldUntilSent
  <2>1. w \in Workers
    BY DEF SentInv, HoldInv, TypeOK
  <2> QED
    BY <2>1 DEF SentInv, SignalInv
<1> QED
  BY <1>1, SentInvAlways, PTL

(* Every signal made for a subframe is in what its last worker transmits:  *)
(* the order of the semaphore puts the NR worker of a subframe before the  *)
(* LTE one, which transmits.                                               *)
THEOREM AllCombined == Spec => []NothingLeftOut
<1>1. SentInv => NothingLeftOut
  <2> SUFFICES ASSUME SentInv, NEW w \in Workers, NEW v \in Workers,
                      wpc[w] = "tx", ctx[v] = ctx[w], sig[v], v \notin txBuffer
               PROVE  FALSE
    BY DEF NothingLeftOut
  <2> USE DEF SentInv
  <2>1. fifo # <<>> /\ fifo[1] = w /\ IsLast(w)
    BY DEF HoldInv, FifoInv, PlaceInv
  <2>2. ctx[w] = air.tti + 1 /\ air.tti \in Nat
    BY <2>1, HeadCtx DEF Sent
  <2>3. ctx[v] > air.tti
    BY <2>2
  <2>4. Pushed(v) /\ v # w
    BY <2>3 DEF SignalInv
  <2>5. v \in Elements(fifo) /\ fifo \in Seq(Workers)
    BY <2>4 DEF HoldInv, FifoInv, TypeOK
  <2>6. PICK j \in 1..Len(fifo) : fifo[j] = v
    BY <2>5, ElementFacts
  <2>7. 1 \in 1..Len(fifo) /\ 1 < j
    BY <2>1, <2>4, <2>5, <2>6, ElementFacts
  <2>8. Precedes(w, v)
    BY <2>1, <2>6, <2>7 DEF OrderInv
  <2>9. ctx[w] \in Nat /\ ~(Pool(w) = "nr" /\ Pool(v) = "lte")
    BY <2>1, <2>2, Names DEF IsLast
  <2> QED
    BY <2>8, <2>9 DEF Precedes
<1> QED
  BY <1>1, SentInvAlways, PTL

(* phy::stop reaches the pools with every subframe begun on air: the queue *)
(* it waits for is empty only once nothing is left to transmit.            *)
THEOREM StopsDrained == Spec => []DrainedAtStop
<1>1. SentInv => DrainedAtStop
  <2> SUFFICES ASSUME SentInv, mainPc \in {"stopLte", "joinLte", "stopNr", "joinNr", "end"}
               PROVE  air.tti = tti /\ txBuffer = {}
    BY DEF DrainedAtStop
  <2> USE DEF SentInv
  <2>1. fifo = <<>> /\ txPc = "done"
    BY DEF HoldInv, StopInv
  <2>2. Elements(fifo) = {} /\ ~Pending
    BY <2>1, ElementFacts DEF Pending, HoldInv, TypeOK
  <2>3. \A t \in air.tti + 1..tti : FALSE
    BY <2>2 DEF OrderInv
  <2>4. air.tti \in Nat /\ tti \in Nat /\ air.tti <= tti
    BY DEF HoldInv, TypeOK, OrderInv
  <2>5. air.tti = tti
    BY <2>3, <2>4
  <2>6. ASSUME NEW w \in txBuffer PROVE FALSE
    <3>1. w \in Workers /\ ctx[w] \in 0..tti
      BY DEF HoldInv, TypeOK
    <3>2. ctx[w] = air.tti + 1
      BY <3>1 DEF SignalInv
    <3> QED
      BY <2>4, <2>5, <3>1, <3>2
  <2> QED
    BY <2>5, <2>6
<1> QED
  BY <1>1, SentInvAlways, PTL

(* The pipeline implements TxStream: one burst per subframe begun, in the  *)
(* order of the subframes, of signals of that subframe only.               *)
THEOREM Streams == Spec => StreamSpec
<1>1. Init => Stream!Init
  BY DEF Init, Stream!Init
<1>2. ASSUME SentInv, [Next]_vars PROVE [Stream!Next]_<<tti, air>>
  <2> USE DEF SentInv
  <2>1. CASE NextTti
    BY <2>1 DEF NextTti, comVars, Stream!Next, Stream!Begin
  <2>2. CASE \E w \in Workers : Transmit(w)
    <3>1. PICK w \in Workers : Transmit(w)
      BY <2>2
    <3>2. /\ air' = [tti |-> ctx[w], signals |-> {buf[v] : v \in txBuffer}] /\ tti' = tti
          /\ ctx[w] = air.tti + 1 /\ air.tti < tti
      <4>1. ctx[w] = air.tti + 1 /\ air.tti < tti
        BY <1>2, <3>1, TransmitOrder
      <4> QED
        BY <3>1, <4>1 DEF Transmit, txrxVars
    <3>3. \A v \in txBuffer : buf[v] = air.tti + 1
      <4>1. \A v \in txBuffer : v \in Workers
        BY <1>2 DEF HoldInv, TypeOK
      <4> QED
        BY <1>2, <4>1 DEF SignalInv
    <3>4. {buf[v] : v \in txBuffer} \in SUBSET {air.tti + 1}
      BY <3>3
    <3>5. \E s \in SUBSET {air.tti + 1} : air' = [tti |-> air.tti + 1, signals |-> s]
      BY <3>2, <3>4
    <3> QED
      BY <3>2, <3>5 DEF Stream!Next, Stream!Burst
  <2>3. CASE tti' = tti /\ air' = air
    BY <2>3
  <2>4. \/ NextTti \/ \E w \in Workers : Transmit(w)
        \/ tti' = tti /\ air' = air
    BY <1>2 DEF Next, Worker, WaitToStart, Begin, Schedule, WorkDl, Combine, ResetLastWorker,
       LastWorker, ReleaseTx, WaitLastWorker, Finish,
       Txrx, Quit, WaitLte, WaitNr, PushNr, StartNr, PushLte, StartLte,
       Stack, RemRnti, WaitWorkerId, RemRelease, Stop, StopStep, StopPool, Stopped, vars,
       poolVars, sigVars, comVars, txrxVars
  <2> QED
    BY <2>1, <2>2, <2>3, <2>4
<1> QED
  BY <1>1, <1>2, SentInvAlways, PTL DEF Spec, StreamSpec, Stream!Spec

-----------------------------------------------------------------------------
(* The order of the NR scheduler. *)
LEMMA SyncKept ==
    ASSUME SyncInv, sync' = sync, schedSlot' = schedSlot, tti' = tti,
           \A v \in Elements(sync) : ctx'[v] = ctx[v],
           \A v \in Workers : ToSchedule(v)' <=> ToSchedule(v),
           txPc' \in {"lte", "nr", "pushNr", "startNr"} => txPc \in {"lte", "nr", "pushNr", "startNr"},
           txPc' = "startNr" => ctx'[nrWorker'] = tti
    PROVE  SyncInv'
<1>1. /\ Elements(sync) = {w \in Workers : ToSchedule(w)}
      /\ \A i, j \in 1..Len(sync) : i < j => ctx[sync[i]] < ctx[sync[j]]
      /\ \A w \in Elements(sync) : ctx[w] > schedSlot
      /\ schedSlot <= tti
      /\ txPc \in {"lte", "nr", "pushNr", "startNr"} =>
            schedSlot < tti /\ \A w \in Elements(sync) : ctx[w] < tti
  BY DEF SyncInv
<1>2. Elements(sync)' = Elements(sync)
  BY DEF Elements
<1>3. Elements(sync)' = {w \in Workers : ToSchedule(w)'}
  BY <1>1, <1>2
<1>4. \A i \in 1..Len(sync) : ctx'[sync[i]] = ctx[sync[i]]
  BY DEF Elements
<1>5. \A i, j \in 1..Len(sync') : i < j => ctx'[sync'[i]] < ctx'[sync'[j]]
  BY <1>1, <1>4
<1>6. /\ \A w \in Elements(sync)' : ctx'[w] > schedSlot'
      /\ txPc' \in {"lte", "nr", "pushNr", "startNr"} =>
            schedSlot' < tti' /\ \A w \in Elements(sync)' : ctx'[w] < tti'
  BY <1>1, <1>2
<1> QED
  BY <1>1, <1>3, <1>5, <1>6 DEF SyncInv

LEMMA ScheduleSync ==
    ASSUME HoldInv, SyncInv, NEW w \in Workers, Schedule(w)
    PROVE  SyncInv' /\ ctx[w] > schedSlot
<1>1. /\ Elements(sync) = {v \in Workers : ToSchedule(v)}
      /\ \A i, j \in 1..Len(sync) : i < j => ctx[sync[i]] < ctx[sync[j]]
      /\ \A v \in Elements(sync) : ctx[v] > schedSlot
      /\ schedSlot <= tti
      /\ txPc \in {"lte", "nr", "pushNr", "startNr"} =>
            schedSlot < tti /\ \A v \in Elements(sync) : ctx[v] < tti
      /\ txPc = "startNr" => ctx[nrWorker] = tti
  BY DEF SyncInv
<1>2. /\ wpc[w] = "sync" /\ MayPass(sync, w) /\ sync' = Release(sync) /\ ctx' = ctx /\ tti' = tti
      /\ schedSlot' = (IF sig[w] THEN ctx[w] ELSE schedSlot) /\ txPc' = txPc /\ status' = status
      /\ wpc' = [wpc EXCEPT ![w] = "dl"] /\ nrWorker' = nrWorker
  BY DEF Schedule, sigVars, txrxVars
<1>3. /\ sync \in Seq(Workers) /\ tti \in Nat /\ schedSlot \in Nat
      /\ \A v \in Workers : ctx[v] \in Nat /\ ctx[v] <= tti
      /\ \A v \in Workers : wpc'[v] = IF v = w THEN "dl" ELSE wpc[v]
  BY <1>2 DEF HoldInv, TypeOK
<1>4. Pool(w) = "nr" /\ status[w] # "START_WORK"
  BY <1>2, Names DEF HoldInv, WorkerInv, Pools
<1>5. w \in Elements(sync)
  BY <1>1, <1>2, <1>4 DEF ToSchedule
<1>6. sync # <<>> /\ sync[1] = w
  BY <1>2, <1>3, <1>5, ElementFacts DEF MayPass
<1>7. ctx[w] > schedSlot
  BY <1>1, <1>5
<1>8. \A i, j \in 1..Len(sync) : sync[i] = sync[j] => i = j
  <2>1. SUFFICES ASSUME NEW i \in 1..Len(sync), NEW j \in 1..Len(sync), sync[i] = sync[j], i # j
                 PROVE  FALSE
    OBVIOUS
  <2>2. i < j \/ j < i
    BY <2>1
  <2>3. ctx[sync[i]] \in Nat
    BY <1>3
  <2> QED
    BY <1>1, <2>1, <2>2, <2>3
<1>9. PICK s : s = sync'
  OBVIOUS
<1>10. /\ s \in Seq(Workers) /\ Len(s) \in Nat
       /\ \A i \in 1..Len(s) : i + 1 \in 1..Len(sync) /\ s[i] = sync[i + 1]
       /\ Elements(s) = Elements(sync) \ {w} /\ Elements(sync) \subseteq Workers
  BY <1>2, <1>3, <1>6, <1>8, <1>9, ReleaseFacts, ElementFacts
<1>11. Elements(sync)' = Elements(s)
  BY <1>9 DEF Elements
<1>12. \A v \in Workers : ToSchedule(v)' <=> ToSchedule(v) /\ v # w
  BY <1>2, <1>3, <1>4 DEF ToSchedule
<1>13. Elements(sync)' = {v \in Workers : ToSchedule(v)'}
  BY <1>1, <1>10, <1>11, <1>12
<1>14. \A v \in Elements(s) : ctx[v] > ctx[w] /\ v \in Workers
  <2>1. SUFFICES ASSUME NEW v \in Elements(s) PROVE ctx[v] > ctx[w]
    BY <1>10
  <2>2. PICK j \in 1..Len(sync) : sync[j] = v /\ j # 1
    BY <1>3, <1>6, <1>10, ElementFacts
  <2>3. 1 < j /\ 1 \in 1..Len(sync)
    BY <1>3, <2>2
  <2> QED
    BY <1>1, <1>6, <1>10, <2>2, <2>3, <1>3
<1>15. \A v \in Elements(sync)' : ctx'[v] > schedSlot'
  BY <1>1, <1>2, <1>10, <1>11, <1>14
<1>16. schedSlot' <= tti'
  BY <1>1, <1>2, <1>3
<1>17. \A i, j \in 1..Len(s) : i < j => ctx[s[i]] < ctx[s[j]]
  BY <1>1, <1>10
<1>18. \A i, j \in 1..Len(sync') : i < j => ctx'[sync'[i]] < ctx'[sync'[j]]
  BY <1>2, <1>9, <1>17
<1>19. txPc' \in {"lte", "nr", "pushNr", "startNr"} =>
            schedSlot' < tti' /\ \A v \in Elements(sync)' : ctx'[v] < tti'
  BY <1>1, <1>2, <1>5, <1>10, <1>11
<1>20. txPc' = "startNr" => ctx'[nrWorker'] = tti'
  BY <1>1, <1>2
<1> QED
  BY <1>7, <1>13, <1>15, <1>16, <1>18, <1>19, <1>20 DEF SyncInv

LEMMA WorkerSync ==
    ASSUME HoldInv, HoldInv', SyncInv, NEW w \in Workers, Worker(w)
    PROVE  SyncInv'
<1>1. CASE Schedule(w)
  BY <1>1, ScheduleSync
<1>2. CASE \/ WaitToStart(w) \/ Begin(w) \/ WorkDl(w) \/ Combine(w) \/ ResetLastWorker(w)
           \/ Transmit(w) \/ LastWorker(w) \/ ReleaseTx(w) \/ WaitLastWorker(w) \/ Finish(w)
  <2>1. sync' = sync /\ schedSlot' = schedSlot /\ tti' = tti /\ ctx' = ctx /\ txPc' = txPc
        /\ nrWorker' = nrWorker
    BY <1>2 DEF WaitToStart, Begin, WorkDl, Combine, ResetLastWorker, Transmit, LastWorker,
                ReleaseTx, WaitLastWorker, Finish, sigVars, comVars, txrxVars
  <2>2. \A v \in Workers : v # w => wpc'[v] = wpc[v] /\ status'[v] = status[v]
    BY <1>2 DEF WaitToStart, Begin, WorkDl, Combine, ResetLastWorker, Transmit, LastWorker,
                ReleaseTx, WaitLastWorker, Finish, Finished, HoldInv, TypeOK
  <2>3. /\ status[w] = "START_WORK" => wpc[w] = "start"
        /\ status[w] \in {"IDLE", "START_WORK", "WORKER_READY"} => wpc[w] = "start"
        /\ DOMAIN status = Workers /\ DOMAIN wpc = Workers
    BY DEF HoldInv, WorkerInv, TypeOK
  <2>4. ToSchedule(w)' <=> ToSchedule(w)
    <3>1. CASE WaitToStart(w)
      BY <2>3, <3>1 DEF WaitToStart, ToSchedule
    <3>2. CASE Begin(w)
      <4>1. poolRun[Pool(w)] /\ wpc[w] = "begin"
        BY <3>2, PushedRuns DEF Begin, Pushed
      <4>2. Pool(w) = "nr" => wpc'[w] = "sync"
        BY <2>3, <3>2, <4>1 DEF Begin
      <4> QED
        BY <3>2, <4>1, <4>2 DEF Begin, ToSchedule
    <3>3. CASE Finish(w)
      <4>1. wpc[w] = "finish" /\ wpc'[w] \in {"start", "exit"} /\ status'[w] \in {"IDLE", "STOP"}
        BY <2>3, <3>3 DEF Finish, Finished
      <4> QED
        BY <2>3, <4>1 DEF ToSchedule
    <3>4. CASE Combine(w)
      <4>1. status' = status /\ wpc[w] = "end" /\ wpc'[w] \in {"tx", "hold", "release"}
        BY <2>3, <3>4 DEF Combine
      <4> QED
        BY <4>1 DEF ToSchedule
    <3>5. CASE ReleaseTx(w)
      <4>1. status' = status /\ wpc[w] = "release" /\ wpc'[w] \in {"wait", "finish"}
        BY <2>3, <3>5 DEF ReleaseTx, AfterRelease
      <4> QED
        BY <4>1 DEF ToSchedule
    <3>6. CASE WorkDl(w) \/ ResetLastWorker(w) \/ Transmit(w) \/ LastWorker(w) \/ WaitLastWorker(w)
      BY <2>3, <3>6 DEF WorkDl, ResetLastWorker, Transmit, LastWorker, WaitLastWorker, ToSchedule
    <3> QED
      BY <1>2, <3>1, <3>2, <3>3, <3>4, <3>5, <3>6
  <2>5. \A v \in Workers : ToSchedule(v)' <=> ToSchedule(v)
    BY <2>2, <2>4 DEF ToSchedule
  <2>6. txPc' = "startNr" => ctx'[nrWorker'] = tti
    BY <2>1 DEF SyncInv
  <2> QED
    BY <2>1, <2>5, <2>6, SyncKept
<1> QED
  BY <1>1, <1>2 DEF Worker

(* slot_sync.push: w comes last, with the present subframe. *)
LEMMA PushSync ==
    ASSUME HoldInv, SyncInv, NEW w \in Workers, ~ToSchedule(w), txPc = "startNr", w = nrWorker,
           sync' = Append(sync, w), ctx' = ctx, schedSlot' = schedSlot, tti' = tti,
           txPc' \in {"pushLte", "loop"},
           \A v \in Workers : ToSchedule(v)' <=> ToSchedule(v) \/ v = w
    PROVE  SyncInv'
<1>1. /\ Elements(sync) = {v \in Workers : ToSchedule(v)}
      /\ \A i, j \in 1..Len(sync) : i < j => ctx[sync[i]] < ctx[sync[j]]
      /\ \A v \in Elements(sync) : ctx[v] > schedSlot
      /\ schedSlot < tti /\ \A v \in Elements(sync) : ctx[v] < tti
      /\ ctx[w] = tti
  BY DEF SyncInv
<1>2. sync \in Seq(Workers) /\ tti \in Nat /\ schedSlot \in Nat
  BY DEF HoldInv, TypeOK
<1>3. PICK s : s = sync'
  OBVIOUS
<1>4. /\ Len(s) = Len(sync) + 1 /\ Len(sync) \in Nat
      /\ \A i \in 1..Len(sync) : s[i] = sync[i] /\ sync[i] \in Elements(sync)
      /\ s[Len(sync) + 1] = w
      /\ Elements(s) = Elements(sync) \cup {w} /\ Elements(sync) \subseteq Workers
  BY <1>2, <1>3, PushFacts, ElementFacts
<1>5. Elements(sync)' = Elements(s)
  BY <1>3 DEF Elements
<1>6. Elements(sync)' = {v \in Workers : ToSchedule(v)'}
  BY <1>1, <1>4, <1>5
<1>7. ASSUME NEW i \in 1..Len(s), NEW j \in 1..Len(s), i < j PROVE ctx[s[i]] < ctx[s[j]]
  <2>1. i \in 1..Len(sync) /\ (j \in 1..Len(sync) \/ j = Len(sync) + 1)
    BY <1>4, <1>7
  <2> QED
    BY <1>1, <1>4, <1>7, <2>1
<1>8. \A i, j \in 1..Len(sync') : i < j => ctx'[sync'[i]] < ctx'[sync'[j]]
  BY <1>3, <1>7
<1>9. /\ \A v \in Elements(sync)' : ctx'[v] > schedSlot'
      /\ schedSlot' <= tti'
  BY <1>1, <1>2, <1>4, <1>5
<1> QED
  BY <1>6, <1>8, <1>9 DEF SyncInv

LEMMA TxrxSync ==
    ASSUME HoldInv, SyncInv, Txrx
    PROVE  SyncInv'
<1>0. /\ TypeOK /\ TxrxInv /\ WorkerInv
      /\ txPc # "done" => poolRun["lte"] /\ poolRun["nr"]
      /\ DOMAIN status = Workers /\ DOMAIN ctx = Workers
  BY DEF HoldInv, StopInv, TypeOK
<1>1. wpc' = wpc /\ schedSlot' = schedSlot
  BY DEF Txrx, NextTti, Quit, WaitLte, WaitNr, PushNr, StartNr, PushLte, StartLte,
         poolVars, comVars
<1>2. CASE NextTti
  <2>1. /\ sync' = sync /\ ctx' = ctx /\ status' = status /\ tti' = tti + 1
        /\ txPc' \in {"lte", "nr"}
    BY <1>2 DEF NextTti, poolVars, sigVars, comVars
  <2>2. /\ Elements(sync) = {v \in Workers : ToSchedule(v)}
        /\ \A i, j \in 1..Len(sync) : i < j => ctx[sync[i]] < ctx[sync[j]]
        /\ \A v \in Elements(sync) : ctx[v] > schedSlot
        /\ schedSlot <= tti
    BY DEF SyncInv
  <2>3. /\ Elements(sync)' = Elements(sync) /\ tti \in Nat /\ schedSlot \in Nat
        /\ \A v \in Workers : ctx[v] \in Nat /\ ctx[v] <= tti
    BY <1>0, <2>1 DEF Elements, TypeOK
  <2>4. \A v \in Workers : ToSchedule(v)' <=> ToSchedule(v)
    BY <1>1, <2>1 DEF ToSchedule
  <2>5. Elements(sync)' = {v \in Workers : ToSchedule(v)'}
    BY <2>2, <2>3, <2>4
  <2>6. /\ schedSlot' < tti' /\ \A v \in Elements(sync)' : ctx'[v] < tti'
        /\ schedSlot' <= tti'
    BY <1>1, <2>1, <2>2, <2>3
  <2>7. /\ \A i, j \in 1..Len(sync') : i < j => ctx'[sync'[i]] < ctx'[sync'[j]]
        /\ \A v \in Elements(sync)' : ctx'[v] > schedSlot'
    BY <1>1, <2>1, <2>2, <2>3
  <2> QED
    BY <2>1, <2>5, <2>6, <2>7 DEF SyncInv
<1>3. CASE Quit \/ WaitLte \/ WaitNr
  <2>1. /\ sync' = sync /\ ctx' = ctx /\ tti' = tti
        /\ \/ txPc = "loop" /\ txPc' = "done"
           \/ txPc \in {"lte", "nr"} /\ txPc' # "startNr"
    BY <1>0, <1>3 DEF Quit, WaitLte, WaitNr, sigVars, comVars
  <2>2. \A v \in Workers : status'[v] = "START_WORK" <=> status[v] = "START_WORK"
    <3>1. CASE Quit
      BY <3>1 DEF Quit, poolVars
    <3>2. CASE WaitLte
      <4>1. PICK w \in FirstIdle("lte") : Reserve(w)
        BY <1>0, <3>2 DEF WaitLte
      <4>2. w \in Workers /\ status[w] = "IDLE"
        BY <4>1 DEF FirstIdle, Idle, Members
      <4> QED
        BY <1>0, <4>1, <4>2 DEF Reserve
    <3>3. CASE WaitNr
      <4>1. PICK w \in FirstIdle("nr") : Reserve(w)
        BY <1>0, <3>3 DEF WaitNr
      <4>2. w \in Workers /\ status[w] = "IDLE"
        BY <4>1 DEF FirstIdle, Idle, Members
      <4> QED
        BY <1>0, <4>1, <4>2 DEF Reserve
    <3> QED
      BY <1>3, <3>1, <3>2, <3>3
  <2>3. \A v \in Workers : ToSchedule(v)' <=> ToSchedule(v)
    BY <1>1, <2>2 DEF ToSchedule
  <2> QED
    BY <1>1, <2>1, <2>3, SyncKept
<1>4. CASE PushNr \/ PushLte
  <2>1. /\ sync' = sync /\ status' = status /\ tti' = tti /\ nrWorker' = nrWorker
        /\ \/ txPc = "pushNr" /\ txPc' = "startNr"
           \/ txPc = "pushLte" /\ txPc' = "startLte"
    BY <1>4 DEF PushNr, PushLte, poolVars
  <2>2. PICK w \in Workers :
          /\ ctx' = [ctx EXCEPT ![w] = tti] /\ w \in Reserved
          /\ txPc' = "startNr" => w = nrWorker
    <3>1. CASE PushNr
      BY <1>0, <3>1, Names DEF PushNr, SetContext, TxrxInv, Reserved
    <3>2. CASE PushLte
      BY <1>0, <3>2, Names DEF PushLte, SetContext, TxrxInv, Reserved
    <3> QED
      BY <1>4, <3>1, <3>2
  <2>3. ~ToSchedule(w)
    BY <1>0, <2>2 DEF WorkerInv, ToSchedule
  <2>4. \A v \in Elements(sync) : v # w /\ v \in Workers
    BY <2>3 DEF SyncInv
  <2>5. /\ \A v \in Elements(sync) : ctx'[v] = ctx[v]
        /\ txPc' = "startNr" => ctx'[nrWorker'] = tti
    BY <1>0, <2>1, <2>2, <2>4
  <2>6. \A v \in Workers : ToSchedule(v)' <=> ToSchedule(v)
    BY <1>1, <2>1 DEF ToSchedule
  <2> QED
    BY <1>1, <2>1, <2>5, <2>6, SyncKept
<1>5. CASE StartNr
  <2>1. PICK w \in Workers : w = nrWorker /\ w \in Reserved /\ Pool(w) = "nr"
    BY <1>0, <1>5, Names DEF StartNr, TxrxInv, Reserved
  <2>2. /\ txPc = "startNr" /\ sync' = Append(sync, w) /\ ctx' = ctx /\ tti' = tti
        /\ txPc' \in {"pushLte", "loop"} /\ StartWorker(w)
    BY <1>5, <2>1 DEF StartNr, sigVars
  <2>3. status[w] = "WORKER_READY" /\ wpc[w] = "start"
    BY <1>0, <2>1 DEF WorkerInv
  <2>4. \A v \in Workers : status'[v] = IF v = w THEN "START_WORK" ELSE status[v]
    BY <1>0, <2>2, <2>3 DEF StartWorker
  <2>5. ~ToSchedule(w) /\ \A v \in Workers : ToSchedule(v)' <=> ToSchedule(v) \/ v = w
    BY <1>1, <2>1, <2>3, <2>4 DEF ToSchedule
  <2> QED
    BY <1>1, <2>1, <2>2, <2>5, PushSync
<1>6. CASE StartLte
  <2>1. PICK w \in Workers : w = lteWorker /\ Pool(w) = "lte"
    BY <1>0, <1>6, Names DEF StartLte, TxrxInv
  <2>2. /\ txPc' = "loop" /\ sync' = sync /\ ctx' = ctx /\ tti' = tti /\ StartWorker(w)
    BY <1>6, <2>1 DEF StartLte, sigVars, comVars
  <2>3. \A v \in Workers : v # w => status'[v] = status[v]
    BY <1>0, <2>2 DEF StartWorker
  <2>4. \A v \in Workers : ToSchedule(v)' <=> ToSchedule(v)
    BY <1>1, <2>1, <2>3 DEF ToSchedule
  <2> QED
    BY <1>1, <2>2, <2>4, SyncKept
<1> QED
  BY <1>2, <1>3, <1>4, <1>5, <1>6 DEF Txrx

LEMMA OtherSync ==
    ASSUME HoldInv, SyncInv, Stack \/ Stop \/ StopStep \/ Stopped \/ UNCHANGED vars
    PROVE  SyncInv'
<1>1. /\ wpc' = wpc /\ sync' = sync /\ schedSlot' = schedSlot /\ tti' = tti /\ ctx' = ctx
      /\ txPc' = txPc /\ nrWorker' = nrWorker
  BY DEF Stack, RemRnti, WaitWorkerId, RemRelease, Stop, StopStep, StopPool, Stopped,
         vars, poolVars, sigVars, comVars, txrxVars
<1>2. \A v \in Workers : status'[v] = "START_WORK" <=> status[v] = "START_WORK"
  <2>0. DOMAIN status = Workers
    BY DEF HoldInv, TypeOK
  <2>1. CASE WaitWorkerId
    BY <2>0, <2>1 DEF WaitWorkerId, Reserve
  <2>2. CASE RemRelease
    <3>1. status[<<"lte", remId>>] # "START_WORK"
      BY <2>2 DEF RemRelease, HoldInv, WorkerInv
    <3> QED
      BY <2>0, <2>2, <3>1 DEF RemRelease, Finished
  <2>3. CASE RemRnti \/ Stop \/ Stopped \/ UNCHANGED vars
    BY <2>3 DEF RemRnti, Stop, Stopped, vars, poolVars
  <2>4. CASE StopStep
    <3>1. status' = status \/ (mainPc \in {"stopLte", "stopNr"} /\
              \A v \in Workers : status'[v] \in {status[v], "STOP"})
      BY <2>4 DEF StopStep, StopPool, MainStep, poolVars
    <3>2. mainPc \in {"stopLte", "stopNr"} => \A v \in Workers : status[v] # "START_WORK"
      <4>1. \A v \in Workers : status[v] = "START_WORK" => Pushed(v)
        BY DEF Pushed
      <4> QED
        BY <4>1, PushedRuns
    <3> QED
      BY <3>1, <3>2
  <2> QED
    BY <2>1, <2>2, <2>3, <2>4 DEF Stack
<1>3. \A v \in Workers : ToSchedule(v)' <=> ToSchedule(v)
  BY <1>1, <1>2 DEF ToSchedule
<1>4. txPc' = "startNr" => ctx'[nrWorker'] = tti
  BY <1>1 DEF SyncInv
<1> QED
  BY <1>1, <1>3, <1>4, SyncKept

LEMMA SyncStep ==
    ASSUME HoldInv, HoldInv', SyncInv, [Next]_vars
    PROVE  SyncInv'
<1>1. CASE \E w \in Workers : Worker(w)
  BY <1>1, WorkerSync
<1>2. CASE Txrx
  BY <1>2, TxrxSync
<1>3. CASE Stack \/ Stop \/ StopStep \/ Stopped \/ UNCHANGED vars
  BY <1>3, OtherSync
<1> QED
  BY <1>1, <1>2, <1>3 DEF Next

LEMMA InitSync == ASSUME Init PROVE SyncInv
<1>1. sync = <<>> /\ Len(sync) = 0 /\ schedSlot = 0 /\ tti = 0 /\ txPc = "loop"
  BY DEF Init
<1>2. \A v \in Workers : ~ToSchedule(v)
  BY DEF Init, ToSchedule
<1> QED
  BY <1>1, <1>2 DEF SyncInv, Elements

LEMMA SyncInvAlways == Spec => [](HoldInv /\ SyncInv)
<1>1. Init => HoldInv /\ SyncInv
  BY InitHoldInv, InitSync
<1>2. HoldInv /\ SyncInv /\ [Next]_vars => (HoldInv /\ SyncInv)'
  BY HoldInvStep, SyncStep
<1> QED
  BY <1>1, <1>2, PTL DEF Spec

(* The NR scheduler is asked for slots in increasing order, whatever order *)
(* the workers are scheduled in and whichever of their uplinks fail.       *)
THEOREM SchedulesInOrder == Spec => SchedInOrder
<1>1. ASSUME HoldInv /\ SyncInv, [Next]_vars
      PROVE  [schedSlot' # schedSlot => schedSlot' > schedSlot]_vars
  <2>1. CASE \E w \in Workers : Schedule(w)
    <3>1. PICK w \in Workers : Schedule(w)
      BY <2>1
    <3>2. ctx[w] > schedSlot
      BY <1>1, <3>1, ScheduleSync
    <3>3. schedSlot' = IF sig[w] THEN ctx[w] ELSE schedSlot
      BY <3>1 DEF Schedule
    <3> QED
      BY <3>2, <3>3
  <2>2. CASE schedSlot' = schedSlot
    BY <2>2
  <2>3. (\E w \in Workers : Schedule(w)) \/ schedSlot' = schedSlot
    BY <1>1 DEF Next, Worker, WaitToStart, Begin, WorkDl, Combine, ResetLastWorker,
       Transmit, LastWorker, ReleaseTx, WaitLastWorker, Finish,
       Txrx, NextTti, Quit, WaitLte, WaitNr, PushNr, StartNr, PushLte, StartLte,
       Stack, RemRnti, WaitWorkerId, RemRelease, Stop, StopStep, StopPool, Stopped, vars,
       poolVars, sigVars, comVars, txrxVars
  <2> QED
    BY <2>1, <2>2, <2>3
<1> QED
  BY <1>1, SyncInvAlways, PTL DEF SchedInOrder, Spec
=============================================================================
