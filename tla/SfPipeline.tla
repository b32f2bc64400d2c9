----------------------------- MODULE SfPipeline -----------------------------
(***************************************************************************)
(* The subframe pipeline of the eNB: the TXRX thread (txrx.cc) reserves a  *)
(* worker of the LTE and of the NR pool for each subframe (thread_pool.cc),*)
(* queues them in a tti_semaphore and starts them; workers process their   *)
(* subframes concurrently and transmit in order in phy_common::worker_end, *)
(* where the signals of one subframe are combined and its last worker      *)
(* hands them to the radio.  Meanwhile the stack thread reserves workers   *)
(* to remove a UE (phy::rem_rnti), and the main thread stops everything    *)
(* (phy::stop).                                                            *)
(*                                                                         *)
(* One action per critical section.  Condition variables are guards: each  *)
(* change a waiter waits for is notified to all under the waiter's mutex.  *)
(***************************************************************************)
EXTENDS Naturals, Sequences, FiniteSets

CONSTANTS
    NofLte,     \* workers of the LTE pool (0: no LTE carrier)
    NofNr,      \* workers of the NR pool (0: no NR carrier)
    MaxTti,     \* bound: subframes the radio delivers
    MaxRem      \* bound: UEs the stack removes

ASSUME PipelineAssumption ==
    /\ NofLte \in Nat /\ NofNr \in Nat /\ NofLte + NofNr > 0
    /\ MaxTti \in Nat \ {0} /\ MaxRem \in Nat

Lte == {"lte"} \X (0..NofLte - 1)
Nr  == {"nr"} \X (0..NofNr - 1)
Workers == Lte \cup Nr
Pools   == {"lte", "nr"}
Pool(w) == w[1]
Members(p) == {w \in Workers : Pool(w) = p}

None == <<"none", 0>>   \* nullptr

VARIABLES
    \* thread_pool
    status,     \* worker -> worker_status
    poolRun,    \* pool -> running
    wpc,        \* worker -> where its thread is in run_thread / work_imp
    \* contexts and signals
    ctx,        \* worker -> context.sf_idx
    sig,        \* worker -> its rf_buffer holds a signal of this subframe
    buf,        \* worker -> the subframe whose signal its tx buffer holds
    \* phy_common and the NR scheduler order
    fifo,       \* semaphore: workers in transmission order
    sync,       \* nr::worker_pool::slot_sync
    txBuffer,   \* tx_buffer: the workers whose buffers it points to
    txHold,     \* tx_hold
    air,        \* the last radio->tx: its subframe, and those of its signals
    schedSlot,  \* the NR slot the scheduler was last asked for
    \* TXRX thread
    running, tti, txPc, lteWorker, nrWorker,
    \* main thread in phy::stop, stack thread in phy::rem_rnti
    mainPc, remPc, remId, removals

poolVars == <<status, poolRun, wpc>>
sigVars  == <<ctx, sig, buf>>
comVars  == <<fifo, sync, txBuffer, txHold, air, schedSlot>>
txrxVars == <<running, tti, txPc, lteWorker, nrWorker>>
remVars  == <<remPc, remId, removals>>
vars == <<poolVars, sigVars, comVars, txrxVars, mainPc, remVars>>

Statuses == {"STOP", "IDLE", "START_WORK", "WORKER_READY", "WORKING"}

(* Mutant: no waiting. *)
PassAtOnce(queue, w) == TRUE

(* An enqueued identifier may go on when it is the first of the queue. *)
MayPass(queue, w) == queue = <<>> \/ Head(queue) = w
Release(queue) == IF queue = <<>> THEN queue ELSE Tail(queue)

(* The last worker of a subframe is its LTE worker, or the NR one alone. *)
IsLast(w) == Pool(w) = "lte" \/ NofLte = 0

Init ==
    /\ status = [w \in Workers |-> "IDLE"]
    /\ poolRun = [p \in Pools |-> TRUE]
    /\ wpc = [w \in Workers |-> "start"]
    /\ ctx = [w \in Workers |-> 0]
    /\ sig = [w \in Workers |-> FALSE]
    /\ buf = [w \in Workers |-> 0]
    /\ fifo = <<>> /\ sync = <<>> /\ txBuffer = {} /\ txHold = FALSE
    /\ air = [tti |-> 0, signals |-> {}] /\ schedSlot = 0
    /\ running = TRUE /\ tti = 0 /\ txPc = "loop"
    /\ lteWorker = None /\ nrWorker = None
    /\ mainPc = "run" /\ remPc = "idle" /\ remId = 0 /\ removals = 0

-----------------------------------------------------------------------------
(* thread_pool *)

(* Mutant: a reserved worker is taken for an idle one. *)
IdleOrReady(p) == {w \in Members(p) : status[w] \in {"IDLE", "WORKER_READY"}}

(* find_finished_worker: the idle worker with the lowest identifier. *)
Idle(p) == {w \in Members(p) : status[w] = "IDLE"}
FirstIdle(p) == {w \in Idle(p) : \A v \in Idle(p) : w[2] <= v[2]}

Reserve(w) == status' = [status EXCEPT ![w] = "WORKER_READY"]

StartWorker(w) ==
    status' = [status EXCEPT ![w] = IF @ = "STOP" THEN @ ELSE "START_WORK"]

(* Mutant: a worker that is done is not given back. *)
NotFinished(w) == UNCHANGED status

(* finished(), also release(): back to the pool unless it is stopped. *)
Finished(w) == status' = [status EXCEPT ![w] = IF @ = "STOP" THEN @ ELSE "IDLE"]

(* Mutant: the workers are not told. *)
StopPoolSilently(p) ==
    /\ poolRun' = [poolRun EXCEPT ![p] = FALSE]
    /\ UNCHANGED status

StopPool(p) ==
    /\ poolRun' = [poolRun EXCEPT ![p] = FALSE]
    /\ status' = [w \in Workers |-> IF Pool(w) = p THEN "STOP" ELSE status[w]]

Joined(p) == \A w \in Members(p) : wpc[w] = "exit"

WaitToStart(w) ==
    /\ wpc[w] = "start"
    /\ \/ /\ status[w] = "START_WORK"
          /\ status' = [status EXCEPT ![w] = "WORKING"]
          /\ wpc' = [wpc EXCEPT ![w] = "begin"]
       \/ /\ status[w] = "STOP"
          /\ wpc' = [wpc EXCEPT ![w] = "exit"]
          /\ UNCHANGED status
    /\ UNCHANGED <<poolRun, sigVars, comVars, txrxVars, mainPc, remVars>>

(* `running` is read again before work_imp: a pool stopped in between     *)
(* takes the worker out with its subframe untouched.                       *)
Begin(w) ==
    /\ wpc[w] = "begin"
    /\ wpc' = [wpc EXCEPT ![w] = IF ~poolRun[Pool(w)] THEN "exit"
                                 ELSE IF Pool(w) = "lte" THEN "end" ELSE "sync"]
    /\ \E ok \in BOOLEAN :
          /\ sig' = [sig EXCEPT ![w] = ok /\ poolRun[Pool(w)]]
          /\ buf' = IF sig'[w] /\ Pool(w) = "lte" THEN [buf EXCEPT ![w] = ctx[w]] ELSE buf
    /\ UNCHANGED <<status, poolRun, ctx, comVars, txrxVars, mainPc, remVars>>

(* NR: the scheduler is asked slot after slot, by workers whose uplink     *)
(* succeeded; the others only give up their turn.                          *)
Schedule(w) ==
    /\ wpc[w] = "sync" /\ MayPass(sync, w)
    /\ sync' = Release(sync)
    /\ schedSlot' = IF sig[w] THEN ctx[w] ELSE schedSlot
    /\ wpc' = [wpc EXCEPT ![w] = "dl"]
    /\ UNCHANGED <<status, poolRun, sigVars, fifo, txBuffer, txHold, air,
                   txrxVars, mainPc, remVars>>

(* NR downlink: it may fail after the scheduler answered. *)
WorkDl(w) ==
    /\ wpc[w] = "dl"
    /\ \E ok \in BOOLEAN : sig' = [sig EXCEPT ![w] = @ /\ ok]
    /\ buf' = IF sig'[w] THEN [buf EXCEPT ![w] = ctx[w]] ELSE buf
    /\ wpc' = [wpc EXCEPT ![w] = "end"]
    /\ UNCHANGED <<status, poolRun, ctx, comVars, txrxVars, mainPc, remVars>>

-----------------------------------------------------------------------------
(* phy_common::worker_end.  sf_worker enables tx on every path, with an    *)
(* empty buffer after an error; slot_worker enables it with its signal.    *)

TxEnable(w) == Pool(w) = "lte" \/ sig[w]

Combine(w) ==
    /\ wpc[w] = "end" /\ MayPass(fifo, w)
    /\ txBuffer' = IF sig[w] THEN txBuffer \cup {w} ELSE txBuffer
    /\ wpc' = [wpc EXCEPT ![w] = IF IsLast(w) THEN "tx"
                                 ELSE IF TxEnable(w) THEN "hold" ELSE "release"]
    /\ UNCHANGED <<status, poolRun, sigVars, fifo, sync, txHold, air, schedSlot,
                   txrxVars, mainPc, remVars>>

ResetLastWorker(w) ==
    /\ wpc[w] = "hold"
    /\ txHold' = TRUE
    /\ wpc' = [wpc EXCEPT ![w] = "release"]
    /\ UNCHANGED <<status, poolRun, sigVars, fifo, sync, txBuffer, air, schedSlot,
                   txrxVars, mainPc, remVars>>

(* Mutant: tx_buffer is not cleared. *)
TransmitAgain(w) ==
    /\ wpc[w] = "tx"
    /\ air' = [tti |-> ctx[w], signals |-> {buf[v] : v \in txBuffer}]
    /\ wpc' = [wpc EXCEPT ![w] = "last"]
    /\ UNCHANGED <<status, poolRun, sigVars, fifo, sync, txBuffer, txHold, schedSlot,
                   txrxVars, mainPc, remVars>>

(* What goes on air is what the buffers pointed to hold by then. *)
Transmit(w) ==
    /\ wpc[w] = "tx"
    /\ air' = [tti |-> ctx[w], signals |-> {buf[v] : v \in txBuffer}]
    /\ txBuffer' = {}
    /\ wpc' = [wpc EXCEPT ![w] = "last"]
    /\ UNCHANGED <<status, poolRun, sigVars, fifo, sync, txHold, schedSlot,
                   txrxVars, mainPc, remVars>>

LastWorker(w) ==
    /\ wpc[w] = "last"
    /\ txHold' = FALSE
    /\ wpc' = [wpc EXCEPT ![w] = "release"]
    /\ UNCHANGED <<status, poolRun, sigVars, fifo, sync, txBuffer, air, schedSlot,
                   txrxVars, mainPc, remVars>>

(* A worker that combined but is not the last one is held back. *)
NotHeld(w) == "finish"   \* mutant: no one is
AfterRelease(w) == IF ~IsLast(w) /\ TxEnable(w) THEN "wait" ELSE "finish"

ReleaseTx(w) ==
    /\ wpc[w] = "release"
    /\ fifo' = Release(fifo)
    /\ wpc' = [wpc EXCEPT ![w] = AfterRelease(w)]
    /\ UNCHANGED <<status, poolRun, sigVars, sync, txBuffer, txHold, air, schedSlot,
                   txrxVars, mainPc, remVars>>

WaitLastWorker(w) ==
    /\ wpc[w] = "wait" /\ ~txHold
    /\ wpc' = [wpc EXCEPT ![w] = "finish"]
    /\ UNCHANGED <<status, poolRun, sigVars, comVars, txrxVars, mainPc, remVars>>

Finish(w) ==
    /\ wpc[w] = "finish"
    /\ Finished(w)
    /\ wpc' = [wpc EXCEPT ![w] = IF poolRun[Pool(w)] THEN "start" ELSE "exit"]
    /\ UNCHANGED <<poolRun, sigVars, comVars, txrxVars, mainPc, remVars>>

Worker(w) ==
    \/ WaitToStart(w) \/ Begin(w) \/ Schedule(w) \/ WorkDl(w)
    \/ Combine(w) \/ ResetLastWorker(w) \/ Transmit(w) \/ LastWorker(w)
    \/ ReleaseTx(w) \/ WaitLastWorker(w) \/ Finish(w)

-----------------------------------------------------------------------------
(* TXRX thread *)

NextTti ==
    /\ txPc = "loop" /\ running /\ tti < MaxTti
    /\ tti' = tti + 1
    /\ lteWorker' = None /\ nrWorker' = None
    /\ txPc' = IF NofLte > 0 THEN "lte" ELSE "nr"
    /\ UNCHANGED <<poolVars, sigVars, comVars, running, mainPc, remVars>>

Quit ==
    /\ txPc = "loop" /\ ~running
    /\ txPc' = "done"
    /\ UNCHANGED <<poolVars, sigVars, comVars, running, tti, lteWorker, nrWorker,
                   mainPc, remVars>>

(* wait_worker, nullptr when the pool has been stopped. *)
WaitLte ==
    /\ txPc = "lte"
    /\ \/ /\ poolRun["lte"]
          /\ \E w \in FirstIdle("lte") : lteWorker' = w /\ Reserve(w)
          /\ txPc' = IF NofNr > 0 THEN "nr" ELSE "pushLte"
          /\ UNCHANGED running
       \/ /\ ~poolRun["lte"]
          /\ running' = FALSE /\ txPc' = "loop"
          /\ UNCHANGED <<lteWorker, status>>
    /\ UNCHANGED <<poolRun, wpc, sigVars, comVars, tti, nrWorker, mainPc, remVars>>

WaitNr ==
    /\ txPc = "nr"
    /\ \/ /\ poolRun["nr"]
          /\ \E w \in FirstIdle("nr") : nrWorker' = w /\ Reserve(w)
          /\ txPc' = "pushNr"
          /\ UNCHANGED running
       \/ /\ ~poolRun["nr"]
          /\ running' = FALSE /\ txPc' = "loop"
          /\ UNCHANGED <<nrWorker, status>>
    /\ UNCHANGED <<poolRun, wpc, sigVars, comVars, tti, lteWorker, mainPc, remVars>>

(* Mutant: the context is that of the next subframe. *)
SetNextContext(w) == ctx' = [ctx EXCEPT ![w] = tti + 1]
SetContext(w) == ctx' = [ctx EXCEPT ![w] = tti]

(* Reception, then set_context and semaphore.push. *)
PushNr ==
    /\ txPc = "pushNr"
    /\ SetContext(nrWorker)
    /\ fifo' = Append(fifo, nrWorker)
    /\ txPc' = "startNr"
    /\ UNCHANGED <<poolVars, sig, buf, sync, txBuffer, txHold, air, schedSlot,
                   running, tti, lteWorker, nrWorker, mainPc, remVars>>

(* slot_sync.push, and the worker is started. *)
StartNr ==
    /\ txPc = "startNr"
    /\ sync' = Append(sync, nrWorker)
    /\ StartWorker(nrWorker)
    /\ txPc' = IF NofLte > 0 THEN "pushLte" ELSE "loop"
    /\ UNCHANGED <<poolRun, wpc, sigVars, fifo, txBuffer, txHold, air, schedSlot,
                   running, tti, lteWorker, nrWorker, mainPc, remVars>>

PushLte ==
    /\ txPc = "pushLte"
    /\ SetContext(lteWorker)
    /\ fifo' = Append(fifo, lteWorker)
    /\ txPc' = "startLte"
    /\ UNCHANGED <<poolVars, sig, buf, sync, txBuffer, txHold, air, schedSlot,
                   running, tti, lteWorker, nrWorker, mainPc, remVars>>

StartLte ==
    /\ txPc = "startLte"
    /\ StartWorker(lteWorker)
    /\ txPc' = "loop"
    /\ UNCHANGED <<poolRun, wpc, sigVars, comVars, running, tti, lteWorker, nrWorker,
                   mainPc, remVars>>

Txrx ==
    \/ NextTti \/ Quit \/ WaitLte \/ WaitNr
    \/ PushNr \/ StartNr \/ PushLte \/ StartLte

-----------------------------------------------------------------------------
(* Stack thread: rem_rnti reserves each LTE worker in turn, removes the UE *)
(* from it and releases it.  A stopped pool yields nullptr.                *)

RemRnti ==
    /\ remPc = "idle" /\ NofLte > 0 /\ removals < MaxRem
    /\ removals' = removals + 1
    /\ remPc' = "wait" /\ remId' = 0
    /\ UNCHANGED <<poolVars, sigVars, comVars, txrxVars, mainPc>>

NextRem == IF remId + 1 < NofLte THEN "wait" ELSE "idle"

WaitWorkerId ==
    LET w == <<"lte", remId>> IN
    /\ remPc = "wait"
    /\ \/ /\ poolRun["lte"] /\ status[w] = "IDLE"
          /\ Reserve(w)
          /\ remPc' = "hold"
          /\ UNCHANGED remId
       \/ /\ ~poolRun["lte"]
          /\ remPc' = NextRem /\ remId' = (remId + 1) % NofLte
          /\ UNCHANGED status
    /\ UNCHANGED <<poolRun, wpc, sigVars, comVars, txrxVars, mainPc, removals>>

RemRelease ==
    /\ remPc = "hold"
    /\ Finished(<<"lte", remId>>)
    /\ remPc' = NextRem /\ remId' = (remId + 1) % NofLte
    /\ UNCHANGED <<poolRun, wpc, sigVars, comVars, txrxVars, mainPc, removals>>

Stack == RemRnti \/ WaitWorkerId \/ RemRelease

-----------------------------------------------------------------------------
(* Main thread: phy::stop *)

Stop ==
    /\ mainPc = "run"
    /\ running' = FALSE
    /\ mainPc' = IF running THEN "joinTxrx" ELSE "waitAll"
    /\ UNCHANGED <<poolVars, sigVars, comVars, tti, txPc, lteWorker, nrWorker, remVars>>

(* wait_all: every subframe has been transmitted. *)
NotDrained == TRUE       \* mutant: stop does not wait
Drained == fifo = <<>>

MainStep(from, to) == mainPc = from /\ mainPc' = to

StopStep ==
    /\ \/ MainStep("joinTxrx", "waitAll") /\ txPc = "done" /\ UNCHANGED poolVars
       \/ MainStep("waitAll", "stopLte") /\ Drained /\ UNCHANGED poolVars
       \/ MainStep("stopLte", "joinLte") /\ StopPool("lte") /\ UNCHANGED wpc
       \/ MainStep("joinLte", "stopNr") /\ Joined("lte") /\ UNCHANGED poolVars
       \/ MainStep("stopNr", "joinNr") /\ StopPool("nr") /\ UNCHANGED wpc
       \/ MainStep("joinNr", "end") /\ Joined("nr") /\ UNCHANGED poolVars
    /\ UNCHANGED <<sigVars, comVars, txrxVars, remVars>>

(* phy::stop has returned and no one is left waiting. *)
Stopped == mainPc = "end" /\ remPc = "idle" /\ UNCHANGED vars

Next ==
    \/ Txrx \/ Stack \/ Stop \/ StopStep \/ Stopped
    \/ \E w \in Workers : Worker(w)

Spec == Init /\ [][Next]_vars

(* Threads run; nothing makes the operator stop the eNB or the stack       *)
(* remove a UE.                                                            *)
Fairness ==
    /\ WF_vars(Txrx) /\ WF_vars(StopStep)
    /\ WF_vars(WaitWorkerId) /\ WF_vars(RemRelease)
    /\ \A w \in Workers : WF_vars(Worker(w))

FairSpec == Spec /\ Fairness

-----------------------------------------------------------------------------
(* Types. *)
TypeOK ==
    /\ status \in [Workers -> Statuses] /\ poolRun \in [Pools -> BOOLEAN]
    /\ wpc \in [Workers -> {"start", "begin", "sync", "dl", "end", "hold", "tx",
                            "last", "release", "wait", "finish", "exit"}]
    /\ ctx \in [Workers -> 0..tti] /\ sig \in [Workers -> BOOLEAN]
    /\ buf \in [Workers -> Nat]
    /\ fifo \in Seq(Workers) /\ sync \in Seq(Workers)
    /\ txBuffer \in SUBSET Workers /\ txHold \in BOOLEAN
    /\ air \in [tti : Nat, signals : SUBSET Nat] /\ schedSlot \in Nat
    /\ running \in BOOLEAN /\ tti \in Nat
    /\ txPc \in {"loop", "lte", "nr", "pushNr", "startNr", "pushLte", "startLte", "done"}
    /\ lteWorker \in Lte \cup {None} /\ nrWorker \in Nr \cup {None}
    /\ mainPc \in {"run", "joinTxrx", "waitAll", "stopLte", "joinLte", "stopNr",
                   "joinNr", "end"}
    /\ remPc \in {"idle", "wait", "hold"} /\ remId \in Nat
    /\ removals \in Nat

(* Whatever tx_buffer points to still is what its worker made for the      *)
(* subframe being combined: no worker goes back to its pool, or starts     *)
(* another subframe, before the radio has taken its signal.                *)
HeldUntilSent ==
    \A w \in txBuffer :
        /\ wpc[w] \in {"hold", "tx", "release", "wait"}
        /\ buf[w] = ctx[w] /\ ctx[w] = air.tti + 1

(* When the last worker of a subframe transmits, every other signal made   *)
(* for that subframe has been combined.                                    *)
NothingLeftOut ==
    \A w, v \in Workers :
        wpc[w] = "tx" /\ ctx[v] = ctx[w] /\ sig[v] => v \in txBuffer

(* The NR scheduler is asked for slots in increasing order although slots  *)
(* are processed concurrently and some uplinks fail.                       *)
SchedInOrder == [][schedSlot' # schedSlot => schedSlot' > schedSlot]_vars

(* While the stack thread removes a UE from a worker, that worker has no   *)
(* subframe and TXRX does not hold it for one.                             *)
RemovalExclusive ==
    remPc = "hold" =>
        LET w == <<"lte", remId>> IN
        /\ wpc[w] \in {"start", "exit"}
        /\ \A i \in DOMAIN fifo : fifo[i] # w
        /\ txPc \in {"nr", "pushNr", "startNr", "pushLte", "startLte"} => lteWorker # w

(* phy::stop takes no subframe from a worker: when the pools are stopped   *)
(* every subframe begun has been transmitted.                              *)
DrainedAtStop ==
    mainPc \in {"stopLte", "joinLte", "stopNr", "joinNr", "end"} =>
        air.tti = tti /\ txBuffer = {}

(* The bursts are those of TxStream. *)
Stream == INSTANCE TxStream WITH begun <- tti
StreamSpec == Stream!Spec

(* ... and none is missing. *)
StreamFair == Stream!FairSpec

(* phy::stop returns, whatever the workers and the stack thread were       *)
(* doing, and a rem_rnti caught by it returns too.                         *)
StopReturns == mainPc # "run" ~> mainPc = "end" /\ remPc = "idle"
=============================================================================
