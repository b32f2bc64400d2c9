----------------------------- MODULE PrachWorker ----------------------------
(***************************************************************************)
(* The random-access detector of one carrier (prach_worker.cc): the TXRX   *)
(* thread copies the subframes of a preamble into a buffer of a small      *)
(* pool, and pushes the full buffer to the PRACH thread, which looks for   *)
(* preambles and frees it.  Without the thread (nof_prach_threads = 0)     *)
(* TXRX does it all.  phy::stop ends TXRX first, then the PRACH thread.    *)
(*                                                                         *)
(* new_tti is one action: between its allocate and its push the PRACH      *)
(* thread can only free buffers or empty the queue, which commutes.        *)
(***************************************************************************)
EXTENDS Naturals, Sequences, FiniteSets

CONSTANTS
    Buffers,    \* the buffers of buffer_pool
    Null,       \* nullptr; samples never written
    NofSf,      \* nof_sf: subframes of a preamble
    Room,       \* subframes that fit in sf_buffer_sz samples
    Opps,       \* the TTIs at which a preamble may start
    MaxTti      \* bound: subframes received

ASSUME PrachAssumption ==
    /\ Buffers # {} /\ Null \notin Buffers /\ Null \notin Nat
    /\ NofSf \in Nat \ {0} /\ Room \in Nat /\ NofSf <= Room
    /\ MaxTti \in Nat /\ Opps \subseteq Nat
    /\ \A s, t \in Opps : s < t => s + NofSf <= t

VARIABLES
    tti,        \* the next subframe of the TXRX thread
    free,       \* buffer_pool.free_list
    buf,        \* buffer -> subframes counted (n), tti, and the samples (sf)
    current,    \* current_buffer
    sfCnt,      \* sf_cnt
    queue,      \* pending_buffers
    running,    \* running
    wpc,        \* where the PRACH thread is in run_thread; "none": no thread
    b,          \* its local variable b
    mainPc,     \* where the main thread is in phy::stop and prach_worker::stop
    examined,   \* history: the tti of every buffer given to run_tti
    skipped,    \* history: opportunities passed for want of a buffer
    failed      \* history: a detection failed

txrxVars == <<tti, current, sfCnt, skipped>>
poolVars == <<free, buf, queue, examined>>
thrVars  == <<wpc, b, failed>>
vars     == <<txrxVars, poolVars, running, thrVars, mainPc>>

Slots == 0..NofSf - 1
Clean == [i \in Slots |-> Null]
HasThread == wpc # "none"

Init ==
    /\ tti = 0 /\ current = Null /\ sfCnt = 0 /\ skipped = {}
    /\ free = Buffers /\ queue = <<>> /\ examined = <<>>
    /\ buf = [x \in Buffers |-> [n |-> 0, tti |-> 0, sf |-> Clean]]
    /\ running = FALSE /\ mainPc = "run"
    /\ wpc \in {"start", "none"} /\ b = Null /\ failed = FALSE

(* Mutant: the samples of earlier captures remain counted. *)
ResetTtiOnly(c) == [c EXCEPT !.tti = 0]

(* sf_buffer::reset: the samples stay. *)
Reset(c) == [n |-> 0, tti |-> 0, sf |-> c.sf]

(* The current subframe added to the capture in x. *)
Stored(x) ==
    [n   |-> buf[x].n + 1,
     tti |-> IF sfCnt = 0 THEN tti ELSE buf[x].tti,
     sf  |-> [buf[x].sf EXCEPT ![sfCnt] = tti]]

(* Mutant: the newest capture is put first. *)
EnqueueFirst(x) == <<x>> \o queue

(* pending_buffers.push *)
Enqueue(x) == Append(queue, x)

(* The capture in x is complete: to the thread, or examined here and now,  *)
(* where a failure goes unnoticed.                                         *)
Complete(x, others) ==
    IF HasThread
      THEN /\ queue' = Enqueue(x)
           /\ buf' = [buf EXCEPT ![x] = Stored(x)]
           /\ free' = others /\ UNCHANGED examined
      ELSE /\ examined' = Append(examined, Stored(x).tti)
           /\ buf' = [buf EXCEPT ![x] = Reset(Stored(x))]
           /\ free' = others \cup {x} /\ UNCHANGED queue

(* A subframe of a preamble goes to buffer x, while `others` are free. *)
Capture(x, others) ==
    /\ current' = x
    /\ IF buf[x].n < Room
         THEN /\ sfCnt' = IF sfCnt + 1 = NofSf THEN 0 ELSE sfCnt + 1
              /\ IF sfCnt' = 0
                   THEN Complete(x, others)
                   ELSE /\ buf' = [buf EXCEPT ![x] = Stored(x)]
                        /\ free' = others
                        /\ UNCHANGED <<queue, examined>>
         ELSE /\ free' = others
              /\ UNCHANGED <<sfCnt, buf, queue, examined>>
    /\ UNCHANGED skipped

(* prach_worker::new_tti *)
NewTti ==
    /\ mainPc = "run" /\ tti < MaxTti
    /\ tti' = tti + 1
    /\ \/ /\ sfCnt > 0
          /\ Capture(current, free)
       \/ /\ sfCnt = 0 /\ tti \in Opps
          /\ \E x \in free : Capture(x, free \ {x})
       \/ /\ sfCnt = 0 /\ tti \in Opps /\ free = {}
          /\ current' = Null
          /\ skipped' = skipped \cup {tti}
          /\ UNCHANGED <<sfCnt, poolVars>>
       \/ /\ sfCnt = 0 /\ tti \notin Opps
          /\ UNCHANGED <<current, sfCnt, skipped, poolVars>>
    /\ UNCHANGED <<running, thrVars, mainPc>>

(* run_thread, up to its loop *)
Start ==
    /\ wpc = "start"
    /\ running' = TRUE
    /\ wpc' = "loop"
    /\ UNCHANGED <<txrxVars, poolVars, b, failed, mainPc>>

(* while (running) *)
Loop ==
    /\ wpc = "loop"
    /\ wpc' = IF running THEN "pop" ELSE "exit"
    /\ UNCHANGED <<txrxVars, poolVars, running, b, failed, mainPc>>

(* Mutant: a buffer is back in the pool as soon as it is popped. *)
PopAndFree ==
    /\ wpc = "pop" /\ queue # <<>>
    /\ b' = Head(queue)
    /\ queue' = Tail(queue)
    /\ free' = free \cup ({Head(queue)} \cap Buffers)
    /\ wpc' = "got"
    /\ UNCHANGED <<txrxVars, buf, examined, running, failed, mainPc>>

(* pending_buffers.wait_pop() *)
Pop ==
    /\ wpc = "pop" /\ queue # <<>>
    /\ b' = Head(queue)
    /\ queue' = Tail(queue)
    /\ wpc' = "got"
    /\ UNCHANGED <<txrxVars, free, buf, examined, running, failed, mainPc>>

(* if (running && b): a buffer popped when it is too late is forgotten. *)
Got ==
    /\ wpc = "got"
    /\ wpc' = IF running /\ b # Null THEN "detect" ELSE "loop"
    /\ UNCHANGED <<txrxVars, poolVars, running, b, failed, mainPc>>

(* Mutant: the test of run_tti's result is the wrong way round. *)
GoesOnInverted(ok) == running /\ ~ok

(* An error ends the thread. *)
GoesOn(ok) == running /\ ok

(* Mutant: an error ends the thread before the buffer is freed. *)
ExamineLeaking(ok) ==
    /\ wpc = "detect"
    /\ examined' = Append(examined, buf[b].tti)
    /\ buf' = [buf EXCEPT ![b] = Reset(@)]
    /\ free' = IF ok THEN free \cup {b} ELSE free
    /\ running' = GoesOn(ok)
    /\ failed' = (failed \/ ~ok)
    /\ wpc' = "loop"
    /\ UNCHANGED <<txrxVars, queue, b, mainPc>>

(* run_tti, then the buffer is freed. *)
Examine(ok) ==
    /\ wpc = "detect"
    /\ examined' = Append(examined, buf[b].tti)
    /\ buf' = [buf EXCEPT ![b] = Reset(@)]
    /\ free' = free \cup {b}
    /\ running' = GoesOn(ok)
    /\ failed' = (failed \/ ~ok)
    /\ wpc' = "loop"
    /\ UNCHANGED <<txrxVars, queue, b, mainPc>>

(* phy::stop: TXRX has been joined when prach.stop() is called. *)
StopTxRx ==
    /\ mainPc = "run" /\ mainPc' = "flag"
    /\ UNCHANGED <<txrxVars, poolVars, running, thrVars>>

(* prach_worker::stop *)
StopFlag ==
    /\ mainPc = "flag" /\ mainPc' = "push"
    /\ running' = FALSE
    /\ UNCHANGED <<txrxVars, poolVars, thrVars>>

(* Mutant: nothing wakes the thread. *)
StopSilently ==
    /\ mainPc = "push"
    /\ mainPc' = IF HasThread THEN "join" ELSE "end"
    /\ UNCHANGED <<txrxVars, poolVars, running, thrVars>>

StopPush ==
    /\ mainPc = "push"
    /\ queue' = Append(queue, Null)
    /\ mainPc' = IF HasThread THEN "join" ELSE "end"
    /\ UNCHANGED <<txrxVars, free, buf, examined, running, thrVars>>

StopJoin ==
    /\ mainPc = "join" /\ wpc = "exit" /\ mainPc' = "end"
    /\ UNCHANGED <<txrxVars, poolVars, running, thrVars>>

Thread == Start \/ Loop \/ Pop \/ Got \/ \E ok \in BOOLEAN : Examine(ok)
Stop   == StopFlag \/ StopPush \/ StopJoin
Next   == NewTti \/ Thread \/ StopTxRx \/ Stop

Spec     == Init /\ [][Next]_vars
FairSpec == Spec /\ WF_vars(Thread) /\ WF_vars(Stop)

-----------------------------------------------------------------------------
Filling == IF sfCnt > 0 THEN {current} ELSE {}
Queued  == {queue[i] : i \in 1..Len(queue)} \ {Null}
InHand  == IF wpc \in {"got", "detect"} THEN {b} \ {Null} ELSE {}

(* Types of all variables. *)
TypeOK ==
    /\ tti \in 0..MaxTti /\ sfCnt \in Slots
    /\ current \in Buffers \cup {Null}
    /\ free \subseteq Buffers /\ queue \in Seq(Buffers \cup {Null})
    /\ buf \in [Buffers -> [n : 0..NofSf, tti : Nat, sf : [Slots -> Nat \cup {Null}]]]
    /\ running \in BOOLEAN /\ failed \in BOOLEAN
    /\ wpc \in {"none", "start", "loop", "pop", "got", "detect", "exit"}
    /\ b \in Buffers \cup {Null}
    /\ mainPc \in {"run", "flag", "push", "join", "end"}
    /\ examined \in Seq(Nat) /\ skipped \subseteq Opps

(* A buffer has one owner: the pool, the capture under way, the queue or   *)
(* the PRACH thread.  None is lost before stop(), not even when a failed   *)
(* detection ends the thread, so a full queue is the only reason to skip   *)
(* an opportunity (prach_worker.cc:104).                                   *)
OwnedOnce ==
    /\ free \cap (Filling \cup Queued \cup InHand) = {}
    /\ Filling \cap (Queued \cup InHand) = {}
    /\ Queued \cap InHand = {}
    /\ \A i, j \in 1..Len(queue) : queue[i] = queue[j] => i = j
    /\ mainPc \in {"run", "flag"} =>
         free \cup Filling \cup Queued \cup InHand = Buffers

Holds(x, k) ==
    /\ buf[x].n = k /\ buf[x].tti \in Opps
    /\ \A i \in 0..k - 1 : buf[x].sf[i] = buf[x].tti + i

(* What the detector reads is one whole preamble: consecutive subframes    *)
(* from an opportunity on, none overwritten by a later capture or left     *)
(* from an earlier one; so the errors of lines 111 and 123 never occur.    *)
PreambleIntact ==
    /\ sfCnt > 0 => Holds(current, sfCnt)
    /\ \A x \in Queued \cup InHand : Holds(x, NofSf)

(* Opportunities whose last subframe has been received. *)
Due == {t \in Opps : t + NofSf <= tti} \ skipped

(* Every preamble captured, from the first examined to the last queued. *)
Captures ==
    examined \o (IF InHand = {} THEN <<>> ELSE <<buf[b].tti>>)
             \o [i \in 1..Len(queue) |-> buf[queue[i]].tti]

(* No opportunity is forgotten, examined twice or out of order, whatever   *)
(* buffers carried it: the captures are the due opportunities in order.    *)
DueInOrder ==
    mainPc \in {"run", "flag"} =>
      /\ {Captures[i] : i \in 1..Len(Captures)} = Due
      /\ \A i, j \in 1..Len(Captures) : i < j => Captures[i] < Captures[j]

(* Until a detection fails, which ends detection for good                  *)
(* (prach_worker.cc:196), or the eNB stops, every capture gets examined.   *)
DueExamined ==
    \A t \in Opps :
      t \in Due ~> \/ \E i \in 1..Len(examined) : examined[i] = t
                   \/ failed \/ mainPc # "run"

(* stop() returns, unless it comes before the thread's own `running =      *)
(* true` (prach_worker.cc:189), which would undo it.                       *)
StopReturns == (mainPc = "flag" /\ wpc # "start") ~> (mainPc = "end")
=============================================================================
