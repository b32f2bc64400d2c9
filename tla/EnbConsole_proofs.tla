------------------------- MODULE EnbConsole_proofs -------------------------
(***************************************************************************)
(* Proofs about EnbConsole: its types, and that the metrics thread never   *)
(* waits for an answer of a stack that is taken down.                      *)
(*                                                                         *)
(* The argument: main goes through its steps in one order.  It stops the   *)
(* stack only when the metrics thread has ended, so that as long as that   *)
(* thread waits main has not come to the stack (Order), and the task it    *)
(* queued is either in its queue or answered.                              *)
(***************************************************************************)
EXTENDS EnbConsole, TLAPS

Cmd == {"t", "q", "p", "sleep"}

InputOK ==
    /\ typed \in Seq(Lines) /\ buffered \in Seq(Lines) /\ nofTyped \in 0..MaxLines
    /\ eof \in BOOLEAN /\ doMetrics \in BOOLEAN /\ cmds \in Seq(Cmd)
    /\ part \in {"none", "fd", "stream"}
    /\ inPc \in {"check", "poll", "getline", "exec", "sleep", "gui", "ended"}

SignalOK ==
    running \in BOOLEAN /\ handler \in BOOLEAN /\ alarmed \in BOOLEAN /\ killed \in BOOLEAN

ThreadsOK ==
    /\ mainPc \in {"loop", "joinInput", "stopHub", "joinHub", "stopEnb", "joinStack", "exited"}
    /\ hubPc \in {"period", "waiting", "reported", "ended"} /\ hubOn \in BOOLEAN
    /\ enbOn \in BOOLEAN /\ stackPc \in {"tasks", "ended"}
    /\ asked \in Nat /\ answered \in Nat /\ stopTask \in BOOLEAN

(* Which thread may be where while main takes them down. *)
Order ==
    /\ mainPc \in {"stopEnb", "joinStack", "exited"} => hubPc = "ended"
    /\ stopTask => mainPc = "joinStack"
    /\ stackPc = "ended" => mainPc \in {"joinStack", "exited"} /\ ~stopTask
    /\ asked + answered = IF hubPc = "waiting" THEN 1 ELSE 0

IInv == InputOK /\ SignalOK /\ ThreadsOK /\ Order

threadVars == <<mainPc, hubVars, stackVars>>

-----------------------------------------------------------------------------
(* The invariant holds initially (main.cc starts the threads). *)
LEMMA InitInv == Init => IInv
<1> SUFFICES ASSUME Init PROVE IInv
  OBVIOUS
<1>1. InputOK
  <2>1. <<>> \in Seq(Lines) /\ <<>> \in Seq(Cmd)
    OBVIOUS
  <2>2. 0 \in 0..MaxLines
    BY ConsoleAssumption
  <2> QED
    BY <2>1, <2>2 DEF Init, InputOK
<1>2. SignalOK /\ ThreadsOK
  BY DEF Init, SignalOK, ThreadsOK
<1>3. Order
  BY DEF Init, Order
<1> QED
  BY <1>1, <1>2, <1>3 DEF IInv

(* The console and the operator leave the other threads alone. *)
LEMMA InputStep ==
    ASSUME IInv, [Type \/ TypePart \/ CloseStdin \/ Input]_vars
    PROVE  InputOK' /\ SignalOK' /\ UNCHANGED threadVars
<1> USE DEF IInv, threadVars
<1>1. CASE Type
  <2>1. PICK l \in Lines : typed' = Append(typed, l)
    BY <1>1 DEF Type
  <2>2. typed' \in Seq(Lines)
    BY <2>1 DEF InputOK
  <2>3. nofTyped' \in 0..MaxLines
    BY <1>1, ConsoleAssumption DEF Type, InputOK
  <2> QED
    BY <1>1, <2>2, <2>3 DEF Type, InputOK, SignalOK, signalVars, hubVars, stackVars
<1>2. CASE TypePart \/ CloseStdin
  BY <1>2 DEF TypePart, CloseStdin, InputOK, SignalOK, signalVars, hubVars, stackVars
<1>3. CASE CheckRunning \/ PollEnds \/ ReadPart \/ ReadEnd
  BY <1>3 DEF CheckRunning, PollEnds, ReadPart, ReadEnd, InputGo, InputOK, SignalOK, signalVars,
              hubVars, stackVars
<1>4. CASE ReadLine
  <2>1. \A l \in Lines : l \in Seq(Cmd)
    BY ConsoleAssumption DEF Cmd
  <2>2. \A s \in Seq(Lines) : s # <<>> => Head(s) \in Lines /\ Tail(s) \in Seq(Lines)
    OBVIOUS
  <2>3. /\ typed' \in Seq(Lines) /\ buffered' \in Seq(Lines)
        /\ part' \in {"none", "fd", "stream"} /\ cmds' \in Lines
    BY <1>4, <2>2 DEF ReadLine, Buffered, Read, InputOK
  <2> QED
    BY <1>4, <2>1, <2>3 DEF ReadLine, InputGo, InputOK, SignalOK, signalVars, hubVars, stackVars
<1>5. ASSUME NEW c, Execute(c)
      PROVE  /\ cmds' \in Seq(Cmd) /\ Onwards(cmds') \in {"check", "exec"}
             /\ UNCHANGED <<typed, part, buffered, nofTyped, eof, threadVars>>
  BY <1>5 DEF Execute, Onwards, InputOK, hubVars, stackVars
<1>6. CASE CmdTrace
  BY <1>6, <1>5 DEF CmdTrace, InputOK, SignalOK, signalVars
<1>7. CASE CmdQuit
  <2>1. SignalOK'
    BY <1>7 DEF CmdQuit, Stopping, SignalOK, signalVars
  <2> QED
    BY <1>7, <1>5, <2>1 DEF CmdQuit, InputOK
<1>8. CASE CmdOther
  BY <1>8, <1>5 DEF CmdOther, InputOK, SignalOK, signalVars
<1>9. CASE CmdSleep
  BY <1>9, <1>5 DEF CmdSleep, InputOK, SignalOK, signalVars
<1>10. CASE WakeUp
  BY <1>10 DEF WakeUp, InputGo, Onwards, InputOK, SignalOK, signalVars, hubVars, stackVars
<1>11. CASE UNCHANGED vars
  BY <1>11 DEF vars, InputOK, SignalOK, inputVars, signalVars, hubVars, stackVars
<1> QED
  BY <1>1, <1>2, <1>3, <1>4, <1>6, <1>7, <1>8, <1>9, <1>10, <1>11 DEF Input

(* Signal and alarm change the flags only. *)
LEMMA SignalStep ==
    ASSUME IInv, Signal \/ Alarm
    PROVE  InputOK' /\ SignalOK' /\ UNCHANGED threadVars
<1>1. SignalOK'
  BY DEF IInv, Signal, Stopping, Alarm, SignalOK, signalVars
<1>2. InputOK'
  BY DEF IInv, Signal, Alarm, InputOK, inputVars
<1> QED
  BY <1>1, <1>2 DEF Signal, Alarm, threadVars

(* The threads and main leave the console alone and keep the order. *)
LEMMA ThreadStep ==
    ASSUME IInv, Hub \/ Stack \/ Main
    PROVE  ThreadsOK' /\ Order' /\ UNCHANGED inputVars /\ SignalOK'
<1> USE DEF IInv
<1>1. CASE Hub
  <2>1. ThreadsOK' /\ Order'
    <3>1. CASE HubAsk
      BY <3>1 DEF HubAsk, ThreadsOK, Order
    <3>2. CASE HubReport
      BY <3>2 DEF HubReport, ThreadsOK, Order
    <3>3. CASE HubPeriod \/ HubEnds
      BY <3>3 DEF HubPeriod, HubEnds, ThreadsOK, Order, stackVars
    <3> QED
      BY <1>1, <3>1, <3>2, <3>3 DEF Hub
  <2> QED
    BY <1>1, <2>1 DEF Hub, HubAsk, HubReport, HubPeriod, HubEnds, SignalOK, signalVars
<1>2. CASE Stack
  <2>1. ThreadsOK' /\ Order'
    <3>1. CASE StackMetrics
      BY <3>1 DEF StackMetrics, ThreadsOK, Order, hubVars
    <3>2. CASE StackStop
      BY <3>2 DEF StackStop, ThreadsOK, Order, hubVars
    <3> QED
      BY <1>2, <3>1, <3>2 DEF Stack
  <2> QED
    BY <1>2, <2>1 DEF Stack, StackMetrics, StackStop, SignalOK, signalVars
<1>3. CASE Main
  <2>1. ThreadsOK' /\ Order'
    <3>1. CASE MainLoop \/ JoinInput \/ JoinHub
      BY <3>1 DEF MainLoop, JoinInput, JoinHub, MainGo, ThreadsOK, Order, hubVars, stackVars
    <3>2. CASE StopHub
      BY <3>2 DEF StopHub, MainGo, ThreadsOK, Order, stackVars
    <3>3. CASE StopEnb
      BY <3>3 DEF StopEnb, MainGo, ThreadsOK, Order, hubVars
    <3>4. CASE JoinStack
      BY <3>4 DEF JoinStack, MainGo, ThreadsOK, Order, hubVars
    <3> QED
      BY <1>3, <3>1, <3>2, <3>3, <3>4 DEF Main
  <2> QED
    BY <1>3, <2>1 DEF Main, MainLoop, JoinInput, StopHub, JoinHub, StopEnb, JoinStack,
                      SignalOK, signalVars
<1> QED
  BY <1>1, <1>2, <1>3

LEMMA NextInv == IInv /\ [Next]_vars => IInv'
<1> SUFFICES ASSUME IInv, [Next]_vars PROVE IInv'
  OBVIOUS
<1>1. ASSUME UNCHANGED threadVars PROVE ThreadsOK' /\ Order'
  BY <1>1 DEF IInv, threadVars, hubVars, stackVars, ThreadsOK, Order
<1>2. ASSUME UNCHANGED inputVars PROVE InputOK'
  BY <1>2 DEF IInv, inputVars, InputOK
<1>3. CASE [Type \/ TypePart \/ CloseStdin \/ Input]_vars
  BY <1>3, <1>1, InputStep DEF IInv
<1>4. CASE Signal \/ Alarm
  BY <1>4, <1>1, SignalStep DEF IInv
<1>5. CASE Hub \/ Stack \/ Main
  BY <1>5, <1>2, ThreadStep DEF IInv
<1> QED
  BY <1>3, <1>4, <1>5 DEF Next, Program, Done

LEMMA InvTypeOK == IInv => TypeOK
<1> SUFFICES ASSUME IInv PROVE TypeOK
  OBVIOUS
<1>1. asked \in 0..1 /\ answered \in 0..1
  BY DEF IInv, ThreadsOK, Order
<1> QED
  BY <1>1 DEF IInv, InputOK, SignalOK, ThreadsOK, TypeOK, Cmd

(* Every variable keeps to its values: one metrics task is queued or       *)
(* answered at most.                                                       *)
THEOREM TypeCorrect == Spec => []TypeOK
  BY InitInv, NextInv, InvTypeOK, PTL DEF Spec

(* The metrics thread never waits for an answer of a stack that is being   *)
(* taken down, nor finds an old one (enb_stack_lte.cc:232).                *)
THEOREM NoWaiterLeft == Spec => []NobodyLeftWaiting
<1>1. IInv => NobodyLeftWaiting
  BY DEF IInv, ThreadsOK, Order, NobodyLeftWaiting
<1> QED
  BY <1>1, InitInv, NextInv, PTL DEF Spec
=============================================================================
