----------------------------- MODULE EnbConsole -----------------------------
(***************************************************************************)
(* The srsenb process from the console to its end: the input thread of     *)
(* main.cc with BeamArmor's GUI, the signal handler and its alarm, the     *)
(* metrics thread, the stack thread that answers it, and main, which takes *)
(* them down.                                                              *)
(*                                                                         *)
(* A line is a sequence of commands (`;` separates them).  poll() looks at *)
(* the descriptor, getline() at the stream: lines that were read into its  *)
(* buffer together with another one wait until poll() sees new input, and  *)
(* getline() waits for the rest of a line of which poll() saw the start.   *)
(* Time is not modelled: a sleep takes any time, and so does all else      *)
(* before the alarm.  Stopping the PHY is one step (SfPipeline details it).*)
(***************************************************************************)
EXTENDS Naturals, Sequences, SequencesExt

CONSTANTS
    Lines,      \* what the operator may type
    MaxLines    \* bound: lines typed

ASSUME ConsoleAssumption ==
    /\ Lines \subseteq Seq({"t", "q", "p", "sleep"})
    /\ <<>> \notin Lines /\ MaxLines \in Nat

VARIABLES
    typed,      \* lines typed and not yet read from the descriptor
    part,       \* start of a line: in the descriptor ("fd"), read ("stream")
    buffered,   \* lines in the buffer of cin
    nofTyped, eof,
    cmds,       \* commands of the line being executed
    inPc,       \* input thread
    doMetrics,  \* do_metrics: the console trace is on
    running,    \* main's flag
    handler,    \* user_handler is still there
    alarmed,    \* alarm() has been called
    mainPc, hubPc,
    hubOn,      \* run_enable of the metrics thread
    enbOn,      \* enb::started
    stackPc,
    asked,      \* tasks in metrics_task_queue
    answered,   \* results in pending_stack_metrics
    stopTask,   \* stop_impl is in enb_task_queue
    killed

inputVars == <<typed, part, buffered, nofTyped, eof, cmds, inPc, doMetrics>>
signalVars == <<running, handler, alarmed, killed>>
hubVars == <<hubPc, hubOn>>
stackVars == <<enbOn, stackPc, asked, answered, stopTask>>
vars == <<inputVars, signalVars, mainPc, hubVars, stackVars>>

Init ==
    /\ typed = <<>> /\ part = "none" /\ buffered = <<>> /\ nofTyped = 0 /\ eof = FALSE
    /\ cmds = <<>> /\ inPc = "check" /\ doMetrics = FALSE
    /\ running = TRUE /\ handler = TRUE /\ alarmed = FALSE /\ killed = FALSE
    /\ mainPc = "loop" /\ hubPc = "period" /\ hubOn = TRUE
    /\ enbOn = TRUE /\ stackPc = "tasks"
    /\ asked = 0 /\ answered = 0 /\ stopTask = FALSE

Exited == mainPc = "exited"
Ended  == killed \/ Exited

-----------------------------------------------------------------------------
(* The operator, or a pipe, which may deliver a line in pieces. *)
Type ==
    /\ ~eof /\ nofTyped < MaxLines
    /\ \E l \in Lines : typed' = Append(typed, l)
    /\ part' = "none" /\ nofTyped' = nofTyped + 1
    /\ UNCHANGED <<buffered, eof, cmds, inPc, doMetrics, signalVars, mainPc, hubVars, stackVars>>

TypePart ==
    /\ ~eof /\ nofTyped < MaxLines
    /\ part = "none" /\ part' = "fd"
    /\ UNCHANGED <<typed, buffered, nofTyped, eof, cmds, inPc, doMetrics, signalVars, mainPc, hubVars, stackVars>>

CloseStdin ==
    /\ ~eof /\ eof' = TRUE
    /\ UNCHANGED <<typed, part, buffered, nofTyped, cmds, inPc, doMetrics, signalVars, mainPc, hubVars, stackVars>>

(* Mutant: the alarm is left out. *)
StoppingNoAlarm ==
    IF handler THEN running' = FALSE /\ handler' = FALSE /\ UNCHANGED <<alarmed, killed>>
               ELSE UNCHANGED signalVars

(* srsran_signal_handler: the first signal stops the program and sets the  *)
(* alarm, later ones find no user handler and are ignored.                 *)
Stopping ==
    IF handler THEN /\ running' = FALSE /\ handler' = FALSE /\ alarmed' = TRUE
                    /\ UNCHANGED killed
               ELSE UNCHANGED signalVars

Signal ==
    /\ handler
    /\ Stopping
    /\ UNCHANGED <<inputVars, mainPc, hubVars, stackVars>>

Alarm ==
    /\ alarmed /\ ~Exited
    /\ killed' = TRUE
    /\ UNCHANGED <<inputVars, running, handler, alarmed, mainPc, hubVars, stackVars>>

-----------------------------------------------------------------------------
InputGo(from, to) == inPc = from /\ inPc' = to

(* input_loop looks at the flag before it polls, and at no other time. *)
CheckRunning ==
    /\ InputGo("check", IF running THEN "poll" ELSE "ended")
    /\ UNCHANGED <<typed, part, buffered, nofTyped, eof, cmds, doMetrics, signalVars, mainPc, hubVars, stackVars>>

(* poll() returns when there is something to read, or after a second. *)
Readable == typed # <<>> \/ part = "fd" \/ eof

PollEnds ==
    /\ InputGo("poll", IF Readable THEN "getline" ELSE "check")
    /\ UNCHANGED <<typed, part, buffered, nofTyped, eof, cmds, doMetrics, signalVars, mainPc, hubVars, stackVars>>

(* getline(): with nothing buffered, the stream takes one line (terminal)  *)
(* or all there is (pipe); it blocks until it has a whole line.            *)
Buffered ==
    /\ buffered # <<>>
    /\ cmds' = Head(buffered) /\ buffered' = Tail(buffered)
    /\ UNCHANGED <<typed, part>>

Read ==
    /\ buffered = <<>> /\ typed # <<>>
    /\ cmds' = Head(typed)
    /\ \/ typed' = Tail(typed) /\ UNCHANGED <<part, buffered>>
       \/ /\ typed' = <<>> /\ buffered' = Tail(typed)
          /\ part' = IF part = "fd" THEN "stream" ELSE part

ReadLine ==
    /\ InputGo("getline", "exec")
    /\ Buffered \/ Read
    /\ UNCHANGED <<nofTyped, eof, doMetrics, signalVars, mainPc, hubVars, stackVars>>

NoLine == buffered = <<>> /\ typed = <<>>

ReadPart ==
    /\ inPc = "getline" /\ NoLine
    /\ part = "fd" /\ part' = "stream"
    /\ UNCHANGED <<typed, buffered, nofTyped, eof, cmds, inPc, doMetrics, signalVars, mainPc, hubVars, stackVars>>

ReadEnd ==
    /\ InputGo("getline", "ended")
    /\ NoLine /\ part # "fd" /\ eof
    /\ UNCHANGED <<typed, part, buffered, nofTyped, eof, cmds, doMetrics, signalVars, mainPc, hubVars, stackVars>>

(* A line is executed to its end, stopped or not. *)
Onwards(rest) == IF rest = <<>> THEN "check" ELSE "exec"

Execute(cmd) ==
    /\ inPc = "exec" /\ cmds # <<>> /\ Head(cmds) = cmd
    /\ cmds' = Tail(cmds)
    /\ UNCHANGED <<typed, part, buffered, nofTyped, eof, mainPc, hubVars, stackVars>>

(* start_beamArmorGUI joins the plot thread, whose loop has no end. *)
CmdTrace ==
    /\ Execute("t")
    /\ doMetrics' = ~doMetrics
    /\ inPc' = "gui"
    /\ UNCHANGED signalVars

CmdQuit == Execute("q") /\ Stopping /\ inPc' = Onwards(cmds') /\ UNCHANGED doMetrics

(* Commands that neither wait nor touch this state: p, m, cell_gain, flush. *)
CmdOther == Execute("p") /\ inPc' = Onwards(cmds') /\ UNCHANGED <<doMetrics, signalVars>>

CmdSleep == Execute("sleep") /\ inPc' = "sleep" /\ UNCHANGED <<doMetrics, signalVars>>

(* After any number of seconds, before or after the alarm. *)
WakeUp ==
    /\ InputGo("sleep", Onwards(cmds))
    /\ UNCHANGED <<typed, part, buffered, nofTyped, eof, cmds, doMetrics, signalVars, mainPc, hubVars, stackVars>>

Input ==
    \/ CheckRunning \/ PollEnds \/ ReadLine \/ ReadPart \/ ReadEnd
    \/ CmdTrace \/ CmdQuit \/ CmdOther \/ CmdSleep \/ WakeUp

-----------------------------------------------------------------------------
(* The metrics thread: enb::get_metrics asks the stack and waits. *)
HubAsk ==
    /\ hubPc = "period" /\ hubOn
    /\ IF enbOn THEN hubPc' = "waiting" /\ asked' = asked + 1
                ELSE hubPc' = "reported" /\ UNCHANGED asked
    /\ UNCHANGED <<hubOn, inputVars, signalVars, mainPc, enbOn, stackPc, answered, stopTask>>

(* The listeners get the metrics (set_metrics). *)
HubReport ==
    /\ hubPc = "waiting" /\ answered > 0
    /\ answered' = answered - 1 /\ hubPc' = "reported"
    /\ UNCHANGED <<hubOn, inputVars, signalVars, mainPc, enbOn, stackPc, asked, stopTask>>

(* run_enable is read again before and after wait_period. *)
HubPeriod ==
    /\ hubPc = "reported" /\ hubOn
    /\ hubPc' = "period"
    /\ UNCHANGED <<hubOn, inputVars, signalVars, mainPc, stackVars>>

HubEnds ==
    /\ hubPc \in {"period", "reported"} /\ ~hubOn
    /\ hubPc' = "ended"
    /\ UNCHANGED <<hubOn, inputVars, signalVars, mainPc, stackVars>>

Hub == HubAsk \/ HubReport \/ HubPeriod \/ HubEnds

(* Mutant: the task is run, but stays in its queue. *)
StackMetricsAgain ==
    /\ stackPc = "tasks" /\ asked > 0
    /\ answered' = answered + 1
    /\ UNCHANGED <<inputVars, signalVars, mainPc, hubVars, enbOn, stackPc, asked, stopTask>>

(* The stack thread: one task at a time, from whichever queue. *)
StackMetrics ==
    /\ stackPc = "tasks" /\ asked > 0
    /\ asked' = asked - 1 /\ answered' = answered + 1
    /\ UNCHANGED <<inputVars, signalVars, mainPc, hubVars, enbOn, stackPc, stopTask>>

(* stop_impl; the loop ends, tasks still queued are dropped. *)
StackStop ==
    /\ stackPc = "tasks" /\ stopTask
    /\ stopTask' = FALSE /\ stackPc' = "ended"
    /\ UNCHANGED <<inputVars, signalVars, mainPc, hubVars, enbOn, asked, answered>>

Stack == StackMetrics \/ StackStop

-----------------------------------------------------------------------------
MainGo(from, to) == mainPc = from /\ mainPc' = to

MainLoop ==
    /\ ~running /\ MainGo("loop", "joinInput")
    /\ UNCHANGED <<inputVars, signalVars, hubVars, stackVars>>

JoinInput ==
    /\ inPc = "ended" /\ MainGo("joinInput", "stopHub")
    /\ UNCHANGED <<inputVars, signalVars, hubVars, stackVars>>

(* Mutant: the metrics thread is told to stop, but not joined. *)
JoinHubNot ==
    /\ MainGo("joinHub", "stopEnb")
    /\ UNCHANGED <<inputVars, signalVars, hubVars, stackVars>>

(* Mutant: the thread is joined without having been told to stop. *)
StopHubOnlyJoin ==
    /\ MainGo("stopHub", "joinHub")
    /\ UNCHANGED <<inputVars, signalVars, hubVars, stackVars>>

(* metricshub.stop: stop_thread joins; the cancel and the second join that *)
(* follow find the thread gone.                                            *)
StopHub ==
    /\ MainGo("stopHub", "joinHub")
    /\ hubOn' = FALSE
    /\ UNCHANGED <<inputVars, signalVars, hubPc, stackVars>>

JoinHub ==
    /\ hubPc = "ended" /\ MainGo("joinHub", "stopEnb")
    /\ UNCHANGED <<inputVars, signalVars, hubVars, stackVars>>

(* enb::stop: PHY and radio, then the stack, by a task of its own. *)
StopEnb ==
    /\ MainGo("stopEnb", "joinStack")
    /\ stopTask' = TRUE
    /\ UNCHANGED <<inputVars, signalVars, hubVars, enbOn, stackPc, asked, answered>>

JoinStack ==
    /\ stackPc = "ended" /\ MainGo("joinStack", "exited")
    /\ enbOn' = FALSE
    /\ UNCHANGED <<inputVars, signalVars, hubVars, stackPc, asked, answered, stopTask>>

Main == MainLoop \/ JoinInput \/ StopHub \/ JoinHub \/ StopEnb \/ JoinStack

Program == Input \/ Hub \/ Stack \/ Main

Done == Ended /\ UNCHANGED vars

Next ==
    \/ ~Ended /\ (Type \/ TypePart \/ CloseStdin \/ Signal \/ Alarm \/ Program)
    \/ Done

Spec == Init /\ [][Next]_vars

(* Every thread runs; a signal or a typed line may or may not come.  When  *)
(* the alarm goes off (5 s) is left open: see ShutdownEnds.                *)
Fairness ==
    /\ WF_vars(~Ended /\ Input) /\ WF_vars(~Ended /\ Hub)
    /\ WF_vars(~Ended /\ Stack) /\ WF_vars(~Ended /\ Main)

FairSpec == Spec /\ Fairness

-----------------------------------------------------------------------------
TypeOK ==
    /\ typed \in Seq(Lines) /\ buffered \in Seq(Lines) /\ nofTyped \in 0..MaxLines
    /\ part \in {"none", "fd", "stream"}
    /\ eof \in BOOLEAN /\ doMetrics \in BOOLEAN
    /\ cmds \in Seq({"t", "q", "p", "sleep"})
    /\ inPc \in {"check", "poll", "getline", "exec", "sleep", "gui", "ended"}
    /\ running \in BOOLEAN /\ handler \in BOOLEAN /\ alarmed \in BOOLEAN /\ killed \in BOOLEAN
    /\ mainPc \in {"loop", "joinInput", "stopHub", "joinHub", "stopEnb", "joinStack", "exited"}
    /\ hubPc \in {"period", "waiting", "reported", "ended"} /\ hubOn \in BOOLEAN
    /\ enbOn \in BOOLEAN /\ stackPc \in {"tasks", "ended"}
    /\ asked \in 0..1 /\ answered \in 0..1 /\ stopTask \in BOOLEAN

(* The metrics thread never waits for an answer of a stack that is being,  *)
(* or has been, taken down, and never finds the answer to an old question. *)
NobodyLeftWaiting ==
    /\ hubPc = "waiting" => stackPc = "tasks" /\ ~stopTask
    /\ asked + answered = IF hubPc = "waiting" THEN 1 ELSE 0

(* The input thread plots, or has the start of a line and no rest of it. *)
HeldUp == inPc = "gui" \/ (inPc = "getline" /\ NoLine /\ part = "stream" /\ ~eof)

(* A stopped program that the alarm leaves the time exits by itself, but   *)
(* for an input thread that is held up: whatever was typed, and whenever,  *)
(* main gets through all its joins.  It waits for a sleep to end first, so *)
(* that one of more than five seconds leaves it no time.                   *)
ExitsUnlessHeldUp == []~killed => (~running ~> (Exited \/ HeldUp))

(* If the alarm goes off eventually, the first signal ends the program.    *)
ShutdownEnds == WF_vars(~Ended /\ Alarm) => (~handler ~> Ended)

(* main.cc:503: "Enter t to stop trace." *)
TraceCanBeStopped ==
    (doMetrics /\ typed # <<>> /\ Head(typed) = <<"t">>) ~> (~doMetrics \/ ~running)
=============================================================================
