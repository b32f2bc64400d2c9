------------------------- MODULE AlphaServerToggle --------------------------
(***************************************************************************)
(* alpha_compute_server_toggle.py, the RIC of the manual demo: a Qt button *)
(* in the main thread switches between zeros and the final estimate that   *)
(* the daemon thread beam_armour replies.                                  *)
(***************************************************************************)
EXTENDS RicServer

VARIABLES
    toggle,     \* apply_alpha_toggle, also what the button shows
    final       \* samples in final_alpha; 0 while it is unbound

guiVars == <<toggle, final>>
manualVars == <<ricVars, guiVars>>

ManualInit == RicInit /\ toggle = FALSE /\ final = 0

(* MainWindow.toggle: the button is clicked. *)
Toggle ==
    /\ toggle' = ~toggle
    /\ UNCHANGED <<ricVars, final>>

(* Mutant: final_alpha is taken while the sum still grows. *)
ConcludeEarly == final' = IF final = 0 THEN num ELSE final

(* final_alpha is computed once, on the first message after Timer 1. *)
Conclude == final' = IF ~Estimating /\ final = 0 THEN num ELSE final

ManualHandle ==
    /\ Estimating \/ final > 0 \/ num > 0
    /\ Conclude
    /\ toggle => final' > 0
    /\ HandleWith([life |-> life, num |-> IF toggle THEN final' ELSE 0])
    /\ UNCHANGED toggle

(* NameError on `data`, 0 / 0 in final_alpha, or final_alpha still unbound *)
(* when the button asks for it: the thread ends, the window stays.         *)
ManualRaise ==
    /\ Pending
    /\ \/ Unpacked = NoData
       \/ ~Estimating /\ final = 0 /\ num = 0
       \/ Estimating /\ toggle /\ final = 0
    /\ Die
    /\ UNCHANGED guiVars

(* A new process: the module globals and the thread's locals are fresh. *)
Relaunch == Restart /\ toggle' = FALSE /\ final' = 0

ManualNext ==
    \/ (Sound \/ Poll \/ Flush \/ ConnectSub \/ ConnectPub) /\ UNCHANGED guiVars
    \/ (Stamp \/ Kill) /\ UNCHANGED guiVars
    \/ ManualHandle \/ ManualRaise
    \/ Toggle \/ Relaunch

ManualSpec == ManualInit /\ [][ManualNext]_manualVars

(* As in AlphaServer; nothing makes the operator click. *)
ManualFairness ==
    /\ WF_manualVars(Sound /\ UNCHANGED guiVars)
    /\ WF_manualVars(Poll /\ UNCHANGED guiVars)
    /\ WF_manualVars(Flush /\ UNCHANGED guiVars)
    /\ WF_manualVars(ConnectSub /\ UNCHANGED guiVars)
    /\ WF_manualVars(ConnectPub /\ UNCHANGED guiVars)
    /\ WF_manualVars(ManualHandle) /\ WF_manualVars(ManualRaise)
    /\ WF_manualVars(Stamp /\ UNCHANGED guiVars)

ManualFairSpec == ManualSpec /\ ManualFairness

-----------------------------------------------------------------------------
(* Types, and the bounds of the link. *)
ManualTypeOK == RicTypeOK /\ toggle \in BOOLEAN /\ final \in Nat

(* The estimate is over when it is first used: every weight that is not    *)
(* zeros is one and the same average per server, whatever the button did,  *)
(* and by then the sum is closed.                                          *)
OneEstimatePerServer ==
    /\ final > 0 => final = num /\ ~Estimating
    /\ \A w \in {alpha} \cup {repq[i] : i \in DOMAIN repq} :
           w.life = life => w.num \in {0, final}

(* README.md:174: the button turns BeamArmor on and off.  If it is left    *)
(* alone and the thread behind it lives, the eNB ends up doing what it     *)
(* shows, after every older reply has been applied.                        *)
ButtonObeyedWhileAlive ==
    /\ <>[](alive /\ toggle) => <>[](alpha.num > 0)
    /\ <>[](alive /\ ~toggle) => <>[](alpha.num = 0)

(* README.md:152: once Timer 1 has expired BeamArmor can be controlled     *)
(* with the button.  A button first pressed after that, and left on, has   *)
(* the eNB null the jammer in the end (soundings being readable).          *)
PressedAfterTimer1 == [](toggle => age >= Timer1)
ButtonUsableAfterTimer1 ==
    PressedAfterTimer1 /\ <>[](toggle /\ data # NoData) => <>[](alpha.num > 0)
=============================================================================
