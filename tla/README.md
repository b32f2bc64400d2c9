# BeamArmor: TLA+ models, checks and proofs

BeamArmor adds anti-jamming to srsRAN's eNB: the uplink samples of two
antennas are combined with a complex weight *alpha* that nulls the jammer.
A separate Python process, the MIMO-RIC, computes alpha from samples the eNB
publishes over ZeroMQ and publishes it back. The rest of the repository is
srsRAN itself, lightly changed.

This directory models the control of that program (what is stored, tested,
sent and waited for, in which order) and leaves the signal processing out.

## 1. Inventory

| Component | State it keeps | Operations | Interacts through |
|---|---|---|---|
| RAN/RIC link, eNB end (`srsenb/src/phy/txrx.cc`) | `alpha`, PUB and SUB socket | `send_y1y2`, `poll_alpha`, every 50th TTI | zmq pipes to the RIC; `alpha` is applied to each subframe |
| RIC, automatic demo (`alpha_compute_server.py`) | `sum_alpha`, `num_alpha`, `elapsed_time`, `data` | receive, accumulate, reply, look at the clock | zmq pipes |
| RIC, manual demo (`alpha_compute_server_toggle.py`) | the same, `apply_alpha_toggle`, `final_alpha` | the same, a Qt button in another thread | zmq pipes, a global |
| TXRX thread (`txrx.cc`) | `tti`, `running` | reserve workers, receive, set contexts, start workers | worker pools, semaphore |
| Worker pools (`lib/src/common/thread_pool.cc`) | `status` per worker, `running` | `wait_worker`, `wait_worker_id`, `start_worker`, `finished`, `stop` | one mutex, condition variables |
| Transmission (`phy_common.cc`, `phy_common_interface.h`, `tti_sempahore.h`) | `semaphore`, `tx_buffer`, `tx_hold` | `worker_end`, `wait_all` | workers of both pools, radio |
| Workers (`lte/sf_worker.cc`, `nr/slot_worker.cc`) | context, tx buffer | `work_imp` | scheduler (NR in slot order), `worker_end` |
| PHY control (`phy.cc`) | - | `init`, `rem_rnti`, `stop` | called by the stack and the main thread |
| PRACH workers (`prach_worker.cc`) | buffer pool, queue, sub-frame counter | `new_tti`, `run_thread`, `stop` | TXRX, MAC |
| Console, signals, metrics, GUI (`main.cc`, `signal_handler.cc`, `metrics_hub.h`, `beamArmorGUI.h`) | flags, the stream's buffer, the alarm | commands, plotting, metrics, shutdown | input, metrics, plot, stack and main threads |
| Timers (`lib/include/srsran/common/timers.h`) | timer wheel, clock, iterator of `step_all` | `set`, `run`, `stop`, `release`, `step_all` | callbacks of every layer, under a mutex given up for each |
| RRC, radio-link failure (`rrc_ue.cc`, `rrc.cc`) | KO counts, four timers per UE | `mac_ko/ok`, `rlf_timer_expired`, `rem_user` | timers, commands from MAC and RLC |
| RLC, acknowledged mode (`rlc_am_lte.cc`) | windows, retransmission queue, poll and reordering timer | write, read, status, timers | PDCP above, HARQ below, worker and stack threads |
| Stack: task queues, TTI clock (`enb_stack_lte.cc`) | queues | deferred tasks | every layer |
| MAC scheduler/HARQ, other RLC modes, PDCP, S1AP, GTP-U, RRC procedures; EPC; UE; gNB | protocol state | upstream srsRAN | - |
| PHY/FEC library, ASN.1, measurement scripts, MATLAB, GNU Radio | none of interest | numerical or generated code | - |

What is hard here, and what makes each part correct:

* **Link and RIC.** PUB sockets drop silently; the two processes start, stop
  and restart independently; a message body points to freed memory; the
  clock the RIC compares its timers with is the one it read at the end of
  the *previous* iteration. Correct means: weights reach the eNB in the order
  they were made, nothing nulls before Timer 2, an estimate once applied does
  not move, and a running RIC eventually has the jammer nulled.
* **Manual demo.** The button is pressed at any moment, also before the
  estimate exists. Correct means: the eNB ends up doing what the button shows.
* **Subframe pipeline.** Subframes are processed by concurrent workers, LTE
  and NR of one subframe are combined, and transmission is in order. Correct
  means: one burst per subframe, in order, holding only that subframe's
  signals and all of them; buffers are not reused too early; `stop` neither
  hangs nor loses a subframe; a UE removal never touches a busy worker.
* **PRACH workers.** TXRX fills buffers, a thread examines them, a pool of
  eight bounds them. Correct means: the detector reads whole preambles, in
  order, each once; a buffer is never shared or lost; `stop` returns.
* **Console.** Five threads are taken down in an order that must leave none
  of them waiting; a command that never returns leaves only the alarm.
* **Timers.** `step_all` walks a list that callbacks, and other threads during
  them, change under its iterator. Correct means: a timer is linked exactly
  while it runs, and what is due is called, once, when it is due.
* **Radio-link failure.** The failure of one UE stops timers in the very list
  that is being walked. Correct means: a UE is given up only for a link that
  fails, and in time.
* **RLC.** PDUs and statuses are lost and reordered, sequence numbers wrap, and
  a worker reads in the middle of a status. Correct means: an ordered, complete
  stream without duplicates, and what was written is delivered.

`PROJECT.json` lists the hazards at the lines where they bite. A hazard without a
property, or with a note, is one that the properties except or do not reach: among
them timers of the automatic demo of zero or in the wrong order, a removal of a UE
that TXRX keeps from its worker, a stop before the PRACH thread's first instruction,
and the retransmissions that `Repaired` excepts.

## 2. Modules

    RanRicLink <- RicServer <- AlphaServer        -> implements BeamWeight
                            <- AlphaServerToggle
    SfPipeline                                    -> implements TxStream
    PrachWorker
    TimerWheel <- RrcRlf <- MCRrcRlf
    EnbConsole <- MCEnbConsole
    RlcAm                                         -> implements RlcService

**RanRicLink** is the eNB's end and the pipes. `SendY1Y2` and `PollAlpha` are
two actions, so the RIC and the I/O threads run between them. A pipe is a
sequence bounded by `HWM`; `Publish` drops when there is no peer or no room.
`Transmit` is the I/O thread writing the oldest body: since `send_y1y2` gives
zmq a pointer into an `sbuffer` that is destroyed on return (no free function
means no copy), the body is the sounding it was built for, the one last packed
into the same allocation, or `Garbage` that `unpackb` rejects. A body
overwritten in its middle only is counted as the sounding it started as.

**RicServer** is the loop both scripts share. A sounding is identified by the
age of the server at which it was taken; a weight by the server it came from
(`life`) and the number of samples its average sums (`num`; 0 is the dummy
reply `[0, 0]`). Within one server the sum only grows, so `num` identifies the
average. One iteration is `HandleWith` (receive ... send) and `Stamp`
(`elapsed_time = time.time() - start_time`). Time is counted in soundings and
saturates at `AgeCap`; `samples` and `late` are history variables. `Kill`,
`Restart` are the operator's; `Raise`, in the modules below, is a Python
exception that ends the loop. A dying server takes its pipes along; of the
weights on their way a prefix still arrives (`LoseRic`).

**AlphaServer** adds Timer 2 and what is replied, **AlphaServerToggle** the
button, `final_alpha` and its three ways to end in an exception.

**BeamWeight** says what the demo promises of the weight alone: a server
engages nulling at most once, with one estimate; only a later server changes
the weight again. `AlphaServer!BeamSpec` is the refinement (`weight <- alpha`).

**SfPipeline** has a program counter for the TXRX thread (`txPc`), each worker
(`wpc`), the main thread in `phy::stop` (`mainPc`) and the stack thread in
`phy::rem_rnti` (`remPc`); one action per critical section. Condition variables
appear as guards, which is right here because every change a waiter waits for
is notified to all while the waiter's mutex is held. `buf[w]` is the subframe
whose signal the worker's transmit buffer holds, `txBuffer` the workers whose
buffers the combined buffer points to, so that a buffer overwritten too early
shows in what goes on air. Any worker may fail its uplink, downlink or
scheduling (`sig`). The semaphore tests `fifo.empty() or front == id`, as
`MayPass` does; `slot_sync` is a second one that orders the NR scheduler calls.
**TxStream** is the promise to the radio; `StreamSpec` is safety, `StreamFair`
says that no burst is missing.

**PrachWorker** is one carrier's random-access detector. `NewTti` is the whole
of `new_tti`: allocate, copy, count, push or examine inline. The PRACH thread
has a program counter (`wpc`): the buffer it popped is its own from `Pop` to
`Examine`, while TXRX goes on. `buf[x].sf` holds the TTI of each subframe
copied, so that a buffer overwritten or reused too early shows; `reset()`
leaves the samples. Both ways to run it (`args.nof_prach_threads` 0 or not) are
initial states. The opportunities are a set of TTIs, at least a preamble
apart; `Room` is how many subframes `sf_buffer_sz` samples hold (4 at 100 PRB,
where the longest preamble has 3).

**TimerWheel** is `timer_handler`. Each public operation holds the mutex and is
one action; so is one iteration of `step_all`'s walk, whose iterator `it` is
moved past a timer before its callback runs. While `phase = "callback"` the
mutex is free, and `Client` lets the callback, or any thread, do anything to
any timer. `NextOf` of a timer that left its list is the end, which is what
the unlinked node's null `next` makes of `++it`. The clock wraps at `TicMod`
(2^32 in the code), the wheel at `WheelSize`. `touched` is a history variable:
whether the list being walked changed under the iterator.

**RrcRlf** uses it through INSTANCE: two timers of two UEs each, KOs and OKs,
`rlf_timer_expired` (which stops the UE's other timers one mutex acquisition at
a time: `todo`), and the UE's removal. The stack thread runs the step of the
timers and the commands of MAC and RLC one after the other, as
`tti_clock_impl` does. Handover is left out.

**EnbConsole** is the process from the console to its exit: what is typed and
what is in the stream's buffer, the commands, the signal handler and its alarm,
the metrics thread and the question it asks the stack thread, and main's sequence
of stops and joins. The input thread (`inPc`) tests the flag (`CheckRunning`), polls
the descriptor (`PollEnds`) and reads the stream (`ReadLine`): three steps, and the
signal may come between any two, so that a line typed after it may still be
executed. `part` is the start of a line, which a pipe may deliver first: `poll`
sees it, and `getline` then waits for the rest. Time is not modelled: a `sleep`
ends before the alarm or does not. Stopping the PHY is one step there, as
SfPipeline has it in detail.

**RlcAm** is a bearer of LTE's acknowledged mode between two entities that run
the same code; transmitter and receiver state are kept apart. The stack thread
gives up the mutex after each SN of a status (`Nacked`, `Acked`), so workers
read in between. `data` and `statuses` are the two directions of HARQ, which
loses PDUs and lets one overtake another once, provided it is at most `Reach`
SDUs ahead of it. An SDU fills a PDU. Padding is on (console command `p`), which
takes the buffer-state reports out of the picture.
**RlcService** is the ordered stream it promises; `ServiceSpec` is the
refinement (`written`, `delivered`).

Definitions headed *Mutant* are plausible defects kept next to the definition
they would replace; no specification uses them.

## 3. Runs

| Run | Shows |
|---|---|
| `auto` | two servers in succession: order and origin of weights, at most one late sample, constant delay, refinement of BeamWeight; a server that keeps running has the eNB null the jammer for good |
| `toggle` | one closed estimate per server; the button is obeyed while the receive thread lives |
| `toggle_button` | violation: a first press after Timer 1 can end the receive thread |
| `pipeline` | LTE with NR, a UE removal and a stop at any moment: order, completeness, buffer reuse, exclusive removal, draining; every subframe is transmitted and `stop` returns |
| `prach` | a buffer has one owner, the detector reads whole preambles in order, none is forgotten, `stop` returns; detections may fail |
| `timers` | a timer is linked exactly while it runs; a walk whose list nobody changed calls what is due and nothing else |
| `rrc_rlf` | a UE is given up only while its link fails; a due timer is passed over only together with another UE's failure |
| `rrc_rlf_lost` | violation: a radio-link failure that expires together with another UE's is lost |
| `console` | nobody waits for a thread that has ended; a stopped program to which the alarm leaves the time exits by itself, unless the input thread plots or has read the start of a line only; the alarm ends it in any case |
| `console_trace` | violation: after the first `t` the second is never read |
| `rlc_am` | the bearer implements an ordered complete stream over a channel that loses and reorders, across the wrap; all is delivered but for three named cases |
| `rlc_am_flush` | violation: a late status clears the queue of a retransmission nobody asks for again |

**Findings.** (1) `rrc_rlf_lost`: `rlf_timer_expired` stops its UE's timers from
inside the walk over the wheel's list; when the next one in the list is among
them the iterator stands on an unlinked node, and every timer behind it,
another UE's included, is passed over. It stays running with its deadline in
the past, for 2^32 TTIs, and as KOs are not counted while it runs, the failure
of that UE is never noticed; the stopped timer is called although it was
stopped. `MissedOnlyWithAnother` shows that a UE alone is always served.
(2) `console_trace`: `t` joins the plot thread, whose loop has no end, in the
input thread: `t` and `q` are never read again, and the program ends by the
alarm only. (3) `rlc_am_flush`: a status overtaken by another clears the queue
"to avoid unordered SNs, we expect the Rx to request lost PDUs again"; when the
SN it NACKs has been acknowledged by then, nothing is queued instead, the poll
timer has expired and is not restarted, and the receiver, sent no poll, asks
for nothing. (4) `toggle_button`: a button first pressed after Timer 1 but
before a message was handled with a clock that says so reads `final_alpha`
unbound; the thread dies and the button has no effect.

Seen while modelling, and stated by a property that holds: the automatic demo
sums one sounding received after Timer 1, as `elapsed_time` is stale by one
iteration (`AtMostOneLateSample`: never more); a delay of the weight, once
there, is permanent (`NoCatchUp`), the comment "Flush any remaining data at the
subscriber socket" (alpha_compute_server.py:80) being about parts of one
message; `tx_hold` is shared by all subframes, so a worker not scheduled in
time is held for the next one as well, at the cost of a worker for a subframe
(`StreamFair`: nothing is lost). signal_handler.cc:45 has a second signal
handled by the default handler; the code keeps its own and ignores it
(`Stopping`), which `ShutdownEnds` shows to be harmless as the alarm is set. main
joins the input thread before it stops anything: `t`, `sleep N` with N > 5
(main.cc:521) and the start of a line on a pipe keep that thread, so that after
five seconds the alarm kills the process with PHY, radio and stack still running
(`ExitsUnlessHeldUp` names the first and the last, its premise the second). A line
typed within the second after the signal is still executed, a `t` included.

**Bounds.** `HWM` 1 or 2: full, empty and partly filled pipes, two replies in
one pipe so that their order matters. `Timer1 = 1`, `Timer2 = 2`, `AgeCap` one
above the last age compared. `MaxLives = 2`: a server and its successor, whose
weights meet at the eNB. `NofLte`, `NofNr` 2 and `MaxTti` 2: two workers of
each pool busy at once, with the stop in every place; reuse of a worker for a
third subframe was checked with `MaxTti` 3 and 4 (safety) while the model was
built and repeats these states with larger numbers, and the proofs below cover
every number. `MaxRem = 1`: one removal visits every worker, and one runs at a
time because the stack has one thread. PRACH: two buffers (one filled while the
other is examined, and none left), preambles of two subframes, opportunities
both adjacent and apart, and four of them so that buffers are reused. Timers:
three of them, so that one in a list can be before, at and behind the iterator;
two slots and a clock of two turns, durations of a whole turn and more. RLF: a
list of four timers of two UEs; one KO too many is `MaxKo + 1 = 2`. Console:
three lines, of one command or two, which is more than the commands can use
once `t` or `q` is among them. RLC: `Window = 3` is half of the modulus, as 512
is of 1024; `First = 5`, the last SN before the wrap; three SDUs fill the
window in `rlc_am_flush`. `rlc_am` takes `Window = 2` and four SDUs instead, so
that the window fills and moves on by a whole window, which brings copies of old
PDUs and late statuses to where they could be taken for new ones; its `First = 2`
has the numbers wrap half way. Two PDUs in flight in each direction, one of which
overtakes; one loss, which is what separates delivery from the three cases.
`Ring = Window + 1`, where the code's ring has as many entries as the window and
holds one PDU less: with `Window = Ring = 2` that is a single one, a second push
makes the ring look empty (rlc_am_data_structs.h:398 has an assert for it), and
TLC finds `Repaired` violated: t-PollRetransmit queues `vt_a` twice, the ring
forgets both, and the last SDU, lost meanwhile, waits. In the code that takes 511
queued PDUs. The proofs, which are of safety, hold for every ring.

In the model a PDU is overtaken at most once, and by the PDU right behind it; HARQ
is wider: several may overtake, or one from further behind. What is checked and
proved of the RLC, `ImplementsService` included, is for the narrower channel.

`Reach < Window` in both runs and in the proofs is a statement about HARQ, not
about the RLC: a PDU is transmitted `max_harq_tx` = 4 times at most
(`rr.conf.example`), 8 ms apart, so that of the order of 24 others, one for each
TTI, can overtake it, where the window is 512. It is needed. With
`Window = 2, Reach = 2, MaxSdus = 4` and the other constants of `rlc_am`, TLC
finds SDU 1 delivered a second time: a full window with an empty queue sends the
PDU of `vt_a` again at *every* opportunity (rlc_am_lte.cc:301-304; TS 36.322
5.2.2.3 asks for it when t-PollRetransmit expires), and a copy that is overtaken
by the PDU a window ahead of it arrives at a receiver that takes its SN for a new
one.

**Fairness.** Weak fairness for what a thread does once it can: the radio
delivers subframes, zmq transmits and reconnects, the RIC's loop has no other
wait than its poll, workers and TXRX run, `phy::stop` proceeds. No fairness
for the operator (Kill, Restart, button, stop, what is typed) or for a UE
leaving. `pipeline` relies on weak fairness of `wait_worker_id` being enough,
which it is because the run of subframes is finite there: TXRX takes whichever
worker is idle first, so no bound on that wait could be had. The PRACH thread
gets to run, and a detection terminates; `StopReturns` there excepts a stop
that comes before the thread's first instruction, where the code does hang.
The console's threads run; the alarm is fair only in the premise of
`ShutdownEnds`. `ExitsUnlessHeldUp` has the opposite premise, that the alarm does
not kill: it is about a `sleep` that ends in time, and says nothing of one that
does not. RLC: the MACs go on
giving opportunities, timers expire, the stack thread is fair, strongly
for statuses, which wait while its other work lasts; losses are bounded.
`Stopped` in SfPipeline and `Done` in EnbConsole are terminated states, as
self-loops.

## 4. Proofs

All theorems hold for every value of the constants that the named assumptions
allow. Each inductive invariant was checked with TLC on the constants of its run
before it was proved.

**RicServer_proofs** (assumptions `HWMAssumption`, `RicAssumption`,
`Timer2Assumption`) is about both demos. What they share, the types and the clock
of the server and the things a step can do to its pipe, is proved once.

*Automatic demo:* `TypeCorrect`; `OneLateSample`; `NeverCatchesUp` (the action
property `NoCatchUp`); and, under the further premise `Timer1 <= Timer2` (argv is
not checked; with Timer 2 first the average still moves while it is applied),
`Ordered`, `NullAfterTimer2` and `ImplementsBeamWeight`. `WeightsInOrder` is not
inductive: that a new reply follows those in the pipe depends on where they came
from. `IInv` adds `ServedInv` (every weight still visible is an older server's, or
zeros, or the present average of a server whose *stored* clock has passed Timer 2)
and `ClockInv` (the stored clock is never ahead). Since Timer 2 >= Timer 1 the sum
is closed by then, so the next reply equals the last. `PipeSteps` reduces the
actions to the four things a step can do to `alpha` and the pipe, and the
invariance and refinement proofs split on those.

*Manual demo* (definitions named `Manual...`): `ManualTypeCorrect`,
`ManualOneLateSample` and `OneEstimate`: a server has one closed estimate, whenever
the button is pressed. `TInv` relates `final_alpha` to the sum, which no longer
grows once the stored clock has passed Timer 1.

**PrachWorker_proofs** proves `TypeCorrect`, `SoleOwner` (`OwnedOnce`),
`WholePreambles` (`PreambleIntact`) and `InOrder` (`DueInOrder`) for every pool
size, preamble length and set of opportunities that `PrachAssumption` allows.
The first three need each other: that a buffer has room, and so that a capture
never gets stuck, rests on free buffers being empty; that a preamble is not
overwritten rests on ownership; and ownership on the thread meeting neither
nullptr nor a cleared flag before `stop` (`ThreadInv`). `PInv` is their
conjunction with `CaptureInv`. For the order, `OInv` adds `ProgressInv` (an
opportunity whose subframes are arriving is being captured, or was passed);
each step leaves the captures alone, moves one from the queue to the thread's
hand or from there to the examined ones, or adds the one opportunity that has
become due, which is later than all others (`Keep`, `MoreOrder`).

**TimerWheel_proofs** proves `TypeCorrect`, `WheelCorrect` (`WheelOK`),
`AllDueCalled` and `NoStrayCallback` for any set of timers, wheel, clock range
and durations. `WInv` is `WheelOK` with types; each operation pushes, unlinks
or moves one timer, and a lemma for each says what becomes of the lists. The
action properties rest on `Ahead`: in a walk whose list nobody touched, every due
timer is at the iterator or behind it, and the iterator is in the list.

**RrcRlf_proofs** proves `TypeCorrect`, `WheelCorrect` (the wheel's `WheelOK`, of
the UEs' timers), `FailureReal` (`FailureIsReal`) and `OnlyWithAnother`
(`MissedOnlyWithAnother`) for any number of UEs, any of their timers, any wheel and
any durations. RrcRlf is a client of TimerWheel, so its proof is one of
TimerWheel_proofs: `TW` instantiates it, `WheelAssumed` shows that its assumption
follows from `RlfAssumption`, and each step of the RRC is an operation there or
leaves the timers alone (`WheelKept`). The two action properties need each other's
history. While step_all walks, only `rlf_timer_expired` changes its list, so that a
list that was touched has a timer that *failed*: it expired in this TTI, and of its
UE no timer runs that the callback is not about to stop (`Failed`, `CallbackInv`,
`MissedInv`). A timer that is passed over still runs, and is therefore another UE's.
The iterator may have been left on a timer that the callback stopped; it is then one
of a UE whose link fails (`IteratorInv`), and so is a UE whose direction's timer
runs (`LinkInv`). That the list was not touched, and the iterator therefore is on a
running timer and no due one is behind it, is the wheel's `Ahead`.

**EnbConsole_proofs** proves `TypeCorrect` and `NoWaiterLeft`
(`NobodyLeftWaiting`). `Order` says which thread has ended by the time main is
where it is; `IInv` adds that a question is out exactly while the metrics
thread waits.

**SfPipeline_proofs** proves every safety property of the pipeline for pools of
any size, any number of subframes and of UEs removed: `TypeCorrect`,
`RemovesAlone` (`RemovalExclusive`), `HeldBack` (`HeldUntilSent`), `AllCombined`
(`NothingLeftOut`), `StopsDrained` (`DrainedAtStop`), `SchedulesInOrder`
(`SchedInOrder`), and `Streams`: the pipeline implements TxStream. None of these
is inductive. `HoldInv` comes first: a worker's status and the place of its
thread agree, at most one of TXRX and the stack thread holds it, a pool is
stopped only after TXRX has ended and the semaphore has drained, and the
semaphore holds exactly the workers between push and release, each once
(`FifoInv`). `OrderInv` adds that the semaphore is ordered by subframe, NR before
LTE, from the subframe after the last transmitted, and that every subframe up to
the present one has its last worker in it or in TXRX's hands; so the first
worker's subframe is `air.tti + 1` (`HeadCtx`), which gives the stream.
`SignalInv` follows a signal from its worker through `tx_buffer` to the radio: a
worker that combined waits for the `tx_hold` of its own subframe, because
`tx_hold` is only cleared while `tx_buffer` is empty. `SyncInv` is the order of
`slot_sync`, which the NR scheduler follows.

**RlcAm_proofs** proves `TypeCorrect`, `NothingLost` (`NothingForgotten`) and
`ImplementsService`: the bearer implements RlcService. They hold for any window,
ring, poll period and first SN, any number of SDUs, of PDUs in flight and of
losses, under the one premise `Reach < Window`. The code compares SNs, which come
round; the proof counts SDUs, which do not: `At(p)` is the SN that follows `p`
SDUs, and `Distance`, `Ahead`, `Behind` and `SameSn` turn the comparisons modulo
`2 * Window` back into comparisons of numbers less than a window apart. None of
the three is inductive. `IInv` says:

* of the transmitter (`TxInv(a)`): `vt_a` is past `a` SDUs, the window holds what
  has not been cleared, each at its own SN, and what has been cleared has been
  received;
* of the receiver (`RxInv`): it has delivered 1, 2, ..., `Done`, and `vr_ms`,
  `vr_h` and, while the reordering timer runs, `vr_x` stand for numbers in
  `Done .. Done + Window`;
* of the data PDUs (`DataInv`): each is *young*, nothing that is a window ahead of
  it having been received, and so is every PDU with respect to those behind it.
  This is what `Reach < Window` preserves when a PDU is overtaken, and what a new
  PDU gets from `window_full`;
* of the statuses (`StatusInv(g)`): each is true of what has been received when it
  was sent, and so for ever after; they are in the order of what they say, and none
  acknowledges the SDU at which a later one will leave `vt_a`, but for one that was
  overtaken, which meets a NACK before it could move `vt_a`;
* of the stack thread (`StackInv(a, g)`): half way through a status the SNs already
  dealt with are cleared or NACKed, and `g` is where `vt_a` will be at its end. The
  SDU after `g` is in the window (`Waiting`), which is what makes `vt_a` point to a
  PDU afterwards; a worker reading in between changes none of this.

Each action is shown to keep the four parts (`...Safe`) and the types (`...Types`).
`GapForm` says what the search for the first gap of a cyclic window finds;
`StatusPduForm` and `SentTrue` that a status is true however many NACKs it has room
for; `Least` and `Greatest`, from the well-foundedness of the naturals, that the
code's loops stop at the element they look for.

Every safety and action property of the passing runs is proved. Only
model-checked: liveness (`NullingEventually`, `ButtonObeyedWhileAlive`,
`StreamFair`, `DueExamined`, both `StopReturns`, `ExitsUnlessHeldUp`,
`ShutdownEnds`, `Repaired`), which is out of the prover's reach.

## 5. Not modelled

The repository is a fork of srsRAN with BeamArmor's changes in a few files.
Of its 836,000 lines, more than half are generated ASN.1 codecs
(`lib/src/asn1`, `lib/include/srsran/asn1`) and most of the rest is signal
processing, FEC, the UE, the gNB and the EPC, none of which the anti-jamming
loop touches; the models cover BeamArmor's own control and the concurrent parts
of the eNB under it, and do not aim at a share of the whole.

* DSP, sample values, `compute_alpha`, channel emulators, timestamps, worker
  configuration (where `set_common_cfg` does not release the worker it reserved
  when a configuration is refused), and the interval of 40 instead of 50 TTIs
  at the wrap of the TTI counter. A clock that jumps (`time.time()` is not
  monotonic).
* Console: what the commands do beyond waiting and signalling, the contents of
  the metrics, and the globals the plot thread reads without a lock.
* Timers: `stop_all`, which the eNB never calls, and `defer_callback` (alloc,
  set, run, and a release from the callback, each of which is modelled).
* RRC: its procedures; KOs during handover.
* RLC: segmentation, concatenation, the retransmission limit, discard,
  re-establishment, t-StatusProhibit (it only delays) and the buffer-state
  reports; the other modes and NR. `Repaired` names three cases in which the
  bearer sleeps until more is written: a lost retransmission that carried no
  poll (`build_retx_pdu` asks before the PDU leaves the queue), a worker that
  gave one up in the middle of a status, and finding 3.
* The stack's task queues beyond the tasks named above, MAC scheduler and HARQ,
  PDCP, S1AP, GTP-U, EPC, UE, gNB, PHY library, ASN.1, scripts.

## 6. What could come next

HARQ processes under the RLC model in place of its lossy channel; the NR
configuration path of the worker pools, whose refusal leaks a worker; the
buffer-state reports of `rlc.cc`, without padding; and segments in RlcAm.
