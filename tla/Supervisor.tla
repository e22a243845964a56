----------------------------- MODULE Supervisor -----------------------------
(***************************************************************************)
(* device-service (userspace/device-service): the supervisor's state       *)
(* machine with its event queue, the acquisition thread, the watchdog, the *)
(* control socket, and the start and shutdown of the process around them.  *)
(*                                                                         *)
(* A step is a thread's work between two points where another thread's     *)
(* writes can matter.  Time is abstracted to what a clock comparison can   *)
(* tell apart: silent says that liveness_timeout has passed since the last *)
(* sample, rearm() or report, and a deadline may pass at any moment.       *)
(*                                                                         *)
(* Name_Fault just before Name is Name with a fault in it, used by no      *)
(* action: it serves to show that a property notices the fault.            *)
(***************************************************************************)
EXTENDS Integers, Sequences, FiniteSets

CONSTANTS
  MaxAttempts,   \* max_recovery_attempts
  Kfifo,         \* samples the driver buffers (bound: 128 in the driver)
  Capacity,      \* buffer_capacity of the ring buffer
  MaxQueue,      \* bound: queued events above which the watchdog is late
  MaxRequests,   \* bound: operator commands
  Faults,        \* the kinds of fault that may happen
  MaxFaults,     \* bound: faults
  EarlySignal,   \* SIGTERM may arrive before the threads are started
  None

ASSUME SupervisorConstants ==
  /\ MaxAttempts \in Nat /\ Kfifo \in Nat \ {0} /\ Capacity \in Nat \ {0}
  /\ MaxQueue \in Nat /\ MaxRequests \in Nat /\ MaxFaults \in Nat
  /\ Faults \subseteq {"link", "detach", "reset", "stall", "read", "kill"}
  /\ EarlySignal \in BOOLEAN

VARIABLES
  \* the device, as the service sees it through sysfs and /dev/acq0
  attached,       \* the driver is bound: its attributes can be opened
  link,           \* SPI transfers are answered by the MCU
  mcu,            \* what acquisition on the MCU is: "on", "off" or "stuck"
  kfifo,          \* samples in the driver's kfifo
  written,        \* control: the last value whose write returned, and how
                  \* the last write ended
  \* Supervisor
  state, queue, stop_pending, busy,
  evidence,       \* the current Fault has been recorded
  sv,             \* the supervisor thread: what it executes, and its locals
  \* AcquisitionWorker and RingBuffer
  worker,         \* the acquisition thread
  failed, stop_requested, calibrator,
  fresh,          \* samples_read() > before, of run_recovery()
  silent,         \* now - max(last_sample_time(), last_report_) >= timeout_
  count, stopped,
  \* Watchdog, ControlServer, the signal thread and main()
  watchdog, control, signal, main,
  requests, faults

device  == <<attached, link, mcu, kfifo, written>>
machine == <<state, queue, stop_pending, busy, evidence, sv>>
reader  == <<worker, failed, stop_requested, calibrator, fresh, silent>>
buffer  == <<count, stopped>>
others  == <<watchdog, control>>
process == <<signal, main>>
bounds  == <<requests, faults>>
vars    == <<device, machine, reader, buffer, others, process, bounds>>

States == {"Init", "Ready", "Running", "Paused", "Calibrating", "Recovering",
           "Fault", "Stopped"}
Commands == {"Start", "Pause", "Resume", "Calibrate", "Reset"}
Events == Commands \cup {"InitOk", "CalibrationDone", "Stall", "DeviceError",
                         "Recovered", "RecoveryFailed", "Stop"}

-----------------------------------------------------------------------------
(* The transition table.                                                   *)

Table == {
  <<"Init", "InitOk", "Ready">>,
  <<"Ready", "Start", "Running">>,
  <<"Ready", "Calibrate", "Calibrating">>,
  <<"Ready", "DeviceError", "Fault">>,
  <<"Running", "Pause", "Paused">>,
  <<"Running", "Stall", "Recovering">>,
  <<"Running", "DeviceError", "Fault">>,
  <<"Paused", "Resume", "Running">>,
  <<"Paused", "Calibrate", "Calibrating">>,
  <<"Paused", "DeviceError", "Fault">>,
  <<"Calibrating", "CalibrationDone", "Ready">>,
  <<"Calibrating", "DeviceError", "Fault">>,
  <<"Recovering", "Recovered", "Running">>,
  <<"Recovering", "RecoveryFailed", "Fault">>,
  <<"Fault", "Reset", "Recovering">>}

transition_Fault(from, e) ==
  {t \in States : <<from, e, t>> \in Table}
    \cup (IF e = "Stop" THEN {"Stopped"} \ {from} ELSE {})
    \cup (IF from = "Fault" /\ e = "Start" THEN {"Recovering"} ELSE {})

(* The state e leads to from `from`, as a set: empty when there is none.   *)
transition(from, e) ==
  {t \in States : <<from, e, t>> \in Table}
    \cup (IF e = "Stop" THEN {"Stopped"} \ {from} ELSE {})

-----------------------------------------------------------------------------
(* The process when it is started, and the device behind it.               *)

IdleThread == [pc |-> "none", ev |-> "InitOk",
               to |-> "Init", attempt |-> 0]

(* The memory of a new process: what main() constructs before any thread   *)
(* of it runs.                                                             *)
Constructed ==
  /\ state = "Init" /\ queue = <<>> /\ stop_pending = FALSE /\ busy = FALSE
  /\ evidence = FALSE /\ sv = IdleThread
  /\ worker = "none" /\ failed = FALSE /\ stop_requested = FALSE
  /\ calibrator = FALSE /\ fresh = FALSE /\ silent = FALSE
  /\ count = 0 /\ stopped = FALSE
  /\ watchdog = "idle" /\ control = None
  /\ signal = "wait" /\ written = [val |-> None, res |-> None]

Init ==
  /\ Constructed
  /\ main = "down"
  /\ attached = TRUE /\ link = TRUE /\ mcu = "off" /\ kfifo = 0
  /\ requests = 0 /\ faults = 0

(* write_sysfs("control", v): only a failure to open the attribute throws. *)
(* The value sits in the stream's buffer when the stream is tested, and    *)
(* what the driver answers when the destructor flushes it is discarded.    *)
Writes(v) ==
  LET made == IF v = 1 THEN "on" ELSE "off"
  IN  /\ attached
      /\ mcu' \in IF link THEN {made} ELSE {mcu, made}
      /\ written' = [val |-> v, res |-> IF link THEN "ok" ELSE "lost"]
      /\ UNCHANGED <<attached, link, kfifo>>

Throws ==
  /\ ~attached
  /\ written' = [written EXCEPT !.res = "threw"]
  /\ UNCHANGED <<attached, link, mcu, kfifo>>

(* A device_id that differs from the one read at startup counts as a       *)
(* failed probe, and a dead link reads as zero.                            *)
Answers == attached /\ link

-----------------------------------------------------------------------------
(* Posting events.                                                         *)

post(e) ==
  /\ queue' = Append(queue, e)
  /\ stop_pending' = (stop_pending \/ e = "Stop")

(* request(): the command is checked against the state read on arrival ... *)
Request ==
  /\ main \in {"pop", "join"} /\ control = None
  /\ requests < MaxRequests /\ requests' = requests + 1
  /\ \E e \in Commands :
       /\ transition(state, e) # {}
       /\ control' = e
  /\ UNCHANGED <<device, machine, reader, buffer, watchdog, process,
                 faults>>

(* ... and queued a moment later.                                          *)
RequestPost ==
  /\ control # None
  /\ post(control)
  /\ control' = None
  /\ UNCHANGED <<device, state, busy, evidence, sv, reader, buffer, watchdog, process, bounds>>

Silence ==
  /\ ~silent /\ silent' = TRUE
  /\ UNCHANGED <<device, machine, worker, failed, stop_requested, calibrator,
                 fresh, buffer, others, process, bounds>>

(* check_once(): armed, silent for a timeout, and no report within the     *)
(* last timeout.                                                           *)
CheckOnce ==
  /\ main \in {"pop", "join"} /\ watchdog = "idle" /\ Len(queue) < MaxQueue
  /\ state = "Running" /\ silent
  /\ watchdog' = "report" /\ silent' = FALSE
  /\ UNCHANGED <<device, machine, worker, failed, stop_requested, calibrator,
                 fresh, buffer, control, process, bounds>>

OnStall_Fault ==
  /\ watchdog = "report"
  /\ watchdog' = "idle"
  /\ UNCHANGED <<device, machine, reader, buffer, control, process, bounds>>

OnStall ==
  /\ watchdog = "report"
  /\ queue' = Append(queue, "Stall")
  /\ watchdog' = "idle"
  /\ UNCHANGED <<device, state, stop_pending, busy, evidence, sv, reader,
                 buffer, control, process, bounds>>

-----------------------------------------------------------------------------
(* The acquisition thread: wait_readable() and read_sample(), then push(). *)

WorkerRead ==
  /\ worker = "run" /\ kfifo > 0
  /\ kfifo' = kfifo - 1
  /\ fresh' = TRUE /\ silent' = FALSE /\ worker' = "push"
  /\ UNCHANGED <<attached, link, mcu, written, machine, failed, stop_requested,
                 calibrator, buffer, others, process, bounds>>

WorkerPush_Fault ==
  /\ worker = "push"
  /\ count' = IF stopped THEN count ELSE count + 1
  /\ worker' = IF stop_requested THEN "done" ELSE "run"
  /\ UNCHANGED <<device, machine, failed, stop_requested, calibrator, fresh,
                 silent, stopped, others, process, bounds>>

WorkerPush ==
  /\ worker = "push" /\ (count < Capacity \/ stopped)
  /\ count' = IF stopped THEN count ELSE count + 1
  /\ worker' = IF stop_requested THEN "done" ELSE "run"
  /\ UNCHANGED <<device, machine, failed, stop_requested, calibrator, fresh,
                 silent, stopped, others, process, bounds>>

(* poll() times out, and the loop sees the request to stop.                *)
WorkerExit ==
  /\ worker = "run" /\ kfifo = 0 /\ stop_requested
  /\ worker' = "done"
  /\ UNCHANGED <<device, machine, failed, stop_requested, calibrator, fresh,
                 silent, buffer, others, process, bounds>>

(* poll() or read() on /dev/acq0 fails: run() catches it and the thread    *)
(* ends.                                                                   *)
WorkerError ==
  /\ "read" \in Faults /\ faults < MaxFaults /\ faults' = faults + 1
  /\ worker = "run"
  /\ worker' = "dead" /\ failed' = TRUE
  /\ UNCHANGED <<device, machine, stop_requested, calibrator, fresh, silent,
                 buffer, others, process, requests>>

Joined(thread) == thread \in {"none", "done", "dead"}

-----------------------------------------------------------------------------
(* The supervisor thread.  run(): the next event, or an acquisition thread *)
(* found dead on an idle tick.                                             *)

untouched == <<buffer, others, process, bounds>>

Goto(pc) == sv' = [sv EXCEPT !.pc = pc]

Take ==
  /\ sv.pc = "idle" /\ queue # <<>>
  /\ queue' = Tail(queue)
  /\ sv' = [sv EXCEPT !.pc = "apply", !.ev = Head(queue)]
  /\ busy' = TRUE
  /\ UNCHANGED <<device, state, stop_pending, evidence, reader, untouched>>

Notice_Fault ==
  /\ sv.pc = "idle" /\ queue = <<>>
  /\ failed /\ state = "Running"
  /\ sv' = [sv EXCEPT !.pc = "apply", !.ev = "DeviceError"]
  /\ busy' = TRUE
  /\ UNCHANGED <<device, state, queue, stop_pending, evidence, reader, untouched>>

Notice ==
  /\ sv.pc = "idle" /\ queue = <<>>
  /\ failed /\ state \in {"Ready", "Running", "Paused"}
  /\ sv' = [sv EXCEPT !.pc = "apply", !.ev = "DeviceError"]
  /\ busy' = TRUE
  /\ UNCHANGED <<device, state, queue, stop_pending, evidence, reader, untouched>>

(* apply(): an event without a transition is dropped.                      *)
ApplyDrop ==
  /\ sv.pc = "apply" /\ transition(state, sv.ev) = {}
  /\ Goto("end")
  /\ UNCHANGED <<device, state, queue, stop_pending, busy, evidence, reader,
                 untouched>>

(* prepare(): the device action that makes the new state true.             *)
NoAction(to) ==
  /\ \/ to \notin {"Running", "Paused", "Stopped"}
     \/ to = "Running" /\ state \notin {"Ready", "Paused"}
  /\ UNCHANGED <<device, silent>>

Prepare_Fault ==
  /\ sv.pc = "apply"
  /\ \E to \in transition(state, sv.ev) :
       /\ \/ NoAction(to)
          \/ /\ to = "Running" /\ state \in {"Ready", "Paused"}
             /\ silent' = FALSE
             /\ Writes(1) \/ Throws
          \/ /\ to \in {"Paused", "Stopped"}
             /\ UNCHANGED silent
             /\ Writes(0) \/ Throws
       /\ sv' = [sv EXCEPT !.pc = "publish", !.to = to]
  /\ UNCHANGED <<state, queue, stop_pending, busy, evidence, worker, failed,
                 stop_requested, calibrator, fresh, untouched>>

Prepare ==
  /\ sv.pc = "apply"
  /\ \E to \in transition(state, sv.ev) :
       /\ \/ NoAction(to)
          \/ /\ to = "Running" /\ state \in {"Ready", "Paused"}
             /\ silent' = FALSE
             /\ Writes(1)
          \/ /\ to \in {"Paused", "Stopped"}
             /\ UNCHANGED silent
             /\ Writes(0) \/ (to = "Stopped" /\ Throws)
       /\ sv' = [sv EXCEPT !.pc = "publish", !.to = to]
  /\ UNCHANGED <<state, queue, stop_pending, busy, evidence, worker, failed,
                 stop_requested, calibrator, fresh, untouched>>

(* prepare() threw: the event becomes DeviceError.                         *)
PrepareThrows ==
  /\ sv.pc = "apply"
  /\ \E to \in transition(state, sv.ev) :
       \/ /\ to = "Running" /\ state \in {"Ready", "Paused"}
          /\ silent' = FALSE /\ Throws
       \/ /\ to = "Paused"
          /\ UNCHANGED silent /\ Throws
  /\ sv' = [sv EXCEPT !.ev = "DeviceError"]
  /\ UNCHANGED <<state, queue, stop_pending, busy, evidence, worker, failed,
                 stop_requested, calibrator, fresh, untouched>>

(* The state is published; a long procedure leaves busy_ while it runs.    *)
After(to) ==
  CASE to = "Recovering" -> "attempt" [] to = "Calibrating" -> "nominal"
    [] to = "Fault" -> "fault" [] OTHER -> "end"

Publish_Fault ==
  /\ sv.pc = "publish"
  /\ state' = sv.to
  /\ busy' = FALSE
  /\ evidence' = FALSE
  /\ sv' = [sv EXCEPT !.pc = After(sv.to), !.attempt = 1]
  /\ UNCHANGED <<device, queue, stop_pending, reader, untouched>>

Publish ==
  /\ sv.pc = "publish"
  /\ state' = sv.to
  /\ busy' = (sv.to \notin {"Recovering", "Calibrating"})
  /\ evidence' = FALSE
  /\ sv' = [sv EXCEPT !.pc = After(sv.to), !.attempt = 1]
  /\ UNCHANGED <<device, queue, stop_pending, reader, untouched>>


ApplyEnd ==
  /\ sv.pc = "end"
  /\ busy' = FALSE
  /\ sv' = [IdleThread EXCEPT !.pc = IF state = "Stopped" THEN "exit" ELSE "idle"]
  /\ UNCHANGED <<device, state, queue, stop_pending, evidence, reader, untouched>>

(* enter_fault(): acquisition is stopped and the evidence recorded.        *)
EnterFault ==
  /\ sv.pc = "fault"
  /\ Writes(0) \/ Throws
  /\ Goto("record")
  /\ UNCHANGED <<state, queue, stop_pending, busy, evidence, reader, untouched>>

FaultRecord ==
  /\ sv.pc = "record"
  /\ evidence' = TRUE
  /\ Goto("end")
  /\ UNCHANGED <<device, state, queue, stop_pending, busy, reader, untouched>>

-----------------------------------------------------------------------------
(* run_recovery() and run_calibration(), on the supervisor thread.  Both   *)
(* end with a follow-up event or, when a Stop is pending, with none.       *)

kept == <<state, queue, stop_pending, evidence, untouched>>

Follow(e) ==
  /\ sv' = [sv EXCEPT !.pc = "apply", !.ev = e]
  /\ busy' = TRUE

Quit == Goto("end") /\ busy' = TRUE

Attempt ==
  /\ sv.pc = "attempt"
  /\ IF sv.attempt > MaxAttempts THEN Follow("RecoveryFailed")
     ELSE IF stop_pending THEN Quit
     ELSE Goto("probe") /\ UNCHANGED busy
  /\ UNCHANGED <<device, reader, kept>>

Probe ==
  /\ sv.pc = "probe"
  /\ Goto(IF ~Answers THEN "spent" ELSE IF failed THEN "restart" ELSE "soft")
  /\ UNCHANGED <<device, reader, busy, kept>>

(* The thread is gone: join it, reopen /dev/acq0 and start another.        *)
Restart ==
  /\ sv.pc = "restart"
  /\ IF attached
     THEN /\ stop_requested' = FALSE /\ failed' = FALSE
          /\ worker' = "run" /\ silent' = FALSE
          /\ Goto("soft")
     ELSE /\ stop_requested' = TRUE
          /\ UNCHANGED <<failed, worker, silent>>
          /\ Goto("spent")
  /\ UNCHANGED <<device, calibrator, fresh, busy, kept>>

(* The soft reset: before = samples_read(), control 0, rearm(), control 1. *)
SoftStop ==
  /\ sv.pc = "soft"
  /\ fresh' = FALSE
  /\ \/ Writes(0) /\ Goto("again")
     \/ Throws /\ Goto("spent")
  /\ UNCHANGED <<worker, failed, stop_requested, calibrator, silent, busy, kept>>

SoftStart ==
  /\ sv.pc = "again"
  /\ silent' = FALSE
  /\ \/ Writes(1) /\ Goto("watch")
     \/ Throws /\ Goto("spent")
  /\ UNCHANGED <<worker, failed, stop_requested, calibrator, fresh, busy, kept>>

(* The samples are back, or the thread is dead, or a Stop is pending; or   *)
(* the deadline passes first.                                              *)
Watch_Fault ==
  /\ sv.pc = "watch"
  /\ \/ /\ fresh
        /\ Follow("Recovered")
     \/ /\ ~fresh /\ failed
        /\ Goto("spent") /\ UNCHANGED busy
     \/ /\ ~fresh /\ ~failed
        /\ UNCHANGED <<sv, busy>>
  /\ UNCHANGED <<device, reader, kept>>

Watch ==
  /\ sv.pc = "watch"
  /\ \/ /\ fresh
        /\ Follow("Recovered")
     \/ /\ ~fresh /\ ~failed /\ stop_pending
        /\ Quit
     \/ /\ Goto("spent") /\ UNCHANGED busy
  /\ UNCHANGED <<device, reader, kept>>


Backoff ==
  /\ sv.pc = "spent"
  /\ IF sv.attempt < MaxAttempts /\ stop_pending
     THEN Quit
     ELSE /\ sv' = [sv EXCEPT !.pc = "attempt", !.attempt = @ + 1]
          /\ UNCHANGED busy
  /\ UNCHANGED <<device, reader, kept>>

(* read_sample_rate() needs the link; then every sample goes to the        *)
(* calibrator.                                                             *)
Nominal ==
  /\ sv.pc = "nominal"
  /\ IF Answers
     THEN calibrator' = TRUE /\ Goto("produce") /\ UNCHANGED busy
     ELSE UNCHANGED calibrator /\ Follow("DeviceError")
  /\ UNCHANGED <<device, worker, failed, stop_requested, fresh, silent, kept>>

Produce ==
  /\ sv.pc = "produce"
  /\ \/ Writes(1) /\ Goto("measure") /\ UNCHANGED busy
     \/ Throws /\ Follow("DeviceError")
  /\ UNCHANGED <<reader, kept>>

(* The duration passes, or the procedure is interrupted.                   *)
Measure ==
  /\ sv.pc = "measure"
  /\ \/ Goto("measured")
     \/ (failed \/ stop_pending) /\ Goto("interrupted")
  /\ calibrator' = FALSE
  /\ UNCHANGED <<device, worker, failed, stop_requested, fresh, silent, busy,
                 kept>>

Measured ==
  /\ sv.pc \in {"measured", "interrupted"}
  /\ \/ /\ Writes(0)
        /\ IF failed THEN Follow("DeviceError")
           ELSE IF sv.pc = "interrupted" THEN Quit
           ELSE Follow("CalibrationDone")
     \/ /\ Throws
        /\ Follow("DeviceError")
  /\ UNCHANGED <<reader, kept>>

-----------------------------------------------------------------------------
(* main(): the threads are started in this order.                          *)

inside == <<device, machine, reader, buffer, others, bounds>>

(* The startup probe; systemd starts the service again while it fails.     *)
Boot ==
  /\ main = "down" /\ Answers
  /\ main' = "boot"
  /\ UNCHANGED <<inside, signal>>

WorkerStart ==
  /\ main = "boot"
  /\ worker' = "run" /\ silent' = FALSE
  /\ stop_requested' = FALSE /\ failed' = FALSE
  /\ main' = "sup"
  /\ UNCHANGED <<device, machine, calibrator, fresh, buffer, others, signal,
                 bounds>>

(* supervisor.start() and the first events; autostart or not.              *)
SupervisorStart ==
  /\ main = "sup"
  /\ Goto("idle")
  /\ queue' \in {<<"InitOk">>, <<"InitOk", "Start">>}
  /\ main' = "pop"
  /\ UNCHANGED <<device, state, stop_pending, busy, evidence, reader, buffer,
                 others, signal, bounds>>

Pop ==
  /\ main = "pop" /\ count > 0
  /\ count' = count - 1
  /\ UNCHANGED <<device, machine, reader, stopped, others, process, bounds>>

Drained ==
  /\ main = "pop" /\ count = 0 /\ stopped
  /\ main' = "join"
  /\ UNCHANGED <<inside, signal>>

(* The signal thread, the control socket and the watchdog are joined.      *)
JoinAll ==
  /\ main = "join" /\ signal = "done" /\ control = None /\ watchdog = "idle"
  /\ main' = "stop"
  /\ UNCHANGED <<inside, signal>>

(* Supervisor::stop(), called by the signal thread and by the destructor.  *)
StopPosts ==
  IF state # "Stopped" /\ sv.pc \notin {"none", "joined"}
  THEN post("Stop")
  ELSE UNCHANGED <<queue, stop_pending>>

StopJoins == sv.pc \in {"exit", "joined"} /\ Goto("joined")

Destroy ==
  /\ \/ /\ main = "stop" /\ main' = "supjoin"
        /\ StopPosts /\ UNCHANGED <<sv, stop_requested>>
     \/ /\ main = "supjoin" /\ main' = "wstop"
        /\ StopJoins /\ UNCHANGED <<queue, stop_pending, stop_requested>>
     \/ /\ main = "wstop" /\ main' = "wjoin"
        /\ stop_requested' = TRUE /\ UNCHANGED <<queue, stop_pending, sv>>
     \/ /\ main = "wjoin" /\ Joined(worker) /\ main' = "exit"
        /\ UNCHANGED <<queue, stop_pending, sv, stop_requested>>
  /\ UNCHANGED <<device, state, busy, evidence, worker, failed, calibrator,
                 fresh, silent, buffer, others, signal, bounds>>

(* SIGTERM, from the moment the signal thread exists.                      *)
Sigterm ==
  /\ main \notin {"down", "exit"} /\ signal = "wait"
  /\ main \in {"boot", "sup"} => EarlySignal
  /\ signal' = "stop"
  /\ UNCHANGED <<inside, main>>

(* The signal thread: the supervisor, then the buffer, then the worker.    *)
Shutdown ==
  /\ \/ /\ signal = "stop"
        /\ StopPosts
        /\ signal' = IF sv.pc \in {"none", "joined"} THEN "buffer" ELSE "supjoin"
        /\ UNCHANGED <<sv, stop_requested, stopped>>
     \/ /\ signal = "supjoin" /\ signal' = "buffer"
        /\ StopJoins /\ UNCHANGED <<queue, stop_pending, stop_requested, stopped>>
     \/ /\ signal = "buffer" /\ signal' = "wstop"
        /\ stopped' = TRUE
        /\ UNCHANGED <<queue, stop_pending, sv, stop_requested>>
     \/ /\ signal = "wstop" /\ signal' = "wjoin"
        /\ stop_requested' = TRUE
        /\ UNCHANGED <<queue, stop_pending, sv, stopped>>
     \/ /\ signal = "wjoin" /\ Joined(worker) /\ signal' = "done"
        /\ UNCHANGED <<queue, stop_pending, sv, stop_requested, stopped>>
  /\ UNCHANGED <<device, state, busy, evidence, worker, failed, calibrator,
                 fresh, silent, count, others, main, bounds>>

-----------------------------------------------------------------------------
(* The device and its faults.                                              *)

within == <<machine, reader, buffer, others, process, written, requests>>

(* A sample reaches the kfifo; a full kfifo drops one.                     *)
Produced ==
  /\ mcu = "on" /\ Answers /\ kfifo < Kfifo
  /\ kfifo' = kfifo + 1
  /\ UNCHANGED <<attached, link, mcu, faults, within>>

Fault ==
  /\ faults < MaxFaults /\ faults' = faults + 1
  /\ \/ "link" \in Faults /\ link /\ link' = FALSE
        /\ UNCHANGED <<attached, mcu>>
     \/ "detach" \in Faults /\ attached /\ attached' = FALSE
        /\ UNCHANGED <<link, mcu>>
     \/ "reset" \in Faults /\ mcu # "off" /\ mcu' = "off"
        /\ UNCHANGED <<attached, link>>
     \/ "stall" \in Faults /\ mcu = "on" /\ mcu' = "stuck"
        /\ UNCHANGED <<attached, link>>
  /\ UNCHANGED <<kfifo, within>>

Repair ==
  /\ ~link \/ ~attached
  /\ link' = TRUE /\ attached' = TRUE
  /\ UNCHANGED <<mcu, kfifo, faults, within>>

(* The process is killed (SIGKILL, WatchdogSec) and systemd starts it      *)
(* again; the device keeps what it was told.                               *)
Kill ==
  /\ "kill" \in Faults /\ faults < MaxFaults /\ faults' = faults + 1
  /\ main \notin {"down", "exit"}
  /\ main' = "down"
  /\ state' = "Init" /\ queue' = <<>> /\ stop_pending' = FALSE /\ busy' = FALSE
  /\ evidence' = FALSE /\ sv' = IdleThread
  /\ worker' = "none" /\ failed' = FALSE /\ stop_requested' = FALSE
  /\ calibrator' = FALSE /\ fresh' = FALSE /\ silent' = FALSE
  /\ count' = 0 /\ stopped' = FALSE
  /\ watchdog' = "idle" /\ control' = None
  /\ signal' = "wait" /\ written' = [val |-> None, res |-> None]
  /\ UNCHANGED <<attached, link, mcu, kfifo, requests>>

Terminated == main = "exit" /\ UNCHANGED vars

SupervisorThread ==
  \/ Take \/ Notice \/ ApplyDrop \/ Prepare \/ PrepareThrows \/ Publish
  \/ ApplyEnd \/ EnterFault \/ FaultRecord
  \/ Attempt \/ Probe \/ Restart \/ SoftStop \/ SoftStart \/ Watch \/ Backoff
  \/ Nominal \/ Produce \/ Measure \/ Measured

WorkerThread == WorkerRead \/ WorkerPush \/ WorkerExit

WatchdogThread == CheckOnce \/ OnStall

MainThread ==
  \/ Boot \/ WorkerStart \/ SupervisorStart
  \/ Pop \/ Drained \/ JoinAll \/ Destroy

Next ==
  \/ SupervisorThread \/ WorkerThread \/ WatchdogThread \/ MainThread
  \/ Request \/ RequestPost \/ Silence \/ Shutdown \/ Sigterm
  \/ Produced \/ WorkerError \/ Fault \/ Repair \/ Kill \/ Terminated

Spec == Init /\ [][Next]_vars

(* Every thread runs when it can and time passes; operators, signals,      *)
(* faults and repairs owe nothing.                                         *)
Fairness ==
  /\ WF_vars(SupervisorThread) /\ WF_vars(WorkerThread)
  /\ WF_vars(WatchdogThread) /\ WF_vars(MainThread)
  /\ WF_vars(RequestPost) /\ WF_vars(Shutdown)
  /\ WF_vars(Silence)

FairSpec == Spec /\ Fairness

-----------------------------------------------------------------------------
(* Properties.                                                             *)

(* Every variable keeps its type.                                          *)
TypeOK ==
  /\ attached \in BOOLEAN /\ link \in BOOLEAN /\ mcu \in {"on", "off", "stuck"}
  /\ kfifo \in 0..Kfifo
  /\ written.val \in {0, 1, None} /\ written.res \in {"ok", "lost", "threw", None}
  /\ state \in States
  /\ \A i \in DOMAIN queue :
       queue[i] \in Commands \cup {"InitOk", "Stall", "Stop"}
  /\ sv.ev \in Events /\ sv.to \in States /\ sv.attempt \in 0..MaxAttempts + 1
  /\ worker \in {"none", "run", "push", "done", "dead"}
  /\ control \in Commands \cup {None}
  /\ count \in 0..Capacity
  /\ stop_pending \in BOOLEAN /\ busy \in BOOLEAN /\ evidence \in BOOLEAN
  /\ failed \in BOOLEAN /\ stop_requested \in BOOLEAN /\ calibrator \in BOOLEAN
  /\ fresh \in BOOLEAN /\ silent \in BOOLEAN /\ stopped \in BOOLEAN
  /\ watchdog \in {"idle", "report"}

(* A state means it is already true (prepare() before the state is         *)
(* published, run_recovery() before Recovered): while the machine says     *)
(* Running the last control write that returned was a 1, while it says     *)
(* Paused a 0, and once Stopped a 0 unless that write threw.  Only the     *)
(* step that is about to publish the next state may already have written.  *)
StateIsTrue ==
  /\ state = "Running" /\ sv.pc # "publish" => written.val = 1
  /\ state = "Paused" /\ sv.pc # "publish" => written.val = 0
  /\ state = "Stopped" => written.val = 0 \/ written.res = "threw"

(* wait_for_state() returns once the machine has settled: a Fault that is  *)
(* observed with busy_ clear has been recorded, and acquisition stopped    *)
(* unless that write threw.                                                *)
SettledFault ==
  state = "Fault" /\ ~busy
    => evidence /\ (written.val = 0 \/ written.res = "threw")


(* Fault is latched: only an operator's reset or a stop leaves it.         *)
FaultIsLatched ==
  [][state = "Fault" /\ state' # "Fault" /\ main' # "down"
       => sv.ev \in {"Reset", "Stop"}]_vars

(* SIGTERM ends the process, mid-recovery included, unless it is killed    *)
(* first.                                                                  *)
StopIsHonoured == (signal # "wait") ~> (main \in {"exit", "down"})

(* A machine does not say Running for ever over a device that produces     *)
(* nothing: the watchdog gets it out of there.                             *)
StallIsNoticed == ~<>[](state = "Running" /\ ~(mcu = "on" /\ Answers))


(* A dead acquisition thread is noticed: it is replaced, or the machine    *)
(* says Fault or Stopped.                                                  *)
DeathIsNoticed == failed ~> (~failed \/ state \in {"Fault", "Stopped"})

(* README: "Running means control=1 has been written. If the device        *)
(* refuses, the state never changes."  The code publishes Running after a  *)
(* write whose error nobody saw.                                           *)
RefusalIsSeen == state = "Running" => written.res # "lost"
=============================================================================
