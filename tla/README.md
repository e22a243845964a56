# A TLA+ model of the embedded Linux device platform

The platform takes samples on a microcontroller and brings them to any number
of Linux processes:

    MCU firmware --SPI, DATA_READY--> custom-acq driver --/dev/acq0--> device-service --devbus--> subscribers

The modules here model the parts of that path where several threads, processes
or processors share state. TLC checks them on small instances, TLAPS proves
theorems about them for every instance. `PROJECT.json` maps every definition
to the lines it models and lists the runs, mutants, findings, hazards and
theorems.

## Inventory

### devbus (`src/userspace/devbus`)

*State.* Two shared-memory segments per service: a control segment with one
`SubscriberSlot` per subscriber (state, pid, a data ring the publisher fills
and both sides take from, a done ring that brings chunks back, two futex
words), and a data segment with chunks. The publisher keeps the free list,
reference counts and the set of active slots privately.

*Operations.* Publisher: `loan`, `release_loan`, `send` (with `deliver` per
slot and the overflow policies DropNewest, DropOldest, Block), `scan_slots`,
`check_liveness`, destruction. Subscriber: attach, `try_receive`, `release`,
`wait`, destruction. Either side may be killed at any point.

*What is hard.* Two parties compare-and-swap one tail; two Dekker-style
handshakes around futexes; slots change owner under a publisher that caches
who is active; a chunk may be referenced from several slots, from a done ring,
and by a process that is gone.

*What must hold.* A sample that is readable is never overwritten; every chunk is
in exactly one place; `loan()` cannot fail; losses are counted; nobody sleeps
through its wakeup; abandoned slots come back.

### device-service (`src/userspace/device-service`)

*State.* The supervisor's state machine and queue, the acquisition thread and its
ring buffer, the watchdog's last report, the stop flags of all of them, and the
device behind sysfs.

*Operations.* Transitions with an action on the device before, and a procedure
(recovery, calibration, fault evidence) after the new state is published;
operator commands over the control socket; stall reports; SIGTERM.

*What is hard.* Six threads start and stop in a certain order; events are
posted under one state and taken under another; each device access may throw;
the process may be killed and restarted over a device that goes on.

*What must hold.* The published state is true; Fault is recorded and latched;
SIGTERM ends the process; a silent device and a dead thread are noticed;
recovery ends.

### custom-acq (`src/driver/custom-acq`) and the MCU firmware (`src/v1-spi-slave-handshake/v1.3`)

*State.* The MCU's sample FIFO, `item_peeked` latch and DATA_READY pin; the pending
edge, the interrupt thread's locals, the kfifo, its counters and wait queue.

*Operations.* The timer interrupt; SPI frames (register reads and writes); the
drain pass; `read()` and `poll()`; START and STOP; changing the drop policy.

*What is hard.* An edge-triggered interrupt on a level; register reads with side
effects that fail after the effect; an SPI interrupt that preempts the timer
interrupt in the middle of its FIFO update.

*What must hold.* No sample is left behind without an edge; samples keep their
order and are whole; every lost sample is counted once; readers are woken.

### Not modelled yet, or not at all

| part | why |
|---|---|
| devbus segment creation and replacement, pressure signal | planned |
| backpressure controller, clock calibrator, sequence tracker | planned; the regression is floating point and stays out |
| MCU device authentication, SPI error recovery, status register | planned |
| driver: binding, authentication attributes, fault-injection knobs | planned, except the knobs, which are test aids |
| A/B update (`rauc-tryboot-backend`, health check) | planned |
| device-monitor, OP-TEE application | small candidates; one request at a time, mostly calls into TLS and cryptography |
| record/replay, introspection, metrics, configuration, fault-evidence files | sequential I/O and formatting |
| scripts for signing, provisioning, hardening; tools; images; earlier firmware | not part of the running system |

## Modules

| module | models | state and actions |
|---|---|---|
| `Devbus` | one devbus segment, its publisher, its subscribers | variables carry the names of the members of `SubscriberSlot`, `SegmentHeader` and `PublisherCore`; `pub` and `sub[p]` hold what each process executes and its locals. One action per access to memory the other side also writes |
| `DevbusProofs` | theorems about `Devbus` | |
| `Supervisor` | the threads of device-service over an abstract device | `state`, `queue`, `stop_pending`, `busy` are the supervisor's members; `sv` is its thread; the device is what sysfs and `/dev/acq0` show of it |
| `AcqLink` | MCU firmware, SPI register operations, driver, readers of `/dev/acq0` | the firmware's and the driver's variables under their own names; `tim` and `thread` are the two handlers that take several steps |
| `MCDevbus`, `MCSupervisor`, `MCAcqLink` | small instances | symmetry, views and constraints |

A definition `Name_Fault` just before `Name` is `Name` with a plausible bug.
Nothing uses it; `PROJECT.json` pairs it with the property that notices it.

The three specifications meet at narrow interfaces. `Supervisor` sees the
device as "control was written", "a sample is there" and "a call throws", which
is what `AcqLink` has outside; `AcqLink` has START, STOP and a reader, which is
what `Supervisor` does to it. `Devbus` takes what the acquisition thread
publishes and never makes it wait longer than a block timeout (`SendReturns`).

### Devbus

Steps are cut at shared accesses. `send()` is `Send`, a scan of the slots, then
per active slot `DeliverPick`, `DeliverLoad`, the policy's steps, `DeliverPush`
(ring cell and `data_head`) and `DeliverWake`. `try_receive()` is `ReceiveLoad`,
`ReceiveCell`, `ReceiveCas`, `ReceiveTake`; `wait()` is `WaitWord`, `WaitFlag`,
`WaitCheck`, `WaitSleep`, `WaitAwake`. Atomics are sequentially consistent: the
handshakes use `seq_cst`, the rings acquire/release pairs on one variable each.

Reductions, and why they lose nothing:

- A scan or drain over all slots takes them in any order from a set, and decides
  at the start which slots have work (`Changed`, `Suspect`): what a subscriber
  does to another slot meanwhile commutes with it, and what it does to a slot
  already passed is what the next scan finds.
- `SubActivate` joins the stores to a Claimed slot with the store that makes it
  Active: the publisher reads none of them before.
- The free list is a multiset. Chunks are interchangeable, so `MCDevbus` lets
  `loan()` take the least (`LeastFree`); two entries of one chunk would still show.
- `loan()` ends with the first drained chunk. Its second look at the slots and
  `OutOfChunks` follow only when nothing is free, which `LoanNeverFails` excludes.
- BusySpin and Yield waits share no state; `WaitMode` leaves the futex steps out.
- The reuse of a pid by an unrelated process is not modelled.

### Supervisor

`apply()` is `Take` (or `Notice`, or `ApplyDrop`), `Prepare` (device writes, which
may throw), `Publish` (the state becomes visible), the procedure the state
enters, and `ApplyEnd`. `run_recovery()` is `Attempt`, `Probe`, `Restart`,
`SoftStop`, `SoftStart`, `Watch`, `Backoff`; `run_calibration()` is `Nominal`,
`Produce`, `Measure`, `Measured`. `main()` and the signal thread appear with every
`start()`, `stop()` and join in their order.

Time is what a comparison can tell: `silent` says that `liveness_timeout` has
passed, and a deadline may pass at any moment. `Fault` breaks the link, detaches
the driver, resets or stalls the MCU, fails a `read()` or kills the process.
A value written through an `ofstream` is handed to the kernel by the destructor,
so a rejected write is a lost one (`Writes`), while a missing attribute throws.

### AcqLink

A frame is one step, since nothing preempts the SPI interrupt. The timer handler
is five: `next`, the store, `fifo_head`, the test and the write of DATA_READY. A
frame lasts longer than the handler, so at most one falls into it. A register
operation holds `spi_lock` and only its first frame does anything; it may fail
before or after that. An edge during a pass is kept and runs the thread again
(edge-triggered, ONESHOT). `lost` counts samples that vanish with no counter in
the driver: the FIFO was full, the operation that popped them failed, or a START
cleared them.

`Starts` says what a START may find. In a quiet system everything holds. A START
on a stopped MCU while the driver is still draining, which is what a soft reset
of `run_recovery()` does, is the subject of `link_soft_reset`.

## Runs

| run | instance | what it shows |
|---|---|---|
| `devbus_one` | 1 slot, 2 subscribers in turn, Q = 1, 3 samples, all policies, every process mortal | readable samples are held, `loan()` never fails, the queue is ordered, losses are counted and gaps explained, no wakeup is lost in either direction, slots have one owner, done rings do not overflow, a borrowed sample does not change |
| `devbus_sharing` | 2 slots, 2 subscribers, 5 chunks, DropOldest | chunks are in one place, counts exact, none leaks |
| `devbus_live` | 1 slot, 1 mortal subscriber, 2 samples | `wait()` and `send()` return, abandoned slots are reclaimed |
| `devbus_slow_claim` | a claim may outlast a second | violates `SlotExclusive` |
| `devbus_publisher_killed` | the publisher may be killed | violates `WaitReturns` |
| `supervisor` | 1 fault of six kinds, 2 commands, 2 attempts, SIGTERM | states are true, Fault is recorded and latched, the process exits cleanly and nothing deadlocks |
| `supervisor_live` | 1 fault (link, stall, read) | SIGTERM ends the process, stalls and deaths are noticed, recovery ends |
| `supervisor_early_signal` | SIGTERM during startup | violates `StopIsHonoured` |
| `supervisor_refused` | a link fault | violates `RefusalIsSeen` |
| `link` | FIFO of 2, kfifo of 1, 4 samples, 3 failing operations, policy changes, STOP and START | the line matches the FIFO, no edge is lost, samples are counted, ordered and whole, `read()` never returns 0 |
| `link_live` | the same with a reader that blocks and 2 failures | everything is read |
| `link_soft_reset` | START on a stopped MCU during a pass | violates `NoLostEdge` |

Bounds. One slot used by two subscribers in turn is where slots are reused; two
slots are needed only for shared chunks. Q = 1 makes every send meet a full
queue, and three samples are enough for two evictions behind a borrowed one. Two
FIFO places and four samples fill and wrap the MCU's buffer; with a capacity of
one the line could disagree with the FIFO (the handler tests, a frame pops the
only item, the handler writes), which 31 places rule out, so 2 is the smallest
faithful size. Three failures are DRAIN_MAX_ERRORS. One fault at a time, two
recovery attempts and two commands reach every state from every other.

Views. `MCDevbus!View` hides stale ring cells and sequence numbers of free chunks;
`MCSupervisor!View` hides flags that are rewritten before they are read. They are
used only where invariants and action properties are checked.

Fairness. Every thread that can run does (weak fairness of each thread's steps):
the kernel schedules them, and none spins on another at a higher priority. A
blocked `send()` gives up for certain (strong fairness of `BlockGiveUp`), as its
deadline passes while it keeps being woken; `check_liveness()` is called again and
again by a publisher that sends. No fairness is put on subscribers calling
`try_receive()`, on operators, on faults or on their repair.

## Where the code and its documentation disagree

Each has a run that shows it.

- A subscriber that is alive but needs more than a second between claiming a slot
  and storing its pid loses the slot to another (`core.cpp:302`), against the
  comment at `core.cpp:515`.
- A publisher that is killed leaves a subscriber without a time-out in `wait()` for
  ever, against `core.hpp:118`.
- SIGTERM between the start of the signal thread and that of the worker is
  forgotten: `AcquisitionWorker::start()` clears the request. `README.md:29` of
  device-service promises an exit.
- A control write that the driver rejects is not seen by `write_sysfs()`, which
  tests the stream before it is flushed; Running is published over it, against
  the comment at `device.cpp:44`.
- A soft reset during a drain pass can leave DATA_READY high over an empty FIFO.
  The samples that follow raise no edge, against `custom_acq.c:715`. The watchdog
  then recovers the device, by another soft reset.

Also met while modelling, smaller, and without a run of their own:

- A START between DATA_SEQ and DATA_VAL gives one sample's number the value of
  another, or queues a sample that never was (`custom_acq.c:687`).
- A START that preempts `fifo_push()` on a running MCU leaves items of the old run
  in the FIFO (firmware `main.c:214`), against `supervisor.cpp:264`.
- `errors` is reset by a whole sample only, so three failed reads need not be "in a
  row" (`custom_acq.c:760`) to end a pass.
- `data_wq` is woken at the end of a pass, not "whenever the IRQ thread adds
  samples" (`custom_acq.c:273`).
- With two readers `read()` can return 0 (`custom_acq.c:883`), against `device.cpp:70`.
- Evictions under `drop_policy=oldest` are counted in `policy_dropped`
  (`custom_acq.c:812`), not in `kfifo_overflow` as `custom_acq.c:130` says.
- A Stall that raced a Pause and a Resume is not dropped (`supervisor.hpp:80`).
- A calibration whose START throws leaves the calibrator attached
  (`supervisor.cpp:302`).
- After a kill while Running, Ready is reached with the MCU producing, against
  `supervisor.cpp:300`.

## Proofs

`DevbusProofs` proves, for any finite sets of slots, subscribers and chunks and any
capacities, whatever subscribers do and whoever is killed:

- `ChunksInOnePlace`: `Spec => []OnePlace`. Every chunk is on the free list exactly
  once, or lent, or being sent, or referenced, and only one of these.
- `RefcountsExact`: `Spec => []RefcountExact`. A reference count is the number of
  slots that hold the chunk, and no slot holds it twice.

Neither is inductive alone. `PoolInv` adds `PubShape` (which chunk and slot the
publisher's program counter is about), `PoolTypes`, and `Fresh`: the chunk being sent
is not yet at the slots it still has to go to. Without `Fresh`, `DeliverPush` could
count a slot twice. The lemmas follow the code: `GiveLemma` says what taking back
references does (`release_ref`, `reclaim_slot`), `ReturnedLemma` what a done ring may
ask for, and each action that touches the pool has a lemma of its own;
`ControlStep` and `SubscriberStep` cover all that do not. The only assumption is
`DevbusConstants`. The proof does not rely on what is in the rings: a subscriber may
return a chunk it never had, and `release_ref` ignores it.

Only model-checked: all of `Supervisor` and `AcqLink`, the properties of `Devbus` about
ring contents, slot ownership and wakeups, and everything that is liveness (out of
the prover's reach).

## Plan

1. Devbus segment life cycle: two publishers starting over a stale segment,
   subscribers opening one that is not ready, a publisher killed between the two
   creates.
2. Rate control: the backpressure thread against calibration and recovery;
   `next_backpressure_rate()` and the calibrator's sequence rules as operators
   checked over bounded inputs.
3. An abstract channel (what a subscriber is promised: an increasing subsequence of
   what was sent, losses counted), shown to be implemented by `Devbus`.
4. A/B update: install, tryboot, health check, commit, with power loss anywhere.
5. MCU authentication: the challenge, the background loop and the status register.
6. Proofs: the whole type invariant of `Devbus`; slot ownership and queue contents,
   hence `ReadableIsHeld` when no claim is slow; `LoanNeverFails` from the budget;
   type invariants of `AcqLink` and `Supervisor`, then `NoLostEdge` and `StateIsTrue`;
   the refinement of the channel.
