------------------------------ MODULE AcqLink ------------------------------
(***************************************************************************)
(* From the timer interrupt on the MCU to read() on /dev/acq0: the sample  *)
(* FIFO and DATA_READY line of the MCU firmware, the SPI register          *)
(* operations, the threaded interrupt handler of the custom-acq driver,    *)
(* its kfifo and its readers.                                              *)
(*                                                                         *)
(* On the MCU the SPI interrupt (priority 1) preempts the timer interrupt  *)
(* (priority 3), never the other way round: a frame is one step, the timer *)
(* handler several.  A frame takes longer than the timer handler, so at    *)
(* most one frame falls into it.  A register operation holds spi_lock for  *)
(* its two frames, and only the first of them does something on the MCU:   *)
(* the operation is one step, which can fail before or after the MCU has   *)
(* executed it.                                                            *)
(*                                                                         *)
(* A sample stands for itself: <<run, seq>>, the START that the MCU was    *)
(* given last and the sequence number.  DATA_SEQ and DATA_VAL each return  *)
(* what identifies the sample they read.  (The firmware makes the value up *)
(* from the sequence counter.)                                             *)
(*                                                                         *)
(* Name_Fault just before Name is Name with a fault in it, used by no      *)
(* action: it serves to show that a property notices the fault.            *)
(***************************************************************************)
EXTENDS Integers, Sequences, FiniteSets

CONSTANTS
  Depth,         \* FIFO_DEPTH of the MCU, one more than it can hold
  KfifoSize,     \* SAMPLE_KFIFO_SIZE
  MaxErrors,     \* DRAIN_MAX_ERRORS
  Policies,      \* the values drop_policy is given
  downsample_n,
  Readers,       \* the threads that read /dev/acq0
  Polling,       \* readers come back after a poll() timeout, as
                 \* device-service's does; otherwise they block in read()
  Starts,        \* what a START may find: a "quiet" system, or only the MCU
                 \* "stopped", with samples still in flight
  MaxSamples,    \* bound: timer interrupts that find the MCU started
  MaxControl,    \* bound: writes of the control register
  MaxFailures    \* bound: failed register operations

ASSUME AcqLinkConstants ==
  /\ Depth \in Nat /\ Depth > 1 /\ KfifoSize \in Nat \ {0}
  /\ MaxErrors \in Nat \ {0} /\ downsample_n \in Nat \ {0}
  /\ Policies \subseteq {"newest", "oldest", "downsample"}
  /\ Polling \in BOOLEAN /\ Starts \in {"quiet", "stopped"}
  /\ MaxSamples \in Nat /\ MaxControl \in Nat /\ MaxFailures \in Nat

VARIABLES
  \* MCU
  fifo_buf, fifo_head, fifo_tail, fifo_overflow, seq_counter,
  item_peeked, last_val, reg_control,
  run,              \* the number of STARTs the MCU has executed
  data_ready,       \* the level of the DATA_READY line
  tim,              \* the timer handler: what it executes, and its locals
  \* driver
  irq,              \* a rising edge waits for the interrupt thread
  thread,           \* the interrupt thread: what it executes, its locals
  kfifo, kfifo_overflow, policy_dropped, downsample_counter,
  drop_policy,
  \* readers
  reader,           \* what each reader executes
  last,             \* the sample a reader got last
  eof,              \* a read() has returned 0
  \* what has happened so far
  produced, received, controls, failures,
  lost              \* samples dropped by the full FIFO of the MCU, popped by
                    \* an operation that failed, or cleared by a START

fifo  == <<fifo_buf, fifo_head, fifo_tail, fifo_overflow, seq_counter>>
regs  == <<item_peeked, last_val, reg_control, run>>
queue == <<kfifo, kfifo_overflow, policy_dropped, downsample_counter, drop_policy>>
users == <<reader, last, eof, received>>
vars  == <<fifo, regs, data_ready, tim, irq, thread, queue, users, produced,
           lost, controls, failures>>

Nothing == <<0, 0>>   \* what an empty FIFO's registers read as

Init ==
  /\ fifo_buf = [i \in 0..Depth - 1 |-> Nothing]
  /\ fifo_head = 0 /\ fifo_tail = 0 /\ fifo_overflow = 0 /\ seq_counter = 0
  /\ item_peeked = FALSE /\ last_val = Nothing /\ reg_control = 0 /\ run = 0
  /\ data_ready = FALSE /\ tim = [pc |-> "idle", next |-> 0, hit |-> FALSE]
  /\ irq = FALSE
  /\ thread = [pc |-> "idle", seq |-> Nothing, val |-> Nothing, errors |-> 0,
               drained |-> FALSE, gaveup |-> FALSE]
  /\ kfifo = <<>> /\ kfifo_overflow = 0 /\ policy_dropped = 0
  /\ downsample_counter = 0 /\ drop_policy \in Policies
  /\ reader = [r \in Readers |-> "try"] /\ last = Nothing /\ eof = FALSE
  /\ produced = 0 /\ received = 0 /\ lost = 0 /\ controls = 0 /\ failures = 0

-----------------------------------------------------------------------------
(* The MCU's FIFO and its line.  A rising edge of the line raises the      *)
(* interrupt, also while the thread of an earlier one is running.          *)

fifo_level ==
  IF fifo_head >= fifo_tail THEN fifo_head - fifo_tail
  ELSE Depth - fifo_tail + fifo_head

Item(i) == fifo_buf[(fifo_tail + i - 1) % Depth]

SetLine(high) ==
  /\ data_ready' = high
  /\ irq' = (irq \/ (high /\ ~data_ready))

(* HAL_TIM_PeriodElapsedCallback(): fifo_push(), whose accesses to the     *)
(* indices are separate, then update_data_ready_gpio(), whose test and     *)
(* whose write are.                                                        *)
TimNext_Fault ==
  /\ tim.pc = "idle" /\ reg_control = 1 /\ produced < MaxSamples
  /\ produced' = produced + 1
  /\ tim' = [pc |-> "store", next |-> fifo_head + 1, hit |-> FALSE]
  /\ UNCHANGED <<fifo, regs, data_ready, irq, thread, queue, users, lost,
                 controls, failures>>

TimNext ==
  /\ tim.pc = "idle" /\ reg_control = 1 /\ produced < MaxSamples
  /\ produced' = produced + 1
  /\ tim' = [pc |-> "store", next |-> (fifo_head + 1) % Depth, hit |-> FALSE]
  /\ UNCHANGED <<fifo, regs, data_ready, irq, thread, queue, users, lost,
                 controls, failures>>


TimStore ==
  /\ tim.pc = "store"
  /\ IF tim.next = fifo_tail
     THEN /\ fifo_overflow' = fifo_overflow + 1 /\ lost' = lost + 1
          /\ tim' = [tim EXCEPT !.pc = "test"]
          /\ UNCHANGED <<fifo_buf, seq_counter>>
     ELSE /\ fifo_buf' = [fifo_buf EXCEPT ![fifo_head] = <<run, seq_counter>>]
          /\ seq_counter' = seq_counter + 1
          /\ tim' = [tim EXCEPT !.pc = "head"]
          /\ UNCHANGED <<fifo_overflow, lost>>
  /\ UNCHANGED <<fifo_head, fifo_tail, regs, data_ready, irq, thread, queue,
                 users, produced, controls, failures>>

TimHead ==
  /\ tim.pc = "head"
  /\ fifo_head' = tim.next
  /\ tim' = [tim EXCEPT !.pc = "test"]
  /\ UNCHANGED <<fifo_buf, fifo_tail, fifo_overflow, seq_counter, regs,
                 data_ready, irq, thread, queue, users, produced, lost,
                 controls, failures>>

TimTest ==
  /\ tim.pc = "test"
  /\ tim' = [tim EXCEPT !.pc = IF fifo_head # fifo_tail THEN "set" ELSE "reset"]
  /\ UNCHANGED <<fifo, regs, data_ready, irq, thread, queue, users, produced,
                 lost, controls, failures>>

TimLine ==
  /\ tim.pc \in {"set", "reset"}
  /\ SetLine(tim.pc = "set")
  /\ tim' = [pc |-> "idle", next |-> 0, hit |-> FALSE]
  /\ UNCHANGED <<fifo, regs, thread, queue, users, produced, lost, controls,
                 failures>>

(* A frame finds the timer handler idle, or is the first to interrupt it.  *)
Frame ==
  /\ ~tim.hit
  /\ tim' = [tim EXCEPT !.hit = tim.pc # "idle"]

(* reg_write(REG_CONTROL, v), from control_store(): START or STOP.         *)
MayStart ==
  /\ reg_control = 0
  /\ Starts = "quiet" => /\ tim.pc = "idle" /\ fifo_level = 0
                         /\ ~irq /\ thread.pc = "idle"

Control(v) ==
  /\ controls < MaxControl /\ controls' = controls + 1
  /\ v = 1 => MayStart
  /\ Frame
  /\ reg_control' = v
  /\ IF v = 1
     THEN /\ run' = run + 1 /\ lost' = lost + fifo_level
          /\ seq_counter' = 0 /\ fifo_head' = 0 /\ fifo_tail' = 0
          /\ fifo_overflow' = 0 /\ item_peeked' = FALSE
          /\ SetLine(FALSE)
     ELSE /\ SetLine(fifo_head # fifo_tail)
          /\ UNCHANGED <<run, seq_counter, fifo_head, fifo_tail, fifo_overflow,
                         item_peeked, lost>>
  /\ UNCHANGED <<fifo_buf, last_val, thread, queue, users, produced, failures>>


PeekSeq ==
  IF fifo_level > 0
  THEN item_peeked' = TRUE /\ last_val' = Item(1)
  ELSE UNCHANGED <<item_peeked, last_val>>

SeqAnswer == IF fifo_level > 0 THEN Item(1) ELSE Nothing

(* reg_read(REG_DATA_VAL): the item that was peeked, or else the oldest    *)
(* one, is removed.                                                        *)
PopVal_Fault ==
  /\ item_peeked' = FALSE
  /\ last_val' = IF item_peeked \/ fifo_level = 0 THEN last_val ELSE Item(1)
  /\ fifo_tail' = IF fifo_level > 0 THEN (fifo_tail + 1) % Depth ELSE fifo_tail
  /\ UNCHANGED <<data_ready, irq>>

PopVal ==
  LET tail == IF fifo_level > 0 THEN (fifo_tail + 1) % Depth ELSE fifo_tail
  IN  /\ item_peeked' = FALSE
      /\ last_val' = IF item_peeked \/ fifo_level = 0 THEN last_val ELSE Item(1)
      /\ fifo_tail' = tail
      /\ IF item_peeked \/ fifo_level > 0
         THEN SetLine(fifo_head # tail) ELSE UNCHANGED <<data_ready, irq>>

ValAnswer ==
  IF item_peeked THEN last_val ELSE IF fifo_level > 0 THEN Item(1) ELSE Nothing

-----------------------------------------------------------------------------
(* custom_acq_irq_hard() and custom_acq_irq_thread().                      *)

IrqThread ==
  /\ thread.pc = "idle" /\ irq
  /\ irq' = FALSE
  /\ thread' = [thread EXCEPT !.pc = "level", !.errors = 0, !.drained = FALSE,
                              !.gaveup = FALSE]
  /\ UNCHANGED <<fifo, regs, data_ready, tim, queue, users, produced, lost,
                 controls, failures>>

Succeeds(pc) ==
  /\ thread' = [thread EXCEPT !.pc = pc]
  /\ UNCHANGED failures

(* A register operation fails: the pass goes on, until it has met          *)
(* DRAIN_MAX_ERRORS of them since its last sample.                         *)
Fails ==
  /\ failures < MaxFailures /\ failures' = failures + 1
  /\ LET again == thread.errors + 1 < MaxErrors
     IN  thread' = [thread EXCEPT !.pc = IF again THEN "level" ELSE "end",
                                  !.gaveup = ~again,
                                  !.errors = @ + 1]

ReadLevel_Fault ==
  /\ thread.pc = "level" /\ Frame
  /\ \/ Succeeds(IF fifo_level = 0 \/ thread.drained THEN "end" ELSE "seq")
     \/ Fails
  /\ UNCHANGED <<fifo, regs, data_ready, irq, queue, users, produced, lost,
                 controls>>

ReadLevel ==
  /\ thread.pc = "level" /\ Frame
  /\ \/ Succeeds(IF fifo_level = 0 THEN "end" ELSE "seq")
     \/ Fails
  /\ UNCHANGED <<fifo, regs, data_ready, irq, queue, users, produced, lost,
                 controls>>

ReadSeq ==
  /\ thread.pc = "seq" /\ Frame
  /\ \/ /\ PeekSeq
        /\ thread' = [thread EXCEPT !.pc = "val", !.seq = SeqAnswer]
        /\ UNCHANGED failures
     \/ Fails /\ (PeekSeq \/ UNCHANGED <<item_peeked, last_val>>)
  /\ UNCHANGED <<fifo, reg_control, run, data_ready, irq, queue, users,
                 produced, lost, controls>>

ReadVal ==
  /\ thread.pc = "val" /\ Frame
  /\ \/ /\ PopVal
        /\ thread' = [thread EXCEPT !.pc = "put", !.val = ValAnswer,
                                    !.errors = 0]
        /\ UNCHANGED <<lost, failures>>
     \/ /\ Fails
        /\ \/ /\ PopVal
              /\ lost' = IF fifo_tail' # fifo_tail THEN lost + 1 ELSE lost
           \/ UNCHANGED <<item_peeked, last_val, fifo_tail, data_ready, irq, lost>>
  /\ UNCHANGED <<fifo_buf, fifo_head, fifo_overflow, seq_counter, reg_control,
                 run, queue, users, produced, controls>>


Put ==
  LET sample == [seq |-> thread.seq, val |-> thread.val]
      down   == drop_policy = "downsample"
      count  == (downsample_counter + 1) % downsample_n
      skip   == down /\ count # 0
      evict  == drop_policy = "oldest" /\ Len(kfifo) = KfifoSize
      kept   == IF evict THEN Tail(kfifo) ELSE kfifo
      full   == ~skip /\ Len(kept) = KfifoSize
      B(b)   == IF b THEN 1 ELSE 0
  IN  /\ thread.pc = "put"
      /\ downsample_counter' = IF down THEN count ELSE downsample_counter
      /\ policy_dropped' = policy_dropped + B(skip \/ evict)
      /\ kfifo_overflow' = kfifo_overflow + B(full)
      /\ kfifo' = IF skip \/ full THEN kfifo ELSE Append(kept, sample)
      /\ thread' = [thread EXCEPT !.pc = "level", !.drained = TRUE]
      /\ UNCHANGED <<fifo, regs, data_ready, tim, irq, drop_policy, users,
                     produced, lost, controls, failures>>

(* Writing the drop_policy parameter of the module.                        *)
SetPolicy(p) ==
  /\ drop_policy' = p /\ p # drop_policy
  /\ UNCHANGED <<fifo, regs, data_ready, tim, irq, thread, kfifo, kfifo_overflow,
                 policy_dropped, downsample_counter, users, produced, lost,
                 controls, failures>>


PassEnds ==
  /\ thread.pc = "end"
  /\ thread' = [thread EXCEPT !.pc = "idle", !.seq = Nothing, !.val = Nothing]
  /\ reader' = [r \in Readers |-> IF thread.drained /\ reader[r] = "sleep"
                                  THEN "try" ELSE reader[r]]
  /\ UNCHANGED <<fifo, regs, data_ready, tim, irq, queue, last, eof, received,
                 produced, lost, controls, failures>>

-----------------------------------------------------------------------------
(* custom_acq_read(): wait for a sample without the lock, then copy under  *)
(* it.                                                                     *)

driver == <<fifo, regs, data_ready, tim, irq, thread>>
counts == <<kfifo_overflow, policy_dropped, downsample_counter, drop_policy,
            produced, lost, controls, failures>>


ReadWaits(r) ==
  /\ reader[r] = "try"
  /\ reader' = [reader EXCEPT ![r] = IF kfifo = <<>> THEN "sleep" ELSE "copy"]
  /\ UNCHANGED <<driver, kfifo, counts, last, eof, received>>

ReadCopies(r) ==
  /\ reader[r] = "copy"
  /\ reader' = [reader EXCEPT ![r] = "try"]
  /\ IF kfifo = <<>>
     THEN eof' = TRUE /\ UNCHANGED <<kfifo, last, received>>
     ELSE /\ kfifo' = Tail(kfifo) /\ last' = Head(kfifo).seq
          /\ received' = received + 1
          /\ UNCHANGED eof
  /\ UNCHANGED <<driver, counts>>

(* wait_readable(): poll() returns after a timeout and looks again.        *)
PollExpires(r) ==
  /\ Polling /\ reader[r] = "sleep"
  /\ reader' = [reader EXCEPT ![r] = "try"]
  /\ UNCHANGED <<driver, kfifo, counts, last, eof, received>>

Timer == TimNext \/ TimStore \/ TimHead \/ TimTest \/ TimLine

Drain ==
  IrqThread \/ ReadLevel \/ ReadSeq \/ ReadVal \/ Put \/ PassEnds

Read(r) == ReadWaits(r) \/ ReadCopies(r) \/ PollExpires(r)

Next ==
  \/ Timer \/ Drain
  \/ \E v \in {0, 1} : Control(v)
  \/ \E p \in Policies : SetPolicy(p)
  \/ \E r \in Readers : Read(r)

Spec == Init /\ [][Next]_vars

(* The timer, the interrupt thread and the readers run; nobody owes a      *)
(* control write or a new policy.                                          *)
Fairness ==
  /\ WF_vars(Timer) /\ WF_vars(Drain)
  /\ \A r \in Readers : WF_vars(Read(r))

FairSpec == Spec /\ Fairness

-----------------------------------------------------------------------------
(* Properties.                                                             *)

Samples == (0..MaxControl) \X (0..MaxSamples)

(* Every variable keeps its type; the indices stay inside the buffer.      *)
TypeOK ==
  /\ fifo_buf \in [0..Depth - 1 -> Samples]
  /\ fifo_head \in 0..Depth - 1 /\ fifo_tail \in 0..Depth - 1
  /\ seq_counter \in 0..MaxSamples /\ run \in 0..MaxControl
  /\ item_peeked \in BOOLEAN /\ last_val \in Samples /\ reg_control \in {0, 1}
  /\ data_ready \in BOOLEAN /\ irq \in BOOLEAN
  /\ tim.pc \in {"idle", "store", "head", "test", "set", "reset"}
  /\ thread.pc \in {"idle", "level", "seq", "val", "put", "end"}
  /\ thread.errors \in 0..MaxErrors
  /\ Len(kfifo) <= KfifoSize /\ downsample_counter < downsample_n
  /\ reader \in [Readers -> {"try", "copy", "sleep"}]

(* DATA_READY is high exactly while the FIFO is non-empty, whenever the    *)
(* timer handler is not in between (update_data_ready_gpio() in both       *)
(* handlers).                                                              *)
LineMatchesFifo == tim.pc = "idle" => (data_ready <=> fifo_level > 0)

(* An edge-triggered interrupt on a level signal: samples never sit in the *)
(* FIFO of the MCU with neither an edge pending nor a pass running, unless *)
(* a pass has given up on a link that failed DRAIN_MAX_ERRORS times.       *)
NoLostEdge ==
  fifo_level > 0 /\ tim.pc = "idle" /\ thread.pc = "idle"
    => irq \/ thread.gaveup


Before(a, b) == a[1] < b[1] \/ (a[1] = b[1] /\ a[2] < b[2])

(* What the readers have got, the kfifo, the pass and the FIFO.            *)
Chain ==
  (IF received > 0 THEN <<last>> ELSE <<>>)
    \o [i \in DOMAIN kfifo |-> kfifo[i].seq]
    \o (IF thread.pc = "put" THEN <<thread.seq>> ELSE <<>>)
    \o [i \in 1..fifo_level |-> Item(i)]




=============================================================================
