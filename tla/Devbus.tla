------------------------------- MODULE Devbus -------------------------------
(***************************************************************************)
(* devbus, the zero-copy shared-memory bus (userspace/devbus): one         *)
(* publisher, its subscriber slots, the chunk pool, the data and done      *)
(* rings, and the two futex handshakes.                                    *)
(*                                                                         *)
(* Every access to memory that the other side also writes is a step of its *)
(* own: the loads of and the compare-and-swap on data_tail, the sleeping   *)
(* and publisher_waiting flags, the slot state.  Accesses to memory only   *)
(* one side touches (refcounts, the free list, the read index of a done    *)
(* ring) are part of the neighbouring shared access.  Atomics are          *)
(* sequentially consistent.                                                *)
(*                                                                         *)
(* A definition Name_Fault just before a definition Name is Name with a    *)
(* fault in it.  No action uses it: it serves to show that a property      *)
(* notices the fault.                                                      *)
(***************************************************************************)
EXTENDS Integers, Sequences, FiniteSets

CONSTANTS
  Slots,        \* subscriber slots of the segment (max_subscribers)
  Subs,         \* subscriber processes
  Chunks,       \* chunk indices
  Q,            \* queue_capacity
  MaxBorrowed,  \* max_borrowed
  MaxLoans,     \* max_loans
  Policies,     \* overflow policies the subscribers may ask for
  WaitMode,     \* "Futex", or "BusySpin" (which shares no state)
  MaxSeq,       \* bound: samples the publisher sends
  PubMayCrash,  \* the publisher may be killed
  Mortal,       \* the subscribers that may be killed
  SlowClaim,    \* a live subscriber may stay Claimed without a pid for 1 s
  None

(* compute_layout(): a chunk for every place one can be held.              *)
ChunkBudget == Cardinality(Slots) * (Q + MaxBorrowed) + MaxLoans

ASSUME DevbusConstants ==
  /\ IsFiniteSet(Slots) /\ IsFiniteSet(Subs) /\ IsFiniteSet(Chunks)
  /\ Q \in Nat \ {0} /\ MaxBorrowed \in Nat /\ MaxLoans \in Nat
  /\ Cardinality(Chunks) = ChunkBudget
  /\ Policies \subseteq {"DropNewest", "DropOldest", "Block"}
  /\ WaitMode \in {"Futex", "BusySpin"}
  /\ MaxSeq \in Nat
  /\ Mortal \subseteq Subs /\ PubMayCrash \in BOOLEAN /\ SlowClaim \in BOOLEAN
  /\ None \notin Slots /\ None \notin Subs /\ None \notin Chunks

VARIABLES
  \* SubscriberSlot, in shared memory
  state, pid, overflow, data_head, data_tail, data_ring,
  done,               \* the unread entries of the done ring
  sleeping, publisher_waiting,
  dropped,            \* dropped_oldest + dropped_newest + block_timeouts
  \* SegmentHeader and ChunkHeader, in shared memory
  publisher_pid, chunk_seq,
  \* PublisherCore's private members
  free,               \* how often a chunk is on the free_ stack
  refcount, outstanding, loans, next_seq, active, pidfd, claimed_since,
  pub,                \* what the publisher is executing, and its locals
  sub,                \* each subscriber: what it executes, members and locals
  joined              \* history: the first sequence number a slot is due

claim == <<state, pid, overflow>>
queue == <<data_head, data_tail, data_ring>>
flags == <<sleeping, publisher_waiting>>
slotVars == <<claim, queue, done, flags, dropped>>
header == <<publisher_pid>>
pool == <<free, refcount, outstanding>>
sending == <<chunk_seq, loans, next_seq>>
roster == <<active, pidfd, claimed_since, joined>>
vars == <<slotVars, header, pool, sending, roster, pub, sub>>

(* A subscriber object that does not exist (or no longer).                 *)
Detached == [pc |-> "out", slot |-> None, tail |-> 0, chunk |-> None, stale |-> FALSE,
             borrowed |-> {}, last_seq |-> 0, received |-> 0, gaps |-> 0]

(* PublisherCore's constructor; no subscriber has attached.                *)
Init ==
  /\ state = [s \in Slots |-> "Free"]
  /\ pid = [s \in Slots |-> None]
  /\ overflow = [s \in Slots |-> "DropOldest"]
  /\ data_head = [s \in Slots |-> 0] /\ data_tail = [s \in Slots |-> 0]
  /\ data_ring = [s \in Slots |-> [i \in 0 .. Q - 1 |-> None]]
  /\ done = [s \in Slots |-> <<>>]
  /\ sleeping = [s \in Slots |-> FALSE] /\ publisher_waiting = [s \in Slots |-> FALSE]
  /\ dropped = [s \in Slots |-> 0]
  /\ publisher_pid = TRUE
  /\ chunk_seq = [c \in Chunks |-> 0]
  /\ free = [c \in Chunks |-> 1] /\ refcount = [c \in Chunks |-> 0]
  /\ outstanding = [s \in Slots |-> [c \in Chunks |-> 0]]
  /\ loans = {} /\ next_seq = 1
  /\ active = {}
  /\ pidfd = [s \in Slots |-> None]
  /\ claimed_since = [s \in Slots |-> FALSE]
  /\ joined = [s \in Slots |-> 0]
  /\ pub = [pc |-> "idle", cur |-> None, dst |-> None, todo |-> {}, tail |-> 0,
            stale |-> FALSE]
  /\ sub = [p \in Subs |-> Detached]

(* pidfd_alive, process_alive: processes the kernel still knows.           *)
Alive(p) == p \in Subs /\ sub[p].pc # "dead"
Cell(i) == i % Q
Full(s) == data_head[s] - data_tail[s] >= Q
HasData(s) == data_tail[s] # data_head[s]

(* fetch_add and futex_wake_all on futex_word, or on space_futex: a word   *)
(* loaded before is now old, and whoever sleeps on it runs again.          *)
WakeSub(s) ==
  sub' = [p \in Subs |->
            IF sub[p].slot = s
            THEN [sub[p] EXCEPT !.pc = IF @ = "asleep" THEN "woken" ELSE @,
                                !.stale = @ \/ sub[p].pc \in {"w_flag", "w_check", "w_wait"}]
            ELSE sub[p]]
WakePub(s) ==
  pub' = IF pub.dst = s
         THEN [pub EXCEPT !.pc = IF @ = "b_asleep" THEN "b_woken" ELSE @,
                          !.stale = @ \/ pub.pc \in {"b_flag", "b_check", "b_wait"}]
         ELSE pub

Goto(pc) == pub' = [pub EXCEPT !.pc = pc]
(* A step that changes nothing but the publisher's control and locals.     *)
PubLocal == UNCHANGED <<slotVars, header, pool, sending, roster, sub>>
-----------------------------------------------------------------------------
(* Chunk references.  Give(s, n) takes back n[c] of slot s's references to *)
(* every chunk c; a chunk whose refcount reaches 0 goes on the free stack. *)
Give_KeepsOutstanding(s, n) ==
  /\ UNCHANGED outstanding
  /\ refcount' = [c \in Chunks |-> refcount[c] - n[c]]
  /\ free' = [c \in Chunks |->
                IF n[c] > 0 /\ refcount[c] = n[c] THEN free[c] + 1 ELSE free[c]]
Give(s, n) ==
  /\ outstanding' = [outstanding EXCEPT ![s] = [c \in Chunks |-> outstanding[s][c] - n[c]]]
  /\ refcount' = [c \in Chunks |-> refcount[c] - n[c]]
  /\ free' = [c \in Chunks |->
                IF n[c] > 0 /\ refcount[c] = n[c] THEN free[c] + 1 ELSE free[c]]

(* release_ref() for one entry: an index slot s does not hold is ignored.  *)
release_ref_Skipped(s, e) == UNCHANGED pool
release_ref(s, e) ==
  Give(s, [c \in Chunks |-> IF c = e /\ outstanding[s][c] > 0 THEN 1 ELSE 0])

(* release_ref() for each entry of the done ring.                          *)
Returned(s) ==
  [c \in Chunks |->
     LET n == Cardinality({i \in DOMAIN done[s] : done[s][i] = c})
     IN  IF n <= outstanding[s][c] THEN n ELSE outstanding[s][c]]
drain_done_TailNotStored(s) == Give(s, Returned(s)) /\ UNCHANGED done
drain_done(s) ==
  /\ Give(s, Returned(s))
  /\ done' = [done EXCEPT ![s] = <<>>]

(* drain_done() and then everything else slot s still holds; its indices,  *)
(* counters and sleeping flag are reset before it becomes Free.            *)
reclaim_slot(s) ==
  /\ Give(s, outstanding[s])
  /\ done' = [done EXCEPT ![s] = <<>>]
  /\ data_head' = [data_head EXCEPT ![s] = 0]
  /\ data_tail' = [data_tail EXCEPT ![s] = 0]
  /\ sleeping' = [sleeping EXCEPT ![s] = FALSE]
  /\ dropped' = [dropped EXCEPT ![s] = 0]
  /\ pid' = [pid EXCEPT ![s] = None]
  /\ pidfd' = [pidfd EXCEPT ![s] = None]
  /\ active' = active \ {s}
  /\ claimed_since' = [claimed_since EXCEPT ![s] = FALSE]
  /\ state' = [state EXCEPT ![s] = "Free"]
  /\ pub' = [pub EXCEPT !.todo = @ \ {s}]
  /\ UNCHANGED <<overflow, data_ring, publisher_waiting, joined, header, sending, sub>>
-----------------------------------------------------------------------------
(* The slots scan_slots() finds something to do for.                       *)
Changed == {s \in Slots : state[s] = "Closing" \/ (state[s] = "Active" /\ s \notin active)}

(* loan(): below max_loans, drain the done ring of every active slot.      *)
Loan ==
  /\ pub.pc = "idle" /\ Cardinality(loans) < MaxLoans
  /\ pub' = [pub EXCEPT !.pc = "drain", !.todo = {s \in active : done[s] # <<>>}]
  /\ PubLocal

LoanDrain(s) ==
  /\ pub.pc = "drain" /\ s \in pub.todo
  /\ drain_done(s)
  /\ pub' = [pub EXCEPT !.todo = @ \ {s}]
  /\ UNCHANGED <<claim, queue, flags, dropped, header, sending, roster, sub>>

(* The free stack's order is not modelled: any free chunk may be its top.  *)
LoanTake(c) ==
  /\ pub.pc = "drain" /\ pub.todo = {}
  /\ free[c] > 0
  /\ free' = [free EXCEPT ![c] = @ - 1]
  /\ loans' = loans \cup {c}
  /\ Goto("idle")
  /\ UNCHANGED <<slotVars, header, refcount, outstanding, chunk_seq, next_seq, roster, sub>>

release_loan(c) ==
  /\ pub.pc = "idle" /\ c \in loans
  /\ loans' = loans \ {c}
  /\ free' = [free EXCEPT ![c] = @ + 1]
  /\ UNCHANGED <<slotVars, header, refcount, outstanding, chunk_seq, next_seq, roster, pub, sub>>
-----------------------------------------------------------------------------
(* scan_slots(), one step for each slot that needs one; run by send(), by  *)
(* loan() on an empty pool and by check_liveness().                        *)
Scan(s) == pub.pc \in {"scan_send", "scan_live"} /\ s \in pub.todo

ScanOnboard(s) ==
  /\ Scan(s)
  /\ state[s] = "Active" /\ s \notin active /\ Alive(pid[s])
  /\ pidfd' = [pidfd EXCEPT ![s] = pid[s]]
  /\ active' = active \cup {s}
  /\ joined' = [joined EXCEPT ![s] = IF pub.pc = "scan_send" THEN next_seq - 1 ELSE next_seq]
  /\ pub' = [pub EXCEPT !.todo = @ \ {s}]
  /\ UNCHANGED <<slotVars, header, pool, sending, claimed_since, sub>>

ScanReclaim(s) ==
  /\ Scan(s)
  /\ \/ state[s] = "Closing"
     \/ state[s] = "Active" /\ s \notin active /\ ~Alive(pid[s])
  /\ reclaim_slot(s)

Unnamed(s) == s \notin active /\ state[s] = "Claimed" /\ pid[s] = None

(* The process behind the slot is gone.                                    *)
SlotDead_OnlyActive(s) == s \in active /\ ~Alive(pidfd[s])
SlotDead(s) ==
  IF s \in active THEN ~Alive(pidfd[s])
  ELSE state[s] \in {"Claimed", "Active"} /\ ~Unnamed(s) /\ ~Alive(pid[s])

(* The slots check_liveness() finds something to do for.                   *)
Suspect == {s \in Slots : SlotDead(s) \/ Unnamed(s) \/ claimed_since[s]}

(* send() goes on to deliver to active_list_, check_liveness() to probe    *)
(* every slot.                                                             *)
ScanDone ==
  /\ pub.todo = {}
  /\ \/ /\ pub.pc = "scan_send"
        /\ pub' = [pub EXCEPT !.pc = "pick", !.todo = active]
     \/ /\ pub.pc = "scan_live"
        /\ pub' = [pub EXCEPT !.pc = "live", !.todo = Suspect]
  /\ PubLocal
-----------------------------------------------------------------------------
(* send() of a loaned chunk.                                               *)
Send(c) ==
  /\ pub.pc = "idle" /\ c \in loans /\ next_seq <= MaxSeq
  /\ loans' = loans \ {c}
  /\ chunk_seq' = [chunk_seq EXCEPT ![c] = next_seq]
  /\ next_seq' = next_seq + 1
  /\ pub' = [pub EXCEPT !.pc = "scan_send", !.todo = Changed, !.cur = c]
  /\ UNCHANGED <<slotVars, header, pool, roster, sub>>

(* active_list_ has the Block subscribers last.                            *)
DeliverPick(s) ==
  /\ pub.pc = "pick" /\ s \in pub.todo
  /\ overflow[s] = "Block" => \A t \in pub.todo : overflow[t] = "Block"
  /\ pub' = [pub EXCEPT !.pc = "deliver", !.dst = s, !.todo = @ \ {s}] /\ PubLocal

(* The top of deliver()'s loop: load data_tail, then do what it tells.     *)
DeliverLoad ==
  /\ pub.pc = "deliver"
  /\ \/ ~Full(pub.dst) /\ Goto("push")
     \/ /\ Full(pub.dst) /\ overflow[pub.dst] = "DropOldest"
        /\ pub' = [pub EXCEPT !.pc = "evict", !.tail = data_tail[pub.dst]]
     \/ Full(pub.dst) /\ overflow[pub.dst] = "Block" /\ Goto("block")
  /\ PubLocal

(* deliver() returns false: the sample is lost to this subscriber.         *)
GiveUp_Uncounted ==
  /\ pub' = [pub EXCEPT !.pc = "pick", !.dst = None]
  /\ UNCHANGED <<slotVars, header, pool, sending, roster, sub>>
GiveUp ==
  /\ dropped' = [dropped EXCEPT ![pub.dst] = @ + 1]
  /\ pub' = [pub EXCEPT !.pc = "pick", !.dst = None]
  /\ UNCHANGED <<claim, queue, done, flags, header, pool, sending, roster, sub>>

DeliverRefuse ==
  /\ pub.pc = "deliver"
  /\ Full(pub.dst) /\ overflow[pub.dst] = "DropNewest"
  /\ GiveUp

(* The CAS on data_tail, against the tail loaded before: who wins it owns  *)
(* the oldest entry.                                                       *)
DeliverEvict ==
  /\ pub.pc = "evict"
  /\ IF data_tail[pub.dst] = pub.tail
     THEN /\ data_tail' = [data_tail EXCEPT ![pub.dst] = @ + 1]
          /\ release_ref(pub.dst, data_ring[pub.dst][Cell(pub.tail)])
          /\ dropped' = [dropped EXCEPT ![pub.dst] = @ + 1]
     ELSE UNCHANGED <<data_tail, pool, dropped>>
  /\ pub' = [pub EXCEPT !.pc = "deliver", !.tail = 0]
  /\ UNCHANGED <<claim, data_head, data_ring, done, flags, header, sending, roster, sub>>

(* Block: block_timeout has passed, or the subscriber has left.            *)
BlockGiveUp_NoTimeout == pub.pc = "block" /\ state[pub.dst] # "Active" /\ GiveUp
BlockGiveUp == pub.pc = "block" /\ GiveUp

(* Still spinning: look at data_tail again.                                *)
BlockSpin ==
  /\ pub.pc = "block" /\ state[pub.dst] = "Active"
  /\ Goto("deliver") /\ PubLocal

(* Past the spin: load space_futex, ...                                    *)
BlockWord ==
  /\ pub.pc = "block" /\ state[pub.dst] = "Active"
  /\ pub' = [pub EXCEPT !.pc = "b_flag", !.stale = FALSE] /\ PubLocal

SetWaiting(b, pc, stale) ==
  /\ publisher_waiting' = [publisher_waiting EXCEPT ![pub.dst] = b]
  /\ pub' = [pub EXCEPT !.pc = pc, !.stale = stale]
  /\ UNCHANGED <<claim, queue, done, sleeping, dropped, header, pool, sending, roster, sub>>

(* ... raise publisher_waiting, ...                                        *)
BlockFlag_NoRecheck == pub.pc = "b_flag" /\ SetWaiting(TRUE, "b_wait", pub.stale)
BlockFlag == pub.pc = "b_flag" /\ SetWaiting(TRUE, "b_check", pub.stale)

(* ... look at data_tail and the state once more, ...                      *)
BlockCheck ==
  /\ pub.pc = "b_check"
  /\ IF ~Full(pub.dst) \/ state[pub.dst] # "Active"
     THEN SetWaiting(FALSE, "deliver", FALSE)
     ELSE Goto("b_wait") /\ PubLocal

(* ... and futex_wait(), which returns at once if the word has moved.      *)
BlockSleep ==
  /\ pub.pc = "b_wait"
  /\ Goto(IF pub.stale THEN "b_woken" ELSE "b_asleep") /\ PubLocal

(* The futex_wait() times out, or a signal interrupts it.                  *)
BlockTimeout == pub.pc = "b_asleep" /\ Goto("b_woken") /\ PubLocal

BlockAwake == pub.pc = "b_woken" /\ SetWaiting(FALSE, "deliver", FALSE)

(* There is room: write the entry, publish data_head, count the reference. *)
DeliverPush ==
  /\ pub.pc = "push"
  /\ data_ring' = [data_ring EXCEPT ![pub.dst][Cell(data_head[pub.dst])] = pub.cur]
  /\ data_head' = [data_head EXCEPT ![pub.dst] = @ + 1]
  /\ refcount' = [refcount EXCEPT ![pub.cur] = @ + 1]
  /\ outstanding' = [outstanding EXCEPT ![pub.dst][pub.cur] = @ + 1]
  /\ Goto("wake")
  /\ UNCHANGED <<claim, data_tail, done, flags, dropped, header, free, sending, roster, sub>>

(* Load the subscriber's sleeping flag; wake it when the flag is set.      *)
DeliverWake ==
  /\ pub.pc = "wake"
  /\ IF sleeping[pub.dst] THEN WakeSub(pub.dst) ELSE UNCHANGED sub
  /\ pub' = [pub EXCEPT !.pc = "pick", !.dst = None]
  /\ UNCHANGED <<slotVars, header, pool, sending, roster>>

(* Every active subscriber is served.  A chunk nobody took goes back;      *)
(* every liveness_check_every sends, check_liveness() follows.             *)
NobodyTook_Unchecked == TRUE
NobodyTook == refcount[pub.cur] = 0
SendDone ==
  /\ pub.pc = "pick" /\ pub.todo = {}
  /\ free' = IF NobodyTook THEN [free EXCEPT ![pub.cur] = @ + 1] ELSE free
  /\ \/ pub' = [pub EXCEPT !.pc = "idle", !.cur = None]
     \/ pub' = [pub EXCEPT !.pc = "scan_live", !.cur = None, !.todo = Changed]
  /\ UNCHANGED <<slotVars, header, refcount, outstanding, sending, roster, sub>>
-----------------------------------------------------------------------------
(* check_liveness(), called by the application.                            *)
CheckLiveness ==
  /\ pub.pc = "idle"
  /\ pub' = [pub EXCEPT !.pc = "scan_live", !.todo = Changed] /\ PubLocal

(* A slot found Claimed without a pid once more, over a second later: its  *)
(* claimer is dead, or (SlowClaim) only slow.                              *)
ClaimExpired_AtOnce(s) == Unnamed(s)
ClaimExpired(s) ==
  /\ Unnamed(s) /\ claimed_since[s]
  /\ SlowClaim \/ ~ \E p \in Subs : sub[p].slot = s /\ sub[p].pc = "claimed"

LiveReap(s) ==
  /\ pub.pc = "live" /\ s \in pub.todo
  /\ SlotDead(s) \/ ClaimExpired(s)
  /\ reclaim_slot(s)

LiveKeep(s) ==
  /\ pub.pc = "live" /\ s \in pub.todo
  /\ ~SlotDead(s)
  /\ claimed_since' = [claimed_since EXCEPT ![s] = Unnamed(s)]
  /\ pub' = [pub EXCEPT !.todo = @ \ {s}]
  /\ UNCHANGED <<slotVars, header, pool, sending, active, pidfd, joined, sub>>

LiveDone == pub.pc = "live" /\ pub.todo = {} /\ Goto("idle") /\ PubLocal
-----------------------------------------------------------------------------
(* ~PublisherCore(): clear publisher_pid, then wake every slot.            *)
Shutdown ==
  /\ pub.pc = "idle" /\ loans = {}
  /\ publisher_pid' = FALSE
  /\ pub' = [pub EXCEPT !.pc = "closing", !.todo = Slots]
  /\ UNCHANGED <<slotVars, pool, sending, roster, sub>>

ShutdownWake(s) ==
  /\ pub.pc = "closing" /\ s \in pub.todo
  /\ WakeSub(s)
  /\ pub' = [pub EXCEPT !.todo = @ \ {s}, !.pc = IF pub.todo = {s} THEN "gone" ELSE @]
  /\ UNCHANGED <<slotVars, header, pool, sending, roster>>

(* The publisher process is killed: none of its destructor happens.        *)
PubCrash ==
  /\ PubMayCrash /\ pub.pc \notin {"gone", "dead"}
  /\ pub' = [pub EXCEPT !.pc = "dead", !.todo = {}, !.cur = None, !.dst = None, !.tail = 0]
  /\ PubLocal
-----------------------------------------------------------------------------
(* Subscribers.  SubGoto moves p and leaves the publisher's members alone. *)
SubGoto(p, pc) == sub' = [sub EXCEPT ![p].pc = pc]
PubUntouched == UNCHANGED <<header, pool, sending, roster>>
SubLocal == UNCHANGED <<slotVars, pub>> /\ PubUntouched
my(p) == sub[p].slot

(* SubscriberCore's constructor finds a ready segment and a live publisher.*)
SubOpen(p) ==
  /\ sub[p].pc = "out"
  /\ publisher_pid /\ pub.pc # "dead"
  /\ SubGoto(p, "open") /\ SubLocal

(* The CAS from Free to Claimed wins a slot ...                            *)
SubClaim(p, s) ==
  /\ sub[p].pc = "open" /\ state[s] = "Free"
  /\ state' = [state EXCEPT ![s] = "Claimed"]
  /\ sub' = [sub EXCEPT ![p].pc = "claimed", ![p].slot = s]
  /\ UNCHANGED <<pid, overflow, queue, done, flags, dropped, pub>> /\ PubUntouched

(* ... or there is none, and the constructor throws.                       *)
SubNoSlot(p) ==
  /\ sub[p].pc = "open" /\ \A s \in Slots : state[s] # "Free"
  /\ SubGoto(p, "out") /\ SubLocal

SubName(p) ==
  /\ sub[p].pc = "claimed"
  /\ pid' = [pid EXCEPT ![my(p)] = p]
  /\ SubGoto(p, "named")
  /\ UNCHANGED <<state, overflow, queue, done, flags, dropped, pub>> /\ PubUntouched

(* The rest of the constructor, private until the store of Active: the     *)
(* queue starts from "now", data_tail and done_head skip what is there.    *)
SubActivate(p) ==
  /\ sub[p].pc = "named"
  /\ \E o \in Policies : overflow' = [overflow EXCEPT ![my(p)] = o]
  /\ data_tail' = [data_tail EXCEPT ![my(p)] = data_head[my(p)]]
  /\ done' = [done EXCEPT ![my(p)] = <<>>]
  /\ state' = [state EXCEPT ![my(p)] = "Active"]
  /\ SubGoto(p, "run")
  /\ UNCHANGED <<pid, data_head, data_ring, flags, dropped, pub>> /\ PubUntouched
-----------------------------------------------------------------------------
MayBorrow_OneMore(p) == Cardinality(sub[p].borrowed) <= MaxBorrowed
MayBorrow(p) == Cardinality(sub[p].borrowed) < MaxBorrowed

(* try_receive(), below the borrow limit: load data_tail and data_head;    *)
(* an empty queue changes nothing.                                         *)
ReceiveLoad(p) ==
  /\ sub[p].pc = "run" /\ MayBorrow(p)
  /\ HasData(my(p))
  /\ sub' = [sub EXCEPT ![p].pc = "cell", ![p].tail = data_tail[my(p)]] /\ SubLocal

(* Load the entry at that tail.                                            *)
ReceiveCell(p) ==
  /\ sub[p].pc = "cell"
  /\ sub' = [sub EXCEPT ![p].pc = "cas", ![p].chunk = data_ring[my(p)][Cell(sub[p].tail)]]
  /\ SubLocal

(* The CAS on data_tail; lost to an eviction, start over.                  *)
CasWins_Always(p) == TRUE
CasWins(p) == data_tail[my(p)] = sub[p].tail
ReceiveCas(p) ==
  /\ sub[p].pc = "cas"
  /\ IF CasWins(p)
     THEN /\ data_tail' = [data_tail EXCEPT ![my(p)] = sub[p].tail + 1]
          /\ sub' = [sub EXCEPT ![p].pc = "took", ![p].tail = 0]
     ELSE /\ sub' = [sub EXCEPT ![p].pc = "run", ![p].tail = 0, ![p].chunk = None]
          /\ UNCHANGED data_tail
  /\ UNCHANGED <<claim, data_head, data_ring, done, flags, dropped, pub>>
  /\ PubUntouched

(* Wake a Block publisher that waits for room, then count the sample and   *)
(* the gap before it.                                                      *)
ReceiveTake(p) ==
  LET c == sub[p].chunk
      last == sub[p].last_seq
      gap == IF last # 0 /\ chunk_seq[c] > last + 1 THEN chunk_seq[c] - last - 1 ELSE 0
  IN  /\ sub[p].pc = "took"
      /\ IF publisher_waiting[my(p)] THEN WakePub(my(p)) ELSE UNCHANGED pub
      /\ sub' = [sub EXCEPT ![p].pc = "run", ![p].chunk = None,
                            ![p].borrowed = @ \cup {c}, ![p].last_seq = chunk_seq[c],
                            ![p].received = @ + 1, ![p].gaps = @ + gap]
      /\ UNCHANGED slotVars
      /\ PubUntouched

(* release(): hand the chunk back through the done ring.                   *)
Release_StillBorrowed(p, c) ==
  /\ sub[p].pc = "run" /\ c \in sub[p].borrowed
  /\ done' = [done EXCEPT ![my(p)] = Append(@, c)]
  /\ UNCHANGED <<claim, queue, flags, dropped, pub, sub>> /\ PubUntouched
Release(p, c) ==
  /\ sub[p].pc = "run" /\ c \in sub[p].borrowed
  /\ done' = [done EXCEPT ![my(p)] = Append(@, c)]
  /\ sub' = [sub EXCEPT ![p].borrowed = @ \ {c}]
  /\ UNCHANGED <<claim, queue, flags, dropped, pub>> /\ PubUntouched
-----------------------------------------------------------------------------
(* wait() in Futex mode.  Its loop starts by loading futex_word, ...       *)
WaitWord(p) ==
  /\ WaitMode = "Futex"
  /\ (sub[p].pc = "run" /\ ~HasData(my(p))) \/ sub[p].pc = "again"
  /\ sub' = [sub EXCEPT ![p].pc = "w_flag", ![p].stale = FALSE] /\ SubLocal

SetSleeping(p, b, pc, stale) ==
  /\ sleeping' = [sleeping EXCEPT ![my(p)] = b]
  /\ sub' = [sub EXCEPT ![p].pc = pc, ![p].stale = stale]
  /\ UNCHANGED <<claim, queue, done, publisher_waiting, dropped, pub>> /\ PubUntouched

(* ... raises sleeping, ...                                                *)
WaitFlag_NoRecheck(p) ==
  sub[p].pc = "w_flag" /\ SetSleeping(p, TRUE, "w_wait", sub[p].stale)
WaitFlag(p) == sub[p].pc = "w_flag" /\ SetSleeping(p, TRUE, "w_check", sub[p].stale)

(* ... looks once more for data or a publisher that has shut down, ...     *)
WaitCheck_OnlyData(p) ==
  /\ sub[p].pc = "w_check"
  /\ IF HasData(my(p))
     THEN SetSleeping(p, FALSE, "run", FALSE)
     ELSE SubGoto(p, "w_wait") /\ SubLocal
WaitCheck(p) ==
  /\ sub[p].pc = "w_check"
  /\ IF HasData(my(p)) \/ ~publisher_pid
     THEN SetSleeping(p, FALSE, "run", FALSE)
     ELSE SubGoto(p, "w_wait") /\ SubLocal

(* ... returns when the deadline has passed, ...                           *)
WaitExpired(p) == sub[p].pc = "w_wait" /\ SetSleeping(p, FALSE, "run", FALSE)

(* ... and otherwise sleeps in futex_wait(), unless the word has moved.    *)
WaitSleep(p) ==
  /\ sub[p].pc = "w_wait"
  /\ SubGoto(p, IF sub[p].stale THEN "woken" ELSE "asleep") /\ SubLocal

(* The futex_wait() times out, or a signal interrupts it.                  *)
WaitTimeout(p) == sub[p].pc = "asleep" /\ SubGoto(p, "woken") /\ SubLocal

WaitAwake(p) ==
  /\ sub[p].pc = "woken"
  /\ SetSleeping(p, FALSE, IF HasData(my(p)) THEN "run" ELSE "again", FALSE)
-----------------------------------------------------------------------------
(* ~SubscriberCore(): Closing, then a wake for a blocked publisher.        *)
SubClose(p) ==
  /\ sub[p].pc = "run"
  /\ state' = [state EXCEPT ![my(p)] = "Closing"]
  /\ sub' = [sub EXCEPT ![p].pc = "closing", ![p].borrowed = {}]
  /\ UNCHANGED <<pid, overflow, queue, done, flags, dropped, pub>> /\ PubUntouched

SubCloseWake(p) ==
  /\ sub[p].pc = "closing"
  /\ WakePub(my(p))
  /\ sub' = [sub EXCEPT ![p] = Detached]
  /\ UNCHANGED slotVars /\ PubUntouched

(* The subscriber process is killed, wherever it is.                       *)
SubCrash(p) ==
  /\ p \in Mortal /\ sub[p].pc # "dead"
  /\ sub' = [sub EXCEPT ![p] = [Detached EXCEPT !.pc = "dead"]] /\ SubLocal
-----------------------------------------------------------------------------
Publisher ==
  \/ Loan \/ ScanDone
  \/ DeliverLoad \/ DeliverRefuse \/ DeliverEvict \/ DeliverPush \/ DeliverWake
  \/ BlockGiveUp \/ BlockSpin \/ BlockWord \/ BlockFlag \/ BlockCheck \/ BlockSleep
  \/ BlockAwake \/ SendDone \/ CheckLiveness \/ LiveDone \/ Shutdown
  \/ \E c \in Chunks : LoanTake(c) \/ release_loan(c) \/ Send(c)
  \/ \E s \in Slots :
       \/ LoanDrain(s) \/ ScanOnboard(s) \/ ScanReclaim(s)
       \/ DeliverPick(s) \/ LiveReap(s) \/ LiveKeep(s) \/ ShutdownWake(s)

Subscriber(p) ==
  \/ SubOpen(p) \/ SubNoSlot(p) \/ SubName(p) \/ SubActivate(p)
  \/ ReceiveLoad(p) \/ ReceiveCell(p) \/ ReceiveCas(p) \/ ReceiveTake(p)
  \/ WaitWord(p) \/ WaitFlag(p) \/ WaitCheck(p) \/ WaitExpired(p) \/ WaitSleep(p)
  \/ WaitAwake(p) \/ SubClose(p) \/ SubCloseWake(p)
  \/ \E c \in Chunks : Release(p, c)
  \/ \E s \in Slots : SubClaim(p, s)

(* What the kernel and the environment do to a process.                    *)
Environment == PubCrash \/ BlockTimeout \/ \E p \in Subs : WaitTimeout(p) \/ SubCrash(p)

(* Every process is gone.                                                  *)
Terminated ==
  /\ pub.pc \in {"gone", "dead"} /\ \A p \in Subs : sub[p].pc \in {"out", "dead"}
  /\ UNCHANGED vars

Next == Publisher \/ Environment \/ Terminated \/ \E p \in Subs : Subscriber(p)

Spec == Init /\ [][Next]_vars
-----------------------------------------------------------------------------
PubPCs == {"idle", "drain", "scan_send", "scan_live", "pick", "deliver",
           "push", "evict", "wake", "block", "b_flag", "b_check", "b_wait", "b_asleep",
           "b_woken", "live", "closing", "gone", "dead"}
Attached == {"run", "cell", "cas", "took", "w_flag", "w_check", "w_wait", "asleep",
             "woken", "again"}
SubPCs == Attached \cup {"out", "open", "claimed", "named", "closing", "dead"}
Delivering == {"deliver", "push", "evict", "wake", "block", "b_flag", "b_check", "b_wait",
               "b_asleep", "b_woken"}

(* Every variable has the type of the member it models.                    *)
TypeOK ==
  /\ state \in [Slots -> {"Free", "Claimed", "Active", "Closing"}]
  /\ pid \in [Slots -> Subs \cup {None}]
  /\ overflow \in [Slots -> {"DropNewest", "DropOldest", "Block"}]
  /\ data_head \in [Slots -> Nat] /\ data_tail \in [Slots -> Nat]
  /\ data_ring \in [Slots -> [0 .. Q - 1 -> Chunks \cup {None}]]
  /\ done \in [Slots -> Seq(Chunks)]
  /\ sleeping \in [Slots -> BOOLEAN] /\ publisher_waiting \in [Slots -> BOOLEAN]
  /\ dropped \in [Slots -> Nat]
  /\ publisher_pid \in BOOLEAN
  /\ chunk_seq \in [Chunks -> Nat] /\ next_seq \in Nat \ {0} /\ loans \subseteq Chunks
  /\ free \in [Chunks -> Nat] /\ refcount \in [Chunks -> Nat]
  /\ outstanding \in [Slots -> [Chunks -> Nat]]
  /\ active \subseteq Slots /\ pidfd \in [Slots -> Subs \cup {None}]
  /\ claimed_since \in [Slots -> BOOLEAN] /\ joined \in [Slots -> Nat]
  /\ pub \in [pc : PubPCs, cur : Chunks \cup {None}, dst : Slots \cup {None},
              todo : SUBSET Slots, tail : Nat, stale : BOOLEAN]
  /\ sub \in [Subs -> [pc : SubPCs, slot : Slots \cup {None}, tail : Nat,
                       chunk : Chunks \cup {None}, stale : BOOLEAN,
                       borrowed : SUBSET Chunks, last_seq : Nat, received : Nat,
                       gaps : Nat]]

Queued(s) == {data_ring[s][Cell(i)] : i \in data_tail[s] .. data_head[s] - 1}
Taken(p) == sub[p].borrowed \cup (IF sub[p].pc = "took" THEN {sub[p].chunk} ELSE {})
Returning(s) == {done[s][i] : i \in DOMAIN done[s]}
Holders(c) == {s \in Slots : outstanding[s][c] > 0}
Owns(p, s) == sub[p].slot = s /\ sub[p].pc \in Attached

(* A chunk is in exactly one place: once on the free stack, or loaned, or  *)
(* being sent or referenced.  So free_chunk() never frees twice and loan() *)
(* never hands out a chunk that is still in use.                           *)
OnePlace ==
  pub.pc # "dead" =>
    \A c \in Chunks :
      \/ free[c] = 1 /\ c \notin loans /\ c # pub.cur /\ refcount[c] = 0
      \/ free[c] = 0 /\ c \in loans /\ c # pub.cur /\ refcount[c] = 0
      \/ free[c] = 0 /\ c \notin loans /\ (c = pub.cur \/ refcount[c] > 0)

(* refcount_[c] counts the slots that hold c, each of them once, whatever  *)
(* order evictions, returns and reclaims come in.                          *)
RefcountExact ==
  \A c \in Chunks :
    /\ refcount[c] = Cardinality(Holders(c))
    /\ \A s \in Slots : outstanding[s][c] <= 1

(* What a live subscriber can still read is never free, loaned or being    *)
(* rewritten: its queue entries, the entry it just won and its borrowed    *)
(* samples are counted as outstanding at its slot.                         *)
ReadableIsHeld ==
  \A p \in Subs, s \in Slots :
    Owns(p, s) =>
      \A c \in Queued(s) \cup Taken(p) :
        outstanding[s][c] = 1 /\ free[c] = 0 /\ c \notin loans

(* And nothing leaks: what is outstanding at a live subscriber's slot is   *)
(* queued, in its hands or on its way back.                                *)
NoLeak ==
  \A p \in Subs, s \in Slots :
    Owns(p, s) =>
      \A c \in Chunks :
        outstanding[s][c] > 0 => c \in Queued(s) \cup Taken(p) \cup Returning(s)

(* "loan() can only fail if a caller exceeds max_loans" (layout.hpp):      *)
(* once every done ring is drained a chunk is free, with subscribers       *)
(* crashing and leaving.  So loan()'s second look (rescan and drain again) *)
(* and its OutOfChunks are never reached: no step of the model is theirs.  *)
LoanNeverFails == pub.pc = "drain" /\ pub.todo = {} => \E c \in Chunks : free[c] > 0


(* "Drops counted twice": every sample sent since a subscriber joined is   *)
(* received, queued, still to be delivered or counted in its drop counters.*)
EverySampleAccounted ==
  \A p \in Subs, s \in Slots :
    Owns(p, s) /\ s \in active /\ pub.pc # "dead" =>
      LET pending == \/ pub.pc = "scan_send"
                     \/ pub.pc \in Delivering \cup {"pick"} /\ s \in pub.todo
                     \/ pub.pc \in Delivering \ {"wake"} /\ s = pub.dst
      IN  next_seq - joined[s] - (IF pending THEN 1 ELSE 0) =
            sub[p].received + (IF sub[p].pc = "took" THEN 1 ELSE 0)
              + (data_head[s] - data_tail[s]) + dropped[s]

(* The gaps a subscriber sees are losses its publisher counted.            *)
GapsAreDrops ==
  \A p \in Subs, s \in Slots : Owns(p, s) => sub[p].gaps <= dropped[s]

(* The Dekker handshake of deliver() and wait(): a subscriber is asleep    *)
(* with data queued, or with the publisher shut down, only while the       *)
(* publisher is still on its way to waking it.                             *)
SleeperIsWoken ==
  \A p \in Subs :
    sub[p].pc = "asleep" /\ pub.pc # "dead" =>
      /\ HasData(my(p)) => pub.pc = "wake" /\ pub.dst = my(p)
      /\ ~publisher_pid => pub.pc = "closing" /\ my(p) \in pub.todo

(* The handshake of a Block deliver() and try_receive(): the publisher is  *)
(* asleep although there is room, or although the subscriber has left,     *)
(* only while that subscriber is on its way to waking it, or was killed.   *)
BlockedIsWoken ==
  pub.pc = "b_asleep" /\ (~Full(pub.dst) \/ state[pub.dst] # "Active") =>
    \/ \E p \in Subs : my(p) = pub.dst /\ sub[p].pc \in {"took", "closing"}
    \/ ~Alive(pid[pub.dst])

(* "The publisher doesn't touch a Claimed slot" (core.cpp): a slot stays   *)
(* its claimer's, alone, from the claim on until it is closed.             *)
SlotExclusive ==
  \A p \in Subs :
    sub[p].pc \in Attached \cup {"claimed", "named"} =>
      /\ state[my(p)] = IF sub[p].pc \in Attached THEN "Active" ELSE "Claimed"
      /\ \A q \in Subs \ {p} : my(q) = my(p) => sub[q].pc = "closing"

(* The done ring never wraps onto unread entries: completion_capacity is   *)
(* at least chunk_count.                                                   *)
DoneFits == \A s \in Slots : Len(done[s]) <= Cardinality(Chunks)

(* A sample a subscriber has borrowed is not rewritten under it.           *)
BorrowedStable ==
  [][\A p \in Subs : \A c \in Taken(p) : chunk_seq'[c] = chunk_seq[c]]_vars
-----------------------------------------------------------------------------
(* Fairness: no process is stopped for ever in the middle of an operation; *)
(* block_timeout and futex_wait()'s timeout do pass; the publisher's       *)
(* application goes on calling check_liveness() (send() does every         *)
(* liveness_check_every sends), at times more than a second apart.         *)
PubProgress == pub.pc # "idle" /\ Publisher
SubProgress(p) == sub[p].pc \notin {"out", "run"} /\ Subscriber(p)
Fairness ==
  /\ WF_vars(PubProgress) /\ WF_vars(BlockTimeout) /\ SF_vars(BlockGiveUp)
  /\ SF_vars(CheckLiveness) /\ \A s \in Slots : SF_vars(LiveReap(s))
  /\ \A p \in Subs : WF_vars(SubProgress(p))
FairSpec == Spec /\ Fairness

InWait(p) == sub[p].pc \in {"w_flag", "w_check", "w_wait", "asleep", "woken", "again"}
PubGone == pub.pc \in {"closing", "gone", "dead"}

(* "Waits until data is available, the timeout expires, or the publisher   *)
(* goes away" (core.hpp): with data queued or the publisher gone, wait()   *)
(* returns, even when it has no timeout.                                   *)
WaitReturns ==
  \A p \in Subs : InWait(p) /\ (HasData(my(p)) \/ PubGone) ~> ~InWait(p)

(* send() comes back: no subscriber, asleep, stuck or killed, holds the    *)
(* publisher for ever.                                                     *)
SendReturns == pub.cur # None ~> pub.cur = None

(* A slot whose subscriber left or was killed, at any point of its life,   *)
(* is given back while the publisher lives.                                *)
AbandonedIsReclaimed ==
  \A s \in Slots :
    (state[s] # "Free" /\ \A p \in Subs : my(p) # s) ~> (state[s] = "Free" \/ PubGone)
=============================================================================
