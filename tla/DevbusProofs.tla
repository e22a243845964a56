---------------------------- MODULE DevbusProofs ----------------------------
(***************************************************************************)
(* Theorems about Devbus, for any number of slots, subscribers and chunks, *)
(* any capacities and every interleaving: the publisher's chunk            *)
(* bookkeeping is exact whatever the subscribers do, slow claimers and     *)
(* killed processes included.                                              *)
(***************************************************************************)
EXTENDS Devbus, FiniteSetTheorems, TLAPS

InSend == {"scan_send", "pick"} \cup Delivering

(* The publisher's locals are what its program counter says they are.      *)
PubShape ==
  /\ pub = [pc |-> pub.pc, cur |-> pub.cur, dst |-> pub.dst, todo |-> pub.todo,
            tail |-> pub.tail, stale |-> pub.stale]
  /\ pub.pc \in PubPCs /\ pub.todo \subseteq Slots
  /\ pub.cur \in IF pub.pc \in InSend THEN Chunks ELSE {None}
  /\ pub.pc \in Delivering => pub.dst \in Slots /\ pub.dst \notin pub.todo

PoolTypes ==
  /\ free \in [Chunks -> Nat] /\ refcount \in [Chunks -> Nat]
  /\ outstanding \in [Slots -> [Chunks -> Nat]]
  /\ loans \subseteq Chunks /\ active \subseteq Slots
  /\ done \in [Slots -> Seq(Chunks)]

(* The chunk being sent is not yet at the slots it still has to go to.     *)
Fresh ==
  pub.cur # None =>
    \A s \in Slots :
      pub.pc = "scan_send" \/ s \in pub.todo \/ (pub.pc # "pick" /\ pub.pc # "wake" /\ s = pub.dst)
        => outstanding[s][pub.cur] = 0

PoolInv == PubShape /\ PoolTypes /\ OnePlace /\ RefcountExact /\ Fresh
-----------------------------------------------------------------------------
(* Taking back references a slot holds keeps the counts exact, and frees   *)
(* a chunk exactly when its last reference goes (release_ref,              *)
(* reclaim_slot).                                                          *)
LEMMA GiveLemma ==
  ASSUME PoolTypes, RefcountExact, NEW s \in Slots, NEW n \in [Chunks -> Nat],
         \A c \in Chunks : n[c] <= outstanding[s][c],
         Give(s, n)
  PROVE  /\ free' \in [Chunks -> Nat] /\ refcount' \in [Chunks -> Nat]
         /\ outstanding' \in [Slots -> [Chunks -> Nat]]
         /\ RefcountExact'
         /\ \A c \in Chunks :
              /\ n[c] = 0 => free'[c] = free[c] /\ refcount'[c] = refcount[c]
              /\ n[c] # 0 => /\ refcount[c] > 0 /\ refcount'[c] = refcount[c] - 1
                             /\ free'[c] = free[c] + IF refcount[c] = 1 THEN 1 ELSE 0
         /\ \A t \in Slots, c \in Chunks : outstanding'[t][c] <= outstanding[t][c]
<1>1. ASSUME NEW c \in Chunks
      PROVE  /\ refcount[c] \in Nat /\ free[c] \in Nat /\ n[c] \in {0, 1}
             /\ n[c] = 1 => outstanding[s][c] = 1
             /\ \A t \in Slots : outstanding[t][c] \in {0, 1}
  <2>1. \A t \in Slots : outstanding[t][c] \in Nat /\ outstanding[t][c] <= 1
    BY DEF PoolTypes, RefcountExact
  <2>2. n[c] \in Nat /\ n[c] <= outstanding[s][c]
    OBVIOUS
  <2> QED BY <2>1, <2>2 DEF PoolTypes
<1>2. \A t \in Slots : outstanding'[t] = IF t = s THEN [c \in Chunks |-> outstanding[s][c] - n[c]]
                                         ELSE outstanding[t]
  BY DEF Give, PoolTypes
<1>3. \A t \in Slots, c \in Chunks :
        outstanding'[t][c] = IF t = s THEN outstanding[t][c] - n[c] ELSE outstanding[t][c]
  BY Zenon, <1>2
<1>4. outstanding' \in [Slots -> [Chunks -> Nat]]
  <2>1. [c \in Chunks |-> outstanding[s][c] - n[c]] \in [Chunks -> Nat]
    BY DEF PoolTypes
  <2> QED BY <2>1 DEF Give, PoolTypes
<1>5. ASSUME NEW c \in Chunks
      PROVE  Holders(c)' = IF n[c] = 0 THEN Holders(c) ELSE Holders(c) \ {s}
  BY <1>1, <1>3 DEF Holders
<1>6. ASSUME NEW c \in Chunks
      PROVE  /\ refcount'[c] = refcount[c] - n[c]
             /\ refcount'[c] = Cardinality(Holders(c)')
             /\ n[c] = 1 => refcount[c] > 0
  <2>1. refcount'[c] = refcount[c] - n[c]
    BY DEF Give
  <2>2. refcount[c] = Cardinality(Holders(c))
    BY DEF RefcountExact
  <2>3. CASE n[c] = 0
    BY <1>1, <1>5, <2>1, <2>2, <2>3
  <2>4. CASE n[c] = 1
    <3>1. s \in Holders(c)
      BY <1>1, <2>4 DEF Holders
    <3>2. IsFiniteSet(Holders(c))
      BY FS_Subset, DevbusConstants DEF Holders
    <3>3. Cardinality(Holders(c) \ {s}) = Cardinality(Holders(c)) - 1
      BY Zenon, <3>1, <3>2, FS_RemoveElement
    <3>4. Cardinality(Holders(c)) # 0
      BY <3>1, <3>2, FS_EmptySet
    <3>5. Holders(c)' = Holders(c) \ {s}
      BY <1>5, <2>4
    <3> QED BY <1>1, <2>1, <2>2, <2>4, <3>3, <3>4, <3>5
  <2> QED BY <1>1, <2>3, <2>4
<1>7. refcount' \in [Chunks -> Nat]
  <2>1. \A c \in Chunks : refcount[c] - n[c] \in Nat
    BY <1>1, <1>6
  <2> QED BY <2>1 DEF Give
<1>8. free' \in [Chunks -> Nat]
  BY <1>1 DEF Give
<1>9. RefcountExact'
  <2>1. ASSUME NEW c \in Chunks, NEW t \in Slots
        PROVE  outstanding'[t][c] <= 1
    BY <1>1, <1>3
  <2> QED BY <1>6, <2>1 DEF RefcountExact
<1>10. ASSUME NEW c \in Chunks
       PROVE  /\ n[c] = 0 => free'[c] = free[c] /\ refcount'[c] = refcount[c]
              /\ n[c] # 0 => /\ refcount[c] > 0 /\ refcount'[c] = refcount[c] - 1
                             /\ free'[c] = free[c] + IF refcount[c] = 1 THEN 1 ELSE 0
  BY <1>1, <1>6 DEF Give
<1>11. ASSUME NEW t \in Slots, NEW c \in Chunks
       PROVE  outstanding'[t][c] <= outstanding[t][c]
  BY <1>1, <1>3
<1> QED BY <1>4, <1>7, <1>8, <1>9, <1>10, <1>11

(* What drain_done() takes back is at most what the slot holds.            *)
LEMMA ReturnedLemma ==
  ASSUME PoolTypes, NEW s \in Slots
  PROVE  /\ Returned(s) \in [Chunks -> Nat]
         /\ \A c \in Chunks : Returned(s)[c] <= outstanding[s][c]
<1> DEFINE E(c) == {i \in DOMAIN done[s] : done[s][i] = c}
<1>1. ASSUME NEW c \in Chunks
      PROVE  Cardinality(E(c)) \in Nat
  <2>1. DOMAIN done[s] = 1 .. Len(done[s]) /\ Len(done[s]) \in Nat
    BY DEF PoolTypes
  <2>2. IsFiniteSet(1 .. Len(done[s]))
    BY <2>1, FS_Interval
  <2>3. E(c) \in SUBSET (1 .. Len(done[s]))
    BY <2>1
  <2> QED BY <2>2, <2>3, FS_Subset, FS_CardinalityType
<1>2. ASSUME NEW c \in Chunks
      PROVE  outstanding[s][c] \in Nat
  BY DEF PoolTypes
<1>3. Returned(s) = [c \in Chunks |-> IF Cardinality(E(c)) <= outstanding[s][c]
                                      THEN Cardinality(E(c)) ELSE outstanding[s][c]]
  BY DEF Returned
<1> HIDE DEF E
<1> QED BY <1>1, <1>2, <1>3

(* Taking references back, of other chunks than the one being sent, leaves *)
(* every chunk in one place.                                               *)
LEMMA GiveKeeps ==
  ASSUME PoolInv, NEW s \in Slots, NEW n \in [Chunks -> Nat],
         \A c \in Chunks : n[c] <= outstanding[s][c],
         pub.cur \in Chunks => n[pub.cur] = 0,
         Give(s, n), loans' = loans,
         pub.pc # "dead", pub'.cur = pub.cur
  PROVE  /\ free' \in [Chunks -> Nat] /\ refcount' \in [Chunks -> Nat]
         /\ outstanding' \in [Slots -> [Chunks -> Nat]]
         /\ \A t \in Slots, c \in Chunks : outstanding'[t][c] <= outstanding[t][c]
         /\ OnePlace' /\ RefcountExact'
<1>1. PoolTypes /\ RefcountExact /\ OnePlace /\ PubShape
  BY DEF PoolInv
<1>2. /\ free' \in [Chunks -> Nat] /\ refcount' \in [Chunks -> Nat]
      /\ outstanding' \in [Slots -> [Chunks -> Nat]]
      /\ RefcountExact'
      /\ \A c \in Chunks :
           /\ n[c] = 0 => free'[c] = free[c] /\ refcount'[c] = refcount[c]
           /\ n[c] # 0 => /\ refcount[c] > 0 /\ refcount'[c] = refcount[c] - 1
                          /\ free'[c] = free[c] + IF refcount[c] = 1 THEN 1 ELSE 0
      /\ \A t \in Slots, c \in Chunks : outstanding'[t][c] <= outstanding[t][c]
  BY <1>1, GiveLemma
<1>3. ASSUME NEW c \in Chunks
      PROVE  \/ free'[c] = 1 /\ c \notin loans' /\ c # pub'.cur /\ refcount'[c] = 0
             \/ free'[c] = 0 /\ c \in loans' /\ c # pub'.cur /\ refcount'[c] = 0
             \/ free'[c] = 0 /\ c \notin loans' /\ (c = pub'.cur \/ refcount'[c] > 0)
  <2>1. \/ free[c] = 1 /\ c \notin loans /\ c # pub.cur /\ refcount[c] = 0
        \/ free[c] = 0 /\ c \in loans /\ c # pub.cur /\ refcount[c] = 0
        \/ free[c] = 0 /\ c \notin loans /\ (c = pub.cur \/ refcount[c] > 0)
    BY <1>1 DEF OnePlace
  <2>2. CASE n[c] = 0
    BY <1>2, <2>1, <2>2
  <2>3. CASE n[c] # 0
    <3>1. c # pub.cur
      BY <2>3
    <3>2. refcount[c] \in Nat /\ refcount[c] > 0 /\ refcount'[c] = refcount[c] - 1
          /\ free'[c] = free[c] + IF refcount[c] = 1 THEN 1 ELSE 0
      BY <1>1, <1>2, <2>3 DEF PoolTypes
    <3> QED BY <2>1, <3>1, <3>2
  <2> QED BY <2>2, <2>3
<1> QED BY <1>2, <1>3 DEF OnePlace

(* A step that leaves the pool and the loans alone and keeps the chunk     *)
(* being sent keeps the pool's invariants.                                 *)
LEMMA PoolUntouched ==
  ASSUME PoolInv, UNCHANGED <<pool, loans>>, pub'.cur = pub.cur,
         pub.pc = "dead" => pub'.pc = "dead",
         active' \subseteq Slots, done' \in [Slots -> Seq(Chunks)]
  PROVE  PoolTypes' /\ OnePlace' /\ RefcountExact'
<1>1. PoolTypes'
  BY DEF PoolInv, PoolTypes, pool
<1>2. OnePlace'
  BY DEF PoolInv, OnePlace, pool
<1>3. RefcountExact'
  BY Zenon DEF PoolInv, RefcountExact, Holders, pool
<1> QED BY <1>1, <1>2, <1>3

(* A publisher step that only moves its program counter or its locals, or  *)
(* writes slot members, keeps the invariant.                               *)
LEMMA ControlStep ==
  ASSUME PoolInv,
         \/ Loan \/ ScanDone \/ DeliverLoad \/ DeliverRefuse \/ DeliverWake
         \/ BlockGiveUp \/ BlockSpin \/ BlockWord \/ BlockFlag \/ BlockCheck \/ BlockSleep
         \/ BlockAwake \/ BlockTimeout \/ CheckLiveness \/ LiveDone \/ Shutdown
         \/ \E s \in Slots : ScanOnboard(s) \/ DeliverPick(s) \/ LiveKeep(s) \/ ShutdownWake(s)
  PROVE  PoolInv'
<1> USE DEF slotVars, claim, queue, flags, header, sending, roster, pool, PubLocal, Goto,
            PubShape, Fresh, InSend, Delivering, PubPCs
<1> DEFINE Kept == /\ UNCHANGED <<pool, loans>> /\ active' \subseteq Slots
                   /\ done' = done /\ PubShape' /\ pub'.cur = pub.cur
                   /\ pub.pc # "dead" /\ Fresh'
<1>1. PubShape /\ PoolTypes /\ Fresh
  BY DEF PoolInv
<1>2. Kept => PoolInv'
  <2> SUFFICES ASSUME Kept PROVE PoolInv'
    OBVIOUS
  <2>1. PoolTypes' /\ OnePlace' /\ RefcountExact'
    BY <1>1, PoolUntouched DEF PoolTypes
  <2> QED BY <2>1 DEF PoolInv
<1>3. CASE Loan
  BY Zenon, <1>1, <1>2, <1>3 DEF PoolTypes, Loan
<1>5. CASE ScanDone
  BY ZenonT(60), <1>1, <1>2, <1>5 DEF PoolTypes, ScanDone, Suspect
<1>6. CASE DeliverLoad
  BY ZenonT(60), <1>1, <1>2, <1>6 DEF PoolTypes, DeliverLoad
<1>7. CASE DeliverRefuse
  BY Zenon, <1>1, <1>2, <1>7 DEF PoolTypes, DeliverRefuse, GiveUp
<1>8. CASE DeliverWake
  BY Zenon, <1>1, <1>2, <1>8 DEF PoolTypes, DeliverWake
<1>9. CASE BlockGiveUp
  BY Zenon, <1>1, <1>2, <1>9 DEF PoolTypes, BlockGiveUp, GiveUp
<1>10. CASE BlockSpin
  BY Zenon, <1>1, <1>2, <1>10 DEF PoolTypes, BlockSpin
<1>11. CASE BlockWord
  BY Zenon, <1>1, <1>2, <1>11 DEF PoolTypes, BlockWord
<1>12. CASE BlockFlag
  BY Zenon, <1>1, <1>2, <1>12 DEF PoolTypes, BlockFlag, SetWaiting
<1>13. CASE BlockCheck
  BY ZenonT(60), <1>1, <1>2, <1>13 DEF PoolTypes, BlockCheck, SetWaiting
<1>14. CASE BlockSleep
  BY Zenon, <1>1, <1>2, <1>14 DEF PoolTypes, BlockSleep
<1>15. CASE BlockAwake
  BY Zenon, <1>1, <1>2, <1>15 DEF PoolTypes, BlockAwake, SetWaiting
<1>16. CASE BlockTimeout
  BY Zenon, <1>1, <1>2, <1>16 DEF PoolTypes, BlockTimeout
<1>17. CASE CheckLiveness
  BY Zenon, <1>1, <1>2, <1>17 DEF PoolTypes, CheckLiveness, Changed
<1>18. CASE LiveDone
  BY Zenon, <1>1, <1>2, <1>18 DEF PoolTypes, LiveDone
<1>19. CASE Shutdown
  BY Zenon, <1>1, <1>2, <1>19 DEF PoolTypes, Shutdown
<1>21. ASSUME NEW s \in Slots, ScanOnboard(s) PROVE PoolInv'
  BY Zenon, <1>1, <1>2, <1>21 DEF PoolTypes, ScanOnboard, Scan
<1>22. ASSUME NEW s \in Slots, DeliverPick(s) PROVE PoolInv'
  BY Zenon, <1>1, <1>2, <1>22 DEF PoolTypes, DeliverPick
<1>23. ASSUME NEW s \in Slots, LiveKeep(s) PROVE PoolInv'
  BY Zenon, <1>1, <1>2, <1>23 DEF PoolTypes, LiveKeep
<1>24. ASSUME NEW s \in Slots, ShutdownWake(s) PROVE PoolInv'
  BY Zenon, <1>1, <1>2, <1>24 DEF PoolTypes, ShutdownWake
<1> QED BY SMTT(30), <1>3, <1>5, <1>6, <1>7, <1>8, <1>9, <1>10, <1>11, <1>12, <1>13, <1>14, <1>15, <1>16, <1>17, <1>18, <1>19, <1>21, <1>22, <1>23, <1>24

(* A subscriber's step, its crash included, keeps the invariant: it can    *)
(* reach the publisher only through the slot, the done ring and a wake.    *)
LEMMA SubscriberStep ==
  ASSUME PoolInv, NEW p \in Subs, Subscriber(p) \/ WaitTimeout(p) \/ SubCrash(p)
  PROVE  PoolInv'
<1> USE DEF slotVars, claim, queue, flags, header, sending, roster, pool, PubUntouched,
            SubLocal, SubGoto
<1>1. UNCHANGED <<pool, loans, active>>
  BY Zenon DEF Subscriber, WaitTimeout, SubCrash, SubOpen, SubNoSlot, SubName, SubActivate,
         ReceiveLoad, ReceiveCell, ReceiveCas, ReceiveTake, WaitWord, WaitFlag, WaitCheck,
         WaitExpired, WaitSleep, WaitAwake, SubClose, SubCloseWake, Release, SubClaim,
         SetSleeping
<1>2. pub' = pub \/ WakePub(my(p))
  BY Zenon DEF Subscriber, WaitTimeout, SubCrash, SubOpen, SubNoSlot, SubName, SubActivate,
         ReceiveLoad, ReceiveCell, ReceiveCas, ReceiveTake, WaitWord, WaitFlag, WaitCheck,
         WaitExpired, WaitSleep, WaitAwake, SubClose, SubCloseWake, Release, SubClaim,
         SetSleeping
<1>3. done' \in [Slots -> Seq(Chunks)]
  <2>1. done \in [Slots -> Seq(Chunks)]
    BY DEF PoolInv, PoolTypes
  <2>2. CASE \E c \in Chunks : Release(p, c)
    <3>1. PICK c \in Chunks : Release(p, c)
      BY <2>2
    <3>2. \A s \in Slots : Append(done[s], c) \in Seq(Chunks)
      BY <2>1
    <3> QED BY Zenon, <2>1, <3>1, <3>2 DEF Release
  <2>3. CASE SubActivate(p)
    <3>1. <<>> \in Seq(Chunks)
      OBVIOUS
    <3> QED BY Zenon, <2>1, <2>3, <3>1 DEF SubActivate
  <2>4. CASE ~(\E c \in Chunks : Release(p, c)) /\ ~SubActivate(p)
    <3>1. done' = done
      BY Zenon, <2>4 DEF Subscriber, WaitTimeout, SubCrash, SubOpen, SubNoSlot, SubName,
         ReceiveLoad, ReceiveCell, ReceiveCas, ReceiveTake, WaitWord, WaitFlag, WaitCheck,
         WaitExpired, WaitSleep, WaitAwake, SubClose, SubCloseWake, SubClaim, SetSleeping
    <3> QED BY <2>1, <3>1
  <2> QED BY <2>2, <2>3, <2>4
<1>4. PubShape' /\ pub'.cur = pub.cur /\ (pub.pc = "dead" => pub'.pc = "dead")
  BY Zenon, <1>2 DEF WakePub, PoolInv, PubShape, InSend, Delivering, PubPCs
<1>5. Fresh'
  <2>1. pub'.todo = pub.todo /\ pub'.dst = pub.dst /\ pub'.cur = pub.cur
        /\ (pub'.pc = "scan_send" => pub.pc = "scan_send")
        /\ (pub.pc = "pick" <=> pub'.pc = "pick") /\ (pub.pc = "wake" <=> pub'.pc = "wake")
    BY Zenon, <1>2 DEF WakePub, PoolInv, PubShape
  <2> QED BY <1>1, <2>1 DEF PoolInv, Fresh
<1>6. PoolTypes' /\ OnePlace' /\ RefcountExact'
  <2>1. active' \subseteq Slots
    BY <1>1 DEF PoolInv, PoolTypes
  <2> QED BY <1>1, <1>3, <1>4, <2>1, PoolUntouched
<1> QED BY <1>4, <1>5, <1>6 DEF PoolInv

(* reclaim_slot() keeps the invariant: whatever the slot holds goes back.  *)
LEMMA ReclaimStep ==
  ASSUME PoolInv, NEW s \in Slots, reclaim_slot(s),
         pub.pc \in {"scan_send", "scan_live", "live"}
  PROVE  PoolInv'
<1>1. PubShape /\ PoolTypes /\ Fresh
  BY DEF PoolInv
<1>2. PubShape' /\ pub'.cur = pub.cur /\ pub'.pc = pub.pc /\ pub'.dst = pub.dst
      /\ pub'.todo = pub.todo \ {s}
  BY Zenon, <1>1 DEF reclaim_slot, PubShape
<1>3. outstanding[s] \in [Chunks -> Nat] /\ (\A c \in Chunks : outstanding[s][c] <= outstanding[s][c])
  BY <1>1 DEF PoolTypes
<1>4. pub.cur \in Chunks => outstanding[s][pub.cur] = 0
  BY <1>1, DevbusConstants DEF Fresh, PubShape, InSend, Delivering
<1>5. loans' = loans /\ Give(s, outstanding[s]) /\ pub.pc # "dead"
  BY DEF reclaim_slot, sending
<1>6. /\ free' \in [Chunks -> Nat] /\ refcount' \in [Chunks -> Nat]
      /\ outstanding' \in [Slots -> [Chunks -> Nat]]
      /\ \A t \in Slots, c \in Chunks : outstanding'[t][c] <= outstanding[t][c]
      /\ OnePlace' /\ RefcountExact'
  BY <1>2, <1>3, <1>4, <1>5, GiveKeeps
<1>7. PoolTypes'
  <2>1. <<>> \in Seq(Chunks)
    OBVIOUS
  <2> QED BY <1>1, <1>6, <2>1 DEF PoolTypes, reclaim_slot, sending
<1>8. Fresh'
  BY SMTT(30), <1>1, <1>2, <1>6, <1>7, DevbusConstants DEF Fresh, PoolTypes, PubShape
<1> QED BY <1>2, <1>6, <1>7, <1>8 DEF PoolInv

(* Draining a done ring keeps the invariant.                               *)
LEMMA DrainStep ==
  ASSUME PoolInv, NEW s \in Slots, LoanDrain(s)
  PROVE  PoolInv'
<1>1. PubShape /\ PoolTypes
  BY DEF PoolInv
<1>2. PubShape' /\ pub'.cur = pub.cur /\ pub.cur = None /\ pub.pc # "dead"
  BY <1>1 DEF LoanDrain, PubShape, InSend, Delivering
<1>3. loans' = loans /\ active' = active /\ Give(s, Returned(s))
      /\ done' = [done EXCEPT ![s] = <<>>]
  BY DEF LoanDrain, drain_done, sending, roster
<1>4. /\ free' \in [Chunks -> Nat] /\ refcount' \in [Chunks -> Nat]
      /\ outstanding' \in [Slots -> [Chunks -> Nat]]
      /\ OnePlace' /\ RefcountExact'
  BY <1>1, <1>2, <1>3, ReturnedLemma, GiveKeeps, DevbusConstants
<1>5. PoolTypes'
  <2>1. <<>> \in Seq(Chunks)
    OBVIOUS
  <2> QED BY Zenon, <1>1, <1>3, <1>4, <2>1 DEF PoolTypes
<1>6. Fresh'
  BY <1>2 DEF Fresh
<1> QED BY <1>2, <1>4, <1>5, <1>6 DEF PoolInv

(* Evicting the oldest entry keeps the invariant: release_ref() looks at   *)
(* the counts, so it does not matter what the entry is.                    *)
LEMMA EvictStep ==
  ASSUME PoolInv, DeliverEvict
  PROVE  PoolInv'
<1> DEFINE e == data_ring[pub.dst][Cell(pub.tail)]
           n == [c \in Chunks |-> IF c = e /\ outstanding[pub.dst][c] > 0 THEN 1 ELSE 0]
<1>1. PubShape /\ PoolTypes /\ Fresh
  BY DEF PoolInv
<1>2. /\ PubShape' /\ pub'.cur = pub.cur /\ pub.pc = "evict" /\ pub'.pc = "deliver"
      /\ pub'.dst = pub.dst /\ pub'.todo = pub.todo /\ pub.dst \in Slots /\ pub.cur \in Chunks
  BY Zenon, <1>1 DEF DeliverEvict, PubShape, InSend, Delivering, PubPCs
<1>3. loans' = loans /\ active' = active /\ done' = done
  BY DEF DeliverEvict, sending, roster
<1>4. CASE Give(pub.dst, n)
  <2>1. outstanding[pub.dst][pub.cur] = 0
    BY <1>1, <1>2, DevbusConstants DEF Fresh
  <2>2. ASSUME NEW c \in Chunks
        PROVE  n[c] \in Nat /\ n[c] <= outstanding[pub.dst][c]
    <3>1. outstanding[pub.dst][c] \in Nat
      BY <1>1, <1>2 DEF PoolTypes
    <3> QED BY <3>1
  <2>3. n \in [Chunks -> Nat] /\ n[pub.cur] = 0
    BY <1>2, <2>1, <2>2
  <2> HIDE DEF n
  <2>4. /\ free' \in [Chunks -> Nat] /\ refcount' \in [Chunks -> Nat]
        /\ outstanding' \in [Slots -> [Chunks -> Nat]]
        /\ \A t \in Slots, c \in Chunks : outstanding'[t][c] <= outstanding[t][c]
        /\ OnePlace' /\ RefcountExact'
    BY <1>2, <1>3, <1>4, <2>2, <2>3, GiveKeeps
  <2>5. PoolTypes'
    BY <1>1, <1>3, <2>4 DEF PoolTypes
  <2>6. Fresh'
    BY <1>1, <1>2, <2>4, <2>5, DevbusConstants DEF Fresh, PoolTypes
  <2> QED BY <1>2, <2>4, <2>5, <2>6 DEF PoolInv
<1>5. CASE UNCHANGED pool
  <2>1. PoolTypes' /\ OnePlace' /\ RefcountExact'
    BY <1>1, <1>2, <1>3, <1>5, PoolUntouched DEF PoolTypes
  <2>2. Fresh'
    BY <1>1, <1>2, <1>5 DEF Fresh, pool
  <2> QED BY <1>2, <2>1, <2>2 DEF PoolInv
<1> QED BY <1>4, <1>5 DEF DeliverEvict, release_ref

(* Adding one reference, for a slot that has none, to the chunk being sent *)
(* keeps the invariant.                                                    *)
LEMMA PushStep ==
  ASSUME PoolInv, DeliverPush
  PROVE  PoolInv'
<1>1. PubShape /\ PoolTypes /\ Fresh /\ OnePlace /\ RefcountExact
  BY DEF PoolInv
<1>2. /\ PubShape' /\ pub'.cur = pub.cur /\ pub.pc = "push" /\ pub'.pc = "wake"
      /\ pub'.dst = pub.dst /\ pub'.todo = pub.todo /\ pub.dst \in Slots /\ pub.cur \in Chunks
  BY <1>1 DEF DeliverPush, Goto, PubShape, InSend, Delivering, PubPCs
<1>3. /\ loans' = loans /\ active' = active /\ done' = done /\ free' = free
      /\ refcount' = [refcount EXCEPT ![pub.cur] = @ + 1]
      /\ outstanding' = [outstanding EXCEPT ![pub.dst][pub.cur] = @ + 1]
  BY DEF DeliverPush, sending, roster
<1>4. PoolTypes'
  BY <1>1, <1>2, <1>3 DEF PoolTypes
<1>5. outstanding[pub.dst][pub.cur] = 0
  BY <1>1, <1>2, DevbusConstants DEF Fresh
<1>6. \A t \in Slots, c \in Chunks :
        outstanding'[t][c] = IF t = pub.dst /\ c = pub.cur THEN 1 ELSE outstanding[t][c]
  BY SMTT(30), <1>1, <1>2, <1>3, <1>5 DEF PoolTypes
<1>7. OnePlace'
  BY <1>1, <1>2, <1>3 DEF OnePlace, PoolTypes
<1>8. RefcountExact'
  <2>1. ASSUME NEW c \in Chunks, NEW t \in Slots
        PROVE  outstanding'[t][c] <= 1
    BY <1>1, <1>6 DEF RefcountExact
  <2>2. ASSUME NEW c \in Chunks
        PROVE  refcount'[c] = Cardinality(Holders(c)')
    <3>1. refcount[c] = Cardinality(Holders(c)) /\ IsFiniteSet(Holders(c))
      BY <1>1, FS_Subset, DevbusConstants DEF RefcountExact, Holders
    <3>2. CASE c = pub.cur
      <4>1. Holders(c)' = Holders(c) \cup {pub.dst} /\ pub.dst \notin Holders(c)
        BY <1>2, <1>5, <1>6, <3>2 DEF Holders
      <4>2. Cardinality(Holders(c) \cup {pub.dst}) = Cardinality(Holders(c)) + 1
        BY Zenon, <3>1, <4>1, FS_AddElement
      <4> QED BY <1>1, <1>3, <3>1, <3>2, <4>1, <4>2 DEF PoolTypes
    <3>3. CASE c # pub.cur
      <4>1. Holders(c)' = Holders(c)
        BY <1>6, <3>3 DEF Holders
      <4> QED BY <1>1, <1>3, <3>1, <3>3, <4>1 DEF PoolTypes
    <3> QED BY <3>2, <3>3
  <2> QED BY <2>1, <2>2 DEF RefcountExact
<1>9. Fresh'
  BY <1>1, <1>2, <1>6 DEF Fresh, PubShape, Delivering
<1> QED BY <1>2, <1>4, <1>7, <1>8, <1>9 DEF PoolInv

(* Loaning a chunk, sending it or putting it back keeps the invariant.     *)
LEMMA LoanStep ==
  ASSUME PoolInv, NEW c \in Chunks, LoanTake(c) \/ release_loan(c) \/ Send(c)
  PROVE  PoolInv'
<1>1. PubShape /\ PoolTypes /\ OnePlace /\ RefcountExact /\ Fresh
  BY DEF PoolInv
<1>2. refcount' = refcount /\ outstanding' = outstanding /\ active' = active /\ done' = done
  BY DEF LoanTake, release_loan, Send, slotVars, roster, pool
<1>3. RefcountExact'
  BY <1>1, <1>2 DEF RefcountExact, Holders
<1>4. CASE LoanTake(c)
  <2>1. PubShape' /\ pub.cur = None /\ pub'.cur = None
    BY SMTT(30), <1>1, <1>4 DEF LoanTake, Goto, PubShape, InSend, Delivering, PubPCs
  <2>2. PoolTypes' /\ OnePlace'
    BY SMTT(30), <1>1, <1>2, <1>4, <2>1 DEF LoanTake, PoolTypes, OnePlace
  <2> QED BY <1>3, <2>1, <2>2 DEF PoolInv, Fresh
<1>5. CASE release_loan(c)
  <2>1. PubShape' /\ pub.cur = None /\ pub' = pub
    BY <1>1, <1>5 DEF release_loan, PubShape, InSend, Delivering
  <2>2. PoolTypes' /\ OnePlace'
    BY SMTT(30), <1>1, <1>2, <1>5, <2>1 DEF release_loan, PoolTypes, OnePlace
  <2> QED BY <1>3, <2>1, <2>2 DEF PoolInv, Fresh
<1>6. CASE Send(c)
  <2>1. PubShape' /\ pub.cur = None /\ pub'.cur = c
    BY Zenon, <1>1, <1>6 DEF Send, Changed, PubShape, InSend, Delivering, PubPCs
  <2>2. free' = free /\ loans' = loans \ {c} /\ c \in loans /\ pub.pc # "dead"
    BY <1>6 DEF Send, pool
  <2>3. PoolTypes'
    BY SMTT(30), <1>1, <1>2, <2>2 DEF PoolTypes
  <2>4. OnePlace' /\ refcount[c] = 0
    BY <1>1, <1>2, <2>1, <2>2, DevbusConstants DEF PoolTypes, OnePlace
  <2>5. ASSUME NEW s \in Slots
        PROVE  outstanding[s][c] = 0
    <3>1. IsFiniteSet(Holders(c)) /\ Cardinality(Holders(c)) = 0
      BY <1>1, <2>4, FS_Subset, DevbusConstants DEF RefcountExact, Holders
    <3>2. Holders(c) = {}
      BY <3>1, FS_EmptySet
    <3>3. outstanding[s][c] \in Nat
      BY <1>1 DEF PoolTypes
    <3> QED BY SMTT(30), <3>2, <3>3 DEF Holders
  <2> QED BY <1>2, <1>3, <2>1, <2>3, <2>4, <2>5 DEF PoolInv, Fresh
<1> QED BY <1>4, <1>5, <1>6

(* So does the end of send(): a chunk nobody took is free again.           *)
LEMMA SendDoneStep ==
  ASSUME PoolInv, SendDone
  PROVE  PoolInv'
<1>1. PubShape /\ PoolTypes /\ OnePlace /\ RefcountExact
  BY DEF PoolInv
<1>2. refcount' = refcount /\ outstanding' = outstanding /\ active' = active /\ done' = done
  BY DEF SendDone, slotVars, roster
<1>3. PubShape' /\ pub.cur \in Chunks /\ pub'.cur = None /\ pub.pc # "dead"
  BY ZenonT(60), <1>1 DEF SendDone, Changed, PubShape, InSend, Delivering, PubPCs
<1>4. loans' = loans /\ free' = IF refcount[pub.cur] = 0
                                THEN [free EXCEPT ![pub.cur] = @ + 1] ELSE free
  BY DEF SendDone, NobodyTook, sending
<1>5. PoolTypes'
  BY <1>1, <1>2, <1>3, <1>4 DEF PoolTypes
<1>6. OnePlace'
  BY <1>1, <1>2, <1>3, <1>4, DevbusConstants DEF PoolTypes, OnePlace
<1>7. RefcountExact'
  BY <1>1, <1>2 DEF RefcountExact, Holders
<1> QED BY <1>3, <1>5, <1>6, <1>7 DEF PoolInv, Fresh

(* A killed publisher leaves the counts as they were.                      *)
LEMMA CrashStep ==
  ASSUME PoolInv, PubCrash
  PROVE  PoolInv'
<1>1. PubShape /\ PoolTypes /\ RefcountExact
  BY DEF PoolInv
<1>2. PubShape' /\ pub'.pc = "dead" /\ pub'.cur = None
  BY Zenon, <1>1 DEF PubCrash, PubShape, InSend, Delivering, PubPCs
<1>3. UNCHANGED <<free, refcount, outstanding, loans, active, done>>
  BY DEF PubCrash, PubLocal, slotVars, pool, sending, roster
<1>4. PoolTypes' /\ RefcountExact'
  BY Zenon, <1>1, <1>3 DEF PoolTypes, RefcountExact, Holders
<1> QED BY <1>2, <1>4 DEF PoolInv, OnePlace, Fresh

(* The pool starts out with every chunk free and nothing outstanding.      *)
LEMMA PoolInit == Init => PoolInv
<1> SUFFICES ASSUME Init PROVE PoolInv
  OBVIOUS
<1>1. PubShape /\ Fresh
  BY DEF Init, PubShape, Fresh, InSend, Delivering, PubPCs
<1>2. PoolTypes
  <2>1. <<>> \in Seq(Chunks)
    OBVIOUS
  <2> QED BY <2>1 DEF Init, PoolTypes
<1>3. OnePlace
  BY DevbusConstants DEF Init, OnePlace
<1>4. RefcountExact
  <2>1. ASSUME NEW c \in Chunks
        PROVE  refcount[c] = 0 /\ Holders(c) = {}
    BY DEF Init, Holders
  <2>2. \A c \in Chunks, s \in Slots : outstanding[s][c] = 0
    BY DEF Init
  <2>3. ASSUME NEW c \in Chunks
        PROVE  Cardinality(Holders(c)) = 0
    BY <2>1, FS_EmptySet
  <2> QED BY <2>1, <2>2, <2>3 DEF RefcountExact
<1> QED BY <1>1, <1>2, <1>3, <1>4 DEF PoolInv

(* PoolInv is inductive.                                                   *)
LEMMA PoolNext == PoolInv /\ [Next]_vars => PoolInv'
<1> SUFFICES ASSUME PoolInv, [Next]_vars PROVE PoolInv'
  OBVIOUS
<1>1. CASE Publisher
  <2>1. CASE \E s \in Slots : ScanReclaim(s) \/ LiveReap(s)
    BY <2>1, ReclaimStep DEF ScanReclaim, LiveReap, Scan
  <2>2. CASE \E s \in Slots : LoanDrain(s)
    BY <2>2, DrainStep
  <2>3. CASE \E c \in Chunks : LoanTake(c) \/ release_loan(c) \/ Send(c)
    BY <2>3, LoanStep
  <2>4. CASE DeliverEvict \/ DeliverPush \/ SendDone
    BY <2>4, EvictStep, PushStep, SendDoneStep
  <2> QED BY <1>1, <2>1, <2>2, <2>3, <2>4, ControlStep DEF Publisher
<1>2. CASE Environment
  BY <1>2, ControlStep, CrashStep, SubscriberStep DEF Environment
<1>3. CASE \E p \in Subs : Subscriber(p)
  BY <1>3, SubscriberStep
<1>4. CASE UNCHANGED vars
  BY Zenon, <1>4 DEF vars, slotVars, pool, sending, roster, PoolInv, PubShape, PoolTypes, OnePlace,
              RefcountExact, Holders, Fresh
<1> QED BY <1>1, <1>2, <1>3, <1>4 DEF Next, Terminated

(* Whatever the subscribers do, in whatever order: every chunk is at all   *)
(* times in exactly one place, so no chunk is freed twice or loaned while  *)
(* a slot still holds it.                                                  *)
THEOREM ChunksInOnePlace == Spec => []OnePlace
<1>1. PoolInv => OnePlace
  BY DEF PoolInv
<1> QED BY <1>1, PoolInit, PoolNext, PTL DEF Spec

(* And refcount_ counts exactly the slots that hold the chunk.             *)
THEOREM RefcountsExact == Spec => []RefcountExact
<1>1. PoolInv => RefcountExact
  BY DEF PoolInv
<1> QED BY <1>1, PoolInit, PoolNext, PTL DEF Spec
=============================================================================
