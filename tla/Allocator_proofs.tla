-------------------------- MODULE Allocator_proofs --------------------------
(***************************************************************************)
(* Proofs about Allocator for every number of goroutines, every step and   *)
(* every bound.  Type correctness needs nothing; the other theorems assume *)
(* that getOrCreate's read of the conversations row does not fail: a       *)
(* failed read is taken for a missing row, the counter restarts at zero    *)
(* and none of them holds.  IssuedOnlyGrows proves of NeverRewinds that    *)
(* this read is all that can break it.                                     *)
(***************************************************************************)
EXTENDS Allocator, TLAPS

\* The mutex is held exactly by the goroutine inside getOrCreate's slow path.
MutexInv == \A t \in Threads : pc[t] \in InMutex <=> mu = t

\* The entry is missing during the slow path and present during the loop.
EntryInv == /\ \A t \in Threads : /\ pc[t] \in InMutex => ~loaded
                                  /\ pc[t] \in InLoop => loaded
            /\ ~up => ~loaded /\ \A t \in Threads : pc[t] = "idle"

\* stored <= issued <= row, and no row means nothing was reserved.
DurableInv == /\ maxStored <= lastIssued
              /\ lastIssued <= dbWatermark
              /\ ~exists => dbWatermark = 0

\* issued <= current <= row <= current + Step, and the ceiling in memory may
\* be stale but only on the low side.
MemoryInv == loaded => /\ lastIssued <= current
                       /\ current <= dbWatermark
                       /\ watermark <= dbWatermark
                       /\ dbWatermark <= current + Step

\* What a goroutine has read stays true until it uses it.
LocalInv ==
  \A t \in Threads :
    /\ pc[t] = "readMax" => wm[t] = dbWatermark
    /\ pc[t] = "ensure" => dbWatermark = 0
    /\ pc[t] \in {"loadWm", "extend", "storeNew", "cas"} => cur[t] <= current
    /\ pc[t] \in {"extend", "storeNew", "storeReloaded"} => wm[t] <= dbWatermark
    /\ pc[t] = "extend" => wm[t] <= cur[t]
    /\ pc[t] \in {"storeNew", "cas"} => cur[t] + 1 <= dbWatermark
    /\ pc[t] = "persist" => cur[t] <= lastIssued

IInv == TypeOK /\ MutexInv /\ EntryInv /\ DurableInv /\ MemoryInv /\ LocalInv
-----------------------------------------------------------------------------
(* Type correctness.                                                       *)

LEMMA InitTypeOK == Init => TypeOK
<1> SUFFICES ASSUME Init PROVE TypeOK
  OBVIOUS
<1>1. pc \in [Threads -> PCs]
  BY DEF Init, PCs, InMutex, InLoop
<1>2. mu \in Threads \cup {NoOne} /\ cur \in [Threads -> Nat] /\ wm \in [Threads -> Nat]
  BY DEF Init
<1> QED BY <1>1, <1>2 DEF Init, TypeOK

LEMMA NextTypeOK ==
  ASSUME TypeOK, [Next]_vars
  PROVE  TypeOK'
<1> USE StepAssumption DEF TypeOK, PCs, InMutex, InLoop, Goto, durable, memory, local
<1>1. CASE Boot
  BY <1>1 DEF Boot, Install, Larger
<1>2. CASE Crash
  BY <1>2 DEF Crash
<1>3. CASE CreateGroupRow
  BY <1>3 DEF CreateGroupRow
<1>4. ASSUME NEW t \in Threads, Advance(t)
      PROVE  TypeOK'
  <2>1. CASE Begin(t)
    BY <2>1 DEF Begin
  <2>2. CASE Lookup(t)
    BY <2>2 DEF Lookup
  <2>3. CASE LockMu(t)
    BY <2>3 DEF LockMu
  <2>4. CASE ReadConv(t)
    BY <2>4 DEF ReadConv
  <2>5. CASE ReadMax(t)
    BY <2>5 DEF ReadMax, Install, Larger
  <2>6. CASE Ensure(t)
    BY <2>6 DEF Ensure, Install, CreateRow
  <2>7. CASE LoadCurrent(t)
    BY <2>7 DEF LoadCurrent
  <2>8. CASE LoadWatermark(t)
    BY <2>8 DEF LoadWatermark
  <2>9. CASE Extend(t)
    BY <2>9 DEF Extend, Return
  <2>10. CASE Reload(t)
    BY <2>10 DEF Reload, Return
  <2>11. CASE EnsureMissing(t)
    <3>1. CASE CreateRow /\ Goto(t, "loadCur") /\ UNCHANGED <<cur, wm>>
      BY <2>11, <3>1 DEF EnsureMissing, CreateRow
    <3>2. CASE UNCHANGED durable /\ Return(t)
      BY <2>11, <3>2 DEF EnsureMissing, Return
    <3> QED BY <2>11, <3>1, <3>2 DEF EnsureMissing
  <2>12. CASE StoreReloaded(t)
    BY <2>12 DEF StoreReloaded
  <2>13. CASE StoreNew(t)
    BY <2>13 DEF StoreNew
  <2>14. CASE Cas(t)
    BY <2>14 DEF Cas
  <2>15. CASE Persist(t)
    BY <2>15 DEF Persist, Return, Larger
  <2> QED BY <1>4, <2>1, <2>2, <2>3, <2>4, <2>5, <2>6, <2>7, <2>8, <2>9, <2>10, <2>11, <2>12, <2>13, <2>14, <2>15 DEF Advance
<1>5. CASE UNCHANGED vars
  BY <1>5 DEF vars
<1> QED BY <1>1, <1>2, <1>3, <1>4, <1>5 DEF Next

(* The variables of the allocator, its rows and its callers always hold    *)
(* values of their types: watermarks, counters and seqs are naturals.      *)
THEOREM TypeCorrect == Spec => []TypeOK
<1>1. Init => TypeOK BY InitTypeOK
<1>2. TypeOK /\ [Next]_vars => TypeOK' BY NextTypeOK
<1> QED BY <1>1, <1>2, PTL DEF Spec
-----------------------------------------------------------------------------
(* The inductive invariant.                                                *)

LEMMA InitIInv == Init => IInv
<1> SUFFICES ASSUME Init PROVE IInv
  OBVIOUS
<1>1. TypeOK BY InitTypeOK
<1>2. MutexInv BY NoOneAssumption DEF Init, MutexInv, InMutex
<1>3. EntryInv BY DEF Init, EntryInv, InMutex, InLoop
<1>4. DurableInv BY DEF Init, DurableInv
<1>5. MemoryInv BY DEF Init, MemoryInv
<1>6. LocalInv BY DEF Init, LocalInv
<1> QED BY <1>1, <1>2, <1>3, <1>4, <1>5, <1>6 DEF IInv

LEMMA NextIInv ==
  ASSUME ReadFaults = FALSE, IInv, [Next]_vars
  PROVE  IInv'
<1> USE StepAssumption, NoOneAssumption
    DEF IInv, TypeOK, MutexInv, EntryInv, DurableInv, MemoryInv, LocalInv,
        PCs, InMutex, InLoop, Goto, durable, memory, local
<1>0. TypeOK'
  BY NextTypeOK DEF IInv
<1>1. CASE Boot
    <2>1. MutexInv'
      BY <1>0, <1>1 DEF Boot, Install, Larger
    <2>2. EntryInv'
      BY <1>0, <1>1 DEF Boot, Install, Larger
    <2>3. DurableInv'
      BY <1>0, <1>1 DEF Boot, Install, Larger
    <2>4. MemoryInv'
      <3>1. UNCHANGED <<dbWatermark, lastIssued>>
        BY <1>1 DEF Boot
      <3>2. \/ UNCHANGED <<loaded, current, watermark>>
            \/ current' = dbWatermark /\ watermark' = dbWatermark
        BY <1>1 DEF Boot, Install, Larger
      <3>3. CASE UNCHANGED <<loaded, current, watermark>>
        BY <3>1, <3>3
      <3>4. CASE current' = dbWatermark /\ watermark' = dbWatermark
        <4> HIDE DEF PCs, InMutex, InLoop, LocalInv, MutexInv, EntryInv
        <4> QED BY <3>1, <3>4
      <3> QED BY <3>2, <3>3, <3>4
    <2>5. LocalInv'
      BY <1>0, <1>1 DEF Boot, Install, Larger
    <2> QED BY <1>0, <2>1, <2>2, <2>3, <2>4, <2>5
<1>2. CASE Crash
  BY <1>0, <1>2 DEF Crash
<1>3. CASE CreateGroupRow
  BY <1>0, <1>3 DEF CreateGroupRow
<1>4. ASSUME NEW t \in Threads, Advance(t)
      PROVE  IInv'
  <2>1. CASE Begin(t)
    BY <1>0, <2>1 DEF Begin
  <2>2. CASE Lookup(t)
    BY <1>0, <2>2 DEF Lookup
  <2>3. CASE LockMu(t)
    BY <1>0, <2>3 DEF LockMu
  <2>4. CASE ReadConv(t)
    BY <1>0, <2>4 DEF ReadConv
  <2>5. CASE ReadMax(t)
      <3>1. MutexInv'
        BY <1>0, <2>5 DEF ReadMax, Install, Larger
      <3>2. EntryInv'
        BY <1>0, <2>5 DEF ReadMax, Install, Larger
      <3>3. DurableInv'
        BY <1>0, <2>5 DEF ReadMax, Install, Larger
      <3>4. MemoryInv'
        <4>1. UNCHANGED <<dbWatermark, lastIssued>> /\ wm[t] = dbWatermark
          BY <2>5 DEF ReadMax
        <4>2. current' = dbWatermark /\ watermark' = dbWatermark
          BY <2>5, <4>1 DEF ReadMax, Install, Larger
        <4> HIDE DEF PCs, InMutex, InLoop, LocalInv, MutexInv, EntryInv
        <4> QED BY <4>1, <4>2
      <3>5. LocalInv'
        BY <1>0, <2>5 DEF ReadMax, Install, Larger
      <3> QED BY <1>0, <3>1, <3>2, <3>3, <3>4, <3>5
  <2>6. CASE Ensure(t)
    BY <1>0, <2>6 DEF Ensure, Install, CreateRow
  <2>7. CASE LoadCurrent(t)
    BY <1>0, <2>7 DEF LoadCurrent
  <2>8. CASE LoadWatermark(t)
    BY <1>0, <2>8 DEF LoadWatermark
  <2>9. CASE Extend(t)
    BY <1>0, <2>9 DEF Extend, Return
  <2>10. CASE Reload(t)
    BY <1>0, <2>10 DEF Reload, Return
  <2>11. CASE EnsureMissing(t)
    BY <1>0, <2>11 DEF EnsureMissing, CreateRow, Return
  <2>12. CASE StoreReloaded(t)
    BY <1>0, <2>12 DEF StoreReloaded
  <2>13. CASE StoreNew(t)
    BY <1>0, <2>13 DEF StoreNew
  <2>14. CASE Cas(t)
      <3>1. MutexInv'
        BY <1>0, <2>14 DEF Cas
      <3>2. EntryInv'
        BY <1>0, <2>14 DEF Cas
      <3>3. DurableInv'
        BY <1>0, <2>14 DEF Cas
      <3>4. MemoryInv'
        <4>1. /\ cur[t] + 1 <= dbWatermark
              /\ cur[t] \in Nat
              /\ loaded
              /\ UNCHANGED <<dbWatermark, loaded, watermark>>
          BY <2>14 DEF Cas
        <4>2. \/ current = cur[t] /\ current' = cur[t] + 1 /\ lastIssued' = cur[t] + 1
              \/ UNCHANGED <<current, lastIssued>>
          BY <2>14 DEF Cas
        <4> HIDE DEF PCs, InMutex, InLoop, LocalInv, MutexInv, EntryInv
        <4> QED BY <4>1, <4>2
      <3>5. LocalInv'
        BY <1>0, <2>14 DEF Cas
      <3> QED BY <1>0, <3>1, <3>2, <3>3, <3>4, <3>5
  <2>15. CASE Persist(t)
    BY <1>0, <2>15 DEF Persist, Return, Larger
  <2> QED BY <1>4, <2>1, <2>2, <2>3, <2>4, <2>5, <2>6, <2>7, <2>8, <2>9, <2>10, <2>11, <2>12, <2>13, <2>14, <2>15 DEF Advance
<1>5. CASE UNCHANGED vars
  BY <1>0, <1>5 DEF vars
<1> QED BY <1>1, <1>2, <1>3, <1>4, <1>5 DEF Next

LEMMA Invariance == ReadFaults = FALSE => (Spec => []IInv)
<1> SUFFICES ASSUME ReadFaults = FALSE PROVE Spec => []IInv
  OBVIOUS
<1>1. Init => IInv BY InitIInv
<1>2. IInv /\ [Next]_vars => IInv' BY NextIInv
<1> QED BY <1>1, <1>2, PTL DEF Spec
-----------------------------------------------------------------------------
(* Sync-DB-First (allocator.go: the watermark is persisted before a seq is *)
(* exposed): every seq ever returned is covered by the durable row.        *)
THEOREM WatermarkCovers == ReadFaults = FALSE => (Spec => []WatermarkCoversIssued)
<1> SUFFICES ASSUME ReadFaults = FALSE PROVE Spec => []WatermarkCoversIssued
  OBVIOUS
<1>1. Spec => []IInv BY Invariance
<1>2. IInv => WatermarkCoversIssued BY DEF IInv, DurableInv, WatermarkCoversIssued
<1> QED BY <1>1, <1>2, PTL

(* However many goroutines race to extend, the row is never more than one  *)
(* Step ahead of the counter, so a crash burns at most Step seqs.          *)
THEOREM ReserveIsBounded == ReadFaults = FALSE => (Spec => []ReserveBounded)
<1> SUFFICES ASSUME ReadFaults = FALSE PROVE Spec => []ReserveBounded
  OBVIOUS
<1>1. Spec => []IInv BY Invariance
<1>2. IInv => ReserveBounded BY DEF IInv, MemoryInv, ReserveBounded
<1> QED BY <1>1, <1>2, PTL
-----------------------------------------------------------------------------
(* "Never rewinding".                                                      *)

\* Only Cas writes lastIssued, and the counter it advances is at or above it.
LEMMA GrowsStep ==
  ASSUME IInv, [Next]_vars
  PROVE  /\ lastIssued' >= lastIssued
         /\ \/ lastIssued' = lastIssued
            \/ \E t \in Threads : pc[t] = "cas" /\ Cas(t) /\ lastIssued' > lastIssued
<1> USE DEF IInv, TypeOK, durable, memory, local
<1>1. CASE Boot \/ Crash \/ CreateGroupRow
  BY <1>1 DEF Boot, Crash, CreateGroupRow
<1>2. ASSUME NEW t \in Threads, Cas(t)
      PROVE  \/ lastIssued' = lastIssued
             \/ pc[t] = "cas" /\ Cas(t) /\ lastIssued' > lastIssued
  <2>1. lastIssued <= current
    BY <1>2 DEF Cas, EntryInv, MemoryInv, InLoop
  <2>2. \/ lastIssued' = lastIssued
        \/ current = cur[t] /\ lastIssued' = cur[t] + 1
    BY <1>2 DEF Cas
  <2>3. pc[t] = "cas"
    BY <1>2 DEF Cas
  <2>4. lastIssued' = lastIssued \/ lastIssued' > lastIssued
    BY <2>1, <2>2 DEF TypeOK
  <2> QED BY <1>2, <2>3, <2>4
<1>3. ASSUME NEW t \in Threads, Advance(t), ~Cas(t)
      PROVE  lastIssued' = lastIssued
  BY <1>3 DEF Advance, Begin, Lookup, LockMu, ReadConv, ReadMax, Ensure, LoadCurrent,
              LoadWatermark, Extend, Reload, EnsureMissing, StoreReloaded, StoreNew, Persist
<1>4. CASE UNCHANGED vars
  BY <1>4 DEF vars
<1>5. \/ lastIssued' = lastIssued
      \/ \E t \in Threads : pc[t] = "cas" /\ Cas(t) /\ lastIssued' > lastIssued
  BY <1>1, <1>2, <1>3, <1>4 DEF Next, Advance
<1>6. lastIssued' \in Nat
  BY NextTypeOK DEF TypeOK
<1> QED BY <1>5, <1>6

(* Allocate's restart guarantee ("never rewinding"): through crashes,      *)
(* failed MAX(seq) reads, racing extenders and reloaded ceilings the last  *)
(* seq returned never goes back, as long as the row can be read.           *)
THEOREM IssuedOnlyGrows == ReadFaults = FALSE => (Spec => NeverRewinds)
<1> SUFFICES ASSUME ReadFaults = FALSE PROVE Spec => NeverRewinds
  OBVIOUS
<1>1. Spec => []IInv BY Invariance
<1>2. IInv /\ [Next]_vars => [lastIssued' >= lastIssued]_vars BY GrowsStep
<1> QED BY <1>1, <1>2, PTL DEF Spec, NeverRewinds

\* No two callers are about to write a message with the same seq.
HeldDistinct == \A s, t \in Threads :
                  pc[s] = "persist" /\ pc[t] = "persist" /\ s # t => cur[s] # cur[t]

\* A goroutine comes to hold a seq only by its own Cas.
LEMMA HoldsByCas ==
  ASSUME IInv, [Next]_vars, NEW t \in Threads, pc'[t] = "persist"
  PROVE  \/ pc[t] = "persist" /\ cur'[t] = cur[t]
         \/ pc[t] = "cas" /\ Cas(t) /\ cur'[t] = lastIssued' /\ lastIssued' > lastIssued
<1> USE DEF IInv, TypeOK, durable, memory, local, Goto
<1>1. CASE Boot \/ Crash \/ CreateGroupRow
  BY <1>1 DEF Boot, Crash, CreateGroupRow
<1>2. ASSUME NEW u \in Threads, Advance(u), u # t
      PROVE  pc[t] = "persist" /\ cur'[t] = cur[t]
  BY <1>2 DEF Advance, Begin, Lookup, LockMu, ReadConv, ReadMax, Ensure, LoadCurrent, Return,
              LoadWatermark, Extend, Reload, EnsureMissing, StoreReloaded, StoreNew, Persist, Cas
<1>3. CASE Advance(t)
  <2>1. CASE Cas(t)
    <3>1. lastIssued <= current /\ pc[t] = "cas"
      BY <2>1 DEF Cas, EntryInv, MemoryInv, InLoop
    <3>2. current = cur[t] /\ cur'[t] = cur[t] + 1 /\ lastIssued' = cur[t] + 1
      BY <2>1 DEF Cas
    <3> QED BY <2>1, <3>1, <3>2
  <2>2. CASE ~Cas(t)
    BY <1>3, <2>2
       DEF Advance, Begin, Lookup, LockMu, ReadConv, ReadMax, Ensure, LoadCurrent, Return,
           LoadWatermark, Extend, Reload, EnsureMissing, StoreReloaded, StoreNew, Persist
  <2> QED BY <2>1, <2>2
<1>4. CASE UNCHANGED vars
  BY <1>4 DEF vars
<1> QED BY <1>1, <1>2, <1>3, <1>4 DEF Next

LEMMA DistinctStep ==
  ASSUME IInv, HeldDistinct, [Next]_vars
  PROVE  HeldDistinct'
<1> SUFFICES ASSUME NEW s \in Threads, NEW t \in Threads,
                    pc'[s] = "persist", pc'[t] = "persist", s # t
             PROVE  cur'[s] # cur'[t]
  BY DEF HeldDistinct
<1>1. /\ pc[s] = "persist" => cur[s] <= lastIssued
      /\ pc[t] = "persist" => cur[t] <= lastIssued
  BY DEF IInv, LocalInv
<1>2. /\ lastIssued \in Nat /\ cur[s] \in Nat /\ cur[t] \in Nat /\ lastIssued' \in Nat
      /\ DOMAIN pc = Threads
  BY NextTypeOK DEF IInv, TypeOK
<1>3. CASE pc[s] = "persist" /\ pc[t] = "persist"
  BY <1>3, HoldsByCas DEF HeldDistinct
<1>4. CASE pc[s] # "persist" /\ pc[t] = "persist"
  BY <1>1, <1>2, <1>4, HoldsByCas
<1>5. CASE pc[s] = "persist" /\ pc[t] # "persist"
  BY <1>1, <1>2, <1>5, HoldsByCas
<1>6. CASE pc[s] # "persist" /\ pc[t] # "persist"
  <2>1. Cas(s) /\ pc[t] = "cas" /\ pc'[t] = "persist"
    BY <1>6, HoldsByCas
  <2>2. pc' = [pc EXCEPT ![s] = "persist"] \/ pc' = [pc EXCEPT ![s] = "loadCur"]
    BY <2>1 DEF Cas, Goto
  <2>3. pc'[t] = pc[t]
    BY <2>2, <1>2
  <2> QED BY <2>1, <2>3
<1> QED BY <1>3, <1>4, <1>5, <1>6

(* No two messages of a conversation are ever written with one seq,        *)
(* whichever goroutines took them and whatever crash lies between.         *)
THEOREM SeqsAreDistinct == ReadFaults = FALSE => (Spec => []HeldDistinct)
<1> SUFFICES ASSUME ReadFaults = FALSE PROVE Spec => []HeldDistinct
  OBVIOUS
<1>1. Init => HeldDistinct BY DEF Init, HeldDistinct
<1>2. IInv /\ HeldDistinct /\ [Next]_vars => HeldDistinct' BY DistinctStep
<1>3. Spec => []IInv BY Invariance
<1> QED BY <1>1, <1>2, <1>3, PTL DEF Spec
-----------------------------------------------------------------------------
(* Refinement: the allocator implements SeqService.                        *)

LEMMA InitRefines == Init => Service!Init
BY DEF Init, Service!Init

LEMMA NextRefines ==
  ASSUME IInv, [Next]_vars
  PROVE  [Service!Next]_(Service!svcVars)
<1> DEFINE sfresh == ~loaded \/ current # lastIssued
           sphase == [t \in Threads |-> IF pc[t] = "idle" THEN "idle"
                                        ELSE IF pc[t] = "persist" THEN "holding"
                                        ELSE "waiting"]
           sheld  == [t \in Threads |-> IF pc[t] = "persist" THEN cur[t] ELSE 0]
<1> USE DEF IInv, TypeOK, InMutex, InLoop, Goto, durable, memory, local
<1>1. CASE Boot
  <2>1. UNCHANGED <<lastIssued, sphase, sheld>> /\ sfresh
    BY <1>1 DEF Boot, EntryInv
  <2>2. CASE sfresh'
    BY <2>1, <2>2 DEF Service!svcVars
  <2>3. CASE ~sfresh'
    BY <2>1, <2>3 DEF Service!Next, Service!Resume
  <2> QED BY <2>2, <2>3
<1>2. CASE Crash
  BY <1>2 DEF Crash, Service!Next, Service!Restart
<1>3. CASE CreateGroupRow
  BY <1>3 DEF CreateGroupRow, Service!svcVars
<1>4. ASSUME NEW t \in Threads, Advance(t)
      PROVE  [Service!Next]_(Service!svcVars)
  <2>1. CASE Begin(t)
    <3>1. Service!Call(t)
      BY <2>1 DEF Begin, Service!Call
    <3> QED BY <3>1 DEF Service!Next
  <2>2. CASE Lookup(t)
    BY <2>2 DEF Lookup, Service!svcVars
  <2>3. CASE LockMu(t)
    BY <2>3 DEF LockMu, Service!svcVars
  <2>4. CASE ReadConv(t)
    BY <2>4 DEF ReadConv, Service!svcVars
  <2>5. CASE ReadMax(t)
    <3>1. UNCHANGED <<lastIssued, sphase, sheld>> /\ sfresh
      BY <2>5 DEF ReadMax, EntryInv
    <3>2. CASE sfresh'
      BY <3>1, <3>2 DEF Service!svcVars
    <3>3. CASE ~sfresh'
      BY <3>1, <3>3 DEF Service!Next, Service!Resume
    <3> QED BY <3>2, <3>3
  <2>6. CASE Ensure(t)
    <3>1. UNCHANGED <<lastIssued, sphase, sheld>> /\ sfresh
      BY <2>6 DEF Ensure, EntryInv
    <3>2. CASE sfresh'
      BY <3>1, <3>2 DEF Service!svcVars
    <3>3. CASE ~sfresh'
      BY <3>1, <3>3 DEF Service!Next, Service!Resume
    <3> QED BY <3>2, <3>3
  <2>7. CASE LoadCurrent(t)
    BY <2>7 DEF LoadCurrent, Service!svcVars
  <2>8. CASE LoadWatermark(t)
    BY <2>8 DEF LoadWatermark, Service!svcVars
  <2>9. CASE Extend(t)
    <3>1. UNCHANGED <<loaded, current, lastIssued>>
      BY <2>9 DEF Extend
    <3>2. CASE Return(t)
      <4>1. pc[t] = "extend" /\ pc' = [pc EXCEPT ![t] = "idle"]
        BY <2>9, <3>2 DEF Extend, Return
      <4>2. sphase[t] = "waiting" /\ sphase' = [sphase EXCEPT ![t] = "idle"]
        BY <4>1
      <4>3. UNCHANGED sheld
        BY <3>2, <4>1 DEF Return
      <4>4. Service!Refuse(t)
        BY <3>1, <4>2, <4>3 DEF Service!Refuse
      <4> QED BY <4>4 DEF Service!Next
    <3>3. CASE ~Return(t)
      <4>1. UNCHANGED <<sphase, sheld>>
        BY <2>9, <3>3 DEF Extend
      <4> QED BY <3>1, <4>1 DEF Service!svcVars
    <3> QED BY <3>2, <3>3
  <2>10. CASE Reload(t)
    <3>1. UNCHANGED <<loaded, current, lastIssued>>
      BY <2>10 DEF Reload
    <3>2. CASE Return(t)
      <4>1. pc[t] = "reload" /\ pc' = [pc EXCEPT ![t] = "idle"]
        BY <2>10, <3>2 DEF Reload, Return
      <4>2. sphase[t] = "waiting" /\ sphase' = [sphase EXCEPT ![t] = "idle"]
        BY <4>1
      <4>3. UNCHANGED sheld
        BY <3>2, <4>1 DEF Return
      <4>4. Service!Refuse(t)
        BY <3>1, <4>2, <4>3 DEF Service!Refuse
      <4> QED BY <4>4 DEF Service!Next
    <3>3. CASE ~Return(t)
      <4>1. UNCHANGED <<sphase, sheld>>
        BY <2>10, <3>3 DEF Reload
      <4> QED BY <3>1, <4>1 DEF Service!svcVars
    <3> QED BY <3>2, <3>3
  <2>11. CASE EnsureMissing(t)
    <3>1. UNCHANGED <<loaded, current, lastIssued>>
      BY <2>11 DEF EnsureMissing
    <3>2. CASE Return(t)
      <4>1. pc[t] = "ensureMissing" /\ pc' = [pc EXCEPT ![t] = "idle"]
        BY <2>11, <3>2 DEF EnsureMissing, Return
      <4>2. sphase[t] = "waiting" /\ sphase' = [sphase EXCEPT ![t] = "idle"]
        BY <4>1
      <4>3. UNCHANGED sheld
        BY <3>2, <4>1 DEF Return
      <4>4. Service!Refuse(t)
        BY <3>1, <4>2, <4>3 DEF Service!Refuse
      <4> QED BY <4>4 DEF Service!Next
    <3>3. CASE ~Return(t)
      <4>1. UNCHANGED <<sphase, sheld>>
        BY <2>11, <3>3 DEF EnsureMissing
      <4> QED BY <3>1, <4>1 DEF Service!svcVars
    <3> QED BY <3>2, <3>3
  <2>12. CASE StoreReloaded(t)
    BY <2>12 DEF StoreReloaded, Service!svcVars
  <2>13. CASE StoreNew(t)
    BY <2>13 DEF StoreNew, Service!svcVars
  <2>14. CASE Cas(t)
    <3>1. CASE current = cur[t] /\ current' = cur[t] + 1 /\ lastIssued' = cur[t] + 1
      <4>1. lastIssued' > lastIssued /\ lastIssued' \in Nat
        BY <2>14, <3>1 DEF Cas, EntryInv, MemoryInv
      <4>2. ~sfresh => lastIssued' = lastIssued + 1
        BY <3>1
      <4>3. ~sfresh'
        BY <2>14, <3>1 DEF Cas, EntryInv
      <4>4. /\ sphase[t] = "waiting"
            /\ sphase' = [sphase EXCEPT ![t] = "holding"]
            /\ sheld' = [sheld EXCEPT ![t] = lastIssued']
        BY <2>14, <3>1 DEF Cas
      <4> QED BY <4>1, <4>2, <4>3, <4>4 DEF Service!Next, Service!Hand
    <3>2. CASE current # cur[t]
      BY <2>14, <3>2 DEF Cas, Service!svcVars
    <3> QED BY <2>14, <3>1, <3>2 DEF Cas
  <2>15. CASE Persist(t)
    <3>1. Service!Release(t)
      BY <2>15 DEF Persist, Return, Service!Release
    <3> QED BY <3>1 DEF Service!Next
  <2> QED BY <1>4, <2>1, <2>2, <2>3, <2>4, <2>5, <2>6, <2>7, <2>8, <2>9, <2>10, <2>11, <2>12, <2>13, <2>14, <2>15 DEF Advance
<1>5. CASE UNCHANGED vars
  BY <1>5 DEF vars, Service!svcVars
<1> QED BY <1>1, <1>2, <1>3, <1>4, <1>5 DEF Next

(* Allocate, run by any number of goroutines and cut short by crashes at   *)
(* any point, is a counter: no seq is returned twice, each is larger than  *)
(* all before it, and only the first after a restart may leave a hole.     *)
THEOREM Refinement == ReadFaults = FALSE => (Spec => ImplementsService)
<1> SUFFICES ASSUME ReadFaults = FALSE PROVE Spec => ImplementsService
  OBVIOUS
<1>1. Init => Service!Init BY InitRefines
<1>2. IInv /\ [Next]_vars => [Service!Next]_(Service!svcVars) BY NextRefines
<1>3. Spec => []IInv BY Invariance
<1> QED BY <1>1, <1>2, <1>3, PTL DEF Spec, ImplementsService, Service!Spec
=============================================================================
