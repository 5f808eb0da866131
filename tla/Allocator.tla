----------------------------- MODULE Allocator -----------------------------
(***************************************************************************)
(* session.Allocator (internal/logic/session/allocator.go) for one         *)
(* conversation: the in-memory counter and watermark of covSeq, the        *)
(* watermark row of the conversations table, the goroutines that run       *)
(* Allocate concurrently, and the restarts between which only the tables   *)
(* survive.  Conversations share nothing but the map's mutex, so one is    *)
(* enough.  Every atomic load, store, compare-and-swap and SQL statement   *)
(* is a step of its own; the pool has one connection (MaxOpenConns = 1),   *)
(* so each statement is atomic.                                            *)
(***************************************************************************)
EXTENDS Integers

CONSTANTS
  Threads,        \* the connections' read goroutines
  Step,           \* how far a persisted watermark advances (1000 in the code)
  ReadFaults,     \* may getOrCreate's read of the row fail with a DB error?
  MaxWatermark    \* bound: no call starts once the watermark row is past it

ASSUME StepAssumption == Step \in Nat \ {0}
ASSUME BoundAssumption == MaxWatermark \in Nat
ASSUME FaultAssumption == ReadFaults \in BOOLEAN

NoOne == "none"
ASSUME NoOneAssumption == NoOne \notin Threads

VARIABLES
  \* durable: the conversations row and the messages table
  exists,         \* the conversations row exists
  dbWatermark,    \* conversations.current_watermark (0 while there is no row)
  maxStored,      \* MAX(seq) over the messages of the conversation
  \* memory of the server process
  up,             \* the process runs
  loaded,         \* seqs[covID] is present
  current,        \* covSeq.current
  watermark,      \* covSeq.watermark
  mu,             \* holder of Allocator.mu in write mode, or NoOne
  \* one call per goroutine
  pc,             \* where it is
  cur,            \* its local cur; the seq it was given once at "persist"
  wm,             \* its local wm, newWM or conv.CurrentWatermark
  \* history
  lastIssued      \* the last seq returned by any call of any incarnation

durable == <<exists, dbWatermark, maxStored>>
memory  == <<up, loaded, current, watermark, mu>>
local   == <<pc, cur, wm>>
vars    == <<durable, memory, local, lastIssued>>

InMutex == {"readConv", "readMax", "ensure"}
InLoop  == {"loadCur", "loadWm", "extend", "reload", "ensureMissing",
            "storeReloaded", "storeNew", "cas", "persist"}
PCs     == {"idle", "lookup", "wantMu"} \cup InMutex \cup InLoop

TypeOK == /\ exists \in BOOLEAN
          /\ dbWatermark \in Nat
          /\ maxStored \in Nat
          /\ up \in BOOLEAN
          /\ loaded \in BOOLEAN
          /\ current \in Nat
          /\ watermark \in Nat
          /\ mu \in Threads \cup {NoOne}
          /\ pc \in [Threads -> PCs]
          /\ cur \in [Threads -> Nat]
          /\ wm \in [Threads -> Nat]
          /\ lastIssued \in Nat

Init == /\ exists = FALSE
        /\ dbWatermark = 0
        /\ maxStored = 0
        /\ up = FALSE
        /\ loaded = FALSE
        /\ current = 0
        /\ watermark = 0
        /\ mu = NoOne
        /\ pc = [t \in Threads |-> "idle"]
        /\ cur = [t \in Threads |-> 0]
        /\ wm = [t \in Threads |-> 0]
        /\ lastIssued = 0

Goto(t, l) == pc' = [pc EXCEPT ![t] = l]

\* The call of t is over (a seq was used up, or an error was returned).
Return(t) == /\ Goto(t, "idle")
             /\ cur' = [cur EXCEPT ![t] = 0]
             /\ wm' = [wm EXCEPT ![t] = 0]

Larger(a, b) == IF a > b THEN a ELSE b
-----------------------------------------------------------------------------
(* Start and end of the process.                                           *)

\* Mutant: the counter resumes one below the ceiling.
Install_OneBelow(v) == loaded' = TRUE /\ current' = v - 1 /\ watermark' = v

\* A covSeq whose counter and ceiling are both v.
Install(v) == /\ loaded' = TRUE
              /\ current' = v
              /\ watermark' = v

\* Mutant: LoadAll resumes from MAX(seq), forgetting seqs that were handed out
\* and not stored.
Boot_FromMaxSeq ==
  /\ ~up
  /\ up' = TRUE
  /\ IF exists THEN Install(maxStored) ELSE UNCHANGED <<loaded, current, watermark>>
  /\ UNCHANGED <<durable, mu, local, lastIssued>>

\* Build: LoadAll preloads the covSeq from the row and MAX(seq).  It may find
\* nothing to load, fail before loading anything, or fail before MAX(seq);
\* a failure only logs a warning.  No conversations row is ever deleted, so
\* messages without a row (its last branch) do not occur.
Boot ==
  /\ ~up
  /\ up' = TRUE
  /\ \/ exists /\ Install(Larger(dbWatermark, maxStored))
     \/ exists /\ Install(dbWatermark)
     \/ UNCHANGED <<loaded, current, watermark>>
  /\ UNCHANGED <<durable, mu, local, lastIssued>>

\* Power loss, kill or shutdown: memory and running calls are gone.
Crash ==
  /\ up
  /\ up' = FALSE
  /\ loaded' = FALSE
  /\ current' = 0
  /\ watermark' = 0
  /\ mu' = NoOne
  /\ pc' = [t \in Threads |-> "idle"]
  /\ cur' = [t \in Threads |-> 0]
  /\ wm' = [t \in Threads |-> 0]
  /\ UNCHANGED <<durable, lastIssued>>

\* CreateGroup writes the row of a new group inside its own transaction.
CreateGroupRow ==
  /\ up
  /\ ~exists
  /\ exists' = TRUE
  /\ UNCHANGED <<dbWatermark, maxStored, memory, local, lastIssued>>
-----------------------------------------------------------------------------
(* getOrCreate.                                                            *)

Begin(t) ==
  /\ up
  /\ pc[t] = "idle"
  /\ dbWatermark <= MaxWatermark
  /\ Goto(t, "lookup")
  /\ UNCHANGED <<durable, memory, cur, wm, lastIssued>>

\* The fast path under RLock, which a writer excludes.
Lookup(t) ==
  /\ pc[t] = "lookup"
  /\ mu = NoOne
  /\ Goto(t, IF loaded THEN "loadCur" ELSE "wantMu")
  /\ UNCHANGED <<durable, memory, cur, wm, lastIssued>>

\* Lock, and look again: another goroutine may have installed the entry.
LockMu(t) ==
  /\ pc[t] = "wantMu"
  /\ mu = NoOne
  /\ IF loaded
     THEN Goto(t, "loadCur") /\ UNCHANGED mu
     ELSE Goto(t, "readConv") /\ mu' = t
  /\ UNCHANGED <<durable, up, loaded, current, watermark, cur, wm, lastIssued>>

\* SELECT the row.  Every error of First takes the "not in DB" branch, a
\* missing row and a failed read alike.
ReadConv(t) ==
  /\ pc[t] = "readConv"
  /\ \/ /\ exists
        /\ wm' = [wm EXCEPT ![t] = dbWatermark]
        /\ Goto(t, "readMax")
     \/ /\ ~exists \/ ReadFaults
        /\ Goto(t, "ensure")
        /\ UNCHANGED wm
  /\ UNCHANGED <<durable, memory, cur, lastIssued>>

\* SELECT MAX(seq): an error leaves maxSeq nil and is not looked at.  Then the
\* entry is stored in the map and the mutex released.
ReadMax(t) ==
  /\ pc[t] = "readMax"
  /\ \/ Install(Larger(wm[t], maxStored))
     \/ Install(wm[t])
  /\ mu' = NoOne
  /\ Goto(t, "loadCur")
  /\ UNCHANGED <<durable, up, cur, wm, lastIssued>>

\* EnsureConversation: the row is created with watermark 0 if it is missing.
CreateRow == exists' = TRUE /\ UNCHANGED <<dbWatermark, maxStored>>

\* Its error is ignored here; the entry starts at zero either way.
Ensure(t) ==
  /\ pc[t] = "ensure"
  /\ CreateRow \/ UNCHANGED durable
  /\ Install(0)
  /\ mu' = NoOne
  /\ Goto(t, "loadCur")
  /\ UNCHANGED <<up, cur, wm, lastIssued>>
-----------------------------------------------------------------------------
(* The loop of Allocate.                                                   *)

LoadCurrent(t) ==
  /\ pc[t] = "loadCur"
  /\ cur' = [cur EXCEPT ![t] = current]
  /\ Goto(t, "loadWm")
  /\ UNCHANGED <<durable, memory, wm, lastIssued>>

LoadWatermark(t) ==
  /\ pc[t] = "loadWm"
  /\ wm' = [wm EXCEPT ![t] = watermark]
  /\ Goto(t, IF cur[t] + 1 > watermark THEN "extend" ELSE "cas")
  /\ UNCHANGED <<durable, memory, cur, lastIssued>>

\* Mutant: the new watermark is stored in memory and never in the table.
Extend_MemoryOnly(t) ==
  /\ pc[t] = "extend"
  /\ wm' = [wm EXCEPT ![t] = wm[t] + Step]
  /\ Goto(t, "storeNew")
  /\ UNCHANGED <<durable, memory, cur, lastIssued>>

\* Mutant: SET current_watermark = current_watermark + Step for every racer.
Extend_Unconditional(t) ==
  /\ pc[t] = "extend"
  /\ dbWatermark' = dbWatermark + Step
  /\ wm' = [wm EXCEPT ![t] = dbWatermark + Step]
  /\ Goto(t, "storeNew")
  /\ UNCHANGED <<exists, maxStored, memory, cur, lastIssued>>

\* UPDATE ... SET current_watermark = wm + Step WHERE current_watermark = wm.
Extend(t) ==
  /\ pc[t] = "extend"
  /\ \/ /\ exists /\ dbWatermark = wm[t]
        /\ dbWatermark' = wm[t] + Step
        /\ wm' = [wm EXCEPT ![t] = wm[t] + Step]
        /\ Goto(t, "storeNew")
        /\ UNCHANGED cur
     \/ /\ ~exists \/ dbWatermark # wm[t]
        /\ Goto(t, "reload")
        /\ UNCHANGED <<dbWatermark, cur, wm>>
     \/ Return(t) /\ UNCHANGED dbWatermark
  /\ UNCHANGED <<exists, maxStored, memory, lastIssued>>

\* No row matched: read the row again, create it if it is missing.
Reload(t) ==
  /\ pc[t] = "reload"
  /\ \/ /\ exists
        /\ wm' = [wm EXCEPT ![t] = dbWatermark]
        /\ Goto(t, "storeReloaded")
        /\ UNCHANGED cur
     \/ /\ ~exists
        /\ Goto(t, "ensureMissing")
        /\ UNCHANGED <<cur, wm>>
     \/ Return(t)
  /\ UNCHANGED <<durable, memory, lastIssued>>

EnsureMissing(t) ==
  /\ pc[t] = "ensureMissing"
  /\ \/ CreateRow /\ Goto(t, "loadCur") /\ UNCHANGED <<cur, wm>>
     \/ UNCHANGED durable /\ Return(t)
  /\ UNCHANGED <<memory, lastIssued>>

StoreReloaded(t) ==
  /\ pc[t] = "storeReloaded"
  /\ watermark' = wm[t]
  /\ Goto(t, "loadCur")
  /\ UNCHANGED <<durable, up, loaded, current, mu, cur, wm, lastIssued>>

StoreNew(t) ==
  /\ pc[t] = "storeNew"
  /\ watermark' = wm[t]
  /\ Goto(t, "cas")
  /\ UNCHANGED <<durable, up, loaded, current, mu, cur, wm, lastIssued>>

\* CompareAndSwap(cur, next): the seq is taken, or the loop starts over.
Cas(t) ==
  /\ pc[t] = "cas"
  /\ \/ /\ current = cur[t]
        /\ current' = cur[t] + 1
        /\ cur' = [cur EXCEPT ![t] = cur[t] + 1]
        /\ lastIssued' = cur[t] + 1
        /\ Goto(t, "persist")
     \/ /\ current # cur[t]
        /\ Goto(t, "loadCur")
        /\ UNCHANGED <<current, cur, lastIssued>>
  /\ UNCHANGED <<durable, up, loaded, watermark, mu, wm>>

\* The caller writes the message with its seq, or gives up (queue full,
\* timeout, failed insert) and the seq stays unused.
Persist(t) ==
  /\ pc[t] = "persist"
  /\ \/ maxStored' = Larger(maxStored, cur[t])
     \/ UNCHANGED maxStored
  /\ Return(t)
  /\ UNCHANGED <<exists, dbWatermark, memory, lastIssued>>

Advance(t) == \/ Begin(t) \/ Lookup(t) \/ LockMu(t)
            \/ ReadConv(t) \/ ReadMax(t) \/ Ensure(t)
            \/ LoadCurrent(t) \/ LoadWatermark(t) \/ Extend(t) \/ Reload(t)
            \/ EnsureMissing(t) \/ StoreReloaded(t) \/ StoreNew(t)
            \/ Cas(t) \/ Persist(t)

Next == Boot \/ Crash \/ CreateGroupRow \/ \E t \in Threads : Advance(t)

Spec == Init /\ [][Next]_vars
-----------------------------------------------------------------------------
(* Sync-DB-First (Gate 0-5): whatever was handed out is covered by the     *)
(* watermark row, so a crash right now cannot lead to handing it out again.*)
WatermarkCoversIssued == lastIssued <= dbWatermark

(* Racing extenders reserve one block between them: while the counter is   *)
(* in memory the row is at most Step ahead of it, so one crash burns at    *)
(* most Step numbers.                                                      *)
ReserveBounded == loaded => dbWatermark <= current + Step

(* The allocator is a counter that never repeats, never goes back and      *)
(* leaves holes only at a restart.                                         *)
Service == INSTANCE SeqService WITH
  Callers <- Threads,
  last    <- lastIssued,
  fresh   <- ~loaded \/ current # lastIssued,
  phase   <- [t \in Threads |-> IF pc[t] = "idle" THEN "idle"
                                ELSE IF pc[t] = "persist" THEN "holding"
                                ELSE "waiting"],
  held    <- [t \in Threads |-> IF pc[t] = "persist" THEN cur[t] ELSE 0]

ImplementsService == Service!Spec

(* "never rewinding": no step moves the last seq handed out backwards      *)
(* (allocator.go's restart guarantee).                                     *)
NeverRewinds == [][lastIssued' >= lastIssued]_vars
=============================================================================
