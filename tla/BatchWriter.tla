----------------------------- MODULE BatchWriter -----------------------------
(***************************************************************************)
(* store.BatchWriter (internal/store/batch.go) for one conversation: the   *)
(* bounded queue, the worker goroutine that collects a batch and writes it *)
(* in one transaction of INSERT OR IGNOREs, the per-write result channels, *)
(* Stop's drain, and crashes at any point.  A write is named by its seq:   *)
(* the allocator never hands one out twice (Allocator), so the unique      *)
(* index on (cov_id, seq) never fires here.                                *)
(***************************************************************************)
EXTENDS Naturals, Sequences

CONSTANTS
  Calls,        \* the writes, a set of seqs
  Async,        \* those made with EnqueueAsync
  StanzaOf,     \* [Calls -> stanzas]
  EmptyStanza,  \* the stanza "": left out of the unique index
  BlankStanza,  \* a stanza of spaces: in the index, but empty once trimmed
  QueueCap,     \* capacity of the channel (10,000 in the code)
  BatchMax,     \* writes that trigger a flush (100 in the code)
  MayStop,      \* may Stop be called?
  MaxCrashes    \* bound on the crashes of a behaviour

ASSUME CallsAssumption == Calls \subseteq Nat \ {0} /\ Async \subseteq Calls
ASSUME SizesAssumption == QueueCap \in Nat \ {0} /\ BatchMax \in Nat \ {0}
ASSUME StopAssumption == MayStop \in BOOLEAN /\ MaxCrashes \in Nat

VARIABLES
  table,        \* the writes whose row is in the messages table (durable)
  queue,        \* the channel: a sequence of writes
  batch,        \* the worker's batch; while it delivers, what is left of it
  staged,       \* rows inserted in the open transaction
  pending,      \* outcomes of the batch's first rows, in order
  worker,       \* where the worker is
  back,         \* where it goes on after a flush
  done,         \* Stop has closed the done channel
  call,         \* [Calls -> {"new", "accepted", "over", "lost"}]
  res,          \* [Calls -> results]: what the result channel delivered
  late,         \* history: accepted after Stop began
  crashes       \* crashes so far

vars == <<table, queue, batch, staged, pending, worker, back, done, call, res,
          late, crashes>>

None   == [kind |-> "none", seq |-> 0]
Err    == [kind |-> "err", seq |-> 0]
Ok(c)  == [kind |-> "ok", seq |-> c]
Dup(c) == [kind |-> "dup", seq |-> c]
Results == {None, Err} \cup {Ok(c) : c \in Calls} \cup {Dup(c) : c \in Calls}

WorkerStates == {"off", "select", "check", "insert", "commit", "deliver",
                 "drain", "exited"}

TypeOK == /\ table \subseteq Calls
          /\ queue \in Seq(Calls) /\ Len(queue) <= QueueCap
          /\ batch \in Seq(Calls) /\ Len(batch) <= BatchMax
          /\ staged \subseteq Calls
          /\ pending \in Seq(Results) /\ Len(pending) <= Len(batch)
          /\ worker \in WorkerStates
          /\ back \in {"select", "drain", "exited"}
          /\ done \in BOOLEAN
          /\ call \in [Calls -> {"new", "accepted", "over", "lost"}]
          /\ res \in [Calls -> Results]
          /\ late \subseteq Calls
          /\ crashes \in 0 .. MaxCrashes

Init == /\ table = {}
        /\ queue = <<>>
        /\ batch = <<>>
        /\ staged = {}
        /\ pending = <<>>
        /\ worker = "off"
        /\ back = "select"
        /\ done = FALSE
        /\ call = [c \in Calls |-> "new"]
        /\ res = [c \in Calls |-> None]
        /\ late = {}
        /\ crashes = 0
-----------------------------------------------------------------------------
(* The callers.                                                            *)

\* Two writes that the partial unique index on (cov_id, stanza_id) excludes.
SameStanza(c, d) == StanzaOf[c] = StanzaOf[d] /\ StanzaOf[c] # EmptyStanza

\* EnqueueSync and EnqueueAsync: a send that never blocks.  A full queue is
\* reported at once (ErrQueueFull, or false).
Enqueue(c) ==
  /\ worker # "off"
  /\ call[c] = "new"
  /\ IF Len(queue) < QueueCap
     THEN /\ queue' = Append(queue, c)
          /\ call' = [call EXCEPT ![c] = "accepted"]
          /\ late' = IF done THEN late \cup {c} ELSE late
          /\ UNCHANGED res
     ELSE /\ call' = [call EXCEPT ![c] = "over"]
          /\ res' = [res EXCEPT ![c] = Err]
          /\ UNCHANGED <<queue, late>>
  /\ UNCHANGED <<table, batch, staged, pending, worker, back, done, crashes>>

\* App.Build: the worker starts before the server accepts connections.
Start ==
  /\ worker = "off"
  /\ worker' = "select"
  /\ UNCHANGED <<table, queue, batch, staged, pending, back, done, call, res,
                 late, crashes>>

\* Stop closes the done channel, once; it returns when the worker has exited.
Stop ==
  /\ MayStop
  /\ worker # "off"
  /\ ~done
  /\ done' = TRUE
  /\ UNCHANGED <<table, queue, batch, staged, pending, worker, back, call, res,
                 late, crashes>>

\* Power loss or kill: an open transaction is rolled back, waiters are gone.
Crash ==
  /\ worker # "off"
  /\ crashes < MaxCrashes
  /\ crashes' = crashes + 1
  /\ queue' = <<>>
  /\ batch' = <<>>
  /\ staged' = {}
  /\ pending' = <<>>
  /\ worker' = "off"
  /\ back' = "select"
  /\ done' = FALSE
  /\ late' = {}
  /\ call' = [c \in Calls |-> IF call[c] = "accepted" THEN "lost" ELSE call[c]]
  /\ UNCHANGED <<table, res>>
-----------------------------------------------------------------------------
(* The worker's loop.                                                      *)

callers == <<call, res, late, done, crashes>>

Take(next) == /\ queue # <<>>
              /\ batch' = Append(batch, Head(queue))
              /\ queue' = Tail(queue)
              /\ worker' = next

\* Mutant: when the transaction cannot be opened the batch is dropped silently.
Flush_DropsBatch(returnTo) ==
  /\ back' = returnTo
  /\ \/ batch # <<>> /\ worker' = "insert" /\ UNCHANGED batch
     \/ worker' = returnTo /\ batch' = <<>>
  /\ UNCHANGED <<table, queue, staged, pending, callers>>

\* flush(): nothing to do for an empty batch, else Begin; every waiter gets
\* the error if the transaction cannot be opened.
Flush(returnTo) ==
  /\ back' = returnTo
  /\ IF batch = <<>>
     THEN worker' = returnTo /\ UNCHANGED pending
     ELSE \/ worker' = "insert" /\ UNCHANGED pending
          \/ worker' = "deliver" /\ pending' = [i \in 1 .. Len(batch) |-> Err]
  /\ UNCHANGED <<table, queue, batch, staged, callers>>

Receive ==
  /\ worker = "select"
  /\ Take("check")
  /\ UNCHANGED <<table, staged, pending, back, callers>>

\* Mutant: the batch is flushed only once it is larger than BatchMax.
Check_OffByOne ==
  /\ worker = "check"
  /\ IF Len(batch) > BatchMax \/ queue = <<>>
     THEN Flush("select")
     ELSE /\ worker' = "select"
          /\ UNCHANGED <<table, queue, batch, staged, pending, back, callers>>

\* A full batch or an empty queue flushes; otherwise collect more.
Check ==
  /\ worker = "check"
  /\ IF Len(batch) >= BatchMax \/ queue = <<>>
     THEN Flush("select")
     ELSE /\ worker' = "select"
          /\ UNCHANGED <<table, queue, batch, staged, pending, back, callers>>

\* The ticker flushes whatever was collected.
Tick ==
  /\ worker = "select"
  /\ batch # <<>>
  /\ Flush("select")

\* Mutant: the worker exits on done with what it has, without draining.
SeeDone_NoDrain ==
  /\ worker = "select"
  /\ done
  /\ Flush("exited")

\* The done channel is closed.
SeeDone ==
  /\ worker = "select"
  /\ done
  /\ worker' = "drain"
  /\ UNCHANGED <<table, queue, batch, staged, pending, back, callers>>

\* After done: take until the queue is empty, flush full batches on the way.
Drain ==
  /\ worker = "drain"
  /\ Len(batch) < BatchMax
  /\ Take("drain")
  /\ UNCHANGED <<table, staged, pending, back, callers>>

DrainFlush ==
  /\ worker = "drain"
  /\ Len(batch) >= BatchMax
  /\ Flush("drain")

DrainEnd ==
  /\ worker = "drain"
  /\ Len(batch) < BatchMax
  /\ queue = <<>>
  /\ Flush("exited")
-----------------------------------------------------------------------------
(* The transaction.                                                        *)

\* INSERT OR IGNORE of the next row.  Without a conflict the row is staged; on
\* one, a stanza that trims to nothing is answered with the write's own seq,
\* any other with the seq of the row found by the requery.  Either statement
\* may fail for this row alone.
InsertRow ==
  /\ worker = "insert"
  /\ Len(pending) < Len(batch)
  /\ LET c == batch[Len(pending) + 1]
         originals == {d \in table \cup staged : SameStanza(c, d)}
     IN  \/ /\ originals = {}
            /\ staged' = staged \cup {c}
            /\ pending' = Append(pending, Ok(c))
         \/ /\ \E d \in originals :
                 pending' = Append(pending, IF StanzaOf[c] = BlankStanza THEN Ok(c) ELSE Dup(d))
            /\ UNCHANGED staged
         \/ /\ pending' = Append(pending, Err)
            /\ UNCHANGED staged
  /\ UNCHANGED <<table, queue, batch, worker, back, callers>>

\* Mutant: the staged outcomes are delivered even if the commit failed.
Commit_PhantomSuccess ==
  /\ worker = "insert"
  /\ Len(pending) = Len(batch)
  /\ table' = table \cup staged \/ UNCHANGED table
  /\ staged' = {}
  /\ worker' = "deliver"
  /\ UNCHANGED <<queue, batch, pending, back, callers>>

\* Commit, or roll back and give every waiter the error.
Commit ==
  /\ worker = "insert"
  /\ Len(pending) = Len(batch)
  /\ \/ /\ table' = table \cup staged
        /\ UNCHANGED pending
     \/ /\ pending' = [i \in 1 .. Len(batch) |-> Err]
        /\ UNCHANGED table
  /\ staged' = {}
  /\ worker' = "deliver"
  /\ UNCHANGED <<queue, batch, back, callers>>

\* One result into one channel; asynchronous writes have none.
Deliver ==
  /\ worker = "deliver"
  /\ batch # <<>>
  /\ LET c == Head(batch)
     IN  /\ call' = [call EXCEPT ![c] = "over"]
         /\ res' = IF c \in Async THEN res ELSE [res EXCEPT ![c] = Head(pending)]
  /\ batch' = Tail(batch)
  /\ pending' = Tail(pending)
  /\ UNCHANGED <<table, queue, staged, worker, back, late, done, crashes>>

FlushEnd ==
  /\ worker = "deliver"
  /\ batch = <<>>
  /\ worker' = back
  /\ UNCHANGED <<table, queue, batch, staged, pending, back, callers>>

Worker == \/ Receive \/ Check \/ Tick \/ SeeDone
          \/ Drain \/ DrainFlush \/ DrainEnd
          \/ InsertRow \/ Commit \/ Deliver \/ FlushEnd

Next == Worker \/ Start \/ Stop \/ Crash \/ \E c \in Calls : Enqueue(c)

\* The worker goroutine is scheduled; nothing makes callers call or stop.
Spec == Init /\ [][Next]_vars /\ WF_vars(Worker)
-----------------------------------------------------------------------------
(* Stop's comment: the queue is drained completely and every drained       *)
(* message has its result before the worker exits.  Only a write that      *)
(* raced with Stop may be left behind.                                     *)
StopDrains ==
  worker = "exited" =>
    /\ batch = <<>>
    /\ \A c \in Calls : call[c] = "accepted" => c \in late

(* The writer is an idempotent durable store.                              *)
Store == INSTANCE MessageStore WITH
  rows   <- table,
  phase  <- [c \in Calls |-> IF call[c] = "new" THEN "new"
                             ELSE IF call[c] = "accepted" THEN "pending"
                             ELSE "over"],
  answer <- res

ImplementsStore == Store!Spec

(* Every write accepted before Stop is answered, unless the process dies.  *)
AcceptedIsAnswered ==
  \A c \in Calls : (call[c] = "accepted" /\ c \notin late) ~> call[c] # "accepted"

(* EnqueueSync's comment: the channel receives exactly one result.         *)
ExactlyOneResult ==
  \A c \in Calls : call[c] = "accepted" ~> call[c] # "accepted"

(* WriteResult's comment: a result without error carries the seq of the    *)
(* stored row (its own, or the original one).                              *)
ResultIsAuthoritative ==
  \A c \in Calls : res[c].kind \in {"ok", "dup"} => res[c].seq \in table
=============================================================================
