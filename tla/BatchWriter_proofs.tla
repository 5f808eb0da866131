-------------------------- MODULE BatchWriter_proofs --------------------------
(***************************************************************************)
(* For any writes, queue and batch sizes and any number of crashes:        *)
(* BatchWriter keeps its types and bounds, Stop leaves nothing behind that *)
(* was accepted before it, and, as long as two writes never share a stanza *)
(* made of spaces, the writer implements the store it promises.            *)
(***************************************************************************)
EXTENDS BatchWriter, SequenceTheorems, TLAPS

In(q, c) == \E i \in 1 .. Len(q) : q[i] = c

\* What the worker holds at each point, and that it drains only after Stop.
ControlInv ==
  /\ worker \notin {"insert", "deliver"} => pending = <<>>
  /\ worker = "deliver" => Len(pending) = Len(batch)
  /\ worker # "insert" => staged = {}
  /\ worker = "select" => Len(batch) < BatchMax
  /\ worker \in {"off", "exited"} => batch = <<>>
  /\ worker \in {"drain", "exited"} => done
  /\ worker \in {"insert", "deliver"} /\ back # "select" => done

\* A call is accepted while it is in the queue or in the batch, and it is in one
\* of them once.
PlaceInv ==
  /\ \A c \in Calls : call[c] = "accepted" <=> In(queue, c) \/ In(batch, c)
  /\ \A i, j \in 1 .. Len(queue) : queue[i] = queue[j] => i = j
  /\ \A i, j \in 1 .. Len(batch) : batch[i] = batch[j] => i = j
  /\ \A i \in 1 .. Len(queue), j \in 1 .. Len(batch) : queue[i] # batch[j]

\* Once the last flush has begun, only writes that raced with Stop come in.
Leaving == worker = "exited" \/ (worker \in {"insert", "deliver"} /\ back = "exited")
LateInv == Leaving => \A i \in 1 .. Len(queue) : queue[i] \in late

IInv == TypeOK /\ ControlInv /\ PlaceInv /\ LateInv
-----------------------------------------------------------------------------
\* A channel or a batch with one more or one fewer element.
LEMMA Sequences ==
  ASSUME NEW S, NEW q \in Seq(S)
  PROVE  /\ Len(q) \in Nat /\ (q = <<>> <=> Len(q) = 0)
         /\ \A i \in 1 .. Len(q) : q[i] \in S
         /\ \A c \in S : /\ Append(q, c) \in Seq(S) /\ Len(Append(q, c)) = Len(q) + 1
                         /\ \A i \in 1 .. Len(q) : Append(q, c)[i] = q[i]
                         /\ Append(q, c)[Len(q) + 1] = c
         /\ q # <<>> => /\ Head(q) \in S /\ Head(q) = q[1] /\ Tail(q) \in Seq(S)
                        /\ Len(q) >= 1 /\ Len(Tail(q)) = Len(q) - 1
                        /\ \A i \in 1 .. Len(Tail(q)) : Tail(q)[i] = q[i + 1]
  <1>1. Len(q) \in Nat /\ (q = <<>> <=> Len(q) = 0) /\ \A i \in 1 .. Len(q) : q[i] \in S
    BY EmptySeq, LenProperties, ElementOfSeq
  <1>2. ASSUME NEW c \in S
        PROVE  /\ Append(q, c) \in Seq(S) /\ Len(Append(q, c)) = Len(q) + 1
               /\ \A i \in 1 .. Len(q) : Append(q, c)[i] = q[i]
               /\ Append(q, c)[Len(q) + 1] = c
    BY AppendProperties
  <1>3. ASSUME q # <<>>
        PROVE  /\ Head(q) \in S /\ Head(q) = q[1] /\ Tail(q) \in Seq(S)
               /\ Len(q) >= 1 /\ Len(Tail(q)) = Len(q) - 1
               /\ \A i \in 1 .. Len(Tail(q)) : Tail(q)[i] = q[i + 1]
    BY <1>3, HeadTailProperties, EmptySeq
  <1> QED BY <1>1, <1>2, <1>3

\* Every waiter of a batch is given the error.
LEMMA Errors ==
  ASSUME NEW n \in Nat
  PROVE  /\ [i \in 1 .. n |-> Err] \in Seq(Results) /\ Len([i \in 1 .. n |-> Err]) = n
         /\ \A j \in 1 .. n : [i \in 1 .. n |-> Err][j] = Err
  BY DEF Results

LEMMA InitOK == Init => IInv
  <1> SUFFICES ASSUME Init PROVE IInv
    OBVIOUS
  <1> USE DEF Init
  <1>1. TypeOK
    <2>1. /\ queue \in Seq(Calls) /\ Len(queue) <= QueueCap /\ batch \in Seq(Calls)
          /\ Len(batch) <= BatchMax /\ pending \in Seq(Results) /\ Len(pending) <= Len(batch)
      BY EmptySeq, SizesAssumption
    <2>2. done \in BOOLEAN
      BY Zenon
    <2>3. res \in [Calls -> Results] /\ crashes \in 0 .. MaxCrashes
      BY StopAssumption DEF Results
    <2> QED BY <2>1, <2>2, <2>3 DEF TypeOK, WorkerStates
  <1>2. ControlInv /\ PlaceInv /\ LateInv
    BY SizesAssumption DEF ControlInv, PlaceInv, LateInv, Leaving, In
  <1> QED BY <1>1, <1>2 DEF IInv

-----------------------------------------------------------------------------
(* The callers, Start, Stop and a crash.                                   *)

LEMMA EnqueueOK ==
  ASSUME IInv, NEW c \in Calls, Enqueue(c) PROVE IInv'
  <1> USE DEF IInv
  <1>1. UNCHANGED <<table, batch, staged, pending, worker, back, done, crashes>>
    BY DEF Enqueue
  <1>2. ControlInv'
    BY <1>1 DEF ControlInv
  <1>3. call[c] = "new" /\ ~In(queue, c) /\ ~In(batch, c)
    BY DEF Enqueue, PlaceInv
  <1>4. CASE Len(queue) < QueueCap
    <2>1. /\ queue' = Append(queue, c) /\ call' = [call EXCEPT ![c] = "accepted"]
          /\ late' = (IF done THEN late \cup {c} ELSE late) /\ UNCHANGED res
      BY <1>4 DEF Enqueue
    <2>2. /\ Len(queue) \in Nat /\ queue' \in Seq(Calls) /\ Len(queue') = Len(queue) + 1
          /\ \A i \in 1 .. Len(queue) : queue'[i] = queue[i]
          /\ queue'[Len(queue) + 1] = c
      BY <2>1, Sequences DEF TypeOK
    <2>3. TypeOK'
      <3>1. Len(queue') <= QueueCap
        BY <1>4, <2>2, SizesAssumption
      <3>2. call' \in [Calls -> {"new", "accepted", "over", "lost"}] /\ late' \subseteq Calls
        BY <2>1 DEF TypeOK
      <3> QED BY <1>1, <2>1, <2>2, <3>1, <3>2 DEF TypeOK
    <2>4. \A d \in Calls : In(queue', d) <=> In(queue, d) \/ d = c
      BY <2>2 DEF In
    <2>5. PlaceInv'
      <3>1. \A d \in Calls : (call[d] = "accepted")' <=> In(queue, d)' \/ In(batch, d)'
        BY <1>1, <2>1, <2>4 DEF PlaceInv, In, TypeOK
      <3>2. \A i, j \in 1 .. Len(queue') : queue'[i] = queue'[j] => i = j
        BY <1>3, <2>2 DEF PlaceInv, In
      <3>3. \A i \in 1 .. Len(queue'), j \in 1 .. Len(batch) : queue'[i] # batch[j]
        BY <1>3, <2>2 DEF PlaceInv, In
      <3> QED BY <1>1, <3>1, <3>2, <3>3 DEF PlaceInv
    <2>6. LateInv'
      <3>1. Leaving' = Leaving /\ (Leaving => done)
        BY <1>1 DEF Leaving, ControlInv
      <3> QED BY <2>1, <2>2, <3>1 DEF LateInv
    <2> QED BY <1>2, <2>3, <2>5, <2>6
  <1>5. CASE ~(Len(queue) < QueueCap)
    <2>1. call' = [call EXCEPT ![c] = "over"] /\ res' = [res EXCEPT ![c] = Err] /\ UNCHANGED <<queue, late>>
      BY <1>5 DEF Enqueue
    <2>2. TypeOK'
      BY <1>1, <2>1 DEF TypeOK, Results
    <2>3. PlaceInv'
      BY <1>1, <1>3, <2>1 DEF PlaceInv, In, TypeOK
    <2>4. LateInv'
      BY <1>1, <2>1 DEF LateInv, Leaving
    <2> QED BY <1>2, <2>2, <2>3, <2>4
  <1> QED BY <1>4, <1>5

LEMMA OutsideOK ==
  ASSUME IInv, Start \/ Stop \/ Crash PROVE IInv'
  <1> USE DEF IInv
  <1>1. CASE Start
    <2>1. TypeOK' /\ PlaceInv'
      BY <1>1 DEF Start, TypeOK, WorkerStates, PlaceInv, In
    <2>2. ControlInv' /\ LateInv'
      BY <1>1, SizesAssumption DEF Start, ControlInv, LateInv, Leaving
    <2> QED BY <2>1, <2>2
  <1>2. CASE Stop
    <2>1. done' \in BOOLEAN /\ done'
      BY <1>2 DEF Stop
    <2>2. TypeOK'
      BY <1>2, <2>1 DEF Stop, TypeOK
    <2>3. ControlInv' /\ PlaceInv' /\ LateInv'
      BY <1>2, <2>1 DEF Stop, ControlInv, PlaceInv, In, LateInv, Leaving
    <2> QED BY <2>2, <2>3
  <1>3. CASE Crash
    <2>1. /\ queue' \in Seq(Calls) /\ Len(queue') = 0 /\ batch' \in Seq(Calls) /\ Len(batch') = 0
          /\ pending' \in Seq(Results) /\ Len(pending') = 0 /\ batch' = <<>> /\ pending' = <<>>
          /\ staged' = {} /\ worker' = "off" /\ back' = "select"
      BY <1>3, EmptySeq DEF Crash
    <2>2. /\ crashes' \in 0 .. MaxCrashes
          /\ call' = [c \in Calls |-> IF call[c] = "accepted" THEN "lost" ELSE call[c]]
      BY <1>3, StopAssumption DEF Crash, TypeOK
    <2>3. done' \in BOOLEAN
      BY <1>3, Zenon DEF Crash
    <2>4. TypeOK'
      <3>1. /\ call' \in [Calls -> {"new", "accepted", "over", "lost"}]
            /\ late' = {} /\ UNCHANGED <<table, res>>
        BY <1>3, <2>2 DEF Crash, TypeOK
      <3> QED BY <2>1, <2>2, <2>3, <3>1, SizesAssumption DEF TypeOK, WorkerStates
    <2>5. ControlInv' /\ LateInv'
      BY <2>1 DEF ControlInv, LateInv, Leaving
    <2>6. PlaceInv'
      BY <2>1, <2>2 DEF PlaceInv, In, TypeOK
    <2> QED BY <2>4, <2>5, <2>6
  <1> QED BY <1>1, <1>2, <1>3

-----------------------------------------------------------------------------
(* The worker's loop.                                                      *)

\* A write moves from the head of the queue to the end of the batch.
LEMMA TakeOK ==
  ASSUME IInv, worker \in {"select", "drain"}, Len(batch) < BatchMax,
         NEW w \in {"check", "drain"}, w = "drain" => worker = "drain",
         Take(w), UNCHANGED <<table, staged, pending, back, callers>>
  PROVE  IInv'
  <1> USE DEF IInv
  <1>1. /\ Len(queue) \in Nat /\ Len(queue) >= 1 /\ Head(queue) = queue[1] /\ queue[1] \in Calls
        /\ queue' \in Seq(Calls) /\ Len(queue') = Len(queue) - 1
        /\ \A i \in 1 .. Len(queue') : queue'[i] = queue[i + 1]
    BY Sequences DEF Take, TypeOK
  <1>2. /\ Len(batch) \in Nat /\ batch' \in Seq(Calls) /\ Len(batch') = Len(batch) + 1
        /\ \A i \in 1 .. Len(batch) : batch'[i] = batch[i]
        /\ batch'[Len(batch) + 1] = queue[1]
    BY <1>1, Sequences DEF Take, TypeOK
  <1>3. UNCHANGED <<table, staged, pending, back, call, res, late, done, crashes>> /\ worker' = w
    BY DEF callers, Take
  <1>4. pending = <<>> /\ staged = {} /\ (w = "drain" => done)
    BY DEF ControlInv
  <1>5. TypeOK'
    <2>1. Len(queue') <= QueueCap /\ Len(batch') <= BatchMax
      BY <1>1, <1>2, SizesAssumption DEF TypeOK
    <2>2. pending' \in Seq(Results) /\ Len(pending') <= Len(batch')
      BY <1>2, <1>3, <1>4, EmptySeq DEF TypeOK
    <2> QED BY <1>1, <1>2, <1>3, <2>1, <2>2 DEF TypeOK, WorkerStates
  <1>6. ControlInv' /\ LateInv'
    BY <1>3, <1>4 DEF ControlInv, LateInv, Leaving
  <1>7. PlaceInv'
    <2>1. \A c \in Calls : In(queue, c) \/ In(batch, c) => In(queue', c) \/ In(batch', c)
      <3>1. ASSUME NEW c \in Calls, NEW i \in 1 .. Len(queue), queue[i] = c, i # 1
            PROVE  In(queue', c)
        <4>1. i - 1 \in 1 .. Len(queue') /\ queue'[i - 1] = queue[i]
          BY <1>1, <3>1
        <4> QED BY <3>1, <4>1 DEF In
      <3>2. In(batch', queue[1])
        BY <1>2 DEF In
      <3>3. ASSUME NEW c \in Calls, In(batch, c) PROVE In(batch', c)
        BY <1>2, <3>3 DEF In
      <3> QED BY <3>1, <3>2, <3>3 DEF In
    <2>2. \A c \in Calls : In(queue', c) \/ In(batch', c) => In(queue, c) \/ In(batch, c)
      BY <1>1, <1>2 DEF In
    <2>3. \A i, j \in 1 .. Len(queue') : queue'[i] = queue'[j] => i = j
      BY <1>1 DEF PlaceInv
    <2>4. \A i, j \in 1 .. Len(batch') : batch'[i] = batch'[j] => i = j
      BY <1>1, <1>2 DEF PlaceInv
    <2>5. \A i \in 1 .. Len(queue'), j \in 1 .. Len(batch') : queue'[i] # batch'[j]
      BY <1>1, <1>2 DEF PlaceInv
    <2> QED BY <1>3, <2>1, <2>2, <2>3, <2>4, <2>5 DEF PlaceInv
  <1> QED BY <1>5, <1>6, <1>7

\* A flush begins, fails at once, or finds nothing to do.
LEMMA FlushOK ==
  ASSUME IInv, worker \in {"select", "check", "drain"},
         NEW r \in {"select", "drain", "exited"}, Flush(r),
         r # "select" => worker = "drain", r = "exited" => queue = <<>>
  PROVE  IInv'
  <1> USE DEF IInv
  <1>1. UNCHANGED <<table, queue, batch, staged, call, res, late, done, crashes>> /\ back' = r
    BY DEF Flush, callers
  <1>2. pending = <<>> /\ staged = {} /\ (r # "select" => done)
    BY DEF ControlInv
  <1>3. PlaceInv'
    BY <1>1 DEF PlaceInv, In
  <1>4. LateInv'
    <2>1. Leaving' => r = "exited"
      BY <1>1 DEF Leaving, Flush
    <2>2. r = "exited" => Len(queue') = 0
      BY <1>1
    <2> QED BY <2>1, <2>2 DEF LateInv
  <1>5. Len(batch) \in Nat /\ (batch = <<>> <=> Len(batch) = 0)
    BY Sequences DEF TypeOK
  <1>6. CASE worker' = r /\ batch = <<>> /\ pending' = pending
    <2>1. TypeOK'
      BY <1>1, <1>6 DEF TypeOK, WorkerStates
    <2>2. ControlInv'
      BY <1>1, <1>2, <1>5, <1>6, SizesAssumption DEF ControlInv
    <2> QED BY <1>3, <1>4, <2>1, <2>2
  <1>7. CASE worker' = "insert" /\ pending' = pending
    <2>1. TypeOK'
      BY <1>1, <1>7 DEF TypeOK, WorkerStates
    <2>2. ControlInv'
      BY <1>1, <1>2, <1>7 DEF ControlInv
    <2> QED BY <1>3, <1>4, <2>1, <2>2
  <1>8. CASE worker' = "deliver" /\ pending' = [i \in 1 .. Len(batch) |-> Err]
    <2>1. pending' \in Seq(Results) /\ Len(pending') = Len(batch)
      BY <1>5, <1>8, Errors
    <2>2. TypeOK'
      BY <1>1, <1>5, <1>8, <2>1 DEF TypeOK, WorkerStates
    <2>3. ControlInv'
      BY <1>1, <1>2, <1>8, <2>1 DEF ControlInv
    <2> QED BY <1>3, <1>4, <2>2, <2>3
  <1> QED BY <1>6, <1>7, <1>8 DEF Flush

\* The transaction's rows and its end: batch and queue stay as they are.
LEMMA TransactionOK ==
  ASSUME IInv, InsertRow \/ Commit PROVE IInv'
  <1> USE DEF IInv
  <1>1. UNCHANGED <<queue, batch, back, call, res, late, done, crashes>> /\ worker = "insert"
    BY DEF InsertRow, Commit, callers
  <1>2. PlaceInv'
    BY <1>1 DEF PlaceInv, In
  <1>3. LateInv' /\ Leaving' = Leaving
    BY <1>1 DEF LateInv, Leaving, InsertRow, Commit
  <1>4. Len(batch) \in Nat /\ Len(pending) \in Nat /\ \A i \in 1 .. Len(batch) : batch[i] \in Calls
    BY Sequences DEF TypeOK
  <1>5. CASE InsertRow
    <2> DEFINE c == batch[Len(pending) + 1]
    <2>1. Len(pending) < Len(batch) /\ c \in Calls /\ worker' = worker /\ UNCHANGED table
      BY <1>4, <1>5 DEF InsertRow
    <2>2. PICK o \in Results : pending' = Append(pending, o)
      BY <1>5, <2>1 DEF InsertRow, Results, TypeOK
    <2>3. pending' \in Seq(Results) /\ Len(pending') <= Len(batch')
      BY <1>1, <1>4, <2>1, <2>2, Sequences DEF TypeOK
    <2>4. staged' \subseteq Calls
      BY <1>5, <2>1 DEF InsertRow, TypeOK
    <2>5. TypeOK'
      BY <1>1, <2>1, <2>3, <2>4 DEF TypeOK
    <2>6. ControlInv'
      BY <1>1, <2>1 DEF ControlInv
    <2> QED BY <1>2, <1>3, <2>5, <2>6
  <1>6. CASE Commit
    <2>1. pending' \in Seq(Results) /\ Len(pending') = Len(batch)
      BY <1>4, <1>6, Errors DEF Commit, TypeOK
    <2>2. worker' = "deliver" /\ staged' = {} /\ table' \subseteq Calls
      BY <1>6 DEF Commit, TypeOK
    <2>3. TypeOK'
      BY <1>1, <1>4, <2>1, <2>2 DEF TypeOK, WorkerStates
    <2>4. ControlInv'
      BY <1>1, <2>1, <2>2 DEF ControlInv
    <2> QED BY <1>2, <1>3, <2>3, <2>4
  <1> QED BY <1>5, <1>6

\* A waiter is answered.
LEMMA DeliverOK ==
  ASSUME IInv, Deliver PROVE IInv'
  <1> USE DEF IInv
  <1>1. /\ UNCHANGED <<table, queue, staged, worker, back, late, done, crashes>>
        /\ worker = "deliver" /\ batch # <<>>
        /\ call' = [call EXCEPT ![Head(batch)] = "over"]
        /\ batch' = Tail(batch) /\ pending' = Tail(pending)
        /\ res' = IF Head(batch) \in Async THEN res
                  ELSE [res EXCEPT ![Head(batch)] = Head(pending)]
    BY DEF Deliver
  <1>2. /\ Len(batch) \in Nat /\ Len(batch) >= 1 /\ batch[1] \in Calls /\ Head(batch) = batch[1]
        /\ batch' \in Seq(Calls) /\ Len(batch') = Len(batch) - 1
        /\ \A i \in 1 .. Len(batch') : batch'[i] = batch[i + 1]
    BY <1>1, Sequences DEF TypeOK
  <1>3. /\ Len(pending) = Len(batch) /\ Head(pending) \in Results
        /\ pending' \in Seq(Results) /\ Len(pending') = Len(batch')
    <2>1. Len(pending) = Len(batch) /\ pending # <<>>
      BY <1>1, <1>2, Sequences DEF ControlInv, TypeOK
    <2> QED BY <1>1, <1>2, <2>1, Sequences DEF TypeOK
  <1>4. TypeOK'
    <2>1. res' \in [Calls -> Results] /\ call' \in [Calls -> {"new", "accepted", "over", "lost"}]
      BY <1>1, <1>2, <1>3 DEF TypeOK
    <2>2. Len(batch') <= BatchMax /\ Len(pending') <= Len(batch')
      BY <1>2, <1>3, SizesAssumption DEF TypeOK
    <2> QED BY <1>1, <1>2, <1>3, <2>1, <2>2 DEF TypeOK
  <1>5. ControlInv' /\ LateInv'
    BY <1>1, <1>3 DEF ControlInv, LateInv, Leaving
  <1>6. PlaceInv'
    <2>1. \A c \in Calls : In(batch, c) => In(batch', c) \/ c = batch[1]
      <3> SUFFICES ASSUME NEW i \in 1 .. Len(batch), i # 1 PROVE In(batch', batch[i])
        BY DEF In
      <3>1. i - 1 \in 1 .. Len(batch') /\ batch'[i - 1] = batch[i]
        BY <1>2
      <3> QED BY <3>1 DEF In
    <2>2. \A c \in Calls : In(batch', c) => In(batch, c) /\ c # batch[1]
      BY <1>2 DEF In, PlaceInv
    <2>3. ~In(queue, batch[1])
      BY <1>2 DEF In, PlaceInv
    <2>4. \A c \in Calls : (call[c] = "accepted")' <=> In(queue, c)' \/ In(batch, c)'
      BY <1>1, <1>2, <2>1, <2>2, <2>3 DEF PlaceInv, In, TypeOK
    <2>5. \A i, j \in 1 .. Len(batch') : batch'[i] = batch'[j] => i = j
      BY <1>2 DEF PlaceInv
    <2>6. \A i \in 1 .. Len(queue), j \in 1 .. Len(batch') : queue[i] # batch'[j]
      BY <1>2 DEF PlaceInv
    <2> QED BY <1>1, <2>4, <2>5, <2>6 DEF PlaceInv
  <1> QED BY <1>4, <1>5, <1>6

\* The worker only goes from one point of its loop to another.
LEMMA MoveOK ==
  ASSUME IInv, UNCHANGED <<table, queue, batch, staged, pending, back, callers>>,
         \/ worker = "check" /\ worker' = "select" /\ Len(batch) < BatchMax
         \/ worker = "select" /\ worker' = "drain" /\ done
         \/ worker = "deliver" /\ worker' = back /\ batch = <<>>
  PROVE  IInv'
  <1> USE DEF IInv
  <1>1. UNCHANGED <<call, res, late, done, crashes>>
    BY DEF callers
  <1>2. TypeOK' /\ PlaceInv'
    BY <1>1 DEF TypeOK, WorkerStates, PlaceInv, In
  <1>3. LateInv'
    BY <1>1 DEF LateInv, Leaving
  <1>4. ControlInv'
    <2>1. worker = "deliver" => pending = <<>> /\ Len(batch) < BatchMax
      BY Sequences, SizesAssumption DEF ControlInv, TypeOK
    <2> QED BY <1>1, <2>1 DEF ControlInv, TypeOK
  <1> QED BY <1>2, <1>3, <1>4

LEMMA WorkerOK == ASSUME IInv, Worker PROVE IInv'
  <1>1. BatchMax \in Nat /\ Len(batch) \in Nat
    BY Sequences, SizesAssumption DEF IInv, TypeOK
  <1>2. CASE Receive
    BY <1>2, TakeOK DEF Receive, IInv, ControlInv
  <1>3. CASE Drain
    BY <1>3, TakeOK DEF Drain
  <1>4. CASE Check
    <2>1. CASE Flush("select")
      BY <1>4, <2>1, FlushOK DEF Check
    <2>2. CASE /\ ~(Len(batch) >= BatchMax) /\ worker' = "select"
               /\ UNCHANGED <<table, queue, batch, staged, pending, back, callers>>
      BY <1>1, <1>4, <2>2, MoveOK DEF Check
    <2> QED BY <1>4, <2>1, <2>2 DEF Check
  <1>5. CASE Tick
    BY <1>5, FlushOK DEF Tick
  <1>6. CASE DrainFlush
    BY <1>6, FlushOK DEF DrainFlush
  <1>7. CASE DrainEnd
    BY <1>7, FlushOK DEF DrainEnd
  <1>8. CASE SeeDone
    BY <1>8, MoveOK DEF SeeDone
  <1>9. CASE FlushEnd
    BY <1>9, MoveOK DEF FlushEnd
  <1> QED BY <1>2, <1>3, <1>4, <1>5, <1>6, <1>7, <1>8, <1>9, TransactionOK, DeliverOK DEF Worker

LEMMA NextOK == IInv /\ [Next]_vars => IInv'
  <1>1. ASSUME IInv, UNCHANGED vars PROVE IInv'
    BY <1>1 DEF IInv, vars, TypeOK, ControlInv, PlaceInv, In, LateInv, Leaving
  <1> QED BY <1>1, EnqueueOK, OutsideOK, WorkerOK DEF Next

LEMMA Always == Spec => []IInv
  BY InitOK, NextOK, PTL DEF Spec

\* Every variable keeps its type; queue and batch keep their bounds (batch.go).
THEOREM TypeCorrect == Spec => []TypeOK
  <1>1. IInv => TypeOK
    BY DEF IInv
  <1> QED BY <1>1, Always, PTL

\* When the worker has exited, every write accepted before Stop has been dealt
\* with, whatever the drain and the failing transactions did (Stop of batch.go).
THEOREM StopLeavesNothing == Spec => []StopDrains
  <1>1. IInv => StopDrains
    BY DEF IInv, ControlInv, PlaceInv, LateInv, Leaving, In, StopDrains
  <1> QED BY <1>1, Always, PTL

-----------------------------------------------------------------------------
(* BatchWriter implements MessageStore.  A second write with a stanza of   *)
(* spaces is ignored by the index and answered OK all the same: with it    *)
(* the promise does not hold, hence the assumption OneBlank.               *)

OneBlank == \A c, d \in Calls :
              StanzaOf[c] = BlankStanza /\ StanzaOf[d] = BlankStanza => c = d

\* Rows written, durable or in the open transaction, have stanzas of their own.
Written == table \cup staged
UniqueInv == \A c, d \in Written : SameStanza(c, d) => c = d

\* A write has no row before the transaction comes to it.
FreshInv ==
  /\ \A c \in staged : In(batch, c)
  /\ \A c \in Calls : call[c] = "new" \/ In(queue, c) => c \notin Written
  /\ \A i \in 1 .. Len(batch) : /\ i > Len(pending) => batch[i] \notin Written
                                /\ worker # "deliver" => batch[i] \notin table

\* What outcome o of write c says about the rows.
Says(o, c) ==
  \/ o = Ok(c) /\ c \in Written
  \/ \E d \in Written : o = Dup(d) /\ SameStanza(c, d) /\ c \notin Written
  \/ o = Err /\ c \notin Written
OutcomeInv == \A i \in 1 .. Len(pending) : Says(pending[i], batch[i])

StoreInv == UniqueInv /\ FreshInv /\ OutcomeInv

LEMMA InitStore == Init => StoreInv
  BY DEF Init, StoreInv, UniqueInv, FreshInv, OutcomeInv, Written, In

LEMMA EnqueueStore ==
  ASSUME IInv, StoreInv, NEW c \in Calls, Enqueue(c) PROVE StoreInv'
  <1> USE DEF IInv, StoreInv
  <1>1. UNCHANGED <<table, staged, batch, pending, worker>> /\ call[c] = "new"
    BY DEF Enqueue
  <1>2. Written' = Written /\ UniqueInv' /\ OutcomeInv'
    BY <1>1 DEF Written, UniqueInv, OutcomeInv, Says
  <1>3. \A d \in Calls : (call[d] = "new")' => call[d] = "new"
    BY DEF Enqueue, TypeOK
  <1>4. \A d \in Calls : In(queue, d)' => In(queue, d) \/ d = c
    <2>1. CASE queue' = Append(queue, c)
      <3>1. /\ Len(queue) \in Nat /\ Len(queue') = Len(queue) + 1 /\ queue'[Len(queue) + 1] = c
            /\ \A i \in 1 .. Len(queue) : queue'[i] = queue[i]
        BY <2>1, Sequences DEF TypeOK
      <3> QED BY <3>1 DEF In
    <2>2. CASE queue' = queue
      BY <2>2 DEF In
    <2> QED BY <2>1, <2>2 DEF Enqueue
  <1> QED BY <1>1, <1>2, <1>3, <1>4 DEF FreshInv, In

LEMMA CrashStore ==
  ASSUME IInv, StoreInv, Crash PROVE StoreInv'
  <1> USE DEF IInv, StoreInv
  <1>1. /\ table' = table /\ staged' = {} /\ Len(queue') = 0 /\ Len(batch') = 0 /\ Len(pending') = 0
        /\ \A d \in Calls : (call[d] = "new")' => call[d] = "new"
    BY DEF Crash, TypeOK
  <1>2. Written' \subseteq Written
    BY <1>1 DEF Written
  <1> QED BY <1>1, <1>2 DEF UniqueInv, FreshInv, OutcomeInv, In

\* Taking, starting a flush, stopping: no row is written and no one is answered.
LEMMA QuietStore ==
  ASSUME IInv, StoreInv, UNCHANGED <<table, staged, call>>, worker # "deliver" \/ Len(batch') = 0,
         \A c \in Calls : In(queue, c)' => In(queue, c),
         Len(batch) \in Nat, Len(batch') \in Nat,
         \A i \in 1 .. Len(batch') : \/ i \in 1 .. Len(batch) /\ batch'[i] = batch[i]
                                     \/ In(queue, batch'[i]) /\ batch'[i] \in Calls,
         \A c \in staged : In(batch, c)',
         \/ pending' = pending /\ (\A i \in 1 .. Len(pending) : batch'[i] = batch[i])
         \/ /\ pending = <<>> /\ Len(pending') = Len(batch')
            /\ \A i \in 1 .. Len(batch') : pending'[i] = Err
  PROVE  StoreInv'
  <1> USE DEF IInv, StoreInv
  <1>1. Written' = Written /\ UniqueInv'
    BY DEF Written, UniqueInv
  <1>2. Len(pending) \in Nat /\ Len(pending) <= Len(batch)
    BY Sequences DEF TypeOK
  <1>3. ASSUME NEW i \in 1 .. Len(batch')
        PROVE  /\ batch'[i] \notin table
               /\ i > Len(pending) => batch'[i] \notin Written
    <2>1. CASE i \in 1 .. Len(batch) /\ batch'[i] = batch[i]
      BY <1>3, <2>1 DEF FreshInv
    <2>2. CASE In(queue, batch'[i]) /\ batch'[i] \in Calls
      BY <2>2 DEF FreshInv, Written
    <2> QED BY <2>1, <2>2
  <1>4. CASE pending' = pending /\ (\A i \in 1 .. Len(pending) : batch'[i] = batch[i])
    <2>1. FreshInv'
      BY <1>1, <1>3, <1>4 DEF FreshInv
    <2>2. OutcomeInv'
      BY <1>1, <1>4 DEF OutcomeInv, Says
    <2> QED BY <1>1, <2>1, <2>2
  <1>5. CASE /\ pending = <<>> /\ Len(pending') = Len(batch')
             /\ \A i \in 1 .. Len(batch') : pending'[i] = Err
    <2>1. \A i \in 1 .. Len(batch') : batch'[i] \notin Written
      BY <1>3, <1>5
    <2>2. FreshInv'
      BY <1>1, <1>3, <1>5, <2>1 DEF FreshInv
    <2>3. OutcomeInv'
      BY <1>1, <1>5, <2>1 DEF OutcomeInv, Says
    <2> QED BY <1>1, <2>2, <2>3
  <1> QED BY <1>4, <1>5

LEMMA TakeStore ==
  ASSUME IInv, StoreInv, worker \in {"select", "drain"}, NEW w, Take(w),
         UNCHANGED <<table, staged, pending, back, callers>>
  PROVE  StoreInv'
  <1> USE DEF IInv
  <1>1. /\ Len(queue) \in Nat /\ Len(queue) >= 1 /\ Head(queue) = queue[1] /\ queue[1] \in Calls
        /\ Len(queue') = Len(queue) - 1 /\ \A i \in 1 .. Len(queue') : queue'[i] = queue[i + 1]
    BY Sequences DEF Take, TypeOK
  <1>2. /\ Len(batch) \in Nat /\ Len(batch') = Len(batch) + 1
        /\ \A i \in 1 .. Len(batch) : batch'[i] = batch[i]
        /\ batch'[Len(batch) + 1] = queue[1]
    BY <1>1, Sequences DEF Take, TypeOK
  <1>3. pending = <<>> /\ staged = {} /\ UNCHANGED <<table, staged, pending, call>>
    BY DEF ControlInv, callers
  <1>4. \A c \in Calls : In(queue, c)' => In(queue, c)
    BY <1>1 DEF In
  <1>5. \A i \in 1 .. Len(batch') : \/ i \in 1 .. Len(batch) /\ batch'[i] = batch[i]
                                    \/ In(queue, batch'[i]) /\ batch'[i] \in Calls
    BY <1>1, <1>2 DEF In
  <1> QED BY <1>2, <1>3, <1>4, <1>5, QuietStore

LEMMA FlushStore ==
  ASSUME IInv, StoreInv, worker \in {"select", "check", "drain"}, NEW r, Flush(r)
  PROVE  StoreInv'
  <1> USE DEF IInv
  <1>1. UNCHANGED <<table, queue, batch, staged, call>> /\ pending = <<>> /\ staged = {}
    BY DEF Flush, callers, ControlInv
  <1>2. Len(batch) \in Nat
    BY Sequences DEF TypeOK
  <1>3. \/ pending' = pending
        \/ Len(pending') = Len(batch) /\ \A i \in 1 .. Len(batch) : pending'[i] = Err
    BY <1>2, Errors DEF Flush
  <1>4. \A c \in Calls : In(queue, c)' => In(queue, c)
    BY <1>1 DEF In
  <1> QED BY <1>1, <1>2, <1>3, <1>4, QuietStore

LEMMA MoveStore ==
  ASSUME IInv, StoreInv, UNCHANGED <<table, queue, batch, staged, pending, call>>,
         worker # "deliver" \/ batch = <<>>
  PROVE  StoreInv'
  <1>1. Len(batch) \in Nat /\ (batch = <<>> => Len(batch) = 0)
    BY Sequences DEF IInv, TypeOK
  <1>2. \A c \in Calls : In(queue, c)' => In(queue, c)
    BY DEF In
  <1>3. \A c \in staged : In(batch, c)'
    BY DEF StoreInv, FreshInv, In
  <1> QED BY <1>1, <1>2, <1>3, QuietStore DEF IInv

\* A row's statement: only the next write of the batch may become a row, and its
\* outcome is what the rows then say of it.
LEMMA InsertStore ==
  ASSUME OneBlank, IInv, StoreInv, InsertRow PROVE StoreInv'
  <1> SUFFICES ASSUME NEW n, n = Len(pending), NEW c, c = batch[n + 1] PROVE StoreInv'
    OBVIOUS
  <1> USE DEF IInv, StoreInv
  <1>1. /\ UNCHANGED <<table, queue, batch, worker, call>> /\ worker = "insert"
        /\ n \in Nat /\ Len(batch) \in Nat /\ n < Len(batch) /\ c \in Calls
    BY Sequences DEF InsertRow, callers, TypeOK
  <1>2. c \notin Written
    BY <1>1 DEF FreshInv
  <1>3. PICK o \in Results : /\ pending' = Append(pending, o)
                             /\ \/ o = Ok(c) /\ staged' = staged \cup {c}
                                   /\ \A d \in Written : ~SameStanza(c, d)
                                \/ o = Err /\ staged' = staged
                                \/ /\ staged' = staged
                                   /\ \E d \in Written : o = Dup(d) /\ SameStanza(c, d)
    <2>1. CASE pending' = Append(pending, Err) /\ staged' = staged
      BY <2>1 DEF Results
    <2>2. CASE /\ {d \in Written : SameStanza(c, d)} = {}
               /\ staged' = staged \cup {c} /\ pending' = Append(pending, Ok(c))
      BY <1>1, <2>2 DEF Results
    <2>3. ASSUME NEW d \in Written, SameStanza(c, d), staged' = staged,
                 pending' = Append(pending, IF StanzaOf[c] = BlankStanza THEN Ok(c) ELSE Dup(d))
          PROVE  /\ Dup(d) \in Results /\ pending' = Append(pending, Dup(d))
      <3>1. d \in Calls /\ d # c
        BY <1>2 DEF Written, TypeOK
      <3>2. StanzaOf[c] # BlankStanza
        BY <1>1, <2>3, <3>1 DEF OneBlank, SameStanza
      <3> QED BY <2>3, <3>1, <3>2 DEF Results
    <2> QED BY <1>1, <2>1, <2>2, <2>3 DEF InsertRow, Written
  <1>4. /\ Len(pending') = n + 1 /\ pending'[n + 1] = o
        /\ \A i \in 1 .. n : pending'[i] = pending[i]
    BY <1>1, <1>3, Sequences DEF TypeOK
  <1>5. Written' = Written \/ (Written' = Written \cup {c} /\ o = Ok(c))
    BY <1>1, <1>3 DEF Written
  <1>6. UniqueInv'
    BY <1>1, <1>2, <1>3 DEF UniqueInv, Written, SameStanza
  <1>7. FreshInv'
    <2>1. \A d \in staged' : In(batch, d)'
      BY <1>1, <1>3 DEF FreshInv, In
    <2>2. ASSUME NEW d \in Calls, (call[d] = "new" \/ In(queue, d))' PROVE d \notin Written'
      <3>1. (call[d] = "new" \/ In(queue, d)) /\ d \notin Written
        BY <1>1, <2>2 DEF FreshInv, In
      <3>2. call[c] = "accepted" /\ In(batch, c)
        BY <1>1 DEF PlaceInv, In
      <3>3. d # c
        BY <1>1, <3>1, <3>2 DEF PlaceInv, In
      <3> QED BY <1>5, <3>1, <3>3
    <2>3. \A i \in 1 .. Len(batch) : i > n + 1 => batch[i] \notin Written'
      BY <1>1, <1>5 DEF FreshInv, PlaceInv
    <2> QED BY <1>1, <1>4, <2>1, <2>2, <2>3 DEF FreshInv
  <1>8. OutcomeInv'
    <2>1. ASSUME NEW i \in 1 .. n PROVE Says(pending[i], batch[i])'
      <3>1. Says(pending[i], batch[i]) /\ pending'[i] = pending[i] /\ batch'[i] = batch[i]
        BY <1>1, <1>4, <2>1 DEF OutcomeInv
      <3>2. batch[i] # c
        BY <1>1, <2>1 DEF PlaceInv
      <3> QED BY <1>5, <3>1, <3>2 DEF Says
    <2>2. Says(pending[n + 1], batch[n + 1])'
      <3>1. batch'[n + 1] = c /\ pending'[n + 1] = o
        BY <1>1, <1>4
      <3>2. CASE o = Ok(c) /\ staged' = staged \cup {c}
        BY <1>1, <3>1, <3>2 DEF Says, Written
      <3>3. CASE o = Err /\ staged' = staged
        BY <1>1, <1>2, <3>1, <3>3 DEF Says, Written
      <3>4. CASE staged' = staged /\ \E d \in Written : o = Dup(d) /\ SameStanza(c, d)
        BY <1>1, <1>2, <3>1, <3>4 DEF Says, Written
      <3> QED BY <1>3, <3>2, <3>3, <3>4
    <2>3. \A i \in 1 .. Len(pending') : i \in 1 .. n \/ i = n + 1
      BY <1>1, <1>4
    <2> QED BY <2>1, <2>2, <2>3 DEF OutcomeInv
  <1> QED BY <1>6, <1>7, <1>8

\* All rows of the transaction become durable, or none.
LEMMA CommitStore ==
  ASSUME IInv, StoreInv, Commit PROVE StoreInv'
  <1> USE DEF IInv, StoreInv
  <1>1. /\ UNCHANGED <<queue, batch, call>> /\ worker' = "deliver" /\ staged' = {}
        /\ Len(batch) \in Nat /\ Len(pending) = Len(batch) /\ worker = "insert"
    BY Sequences DEF Commit, callers, TypeOK
  <1>2. CASE table' = table \cup staged /\ pending' = pending
    <2>1. Written' = Written
      BY <1>1, <1>2 DEF Written
    <2>2. UniqueInv' /\ OutcomeInv'
      BY <1>1, <1>2, <2>1 DEF UniqueInv, OutcomeInv, Says
    <2>3. FreshInv'
      BY <1>1, <1>2, <2>1 DEF FreshInv, In
    <2> QED BY <2>2, <2>3
  <1>3. CASE table' = table /\ pending' = [i \in 1 .. Len(batch) |-> Err]
    <2>1. Written' = table /\ table \subseteq Written
      BY <1>1, <1>3 DEF Written
    <2>2. Len(pending') = Len(batch) /\ \A i \in 1 .. Len(batch) : pending'[i] = Err
      BY <1>1, <1>3, Errors
    <2>3. UniqueInv'
      BY <2>1 DEF UniqueInv
    <2>4. OutcomeInv'
      BY <1>1, <2>1, <2>2 DEF OutcomeInv, Says, FreshInv
    <2>5. FreshInv'
      BY <1>1, <2>1, <2>2 DEF FreshInv, In
    <2> QED BY <2>3, <2>4, <2>5
  <1> QED BY <1>2, <1>3 DEF Commit

LEMMA DeliverStore ==
  ASSUME IInv, StoreInv, Deliver PROVE StoreInv'
  <1> USE DEF IInv, StoreInv
  <1>1. /\ UNCHANGED <<table, queue, staged, worker>> /\ worker = "deliver" /\ batch # <<>>
        /\ batch' = Tail(batch) /\ pending' = Tail(pending)
        /\ call' = [call EXCEPT ![Head(batch)] = "over"]
    BY DEF Deliver
  <1>2. staged = {} /\ Len(pending) = Len(batch) /\ Written' = Written
    BY <1>1 DEF ControlInv, Written
  <1>3. /\ Len(batch) \in Nat /\ Len(batch) >= 1 /\ pending # <<>> /\ Len(batch') = Len(batch) - 1
        /\ \A i \in 1 .. Len(batch') : batch'[i] = batch[i + 1]
    BY <1>1, <1>2, Sequences DEF TypeOK
  <1>4. Len(pending') = Len(batch') /\ \A i \in 1 .. Len(pending') : pending'[i] = pending[i + 1]
    BY <1>1, <1>2, <1>3, Sequences DEF TypeOK
  <1>5. UniqueInv'
    BY <1>2 DEF UniqueInv
  <1>6. FreshInv'
    <2>1. \A d \in Calls : (call[d] = "new")' => call[d] = "new"
      BY <1>1 DEF TypeOK
    <2> QED BY <1>1, <1>2, <1>3, <1>4, <2>1 DEF FreshInv, In
  <1>7. OutcomeInv'
    <2>1. ASSUME NEW i \in 1 .. Len(pending') PROVE Says(pending[i], batch[i])'
      <3>1. Says(pending[i + 1], batch[i + 1])
        BY <1>2, <1>3, <1>4 DEF OutcomeInv
      <3>2. pending'[i] = pending[i + 1] /\ batch'[i] = batch[i + 1]
        BY <1>3, <1>4
      <3> QED BY <1>2, <3>1, <3>2 DEF Says
    <2> QED BY <2>1 DEF OutcomeInv
  <1> QED BY <1>5, <1>6, <1>7

LEMMA NextStore ==
  ASSUME OneBlank, IInv, StoreInv, [Next]_vars PROVE StoreInv'
  <1>1. CASE Receive \/ Drain
    BY <1>1, TakeStore DEF Receive, Drain
  <1>2. CASE Tick \/ DrainFlush \/ DrainEnd
    BY <1>2, FlushStore DEF Tick, DrainFlush, DrainEnd
  <1>3. CASE Check
    BY <1>3, FlushStore, MoveStore DEF Check, callers
  <1>4. CASE SeeDone \/ FlushEnd
    BY <1>4, MoveStore DEF SeeDone, FlushEnd, callers
  <1>5. CASE Start \/ Stop \/ UNCHANGED vars
    <2>1. worker = "off" \/ worker' = worker
      BY <1>5 DEF Start, Stop, vars
    <2>2. UNCHANGED <<table, queue, batch, staged, pending, call>>
      BY <1>5 DEF Start, Stop, vars
    <2>3. CASE worker = "off"
      BY <2>2, <2>3, MoveStore
    <2>4. CASE worker' = worker
      BY <2>2, <2>4 DEF StoreInv, UniqueInv, FreshInv, OutcomeInv, Says, Written, In
    <2> QED BY <2>1, <2>3, <2>4
  <1> QED BY <1>1, <1>2, <1>3, <1>4, <1>5, EnqueueStore, CrashStore, InsertStore, CommitStore,
             DeliverStore DEF Next, Worker

LEMMA AlwaysStore == OneBlank => (Spec => []StoreInv)
  <1> SUFFICES ASSUME OneBlank PROVE Spec => []StoreInv
    OBVIOUS
  <1>1. IInv /\ StoreInv /\ [Next]_vars => StoreInv'
    BY NextStore
  <1> QED BY <1>1, InitStore, Always, PTL DEF Spec

-----------------------------------------------------------------------------
(* WriteResult.                                                            *)

\* What a result channel delivered stays true of the rows: the write's own row,
\* the row that its stanza already had, or no row at all.
AnswersAreTrue ==
  \A c \in Calls :
    /\ call[c] # "over" => res[c] = None
    /\ \/ res[c] = None
       \/ res[c] = Ok(c) /\ c \in table
       \/ \E d \in table : res[c] = Dup(d) /\ SameStanza(c, d) /\ c # d
       \/ res[c] = Err /\ c \notin table

\* Rows are never deleted, and a new one is an accepted write of the batch.
LEMMA TableStep ==
  ASSUME IInv, StoreInv, [Next]_vars
  PROVE  table \subseteq table' /\ \A c \in table' \ table : c \in Calls /\ call[c] = "accepted"
  <1>1. ASSUME NEW c \in staged PROVE c \in Calls /\ call[c] = "accepted"
    BY <1>1 DEF IInv, TypeOK, StoreInv, FreshInv, PlaceInv
  <1>2. CASE Commit
    BY <1>1, <1>2 DEF Commit
  <1>3. CASE ~Commit
    BY <1>3 DEF Next, Worker, Receive, Check, Tick, SeeDone, Drain, DrainFlush, DrainEnd, Flush,
                InsertRow, Deliver, FlushEnd, Start, Stop, Crash, Enqueue, callers, vars
  <1> QED BY <1>2, <1>3

\* A call's result is set once, when it is over, to what the rows say.
LEMMA ResultStep ==
  ASSUME IInv, StoreInv, [Next]_vars, NEW c \in Calls
  PROVE  /\ call'[c] # "over" => res'[c] = res[c] /\ call[c] # "over"
         /\ \/ res'[c] = res[c]
            \/ /\ UNCHANGED table /\ call'[c] = "over"
               /\ \/ call[c] = "new" /\ res'[c] = Err
                  \/ In(batch, c) /\ staged = {} /\ Says(res'[c], c)
  <1> USE DEF IInv
  <1>1. ASSUME NEW d \in Calls, Enqueue(d)
        PROVE  /\ call'[c] # "over" => res'[c] = res[c] /\ call[c] # "over"
               /\ \/ res'[c] = res[c]
                  \/ UNCHANGED table /\ call'[c] = "over" /\ call[c] = "new" /\ res'[c] = Err
    BY <1>1 DEF Enqueue, TypeOK
  <1>2. CASE Deliver
    <2>1. PICK d \in Calls : d = Head(batch)
      BY <1>2, Sequences DEF Deliver, TypeOK
    <2>2. /\ UNCHANGED table /\ staged = {} /\ call' = [call EXCEPT ![d] = "over"]
          /\ res' = IF d \in Async THEN res ELSE [res EXCEPT ![d] = Head(pending)]
          /\ batch # <<>> /\ Len(pending) = Len(batch)
      BY <1>2, <2>1 DEF Deliver, ControlInv
    <2>3. d = batch[1] /\ 1 \in 1 .. Len(batch) /\ Head(pending) = pending[1] /\ 1 \in 1 .. Len(pending)
      <3>1. d = batch[1] /\ Len(batch) \in Nat /\ Len(batch) >= 1
        BY <2>1, <2>2, Sequences DEF TypeOK
      <3>2. pending # <<>> /\ Head(pending) = pending[1]
        BY <2>2, <3>1, Sequences DEF TypeOK
      <3> QED BY <2>2, <3>1, <3>2
    <2>4. In(batch, d) /\ Says(Head(pending), d)
      BY <2>3 DEF In, StoreInv, OutcomeInv
    <2>5. CASE c = d
      BY <2>2, <2>4, <2>5 DEF TypeOK
    <2>6. CASE c # d
      BY <2>2, <2>6 DEF TypeOK
    <2> QED BY <2>5, <2>6
  <1>3. CASE Crash
    BY <1>3 DEF Crash
  <1>4. CASE UNCHANGED <<call, res>>
    BY <1>4
  <1>5. CASE Worker /\ ~Deliver
    <2>1. UNCHANGED <<call, res>>
      BY <1>5 DEF Worker, Receive, Check, Tick, SeeDone, Drain, DrainFlush, DrainEnd, Flush,
                  InsertRow, Commit, FlushEnd, callers
    <2> QED BY <1>4, <2>1
  <1>6. CASE Start \/ Stop \/ UNCHANGED vars
    <2>1. UNCHANGED <<call, res>>
      BY <1>6 DEF Start, Stop, vars
    <2> QED BY <1>4, <2>1
  <1> QED BY <1>1, <1>2, <1>3, <1>5, <1>6 DEF Next

LEMMA AnswersStep ==
  ASSUME IInv, StoreInv, AnswersAreTrue, [Next]_vars
  PROVE  AnswersAreTrue'
  <1> SUFFICES ASSUME NEW c \in Calls
               PROVE  /\ call'[c] # "over" => res'[c] = None
                      /\ \/ res'[c] = None
                         \/ res'[c] = Ok(c) /\ c \in table'
                         \/ \E d \in table' : res'[c] = Dup(d) /\ SameStanza(c, d) /\ c # d
                         \/ res'[c] = Err /\ c \notin table'
    BY DEF AnswersAreTrue, SameStanza
  <1>1. call'[c] # "over" => res'[c] = None
    BY ResultStep DEF AnswersAreTrue
  <1>2. CASE res'[c] = res[c]
    <2>1. CASE res[c] = Err /\ c \notin table
      <3>1. call[c] = "over"
        BY <2>1 DEF AnswersAreTrue, None, Err
      <3> QED BY <1>1, <1>2, <2>1, <3>1, TableStep
    <2> QED BY <1>1, <1>2, <2>1, TableStep DEF AnswersAreTrue
  <1>3. CASE UNCHANGED table /\ call[c] = "new" /\ res'[c] = Err
    BY <1>1, <1>3 DEF StoreInv, FreshInv, Written
  <1>4. CASE UNCHANGED table /\ staged = {} /\ Says(res'[c], c)
    BY <1>1, <1>4 DEF Says, Written
  <1> QED BY <1>2, <1>3, <1>4, ResultStep

(* A success answers with the write's own row, a duplicate with the row    *)
(* that already carries its stanza, and a write answered with an error     *)
(* never gets a row afterwards, so the sender may safely send it again:    *)
(* with OneBlank, whatever rows fail and whenever the process dies.        *)
THEOREM AnswersHold == OneBlank => (Spec => []AnswersAreTrue)
  <1> SUFFICES ASSUME OneBlank PROVE Spec => []AnswersAreTrue
    OBVIOUS
  <1>1. Init => AnswersAreTrue
    BY DEF Init, AnswersAreTrue
  <1>2. IInv /\ StoreInv /\ AnswersAreTrue /\ [Next]_vars => AnswersAreTrue'
    BY AnswersStep
  <1> QED BY <1>1, <1>2, Always, AlwaysStore, PTL DEF Spec

(* WriteResult's comment, for all writes but those that share a stanza     *)
(* made of spaces: a result without an error names a stored row.           *)
THEOREM AuthoritativeResults == OneBlank => (Spec => []ResultIsAuthoritative)
  <1> SUFFICES ASSUME OneBlank PROVE Spec => []ResultIsAuthoritative
    OBVIOUS
  <1>1. ASSUME AnswersAreTrue, NEW c \in Calls, res[c].kind \in {"ok", "dup"}
        PROVE  res[c].seq \in table
    <2>1. res[c] # None /\ res[c] # Err
      BY <1>1 DEF None, Err
    <2>2. \E d \in table : res[c] = Ok(d) \/ res[c] = Dup(d)
      BY <1>1, <2>1 DEF AnswersAreTrue
    <2> QED BY <2>2 DEF Ok, Dup
  <1>2. AnswersAreTrue => ResultIsAuthoritative
    BY <1>1 DEF ResultIsAuthoritative
  <1> QED BY <1>2, AnswersHold, PTL
-----------------------------------------------------------------------------
(* The refinement.                                                         *)

LEMMA InitRefines == Init => Store!Init
  BY DEF Init, Store!Init, None, Store!NoAnswer

\* Each step is a step of the store, or one the store does not see.
LEMMA NextRefines ==
  ASSUME IInv, StoreInv, [Next]_vars
  PROVE  [Store!Next]_(Store!storeVars)
  <1> DEFINE phase == [c \in Calls |-> IF call[c] = "new" THEN "new"
                                       ELSE IF call[c] = "accepted" THEN "pending" ELSE "over"]
  <1> USE DEF IInv
  <1>1. ASSUME UNCHANGED <<table, call, res>> PROVE UNCHANGED Store!storeVars
    BY <1>1 DEF Store!storeVars
  <1>2. ASSUME NEW c \in Calls, NEW x \in {"accepted", "over"}, call' = [call EXCEPT ![c] = x]
        PROVE  phase' = [phase EXCEPT ![c] = IF x = "accepted" THEN "pending" ELSE "over"]
    BY <1>2 DEF TypeOK
  <1>3. ASSUME NEW c \in Calls, Enqueue(c) PROVE Store!Submit(c) \/ Store!Refuse(c)
    <2>1. call[c] = "new" /\ phase[c] = "new" /\ UNCHANGED table
      BY <1>3 DEF Enqueue
    <2>2. CASE call' = [call EXCEPT ![c] = "accepted"] /\ UNCHANGED res
      BY <1>2, <2>1, <2>2 DEF Store!Submit
    <2>3. CASE call' = [call EXCEPT ![c] = "over"] /\ res' = [res EXCEPT ![c] = Err]
      BY <1>2, <2>1, <2>3 DEF Store!Refuse, Err, Store!Failed
    <2> QED BY <1>3, <2>2, <2>3 DEF Enqueue
  <1>4. ASSUME Crash PROVE Store!Crash
    <2>1. phase' = [c \in Calls |-> IF phase[c] = "pending" THEN "over" ELSE phase[c]]
      BY <1>4 DEF Crash, TypeOK
    <2> QED BY <1>4, <2>1 DEF Crash, Store!Crash
  <1>5. ASSUME Commit PROVE Store!Commit \/ UNCHANGED <<table, call, res>>
    <2>1. UNCHANGED <<call, res>> /\ UNCHANGED phase
      BY <1>5 DEF Commit, callers
    <2>2. staged \in SUBSET {c \in Calls : phase[c] = "pending"}
      BY DEF StoreInv, FreshInv, PlaceInv, TypeOK
    <2>3. CASE table' = table \cup staged
      <3>1. \A c, d \in table' : SameStanza(c, d) => c = d
        BY <2>3 DEF StoreInv, UniqueInv, Written
      <3> QED BY <2>1, <2>2, <2>3, <3>1 DEF Store!Commit
    <2> QED BY <1>5, <2>1, <2>3 DEF Commit
  <1>6. ASSUME Deliver PROVE \E c \in Calls : Store!Answer(c) \/ Store!Forget(c)
    <2>0. PICK c \in Calls : c = Head(batch)
      BY <1>6, Sequences DEF Deliver, TypeOK
    <2>1. /\ UNCHANGED table /\ call' = [call EXCEPT ![c] = "over"] /\ staged = {}
          /\ res' = IF c \in Async THEN res ELSE [res EXCEPT ![c] = Head(pending)]
      BY <1>6, <2>0 DEF Deliver, ControlInv
    <2>2. /\ c = batch[1] /\ c \in Calls /\ 1 \in 1 .. Len(batch)
          /\ Head(pending) = pending[1] /\ 1 \in 1 .. Len(pending)
      <3>1. batch # <<>> /\ Len(pending) = Len(batch)
        BY <1>6 DEF Deliver, ControlInv
      <3>2. c = batch[1] /\ c \in Calls /\ Len(batch) \in Nat /\ Len(batch) >= 1
        BY <2>0, <3>1, Sequences DEF TypeOK
      <3>3. pending # <<>> /\ Head(pending) = pending[1]
        BY <3>1, <3>2, Sequences DEF TypeOK
      <3> QED BY <3>1, <3>2, <3>3
    <2>3. call[c] = "accepted" /\ phase[c] = "pending"
      BY <2>2 DEF PlaceInv, In
    <2>4. Says(Head(pending), c) /\ Written = table
      BY <2>1, <2>2 DEF StoreInv, OutcomeInv, Written
    <2>5. phase' = [phase EXCEPT ![c] = "over"]
      BY <1>2, <2>1, <2>2
    <2>6. CASE c \in Async
      BY <2>1, <2>2, <2>3, <2>5, <2>6 DEF Store!Forget
    <2>7. CASE res' = [res EXCEPT ![c] = Head(pending)]
      <3>1. \/ c \in table /\ Head(pending) = Store!Stored(c)
            \/ \E d \in table : /\ SameStanza(c, d) /\ c \notin table
                                /\ Head(pending) = Store!Replayed(d)
            \/ c \notin table /\ Head(pending) = Store!Failed
        BY <2>4 DEF Says, Ok, Dup, Err, Store!Stored, Store!Replayed, Store!Failed
      <3>2. Store!Answer(c)
        BY <2>1, <2>3, <2>5, <2>7, <3>1 DEF Store!Answer
      <3> QED BY <2>2, <3>2
    <2> QED BY <2>1, <2>6, <2>7
  <1>7. CASE \/ Receive \/ Check \/ Tick \/ SeeDone \/ Drain \/ DrainFlush \/ DrainEnd
             \/ InsertRow \/ FlushEnd \/ Start \/ Stop \/ UNCHANGED vars
    <2>1. UNCHANGED <<table, call, res>>
      BY <1>7 DEF Receive, Check, Tick, SeeDone, Drain, DrainFlush, DrainEnd, Flush, InsertRow,
                  FlushEnd, Start, Stop, callers, vars
    <2> QED BY <1>1, <2>1
  <1>8. CASE Commit
    BY <1>1, <1>5, <1>8 DEF Store!Next
  <1>9. CASE Crash \/ Deliver \/ \E c \in Calls : Enqueue(c)
    BY <1>3, <1>4, <1>6, <1>9 DEF Store!Next
  <1> QED BY <1>7, <1>8, <1>9 DEF Next, Worker

\* The batch writer is an idempotent durable store: an answer without an error
\* names a row that is durable when it is given, an error means no row, and no
\* two rows share a stanza, through failing rows, rollbacks, Stop and crashes, as
\* long as no two writes carry the same stanza made of spaces (batch.go:176).
THEOREM Refinement == OneBlank => (Spec => ImplementsStore)
  <1> SUFFICES ASSUME OneBlank PROVE Spec => ImplementsStore
    OBVIOUS
  <1>1. IInv /\ StoreInv /\ [Next]_vars => [Store!Next]_(Store!storeVars)
    BY NextRefines
  <1> QED BY <1>1, InitRefines, Always, AlwaysStore, PTL DEF Spec, ImplementsStore, Store!Spec
===============================================================================
