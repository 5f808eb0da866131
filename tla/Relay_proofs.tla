---------------------------- MODULE Relay_proofs ----------------------------
(***************************************************************************)
(* Proofs about Relay for any number of connections and messages, any      *)
(* window and queue size and any number of restarts: what the sender is    *)
(* told and what receivers are shown always agrees with the durable table. *)
(***************************************************************************)
EXTENDS Relay, TLAPS

\* A durable row with stanza s has seq n.
Stored(s, n) == \E r \in table : StanzaOf[r.frame] = s /\ r.seq = n

\* The message connection c is relaying, under the seq allocated for it.
Mine(c) == [seq |-> seq[c], frame |-> frame[c]]

\* Rows carry allocated seqs, and a keyable stanza has one row.
RowsInv ==
  /\ \A r \in table : r.seq >= 1 /\ r.seq <= lastSeq
  /\ \A r, o \in table :
       Keyable(r.frame) /\ StanzaOf[o.frame] = StanzaOf[r.frame] => o = r

\* The window names rows.
WindowInv == \A i \in 1 .. Len(window) : Stored(window[i].stanza, window[i].seq)

\* Allocated seqs are below the counter and held by one connection at most.
SeqInv == /\ \A c \in Conns : seq[c] <= lastSeq
          /\ \A c, d \in Conns : c # d /\ seq[c] # 0 => seq[c] # seq[d]

\* A queued write belongs to the connection that still holds its seq, if any.
QueueInv == \A i \in 1 .. Len(queue) :
              /\ queue[i].seq >= 1 /\ queue[i].seq <= lastSeq
              /\ \A c \in Conns : queue[i].seq = seq[c] => queue[i].frame = frame[c]

\* A result is what the table says, and is acted upon only after it came.
ResInv == \A c \in Conns :
            /\ res[c] \in {Waiting, WriteErr} \/ res[c].kind \in {"ok", "dup"}
            /\ res[c].kind = "ok" => res[c].seq = seq[c] /\ Mine(c) \in table
            /\ res[c].kind = "dup" => Stored(StanzaOf[frame[c]], res[c].seq)
            /\ pc[c] \in {"idle", "lookup", "allocate", "enqueue"} => res[c] = Waiting
            /\ pc[c] \in {"remember", "ack", "push"} => res[c].kind \in {"ok", "dup"}
            /\ pc[c] = "push" => res[c].kind = "ok" /\ Mine(c) \in acked
            /\ pc[c] \in {"idle", "lookup", "allocate"} => seq[c] = 0
            /\ pc[c] = "enqueue" => seq[c] >= 1

\* ACKs name rows; pushed messages are acknowledged rows that nobody holds.
HistoryInv == /\ \A a \in acked : Stored(StanzaOf[a.frame], a.seq)
              /\ pushed \subseteq table \cap acked
              /\ \A p \in pushed, c \in Conns : p.seq # seq[c]

IInv == TypeOK /\ RowsInv /\ WindowInv /\ SeqInv /\ QueueInv /\ ResInv /\ HistoryInv
-----------------------------------------------------------------------------
(* The window after Store holds the new entry and entries it held before.  *)
LEMMA StoredWindow ==
  ASSUME TypeOK, NEW s \in Stanzas, NEW n \in Nat
  PROVE  LET w == StoreInWindow(s, n)
         IN  /\ w \in Seq(Entry)
             /\ Len(w) <= WindowCap
             /\ \A i \in 1 .. Len(w) : \/ w[i] = [stanza |-> s, seq |-> n]
                                       \/ \E j \in 1 .. Len(window) : w[i] = window[j]
<1> DEFINE old   == {i \in 1 .. Len(window) : window[i].stanza = s}
           place == IF old # {} THEN CHOOSE i \in old : TRUE
                    ELSE IF Len(window) < WindowCap THEN Len(window) + 1 ELSE WindowCap
           size  == IF Len(window) < place THEN place ELSE Len(window)
           w     == [i \in 1 .. size |-> IF i = 1 THEN [stanza |-> s, seq |-> n]
                                         ELSE IF i <= place THEN window[i - 1] ELSE window[i]]
<1>1. Len(window) \in Nat /\ Len(window) <= WindowCap /\ WindowCap \in Nat \ {0}
  BY SizesAssumption DEF TypeOK
<1>2. place \in Nat /\ place >= 1 /\ place <= WindowCap /\ place <= Len(window) + 1
  <2>1. CASE old # {}
    <3>1. place \in 1 .. Len(window)
      BY <2>1
    <3> QED BY <1>1, <3>1
  <2>2. CASE old = {}
    BY <1>1, <2>2
  <2> QED BY <2>1, <2>2
<1> HIDE DEF place
<1>3. size \in Nat /\ size <= WindowCap /\ size <= Len(window) + 1 /\ size >= Len(window)
      /\ (size > Len(window) => size = place)
  BY <1>1, <1>2
<1> HIDE DEF size
<1>4. \A i \in 1 .. size : \/ w[i] = [stanza |-> s, seq |-> n]
                           \/ \E j \in 1 .. Len(window) : w[i] = window[j]
  <2> SUFFICES ASSUME NEW i \in 1 .. size, i # 1
               PROVE  \E j \in 1 .. Len(window) : w[i] = window[j]
    OBVIOUS
  <2>1. CASE i <= place
    <3>1. i - 1 \in 1 .. Len(window) /\ w[i] = window[i - 1]
      BY <1>1, <1>2, <1>3, <2>1
    <3> QED BY <3>1
  <2>2. CASE ~(i <= place)
    <3>1. i \in 1 .. Len(window) /\ w[i] = window[i]
      BY <1>1, <1>2, <1>3, <2>2
    <3> QED BY <3>1
  <2> QED BY <2>1, <2>2
<1> HIDE DEF w
<1>5. \A i \in 1 .. size : w[i] \in Entry
  <2>1. \A j \in 1 .. Len(window) : window[j] \in Entry
    BY DEF TypeOK
  <2>2. [stanza |-> s, seq |-> n] \in Entry
    BY DEF Entry
  <2> QED BY <1>4, <2>1, <2>2
<1>6. w \in Seq(Entry) /\ Len(w) = size
  BY <1>3, <1>5 DEF w
<1>7. StoreInWindow(s, n) = w
  BY DEF StoreInWindow, place, size, w
<1> QED BY <1>3, <1>4, <1>6, <1>7
-----------------------------------------------------------------------------
(* Type correctness.                                                       *)

LEMMA InitTypeOK == Init => TypeOK
<1> SUFFICES ASSUME Init PROVE TypeOK
  OBVIOUS
<1>1. frame \in [Conns -> Frames]
  BY FramesAssumption DEF Init
<1>2. res \in [Conns -> WriteResult]
  BY DEF Init, Waiting, WriteResult
<1> QED BY <1>1, <1>2, SizesAssumption, BoundsAssumption DEF Init, TypeOK, PCs

LEMMA NextTypeOK ==
  ASSUME TypeOK, [Next]_vars
  PROVE  TypeOK'
<1> USE SizesAssumption DEF TypeOK
<1>5. /\ Waiting \in WriteResult /\ WriteErr \in WriteResult
      /\ \A n \in Nat : Ok(n) \in WriteResult /\ Dup(n) \in WriteResult
  BY DEF WriteResult, Waiting, WriteErr, Ok, Dup
<1>6. \A n \in Nat, f \in Frames : [seq |-> n, frame |-> f] \in Row
  BY DEF Row
<1>7. \A c \in Conns : seq[c] \in Nat /\ frame[c] \in Frames /\ res[c].seq \in Nat
  BY DEF WriteResult
<1>8. ASSUME NEW c \in Conns, Return(c)
      PROVE  pc' \in [Conns -> PCs] /\ seq' \in [Conns -> Nat] /\ res' \in [Conns -> WriteResult]
  BY <1>5, <1>8 DEF Return, Goto, PCs
<1>9. ASSUME NEW c \in Conns, NEW l \in PCs, Goto(c, l)
      PROVE  pc' \in [Conns -> PCs]
  BY <1>9 DEF Goto
<1>10. {"idle", "lookup", "allocate", "enqueue", "wait", "remember", "ack", "push"} \subseteq PCs
  BY DEF PCs
<1> HIDE DEF PCs
<1>1. ASSUME NEW c \in Conns, Receive(c) \/ Relaying(c)
      PROVE  TypeOK'
  <2> USE <1>8, <1>9, <1>10
  <2>1. CASE Receive(c)
    BY <2>1 DEF Receive
  <2>2. CASE Lookup(c)
    <3>1. CASE /\ \E i \in Hits(frame[c]) :
                    acked' = acked \cup {[seq |-> window[i].seq, frame |-> frame[c]]}
               /\ Return(c)
      <4>1. PICK i \in Hits(frame[c]) :
              acked' = acked \cup {[seq |-> window[i].seq, frame |-> frame[c]]}
        BY <3>1
      <4>2. window[i] \in Entry
        BY <4>1 DEF Hits
      <4>3. window[i].seq \in Nat
        BY <4>2 DEF Entry
      <4>4. acked' \subseteq Row
        BY <1>6, <1>7, <4>1, <4>3
      <4> QED BY <2>2, <3>1, <4>4 DEF Lookup
    <3>2. CASE Goto(c, "allocate") /\ UNCHANGED <<seq, res, acked>>
      BY <2>2, <3>2 DEF Lookup
    <3> QED BY <2>2, <3>1, <3>2 DEF Lookup
  <2>3. CASE Allocate(c)
    BY <2>3 DEF Allocate
  <2>4. CASE Enqueue(c)
    <3>1. queue' \in Seq(Row) /\ Len(queue') <= QueueCap
      <4> DEFINE w == [seq |-> seq[c], frame |-> frame[c]]
      <4>1. w \in Row
        BY <1>6, <1>7
      <4>2. (Len(queue) < QueueCap /\ queue' = Append(queue, w)) \/ queue' = queue
        BY <2>4 DEF Enqueue
      <4> HIDE DEF w
      <4>3. CASE Len(queue) < QueueCap /\ queue' = Append(queue, w)
        BY <4>1, <4>3
      <4>4. CASE queue' = queue
        BY <4>4
      <4> QED BY <4>2, <4>3, <4>4
    <3>2. res' \in [Conns -> WriteResult]
      BY <1>5, <2>4 DEF Enqueue
    <3> QED BY <2>4, <3>1, <3>2 DEF Enqueue
  <2>5. CASE Resume(c)
    BY <2>5 DEF Resume
  <2>6. CASE Timeout(c)
    BY <2>6 DEF Timeout
  <2>7. CASE Remember(c)
    <3>1. window' \in Seq(Entry) /\ Len(window') <= WindowCap
      <4>1. StanzaOf[frame[c]] \in Stanzas /\ res[c].seq \in Nat
        BY <1>7 DEF Stanzas
      <4>2. window' = StoreInWindow(StanzaOf[frame[c]], res[c].seq) \/ window' = window
        BY <2>7 DEF Remember
      <4>3. CASE window' = window
        BY <4>3
      <4>4. CASE window' = StoreInWindow(StanzaOf[frame[c]], res[c].seq)
        <5>1. /\ StoreInWindow(StanzaOf[frame[c]], res[c].seq) \in Seq(Entry)
              /\ Len(StoreInWindow(StanzaOf[frame[c]], res[c].seq)) <= WindowCap
          BY <4>1, StoredWindow
        <5> QED BY <4>4, <5>1
      <4> QED BY <4>2, <4>3, <4>4
    <3> QED BY <2>7, <3>1 DEF Remember
  <2>8. CASE SendAck(c)
    <3>1. acked' \subseteq Row
      BY <1>6, <1>7, <2>8 DEF SendAck
    <3> QED BY <2>8, <3>1 DEF SendAck
  <2>9. CASE Push(c)
    <3>1. pushed' \subseteq Row
      <4>1. [seq |-> res[c].seq, frame |-> frame[c]] \in Row
        BY <1>6, <1>7
      <4> QED BY <2>9, <4>1 DEF Push
    <3> QED BY <2>9, <3>1 DEF Push
  <2> QED BY <1>1, <2>1, <2>2, <2>3, <2>4, <2>5, <2>6, <2>7, <2>8, <2>9 DEF Relaying
<1>2. CASE Write
  <2>1. Head(queue) \in Row /\ Tail(queue) \in Seq(Row) /\ Len(Tail(queue)) <= QueueCap
    BY <1>2 DEF Write
  <2>2. /\ table' \subseteq Row
        /\ queue' = Tail(queue)
        /\ UNCHANGED <<lastSeq, window, pc, frame, seq, acked, pushed, crashes>>
    BY <1>2, <2>1 DEF Write
  <2>3. ASSUME NEW a \in WriteResult, NEW w \in Row,
               res' = [c \in Conns |-> IF pc[c] = "wait" /\ seq[c] = w.seq THEN a ELSE res[c]]
        PROVE  res' \in [Conns -> WriteResult]
    BY <2>3
  <2>4. Head(queue).seq \in Nat /\ \A r \in table : r.seq \in Nat
    BY <2>1 DEF Row
  <2>5. \E a \in WriteResult :
          res' = [c \in Conns |-> IF pc[c] = "wait" /\ seq[c] = Head(queue).seq THEN a ELSE res[c]]
    BY <1>2, <1>5, <2>4 DEF Write
  <2>6. res' \in [Conns -> WriteResult]
    BY <2>1, <2>3, <2>5
  <2> QED BY <2>1, <2>2, <2>6
<1>3. CASE Crash
  BY <1>3, <1>5, <1>10, BoundsAssumption DEF Crash
<1>4. CASE UNCHANGED vars
  BY <1>4 DEF vars
<1> QED BY <1>1, <1>2, <1>3, <1>4 DEF Next

(* The relay's state is always well typed; in particular the dedup window  *)
(* and the writer's queue never outgrow their capacity.                    *)
THEOREM TypeCorrect == Spec => []TypeOK
<1>1. Init => TypeOK BY InitTypeOK
<1>2. TypeOK /\ [Next]_vars => TypeOK' BY NextTypeOK
<1> QED BY <1>1, <1>2, PTL DEF Spec
-----------------------------------------------------------------------------
(* The inductive invariant.                                                *)

LEMMA InitInv == Init => IInv
<1> SUFFICES ASSUME Init PROVE IInv
  OBVIOUS
<1>1. TypeOK
  BY InitTypeOK
<1>2. RowsInv /\ WindowInv /\ SeqInv /\ QueueInv
  BY DEF Init, RowsInv, WindowInv, SeqInv, QueueInv
<1>3. ResInv
  BY DEF Init, ResInv, Waiting
<1>4. HistoryInv
  BY DEF Init, HistoryInv
<1> QED BY <1>1, <1>2, <1>3, <1>4 DEF IInv

(* Rows are never deleted, so what was stored stays stored.                *)
LEMMA StoredStays ==
  ASSUME table \subseteq table', NEW s, NEW n, Stored(s, n)
  PROVE  Stored(s, n)'
BY DEF Stored

(* A connection that lets go of its seq disturbs nobody.                   *)
LEMMA ReturnInv ==
  ASSUME IInv, NEW c \in Conns, Return(c),
         UNCHANGED <<table, lastSeq, queue, frame>>, acked \subseteq acked'
  PROVE  RowsInv' /\ SeqInv' /\ QueueInv' /\ ResInv'
<1> USE DEF IInv, TypeOK
<1>1. /\ pc' = [pc EXCEPT ![c] = "idle"]
      /\ seq' = [seq EXCEPT ![c] = 0]
      /\ res' = [res EXCEPT ![c] = Waiting]
  BY DEF Return, Goto
<1>2. /\ pc'[c] = "idle" /\ seq'[c] = 0 /\ res'[c] = Waiting
      /\ \A d \in Conns : d # c => pc'[d] = pc[d] /\ seq'[d] = seq[d] /\ res'[d] = res[d]
  BY <1>1
<1> HIDE DEF TypeOK
<1>3. RowsInv'
  BY DEF RowsInv, Keyable
<1>4. SeqInv'
  <2>1. lastSeq \in Nat /\ lastSeq' = lastSeq
    BY DEF TypeOK
  <2> QED BY <1>2, <2>1 DEF SeqInv
<1>5. QueueInv'
  BY <1>2 DEF QueueInv
<1>6. ResInv'
  <2> SUFFICES ASSUME NEW d \in Conns
               PROVE  /\ res'[d] \in {Waiting, WriteErr} \/ res'[d].kind \in {"ok", "dup"}
                      /\ res'[d].kind = "ok" => res'[d].seq = seq'[d] /\ Mine(d)' \in table'
                      /\ res'[d].kind = "dup" => Stored(StanzaOf[frame[d]], res[d].seq)'
                      /\ pc'[d] \in {"idle", "lookup", "allocate", "enqueue"} => res'[d] = Waiting
                      /\ pc'[d] \in {"remember", "ack", "push"} => res'[d].kind \in {"ok", "dup"}
                      /\ pc'[d] = "push" => res'[d].kind = "ok" /\ Mine(d)' \in acked'
                      /\ pc'[d] \in {"idle", "lookup", "allocate"} => seq'[d] = 0
                      /\ pc'[d] = "enqueue" => seq'[d] >= 1
    BY DEF ResInv
  <2>1. CASE d = c
    BY <1>2, <2>1 DEF Waiting
  <2>2. CASE d # c
    BY <1>2, <2>2 DEF ResInv, Mine, Stored
  <2> QED BY <2>1, <2>2
<1> QED BY <1>3, <1>4, <1>5, <1>6

(* The steps of one goroutine.                                             *)
LEMMA GoroutineInv ==
  ASSUME IInv, TypeOK', NEW c \in Conns, Receive(c) \/ Relaying(c)
  PROVE  IInv'
<1> USE DEF IInv
<1>a. /\ lastSeq \in Nat
      /\ pc \in [Conns -> PCs] /\ frame \in [Conns -> Frames]
      /\ seq \in [Conns -> Nat] /\ res \in [Conns -> WriteResult]
  BY DEF TypeOK
<1>1. CASE Receive(c)
  <2>1. /\ \A d \in Conns : d # c => pc'[d] = pc[d] /\ frame'[d] = frame[d]
        /\ pc[c] = "idle" /\ pc'[c] = "lookup" /\ seq[c] = 0 /\ res[c] = Waiting
        /\ UNCHANGED <<table, lastSeq, window, queue, seq, res, acked, pushed>>
    BY <1>a, <1>1 DEF Receive, Goto, ResInv
  <2>2. RowsInv' /\ WindowInv' /\ SeqInv' /\ HistoryInv'
    BY <2>1 DEF RowsInv, WindowInv, SeqInv, HistoryInv, Keyable, Stored
  <2>3. QueueInv'
    BY <2>1 DEF QueueInv
  <2>4. ResInv'
    BY <2>1 DEF ResInv, Mine, Stored, Waiting
  <2> QED BY <2>2, <2>3, <2>4
<1>2. CASE Lookup(c)
  <2>1. CASE Return(c) /\ \E i \in Hits(frame[c]) :
                            acked' = acked \cup {[seq |-> window[i].seq, frame |-> frame[c]]}
    <3>1. UNCHANGED <<table, lastSeq, window, queue, frame, pushed>>
      BY <1>2 DEF Lookup
    <3>2. RowsInv' /\ SeqInv' /\ QueueInv' /\ ResInv'
      BY <2>1, <3>1, ReturnInv
    <3>3. PICK i \in Hits(frame[c]) :
                 acked' = acked \cup {[seq |-> window[i].seq, frame |-> frame[c]]}
      BY <2>1
    <3>4. Stored(StanzaOf[frame[c]], window[i].seq)
      BY <3>3 DEF WindowInv, Hits
    <3>5. HistoryInv'
      <4>1. \A a \in acked' : Stored(StanzaOf[a.frame], a.seq)'
        BY <3>1, <3>3, <3>4 DEF HistoryInv, Stored
      <4>2. \A p \in pushed, d \in Conns : p.seq # seq'[d]
        BY <1>a, <2>1 DEF HistoryInv, RowsInv, Return
      <4> QED BY <3>1, <3>3, <4>1, <4>2 DEF HistoryInv
    <3>6. WindowInv'
      BY <3>1 DEF WindowInv, Stored
    <3> QED BY <3>2, <3>5, <3>6
  <2>2. CASE Goto(c, "allocate") /\ UNCHANGED <<seq, res, acked>>
    <3>1. /\ UNCHANGED <<table, lastSeq, window, queue, frame, seq, res, acked, pushed>>
          /\ \A d \in Conns : d # c => pc'[d] = pc[d]
          /\ pc[c] = "lookup" /\ pc'[c] = "allocate"
      BY <1>a, <1>2, <2>2 DEF Lookup, Goto
    <3>2. RowsInv' /\ WindowInv' /\ SeqInv' /\ QueueInv' /\ HistoryInv'
      BY <3>1 DEF RowsInv, WindowInv, SeqInv, QueueInv, HistoryInv, Keyable, Stored
    <3>3. ResInv'
      BY <3>1 DEF ResInv, Mine, Stored
    <3> QED BY <3>2, <3>3
  <2> QED BY <1>2, <2>1, <2>2 DEF Lookup
<1>3. CASE Allocate(c)
  <2>1. UNCHANGED <<table, window, queue, frame, acked, pushed>>
    BY <1>3 DEF Allocate
  <2>2. CASE Return(c) /\ UNCHANGED lastSeq
    <3>1. RowsInv' /\ SeqInv' /\ QueueInv' /\ ResInv'
      BY <2>1, <2>2, ReturnInv
    <3>2. WindowInv'
      BY <2>1 DEF WindowInv, Stored
    <3>3. HistoryInv'
      BY <1>a, <2>1, <2>2 DEF HistoryInv, RowsInv, Return, Stored
    <3> QED BY <3>1, <3>2, <3>3
  <2>3. CASE lastSeq' = lastSeq + 1 /\ seq' = [seq EXCEPT ![c] = lastSeq + 1]
             /\ Goto(c, "enqueue") /\ UNCHANGED res
    <3>1. /\ \A d \in Conns : d # c => pc'[d] = pc[d] /\ seq'[d] = seq[d]
          /\ pc[c] = "allocate" /\ pc'[c] = "enqueue" /\ seq'[c] = lastSeq + 1
          /\ res[c] = Waiting
      BY <1>3, <1>a, <2>3 DEF Allocate, Goto, ResInv
    <3>2. RowsInv'
      BY <1>a, <2>1, <2>3 DEF RowsInv, Keyable, TypeOK, Row
    <3>3. SeqInv'
      BY <1>a, <2>3, <3>1 DEF SeqInv
    <3>4. QueueInv'
      <4>1. \A i \in 1 .. Len(queue) : queue[i].seq \in Nat
        <5>1. queue \in Seq(Row)
          BY DEF TypeOK
        <5>2. \A i \in 1 .. Len(queue) : queue[i] \in Row
          BY <5>1
        <5> QED BY <5>2 DEF Row
      <4> QED BY <1>a, <2>1, <2>3, <3>1, <4>1 DEF QueueInv
    <3>5. ResInv'
      BY <1>a, <2>1, <2>3, <3>1 DEF ResInv, Mine, Stored, Waiting
    <3>6. WindowInv'
      BY <2>1 DEF WindowInv, Stored
    <3>7. HistoryInv'
      <4>1. \A p \in pushed : p.seq <= lastSeq /\ p.seq \in Nat
        BY DEF HistoryInv, RowsInv, TypeOK, Row
      <4> QED BY <1>a, <2>1, <3>1, <4>1 DEF HistoryInv, Stored
    <3> QED BY <3>2, <3>3, <3>4, <3>5, <3>6, <3>7
  <2> QED BY <1>3, <2>2, <2>3 DEF Allocate
<1>4. CASE Enqueue(c)
  <2>1. /\ UNCHANGED <<table, lastSeq, window, frame, seq, acked, pushed>>
        /\ \A d \in Conns : d # c => pc'[d] = pc[d] /\ res'[d] = res[d]
        /\ pc[c] = "enqueue" /\ pc'[c] = "wait" /\ res'[c] \in {Waiting, WriteErr}
    BY <1>4, <1>a DEF Enqueue, Goto, ResInv
  <2>2. RowsInv' /\ WindowInv' /\ SeqInv' /\ HistoryInv'
    BY <2>1 DEF RowsInv, WindowInv, SeqInv, HistoryInv, Keyable, Stored
  <2>3. QueueInv'
    <3>1. CASE queue' = Append(queue, Mine(c))
      <4>1. /\ seq[c] >= 1 /\ seq[c] <= lastSeq
            /\ \A d \in Conns : seq[c] = seq[d] => frame[c] = frame[d]
        BY <1>a, <2>1 DEF ResInv, SeqInv
      <4>2. /\ Len(queue') = Len(queue) + 1
            /\ \A i \in 1 .. Len(queue) : queue'[i] = queue[i]
            /\ queue'[Len(queue) + 1] = Mine(c)
            /\ Len(queue) \in Nat
        <5>1. queue \in Seq(Row)
          BY DEF TypeOK
        <5> QED BY <3>1, <5>1
      <4>3. \A i \in 1 .. Len(queue') : i \in 1 .. Len(queue) \/ queue'[i] = Mine(c)
        BY <4>2
      <4> QED BY <2>1, <4>1, <4>2, <4>3 DEF QueueInv, Mine
    <3>2. CASE queue' = queue
      BY <2>1, <3>2 DEF QueueInv
    <3> QED BY <1>4, <3>1, <3>2 DEF Enqueue, Mine
  <2>4. ResInv'
    BY <2>1 DEF ResInv, Mine, Stored, Waiting, WriteErr
  <2> QED BY <2>2, <2>3, <2>4
<1>5. CASE Resume(c)
  <2>1. UNCHANGED <<table, lastSeq, window, queue, frame, acked, pushed>>
    BY <1>5 DEF Resume
  <2>2. CASE Return(c)
    <3>1. RowsInv' /\ SeqInv' /\ QueueInv' /\ ResInv'
      BY <2>1, <2>2, ReturnInv
    <3>2. WindowInv'
      BY <2>1 DEF WindowInv, Stored
    <3>3. HistoryInv'
      BY <1>a, <2>1, <2>2 DEF HistoryInv, RowsInv, Return, Stored
    <3> QED BY <3>1, <3>2, <3>3
  <2>3. CASE res[c] # WriteErr /\ Goto(c, "remember") /\ UNCHANGED <<seq, res>>
    <3>1. /\ \A d \in Conns : d # c => pc'[d] = pc[d]
          /\ pc[c] = "wait" /\ pc'[c] = "remember"
      BY <1>5, <1>a, <2>3 DEF Resume, Goto
    <3>2. res[c].kind \in {"ok", "dup"}
      BY <1>5, <2>3 DEF Resume, ResInv
    <3>3. RowsInv' /\ WindowInv' /\ SeqInv' /\ QueueInv' /\ HistoryInv'
      BY <2>1, <2>3 DEF RowsInv, WindowInv, SeqInv, QueueInv, HistoryInv, Keyable, Stored
    <3>4. ResInv'
      BY <2>1, <2>3, <3>1, <3>2 DEF ResInv, Mine, Stored
    <3> QED BY <3>3, <3>4
  <2> QED BY <1>5, <2>2, <2>3 DEF Resume
<1>6. CASE Timeout(c)
  <2>1. Return(c) /\ UNCHANGED <<table, lastSeq, window, queue, frame, acked, pushed>>
    BY <1>6 DEF Timeout
  <2>2. RowsInv' /\ SeqInv' /\ QueueInv' /\ ResInv'
    BY <2>1, ReturnInv
  <2>3. WindowInv'
    BY <2>1 DEF WindowInv, Stored
  <2>4. HistoryInv'
    BY <1>a, <2>1 DEF HistoryInv, RowsInv, Return, Stored
  <2> QED BY <2>2, <2>3, <2>4
<1>7. CASE Remember(c)
  <2>1. /\ UNCHANGED <<table, lastSeq, queue, frame, seq, res, acked, pushed>>
        /\ \A d \in Conns : d # c => pc'[d] = pc[d]
        /\ pc[c] = "remember" /\ pc'[c] = "ack"
    BY <1>7, <1>a DEF Remember, Goto
  <2>2. RowsInv' /\ SeqInv' /\ QueueInv' /\ HistoryInv'
    BY <2>1 DEF RowsInv, SeqInv, QueueInv, HistoryInv, Keyable, Stored
  <2>3. ResInv'
    BY <2>1 DEF ResInv, Mine, Stored
  <2>4. WindowInv'
    <3> DEFINE s == StanzaOf[frame[c]]
               n == res[c].seq
    <3>1. Stored(s, n)
      BY <2>1 DEF ResInv, Mine, Stored
    <3>2. CASE window' = StoreInWindow(s, n)
      <4>1. s \in Stanzas /\ n \in Nat
        BY <1>a DEF Stanzas, WriteResult
      <4>2. \A i \in 1 .. Len(window') : \/ window'[i] = [stanza |-> s, seq |-> n]
                                         \/ \E j \in 1 .. Len(window) : window'[i] = window[j]
        BY <3>2, <4>1, StoredWindow
      <4> HIDE DEF s, n
      <4> QED BY <2>1, <3>1, <4>2 DEF WindowInv, Stored
    <3>3. CASE window' = window
      BY <2>1, <3>3 DEF WindowInv, Stored
    <3> QED BY <1>7, <3>2, <3>3 DEF Remember
  <2> QED BY <2>2, <2>3, <2>4
<1>8. CASE SendAck(c)
  <2> DEFINE a == [seq |-> res[c].seq, frame |-> frame[c]]
  <2>1. /\ UNCHANGED <<table, lastSeq, window, queue, frame, pushed>>
        /\ acked' = acked \cup {a}
        /\ pc[c] = "ack"
    BY <1>8 DEF SendAck
  <2>2. Stored(StanzaOf[frame[c]], res[c].seq)
    BY <2>1 DEF ResInv, Mine, Stored
  <2>3. \A b \in acked' : Stored(StanzaOf[b.frame], b.seq)'
    BY <2>1, <2>2 DEF HistoryInv, Stored
  <2>4. WindowInv'
    BY <2>1 DEF WindowInv, Stored
  <2>5. CASE Return(c)
    <3>1. RowsInv' /\ SeqInv' /\ QueueInv' /\ ResInv'
      BY <2>1, <2>5, ReturnInv
    <3>2. \A p \in pushed, d \in Conns : p.seq # seq'[d]
      BY <1>a, <2>5 DEF HistoryInv, RowsInv, Return
    <3>3. HistoryInv'
      BY <2>1, <2>3, <3>2 DEF HistoryInv
    <3> QED BY <2>4, <3>1, <3>3
  <2>6. CASE res[c].kind # "dup" /\ Goto(c, "push") /\ UNCHANGED <<seq, res>>
    <3>1. /\ \A d \in Conns : d # c => pc'[d] = pc[d]
          /\ pc'[c] = "push"
      BY <1>a, <2>6 DEF Goto
    <3>2. res[c].kind = "ok" /\ a = Mine(c)
      BY <2>1, <2>6 DEF ResInv, Mine
    <3>3. RowsInv' /\ SeqInv' /\ QueueInv'
      BY <2>1, <2>6 DEF RowsInv, SeqInv, QueueInv, Keyable
    <3> HIDE DEF a
    <3>4. ResInv'
      BY <2>1, <2>6, <3>1, <3>2 DEF ResInv, Mine, Stored
    <3>5. HistoryInv'
      BY <2>1, <2>3, <2>6 DEF HistoryInv
    <3> QED BY <2>4, <3>3, <3>4, <3>5
  <2> QED BY <1>8, <2>5, <2>6 DEF SendAck
<1>9. CASE Push(c)
  <2>1. /\ Return(c) /\ pc[c] = "push"
        /\ UNCHANGED <<table, lastSeq, window, queue, frame, acked>>
    BY <1>9 DEF Push
  <2>2. RowsInv' /\ SeqInv' /\ QueueInv' /\ ResInv'
    BY <2>1, ReturnInv
  <2>3. WindowInv'
    BY <2>1 DEF WindowInv, Stored
  <2>4. seq' = [seq EXCEPT ![c] = 0]
    BY <2>1 DEF Return
  <2>5. /\ Mine(c) = [seq |-> res[c].seq, frame |-> frame[c]]
        /\ Mine(c) \in table \cap acked /\ seq[c] >= 1
    BY <2>1 DEF ResInv, RowsInv, Mine
  <2>6. pushed' \subseteq pushed \cup {Mine(c)}
    BY <1>9, <2>5 DEF Push
  <2>7. \A p \in pushed, d \in Conns : p.seq # seq'[d]
    BY <1>a, <2>4 DEF HistoryInv, RowsInv
  <2>8. \A d \in Conns : Mine(c).seq # seq'[d]
    BY <1>a, <2>4, <2>5 DEF SeqInv, Mine
  <2>9. HistoryInv'
    BY <2>1, <2>5, <2>6, <2>7, <2>8 DEF HistoryInv, Stored
  <2> QED BY <2>2, <2>3, <2>9
<1> QED BY <1>1, <1>2, <1>3, <1>4, <1>5, <1>6, <1>7, <1>8, <1>9 DEF Relaying

(* The writer answers the goroutine that still holds the seq it wrote.     *)
LEMMA WriteInv ==
  ASSUME IInv, TypeOK', Write
  PROVE  IInv'
<1> USE DEF IInv
<1> DEFINE w == Head(queue)
           originals == {r \in table : /\ Keyable(w.frame)
                                       /\ StanzaOf[r.frame] = StanzaOf[w.frame]}
           Answer(a) == res' = [c \in Conns |->
                          IF pc[c] = "wait" /\ seq[c] = w.seq THEN a ELSE res[c]]
<1>1. UNCHANGED <<lastSeq, window, pc, frame, seq, acked, pushed>>
  BY DEF Write
<1>2. /\ queue' = Tail(queue)
      /\ Len(queue') = Len(queue) - 1 /\ Len(queue) \in Nat \ {0} /\ w = queue[1] /\ w \in Row
      /\ \A i \in 1 .. Len(queue') : queue'[i] = queue[i + 1]
  <2>1. queue \in Seq(Row) /\ queue # <<>> /\ queue' = Tail(queue)
    BY DEF TypeOK, Write
  <2> QED BY <2>1
<1>3. /\ w.seq >= 1 /\ w.seq <= lastSeq /\ w.seq \in Nat
      /\ w = [seq |-> w.seq, frame |-> w.frame]
      /\ \A c \in Conns : w.seq = seq[c] => w.frame = frame[c]
  <2>1. 1 \in 1 .. Len(queue)
    BY <1>2
  <2> QED BY <1>2, <2>1 DEF QueueInv, Row
<1>4. \/ originals = {} /\ table' = table \cup {w} /\ Answer(Ok(w.seq))
      \/ \E r \in originals : UNCHANGED table /\ Answer(Dup(r.seq))
      \/ UNCHANGED table /\ Answer(WriteErr)
  BY DEF Write
<1>5. table \subseteq table'
  BY <1>4
<1>6. QueueInv'
  BY <1>1, <1>2 DEF QueueInv
<1> HIDE DEF w
<1>7. RowsInv'
  <2>1. CASE originals = {} /\ table' = table \cup {w}
    BY <1>1, <1>3, <2>1 DEF RowsInv, Keyable
  <2>2. CASE UNCHANGED table
    BY <1>1, <2>2 DEF RowsInv, Keyable
  <2> QED BY <1>4, <2>1, <2>2
<1>8. WindowInv' /\ HistoryInv' /\ SeqInv'
  BY <1>1, <1>5 DEF WindowInv, HistoryInv, SeqInv, Stored
<1>9. ResInv'
  <2>1. ASSUME NEW a, Answer(a), NEW c \in Conns
        PROVE  \/ res'[c] = res[c]
               \/ res'[c] = a /\ pc[c] = "wait" /\ seq[c] = w.seq /\ frame[c] = w.frame
    BY <1>3, <2>1
  <2>2. ASSUME NEW a, Answer(a),
               \/ a = Ok(w.seq) /\ w \in table'
               \/ \E r \in originals : a = Dup(r.seq)
               \/ a = WriteErr
        PROVE  ResInv'
    <3> SUFFICES ASSUME NEW c \in Conns
                 PROVE  /\ res'[c] \in {Waiting, WriteErr} \/ res'[c].kind \in {"ok", "dup"}
                        /\ res'[c].kind = "ok" => res'[c].seq = seq[c] /\ Mine(c) \in table'
                        /\ res'[c].kind = "dup" => Stored(StanzaOf[frame[c]], res[c].seq)'
                        /\ pc[c] \in {"idle", "lookup", "allocate", "enqueue"} => res'[c] = Waiting
                        /\ pc[c] \in {"remember", "ack", "push"} => res'[c].kind \in {"ok", "dup"}
                        /\ pc[c] = "push" => res'[c].kind = "ok" /\ Mine(c) \in acked
                        /\ pc[c] \in {"idle", "lookup", "allocate"} => seq[c] = 0
                        /\ pc[c] = "enqueue" => seq[c] >= 1
      BY <1>1 DEF ResInv, Mine
    <3>1. CASE res'[c] = res[c]
      BY <1>1, <1>5, <3>1 DEF ResInv, Stored
    <3>2. CASE res'[c] = a /\ pc[c] = "wait" /\ seq[c] = w.seq /\ frame[c] = w.frame
      <4>1. CASE a = Ok(w.seq) /\ w \in table'
        BY <1>3, <3>2, <4>1 DEF Ok, Mine
      <4>2. CASE \E r \in originals : a = Dup(r.seq)
        <5>1. PICK r \in originals : a = Dup(r.seq)
          BY <4>2
        <5> QED BY <1>1, <1>5, <3>2, <5>1 DEF Dup, Stored
      <4>3. CASE a = WriteErr
        BY <3>2, <4>3 DEF WriteErr
      <4> QED BY <2>2, <4>1, <4>2, <4>3
    <3> QED BY <2>1, <2>2, <3>1, <3>2
  <2>3. \E a : Answer(a) /\ \/ a = Ok(w.seq) /\ w \in table'
                            \/ \E r \in originals : a = Dup(r.seq)
                            \/ a = WriteErr
    BY <1>4
  <2> HIDE DEF Answer, originals
  <2> QED BY <2>2, <2>3
<1> QED BY <1>6, <1>7, <1>8, <1>9

LEMMA CrashInv ==
  ASSUME IInv, TypeOK', Crash
  PROVE  IInv'
<1> USE DEF IInv
<1>1. /\ UNCHANGED <<table, lastSeq, frame, acked, pushed>>
      /\ window' = <<>> /\ queue' = <<>>
      /\ \A c \in Conns : pc'[c] = "idle" /\ seq'[c] = 0 /\ res'[c] = Waiting
      /\ lastSeq \in Nat
  BY DEF Crash, TypeOK
<1>2. RowsInv' /\ WindowInv' /\ SeqInv' /\ QueueInv'
  BY <1>1 DEF RowsInv, WindowInv, SeqInv, QueueInv, Keyable
<1>3. ResInv'
  BY <1>1 DEF ResInv, Waiting
<1>4. HistoryInv'
  BY <1>1 DEF HistoryInv, RowsInv, Stored
<1> QED BY <1>2, <1>3, <1>4

LEMMA Invariance == Spec => []IInv
<1>1. Init => IInv BY InitInv
<1>2. ASSUME IInv, [Next]_vars PROVE IInv'
  <2>1. TypeOK'
    BY <1>2, NextTypeOK DEF IInv
  <2>2. CASE UNCHANGED vars
    BY <1>2, <2>1, <2>2 DEF vars, IInv, RowsInv, WindowInv, SeqInv, QueueInv, ResInv,
                            HistoryInv, Keyable, Stored, Mine
  <2> QED BY <1>2, <2>1, <2>2, GoroutineInv, WriteInv, CrashInv DEF Next
<1> QED BY <1>1, <1>2, PTL DEF Spec
-----------------------------------------------------------------------------
(* A client that resends a message until it is acknowledged learns one seq *)
(* for it: relay's dedup window and the unique index agree.                *)
THEOREM AckAgreementHolds == Spec => []AckAgreement
<1>1. IInv => AckAgreement
  BY DEF IInv, HistoryInv, RowsInv, Stored, AckAgreement, Keyable
<1> QED BY <1>1, Invariance, PTL

(* Every ACK relay sends names a row that is durable by then.              *)
THEOREM AckedIsDurableHolds == Spec => []AckedIsDurable
<1>1. IInv => AckedIsDurable
  BY DEF IInv, HistoryInv, Stored, AckedIsDurable
<1> QED BY <1>1, Invariance, PTL

(* deliver shows receivers only rows that are durable and acknowledged.    *)
THEOREM PushedIsAckedAndDurableHolds == Spec => []PushedIsAckedAndDurable
<1>1. IInv => PushedIsAckedAndDurable
  BY DEF IInv, HistoryInv, PushedIsAckedAndDurable
<1> QED BY <1>1, Invariance, PTL

(* deliver runs once for a message: a replay, found by the window or by the *)
(* unique index, is acknowledged and never pushed again.                    *)
THEOREM NoSecondPushHolds == Spec => NoSecondPush
<1>1. ASSUME IInv, NEW c \in Conns, pc[c] = "push", NEW p \in pushed
      PROVE  /\ p.seq # res[c].seq
             /\ Keyable(frame[c]) => StanzaOf[p.frame] # StanzaOf[frame[c]]
  <2>1. res[c].seq = seq[c] /\ Mine(c) \in table
    BY <1>1 DEF IInv, ResInv
  <2>2. p.seq # seq[c] /\ p \in table
    BY <1>1 DEF IInv, HistoryInv
  <2>3. ASSUME Keyable(frame[c]), StanzaOf[p.frame] = StanzaOf[frame[c]]
        PROVE  p = Mine(c)
    <3>1. Mine(c).frame = frame[c]
      BY DEF Mine
    <3> QED BY <1>1, <2>1, <2>2, <2>3, <3>1 DEF IInv, RowsInv
  <2> QED BY <2>1, <2>2, <2>3 DEF Mine
<1>2. IInv => \A c \in Conns :
                pc[c] = "push" /\ pc'[c] = "idle" /\ crashes' = crashes =>
                  \A p \in pushed : /\ p.seq # res[c].seq
                                    /\ Keyable(frame[c]) => StanzaOf[p.frame] # StanzaOf[frame[c]]
  BY <1>1
<1> QED BY <1>2, Invariance, PTL DEF NoSecondPush
-----------------------------------------------------------------------------
(* Relay implements Delivery.  What the mapping needs beyond IInv: a       *)
(* number stays with one message on its way from the allocator through the *)
(* queue into the table.                                                   *)

NumberInv ==
  /\ \A i, j \in 1 .. Len(queue) : queue[i].seq = queue[j].seq => i = j
  /\ \A i \in 1 .. Len(queue), r \in table : queue[i].seq # r.seq
  /\ \A r, o \in table : r.seq = o.seq => r = o
  /\ \A c \in Conns : pc[c] = "enqueue" =>
       /\ \A i \in 1 .. Len(queue) : queue[i].seq # seq[c]
       /\ \A r \in table : r.seq # seq[c]

LEMMA InitNumberInv == Init => NumberInv
BY DEF Init, NumberInv

(* Only a successful Enqueue puts a number into the queue.                 *)
LEMMA GoroutineNumberInv ==
  ASSUME IInv, NumberInv, NEW c \in Conns, Receive(c) \/ Relaying(c)
  PROVE  NumberInv'
<1>a. /\ lastSeq \in Nat /\ queue \in Seq(Row) /\ Len(queue) \in Nat
      /\ pc \in [Conns -> PCs] /\ frame \in [Conns -> Frames] /\ seq \in [Conns -> Nat]
  BY DEF IInv, TypeOK
<1>b. table' = table
  BY DEF Receive, Relaying, Lookup, Allocate, Enqueue, Resume, Timeout, Remember, SendAck, Push
<1>1. CASE Enqueue(c)
  <2> DEFINE w == [seq |-> seq[c], frame |-> frame[c]]
  <2>1. /\ pc[c] = "enqueue" /\ UNCHANGED seq /\ pc'[c] = "wait" /\ seq[c] # 0
        /\ \A d \in Conns : d # c => pc'[d] = pc[d]
    BY <1>1, <1>a DEF Enqueue, Goto, IInv, ResInv
  <2>2. w \in Row /\ w.seq = seq[c]
    BY <1>a DEF Row
  <2>3. queue' = Append(queue, w) \/ queue' = queue
    BY <1>1 DEF Enqueue
  <2> HIDE DEF w
  <2>4. CASE queue' = queue
    BY <1>b, <2>1, <2>4 DEF NumberInv
  <2>5. CASE queue' = Append(queue, w)
    <3>1. /\ Len(queue') = Len(queue) + 1 /\ queue'[Len(queue) + 1] = w
          /\ \A i \in 1 .. Len(queue) : queue'[i] = queue[i]
      BY <1>a, <2>2, <2>5
    <3>2. \A i \in 1 .. Len(queue') : i \in 1 .. Len(queue) \/ i = Len(queue) + 1
      BY <1>a, <3>1
    <3>3. \A i \in 1 .. Len(queue) : queue'[i].seq # w.seq
      BY <2>1, <2>2, <3>1 DEF NumberInv
    <3>4. \A i, j \in 1 .. Len(queue') : queue'[i].seq = queue'[j].seq => i = j
      BY <3>1, <3>2, <3>3 DEF NumberInv
    <3>5. \A i \in 1 .. Len(queue'), r \in table : queue'[i].seq # r.seq
      BY <2>1, <2>2, <3>1, <3>2 DEF NumberInv
    <3>6. ASSUME NEW d \in Conns, pc'[d] = "enqueue"
          PROVE  \A i \in 1 .. Len(queue') : queue'[i].seq # seq[d]
      <4>1. d # c /\ pc[d] = "enqueue" /\ seq[d] # seq[c]
        BY <2>1, <3>6 DEF IInv, SeqInv
      <4>2. \A i \in 1 .. Len(queue) : queue'[i].seq # seq[d]
        BY <3>1, <4>1 DEF NumberInv
      <4> QED BY <2>2, <3>1, <3>2, <4>1, <4>2
    <3>7. \A d \in Conns : pc'[d] = "enqueue" => \A r \in table : r.seq # seq[d]
      BY <2>1 DEF NumberInv
    <3> QED BY <1>b, <2>1, <3>4, <3>5, <3>6, <3>7 DEF NumberInv
  <2> QED BY <2>3, <2>4, <2>5
<1>2. CASE Allocate(c)
  <2>1. queue' = queue /\ \A d \in Conns : d # c => pc'[d] = pc[d] /\ seq'[d] = seq[d]
    BY <1>2, <1>a DEF Allocate, Goto, Return
  <2>2. pc'[c] = "enqueue" => seq'[c] = lastSeq + 1
    BY <1>2, <1>a DEF Allocate, Goto, Return
  <2>3. /\ \A i \in 1 .. Len(queue) : queue[i].seq # lastSeq + 1
        /\ \A r \in table : r.seq # lastSeq + 1
    BY <1>a DEF IInv, QueueInv, RowsInv
  <2> QED BY <1>b, <2>1, <2>2, <2>3 DEF NumberInv
<1>3. CASE ~Enqueue(c) /\ ~Allocate(c)
  <2>1. /\ queue' = queue /\ pc'[c] # "enqueue"
        /\ \A d \in Conns : d # c => pc'[d] = pc[d] /\ seq'[d] = seq[d]
    BY <1>3, <1>a DEF Receive, Relaying, Lookup, Resume, Timeout, Remember, SendAck, Push,
                      Goto, Return
  <2> QED BY <1>b, <2>1 DEF NumberInv
<1> QED BY <1>1, <1>2, <1>3

LEMMA NextNumberInv ==
  ASSUME IInv, NumberInv, [Next]_vars
  PROVE  NumberInv'
<1>1. CASE Write
  <2> DEFINE w == Head(queue)
  <2>1. queue \in Seq(Row) /\ queue # <<>> /\ queue' = Tail(queue) /\ UNCHANGED <<pc, seq>>
    BY <1>1 DEF Write, IInv, TypeOK
  <2>2. /\ Len(queue') = Len(queue) - 1 /\ Len(queue) \in Nat \ {0} /\ w = queue[1]
        /\ \A i \in 1 .. Len(queue') : queue'[i] = queue[i + 1] /\ i + 1 \in 1 .. Len(queue)
        /\ 1 \in 1 .. Len(queue)
    BY <2>1
  <2>3. table' = table \cup {w} \/ table' = table
    BY <1>1 DEF Write
  <2> HIDE DEF w
  <2>4. \A i \in 1 .. Len(queue') : queue'[i].seq # w.seq
    <3>1. \A i \in 1 .. Len(queue') : i + 1 # 1
      BY <2>2
    <3> QED BY <2>2, <3>1 DEF NumberInv
  <2>5. \A r \in table : r.seq # w.seq
    BY <2>2 DEF NumberInv
  <2>6. \A c \in Conns : pc[c] = "enqueue" => w.seq # seq[c]
    BY <2>2 DEF NumberInv
  <2>7. \A i, j \in 1 .. Len(queue') : queue'[i].seq = queue'[j].seq => i = j
    <3>1. \A i, j \in 1 .. Len(queue') : queue'[i].seq = queue'[j].seq => i + 1 = j + 1
      BY <2>2 DEF NumberInv
    <3> QED BY <2>2, <3>1
  <2>8. \A r \in table' : r \in table \/ r = w
    BY <2>3
  <2>9. \A i \in 1 .. Len(queue'), r \in table' : queue'[i].seq # r.seq
    BY <2>2, <2>4, <2>8 DEF NumberInv
  <2>10. \A r, o \in table' : r.seq = o.seq => r = o
    BY <2>5, <2>8 DEF NumberInv
  <2>11. \A c \in Conns : pc'[c] = "enqueue" =>
           /\ \A i \in 1 .. Len(queue') : queue'[i].seq # seq'[c]
           /\ \A r \in table' : r.seq # seq'[c]
    BY <2>1, <2>2, <2>6, <2>8 DEF NumberInv
  <2> QED BY <2>7, <2>9, <2>10, <2>11 DEF NumberInv
<1>2. CASE Crash
  <2>1. table' = table /\ queue' = <<>> /\ \A c \in Conns : pc'[c] = "idle"
    BY <1>2 DEF Crash
  <2> QED BY <2>1 DEF NumberInv
<1>3. CASE UNCHANGED vars
  BY <1>3 DEF vars, NumberInv
<1> QED BY <1>1, <1>2, <1>3, GoroutineNumberInv DEF Next

(* The steps of one goroutine: an ACK tells a number of the table, a push  *)
(* shows an acknowledged row for the first time, the rest shows nothing.   *)
LEMMA GoroutineRefines ==
  ASSUME IInv, NEW c \in Conns, Receive(c) \/ Relaying(c)
  PROVE  [Promise!Next]_(Promise!deliveryVars)
<1> USE DEF IInv
<1>a. /\ frame \in [Conns -> Frames]
      /\ table' = table
  BY DEF TypeOK, Receive, Relaying, Lookup, Allocate, Enqueue, Resume, Timeout, Remember,
         SendAck, Push
<1>1. ASSUME NEW n, Stored(StanzaOf[frame[c]], n), pushed' = pushed,
             acked' = acked \cup {[seq |-> n, frame |-> frame[c]]}
      PROVE  Promise!Acknowledge
  BY <1>a, <1>1 DEF Promise!Acknowledge, Stored
<1>2. CASE Lookup(c)
  <2>1. CASE \E i \in Hits(frame[c]) :
               acked' = acked \cup {[seq |-> window[i].seq, frame |-> frame[c]]}
    <3>1. PICK i \in Hits(frame[c]) :
                 acked' = acked \cup {[seq |-> window[i].seq, frame |-> frame[c]]}
      BY <2>1
    <3>2. Stored(StanzaOf[frame[c]], window[i].seq)
      BY <3>1 DEF WindowInv, Hits
    <3> QED BY <1>1, <1>2, <3>1, <3>2 DEF Lookup, Promise!Next
  <2>2. CASE UNCHANGED acked
    BY <1>2, <1>a, <2>2 DEF Lookup, Promise!deliveryVars
  <2> QED BY <1>2, <2>1, <2>2 DEF Lookup
<1>3. CASE SendAck(c)
  <2>1. Stored(StanzaOf[frame[c]], res[c].seq)
    BY <1>3 DEF SendAck, ResInv, Mine, Stored
  <2> QED BY <1>1, <1>3, <2>1 DEF SendAck, Promise!Next
<1>4. CASE Push(c)
  <2> DEFINE m == [seq |-> res[c].seq, frame |-> frame[c]]
  <2>1. UNCHANGED acked /\ (pushed' = pushed \cup {m} \/ UNCHANGED pushed)
    BY <1>4 DEF Push
  <2>2. m = Mine(c) /\ m \in table \cap acked
    BY <1>4 DEF Push, ResInv, Mine
  <2>3. ASSUME NEW p \in pushed
        PROVE  /\ p.seq # m.seq
               /\ ~(Keyable(m.frame) /\ StanzaOf[m.frame] = StanzaOf[p.frame])
    <3>1. p \in table /\ p.seq # m.seq
      BY <2>2 DEF HistoryInv, Mine
    <3> HIDE DEF m
    <3> QED BY <2>2, <3>1 DEF RowsInv
  <2> HIDE DEF m
  <2>4. CASE pushed' = pushed \cup {m}
    <3>1. Promise!Show
      BY <1>a, <2>1, <2>2, <2>3, <2>4 DEF Promise!Show, Promise!SameMessage, Promise!Keyable, Keyable
    <3> QED BY <3>1 DEF Promise!Next
  <2>5. CASE UNCHANGED pushed
    BY <1>a, <2>1, <2>5 DEF Promise!deliveryVars
  <2> QED BY <2>1, <2>4, <2>5
<1>5. CASE ~Lookup(c) /\ ~SendAck(c) /\ ~Push(c)
  <2>1. UNCHANGED <<table, acked, pushed>>
    BY <1>5 DEF Receive, Relaying, Allocate, Enqueue, Resume, Timeout, Remember
  <2> QED BY <2>1 DEF Promise!deliveryVars
<1> QED BY <1>2, <1>3, <1>4, <1>5

(* A write stores a message under its own number, or changes no row.       *)
LEMMA WriteRefines ==
  ASSUME IInv, NumberInv, Write
  PROVE  [Promise!Next]_(Promise!deliveryVars)
<1> DEFINE w == Head(queue)
<1>1. UNCHANGED <<acked, pushed>>
  BY DEF Write
<1>2. CASE UNCHANGED table
  BY <1>1, <1>2 DEF Promise!deliveryVars
<1>3. CASE /\ table' = table \cup {w}
           /\ {r \in table : Keyable(w.frame) /\ StanzaOf[r.frame] = StanzaOf[w.frame]} = {}
  <2>1. 1 \in 1 .. Len(queue) /\ w = queue[1] /\ w \in Row
    BY DEF Write, IInv, TypeOK
  <2> HIDE DEF w
  <2>2. w.seq >= 1 /\ w \in [seq : Nat \ {0}, frame : Frames]
    BY <2>1 DEF Row, IInv, QueueInv
  <2>3. \A r \in table : r.seq # w.seq
    BY <2>1 DEF NumberInv
  <2>4. \A r \in table : ~(Keyable(w.frame) /\ StanzaOf[w.frame] = StanzaOf[r.frame])
    BY <1>3
  <2>5. Promise!Store
    BY <1>1, <1>3, <2>2, <2>3, <2>4
    DEF Promise!Store, Promise!SameMessage, Promise!Keyable, Keyable
  <2> QED BY <2>5 DEF Promise!Next
<1>4. \/ UNCHANGED table
      \/ /\ table' = table \cup {w}
         /\ {r \in table : Keyable(w.frame) /\ StanzaOf[r.frame] = StanzaOf[w.frame]} = {}
  BY DEF Write
<1> QED BY <1>2, <1>3, <1>4

(* Relay implements Delivery: for any number of connections, messages,     *)
(* resends, timeouts, refused or failed writes and restarts, users see a   *)
(* store that numbers a message once and shows it once.                    *)
THEOREM Refinement == Spec => ImplementsDelivery
<1>1. Init => Promise!Init
  BY DEF Init, Promise!Init
<1>2. ASSUME IInv, NumberInv, [Next]_vars
      PROVE  [Promise!Next]_(Promise!deliveryVars)
  <2>1. CASE Crash
    BY <2>1 DEF Crash, Promise!deliveryVars
  <2>2. CASE UNCHANGED vars
    BY <2>2 DEF vars, Promise!deliveryVars
  <2> QED BY <1>2, <2>1, <2>2, GoroutineRefines, WriteRefines DEF Next
<1>3. IInv /\ NumberInv /\ [Next]_vars => NumberInv'
  BY NextNumberInv
<1> QED BY <1>1, <1>2, <1>3, InitNumberInv, Invariance, PTL DEF Spec, ImplementsDelivery, Promise!Spec
=============================================================================
