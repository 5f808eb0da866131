-------------------------------- MODULE Relay --------------------------------
(***************************************************************************)
(* CentralRelayStrategy.relay (internal/router/strategy.go) for one        *)
(* conversation: the pipeline every persisted chat message goes through,   *)
(* run by the read goroutines of many connections at once, with the dedup  *)
(* window (internal/router/dedup.go).  The two components it calls appear  *)
(* as what they promise: the allocator as SeqService (a fresh, growing     *)
(* seq) and the batch writer as MessageStore (a bounded queue whose head   *)
(* is written or refused, its result delivered once).  Clients may send a  *)
(* frame again at any time, over any connection.                           *)
(***************************************************************************)
EXTENDS Naturals, Sequences

CONSTANTS
  Conns,         \* the connections (one read goroutine each)
  Frames,        \* the messages clients send, each any number of times
  StanzaOf,      \* [Frames -> stanza ids]
  NoStanza,      \* the empty stanza id: not keyable, never deduplicated
  WindowCap,     \* size of the dedup window (100 in the code)
  QueueCap,      \* capacity of the writer's queue (10,000 in the code)
  FanOutMayFail, \* group route: may listing the members fail?
  MaxSeq,        \* bound: no frame is taken once this many seqs are in use
  MaxCrashes     \* bound on the restarts of a behaviour

ASSUME FramesAssumption == Frames # {}
ASSUME SizesAssumption == WindowCap \in Nat \ {0} /\ QueueCap \in Nat \ {0}
ASSUME BoundsAssumption == MaxSeq \in Nat /\ MaxCrashes \in Nat
ASSUME FanOutAssumption == FanOutMayFail \in BOOLEAN

VARIABLES
  table,     \* durable rows: a set of [seq, frame]
  lastSeq,   \* the allocator's last seq (durable: it never goes back)
  window,    \* the dedup window, newest first: a sequence of [stanza, seq]
  queue,     \* the writer's queue: a sequence of [seq, frame]
  pc,        \* [Conns -> where relay is]
  frame,     \* [Conns -> the frame being relayed]
  seq,       \* [Conns -> its allocated seq; 0 before]
  res,       \* [Conns -> the WriteResult, or Waiting]
  acked,     \* history: ACKs sent, a set of [frame, seq]
  pushed,    \* history: messages pushed to receivers, a set of [seq, frame]
  crashes    \* restarts so far

vars == <<table, lastSeq, window, queue, pc, frame, seq, res, acked, pushed, crashes>>
writer == <<table, queue>>

Waiting == [kind |-> "none", seq |-> 0]
WriteErr == [kind |-> "err", seq |-> 0]
Ok(n)   == [kind |-> "ok", seq |-> n]
Dup(n)  == [kind |-> "dup", seq |-> n]

Stanzas == {StanzaOf[f] : f \in Frames}
Row == [seq : Nat, frame : Frames]
Entry == [stanza : Stanzas, seq : Nat]
WriteResult == [kind : {"none", "err", "ok", "dup"}, seq : Nat]

PCs == {"idle", "lookup", "allocate", "enqueue", "wait", "remember", "ack", "push"}

TypeOK == /\ table \subseteq Row
          /\ lastSeq \in Nat
          /\ window \in Seq(Entry) /\ Len(window) <= WindowCap
          /\ queue \in Seq(Row) /\ Len(queue) <= QueueCap
          /\ pc \in [Conns -> PCs]
          /\ frame \in [Conns -> Frames]
          /\ seq \in [Conns -> Nat]
          /\ res \in [Conns -> WriteResult]
          /\ acked \subseteq Row
          /\ pushed \subseteq Row
          /\ crashes \in 0 .. MaxCrashes

Init == /\ table = {}
        /\ lastSeq = 0
        /\ window = <<>>
        /\ queue = <<>>
        /\ pc = [c \in Conns |-> "idle"]
        /\ frame = [c \in Conns |-> CHOOSE f \in Frames : TRUE]
        /\ seq = [c \in Conns |-> 0]
        /\ res = [c \in Conns |-> Waiting]
        /\ acked = {}
        /\ pushed = {}
        /\ crashes = 0

Goto(c, l) == pc' = [pc EXCEPT ![c] = l]

\* relay returns; the goroutine reads its next frame.
Return(c) == /\ Goto(c, "idle")
             /\ seq' = [seq EXCEPT ![c] = 0]
             /\ res' = [res EXCEPT ![c] = Waiting]

Keyable(f) == StanzaOf[f] # NoStanza
-----------------------------------------------------------------------------
(* The dedup window.                                                       *)

Hits(f) == {i \in 1 .. Len(window) : window[i].stanza = StanzaOf[f]}

\* Mutant: the oldest entry is never evicted.
StoreInWindow_NoEvict(s, n) == <<[stanza |-> s, seq |-> n]>> \o window

\* DedupWindows.Store: refresh the entry and move it to the front, or insert
\* one at the front, which evicts the last entry of a full window.
StoreInWindow(s, n) ==
  LET old   == {i \in 1 .. Len(window) : window[i].stanza = s}
      place == IF old # {} THEN CHOOSE i \in old : TRUE
               ELSE IF Len(window) < WindowCap THEN Len(window) + 1 ELSE WindowCap
      size  == IF Len(window) < place THEN place ELSE Len(window)
  IN  [i \in 1 .. size |-> IF i = 1 THEN [stanza |-> s, seq |-> n]
                           ELSE IF i <= place THEN window[i - 1] ELSE window[i]]
-----------------------------------------------------------------------------
(* relay, one action per step between which other goroutines run.          *)

\* A frame passed the interceptors and was dispatched to its route.
Receive(c) ==
  /\ pc[c] = "idle"
  /\ lastSeq < MaxSeq
  /\ \E f \in Frames : frame' = [frame EXCEPT ![c] = f]
  /\ Goto(c, "lookup")
  /\ UNCHANGED <<table, lastSeq, window, queue, seq, res, acked, pushed, crashes>>

\* A hit replays the ACK and returns: no persist, no push.
Lookup(c) ==
  /\ pc[c] = "lookup"
  /\ \/ /\ Keyable(frame[c])
        /\ \E i \in Hits(frame[c]) :
             acked' = acked \cup {[seq |-> window[i].seq, frame |-> frame[c]]}
        /\ Return(c)
     \/ /\ ~Keyable(frame[c]) \/ Hits(frame[c]) = {}
        /\ Goto(c, "allocate")
        /\ UNCHANGED <<seq, res, acked>>
  /\ UNCHANGED <<table, lastSeq, window, queue, frame, pushed, crashes>>

\* The allocator hands out the next seq, or fails (50001 to the sender).
Allocate(c) ==
  /\ pc[c] = "allocate"
  /\ \/ /\ lastSeq' = lastSeq + 1
        /\ seq' = [seq EXCEPT ![c] = lastSeq + 1]
        /\ Goto(c, "enqueue")
        /\ UNCHANGED res
     \/ Return(c) /\ UNCHANGED lastSeq
  /\ UNCHANGED <<table, window, queue, frame, acked, pushed, crashes>>

\* EnqueueSync: a full queue answers at once.
Enqueue(c) ==
  /\ pc[c] = "enqueue"
  /\ Goto(c, "wait")
  /\ IF Len(queue) < QueueCap
     THEN /\ queue' = Append(queue, [seq |-> seq[c], frame |-> frame[c]])
          /\ UNCHANGED res
     ELSE /\ res' = [res EXCEPT ![c] = WriteErr]
          /\ UNCHANGED queue
  /\ UNCHANGED <<table, lastSeq, window, frame, seq, acked, pushed, crashes>>

\* The result arrives; an error becomes a 50001 notice.
Resume(c) ==
  /\ pc[c] = "wait"
  /\ res[c] # Waiting
  /\ IF res[c] = WriteErr
     THEN Return(c)
     ELSE Goto(c, "remember") /\ UNCHANGED <<seq, res>>
  /\ UNCHANGED <<table, lastSeq, window, queue, frame, acked, pushed, crashes>>

\* Mutant: the goroutine waits for the result without a timer.
Timeout_Never(c) == FALSE /\ c \in Conns /\ UNCHANGED vars

\* Mutant: the timeout acknowledges, trusting that the queued write succeeds.
Timeout_AcksAnyway(c) ==
  /\ pc[c] = "wait"
  /\ acked' = acked \cup {[seq |-> seq[c], frame |-> frame[c]]}
  /\ Return(c)
  /\ UNCHANGED <<table, lastSeq, window, queue, frame, pushed, crashes>>

\* persistTimeout: the sender gets 50001, the write stays in the queue and its
\* late result is read by nobody.
Timeout(c) ==
  /\ pc[c] = "wait"
  /\ Return(c)
  /\ UNCHANGED <<table, lastSeq, window, queue, frame, acked, pushed, crashes>>

\* Mutant: the message is pushed to the receivers before it is acknowledged.
Remember_PushFirst(c) ==
  /\ pc[c] = "remember"
  /\ window' = IF Keyable(frame[c])
               THEN StoreInWindow(StanzaOf[frame[c]], res[c].seq)
               ELSE window
  /\ pushed' = pushed \cup {[seq |-> res[c].seq, frame |-> frame[c]]}
  /\ Goto(c, "ack")
  /\ UNCHANGED <<table, lastSeq, queue, frame, seq, res, acked, crashes>>

\* The authoritative seq goes into the window before the ACK is sent.
Remember(c) ==
  /\ pc[c] = "remember"
  /\ window' = IF Keyable(frame[c])
               THEN StoreInWindow(StanzaOf[frame[c]], res[c].seq)
               ELSE window
  /\ Goto(c, "ack")
  /\ UNCHANGED <<table, lastSeq, queue, frame, seq, res, acked, pushed, crashes>>

\* Mutant: a duplicate is acknowledged with the seq allocated for it.
SendAck_OwnSeq(c) ==
  /\ pc[c] = "ack"
  /\ acked' = acked \cup {[seq |-> seq[c], frame |-> frame[c]]}
  /\ IF res[c].kind = "dup"
     THEN Return(c)
     ELSE Goto(c, "push") /\ UNCHANGED <<seq, res>>
  /\ UNCHANGED <<table, lastSeq, window, queue, frame, pushed, crashes>>

\* Mutant: a duplicate found by the writer is pushed like a new message.
SendAck_PushesReplay(c) ==
  /\ pc[c] = "ack"
  /\ acked' = acked \cup {[seq |-> res[c].seq, frame |-> frame[c]]}
  /\ Goto(c, "push")
  /\ UNCHANGED <<table, lastSeq, window, queue, frame, seq, res, pushed, crashes>>

\* The ACK; a duplicate ends here, without a push.
SendAck(c) ==
  /\ pc[c] = "ack"
  /\ acked' = acked \cup {[seq |-> res[c].seq, frame |-> frame[c]]}
  /\ IF res[c].kind = "dup"
     THEN Return(c)
     ELSE Goto(c, "push") /\ UNCHANGED <<seq, res>>
  /\ UNCHANGED <<table, lastSeq, window, queue, frame, pushed, crashes>>

\* deliver: to the receiver, the hall or the group's members.
Push(c) ==
  /\ pc[c] = "push"
  /\ \/ pushed' = pushed \cup {[seq |-> res[c].seq, frame |-> frame[c]]}
     \/ FanOutMayFail /\ UNCHANGED pushed
  /\ Return(c)
  /\ UNCHANGED <<table, lastSeq, window, queue, frame, acked, crashes>>
-----------------------------------------------------------------------------
(* The writer and the environment.                                         *)

\* The writer takes its queue in order.  A row whose stanza is stored already
\* is answered with the original seq; any write may fail.
Write ==
  /\ queue # <<>>
  /\ queue' = Tail(queue)
  /\ LET w == Head(queue)
         originals == {r \in table : /\ Keyable(w.frame)
                                     /\ StanzaOf[r.frame] = StanzaOf[w.frame]}
         Answer(a) == res' = [c \in Conns |->
                        IF pc[c] = "wait" /\ seq[c] = w.seq THEN a ELSE res[c]]
     IN  \/ originals = {} /\ table' = table \cup {w} /\ Answer(Ok(w.seq))
         \/ \E r \in originals : UNCHANGED table /\ Answer(Dup(r.seq))
         \/ UNCHANGED table /\ Answer(WriteErr)
  /\ UNCHANGED <<lastSeq, window, pc, frame, seq, acked, pushed, crashes>>

\* The server dies and comes back: the table survives and the allocator's
\* counter does not go back; window, queue and running calls are gone.
Crash ==
  /\ crashes < MaxCrashes
  /\ crashes' = crashes + 1
  /\ window' = <<>>
  /\ queue' = <<>>
  /\ pc' = [c \in Conns |-> "idle"]
  /\ seq' = [c \in Conns |-> 0]
  /\ res' = [c \in Conns |-> Waiting]
  /\ UNCHANGED <<table, lastSeq, frame, acked, pushed>>

Relaying(c) == \/ Lookup(c) \/ Allocate(c) \/ Enqueue(c) \/ Resume(c) \/ Timeout(c)
               \/ Remember(c) \/ SendAck(c) \/ Push(c)

Next == (\E c \in Conns : Receive(c) \/ Relaying(c)) \/ Write \/ Crash

\* Where relay waits for the one pooled database connection without a timer:
\* the allocator's statement and, on the group route, the members' listing.
DatabaseWaits == {"allocate"} \cup (IF FanOutMayFail THEN {"push"} ELSE {})

\* The steps that need a processor or relay's own timer, not the database.
Scheduled(c) == \/ Lookup(c) \/ Enqueue(c) \/ Resume(c) \/ Timeout(c) \/ Remember(c)
                \/ SendAck(c) \/ (~FanOutMayFail /\ Push(c))

\* Goroutines are scheduled and timers fire; the database, and the writer with
\* it, may be stuck for ever.
Spec == Init /\ [][Next]_vars /\ \A c \in Conns : WF_vars(Scheduled(c))

\* The database answers too: every statement ends and the writer goes on.
FairSpec == Spec /\ WF_vars(Write) /\ \A c \in Conns : WF_vars(Relaying(c))
-----------------------------------------------------------------------------
(* A client that resends a message until it is acknowledged learns one seq *)
(* for it, whatever timed out, crashed or raced in between.                *)
AckAgreement ==
  \A a, b \in acked : Keyable(a.frame) /\ StanzaOf[a.frame] = StanzaOf[b.frame]
                        => a.seq = b.seq

(* An ACK is a promise: a row with that seq and that stanza is durable.    *)
AckedIsDurable ==
  \A a \in acked : \E r \in table : /\ r.seq = a.seq
                                    /\ StanzaOf[r.frame] = StanzaOf[a.frame]

(* Receivers never see what could still be lost, nor what the sender has   *)
(* not been acknowledged first.                                            *)
PushedIsAckedAndDurable == pushed \subseteq table \cap acked

(* To the users relay is a store that numbers a message once, tells the    *)
(* sender no other number, and shows it to receivers once: deduplication,  *)
(* timeouts, resends and restarts cannot be told from doing nothing.       *)
Promise == INSTANCE Delivery WITH rows <- table, told <- acked, shown <- pushed
ImplementsDelivery == Promise!Spec

(* No message is pushed twice: neither the same row nor, for a keyable     *)
(* stanza, a second row of it ("NO second push").                          *)
NoSecondPush ==
  [][\A c \in Conns :
       pc[c] = "push" /\ pc'[c] = "idle" /\ crashes' = crashes =>
         \A p \in pushed : /\ p.seq # res[c].seq
                           /\ Keyable(frame[c]) => StanzaOf[p.frame] # StanzaOf[frame[c]]]_vars

(* The dead writer never holds a read goroutine: a frame ends in an ACK or *)
(* a notice and the next one is read, unless the connection stays for ever *)
(* in a statement of its own, the only waits of relay without a timer.     *)
NoConnectionHangs ==
  \A c \in Conns : []<>(pc[c] \notin DatabaseWaits) => (pc[c] # "idle" ~> pc[c] = "idle")

(* "receivers already got it": an acknowledged message is pushed sooner or *)
(* later, as the replay path of relay takes for granted.                   *)
AckedIsPushed ==
  \A f \in Frames : (\E a \in acked : a.frame = f) ~> (\E p \in pushed : p.frame = f)
=============================================================================
