--------------------------------- MODULE Hub ---------------------------------
(***************************************************************************)
(* gateway.Hub and gateway.Client (internal/gateway): the registry of      *)
(* connections, keyed by login session; the register and unregister        *)
(* channels served by Run; the two pump goroutines of every connection;    *)
(* SendToUser and Broadcast under the shard's read lock with the           *)
(* backpressure breaker; KickUser and KickSession.  One user, hence one    *)
(* shard: shards share nothing but the two channels.  Fan-outs run one at  *)
(* a time and a client's breaker kicks are merged: a second concurrent one *)
(* only repeats the same steps.                                            *)
(***************************************************************************)
EXTENDS Naturals, Sequences, FiniteSets

CONSTANTS
  Clients,     \* the connections that are ever made
  Sessions,    \* the user's login sessions
  SessionOf,   \* [Clients -> Sessions]: reconnects carry the same session
  ChanCap,     \* capacity of register and unregister (256 in the code)
  SendCap,     \* capacity of a client's Send channel (256 in the code)
  MaxSends,    \* bound on the fan-outs of a behaviour
  MaxKicks     \* bound on the administrative kicks of a behaviour

NoClient == "no client"
ASSUME NoClientAssumption == NoClient \notin Clients
ASSUME SessionAssumption == SessionOf \in [Clients -> Sessions]
ASSUME CapAssumption == ChanCap \in Nat \ {0} /\ SendCap \in Nat \ {0}
ASSUME BoundAssumption == MaxSends \in Nat /\ MaxKicks \in Nat

VARIABLES
  registry,    \* [Sessions -> client or NoClient]: shard.clients
  register,    \* the register channel
  unregister,  \* the unregister channel
  run,         \* what Run took from a channel and has not applied yet
  conn,        \* [Clients -> {"none", "open", "closed"}]: the WebSocket
  reader,      \* [Clients -> state of the handshake, then of ReadPump]
  writer,      \* [Clients -> {"off", "writing", "done"}]: WritePump
  sendOpen,    \* [Clients -> BOOLEAN]: Send has not been closed
  buffered,    \* [Clients -> 0 .. SendCap]: frames in Send
  kick,        \* [Clients -> {"none", "closing", "leaving"}]: kickClient
  sender,      \* the clients a fan-out under RLock has still to serve
  sending,     \* a fan-out holds the shard's read lock
  admin,       \* state of KickUser / KickSession
  targets,     \* the clients it is kicking
  sends,       \* fan-outs so far
  kicks        \* administrative kicks so far

channels == <<register, unregister, run>>
pumps    == <<conn, reader, writer, sendOpen, buffered, kick>>
fanOut   == <<sender, sending, sends>>
kicking  == <<admin, targets, kicks>>
vars     == <<registry, channels, pumps, fanOut, kicking>>

Idle == [op |-> "idle", client |-> NoClient]

TypeOK ==
  /\ registry \in [Sessions -> Clients \cup {NoClient}]
  /\ register \in Seq(Clients) /\ Len(register) <= ChanCap
  /\ unregister \in Seq(Clients) /\ Len(unregister) <= ChanCap
  /\ run \in {Idle} \cup [op : {"register", "unregister"}, client : Clients]
  /\ conn \in [Clients -> {"none", "open", "closed"}]
  /\ reader \in [Clients -> {"none", "registering", "reading", "leaving", "closing", "done"}]
  /\ writer \in [Clients -> {"off", "writing", "done"}]
  /\ sendOpen \in [Clients -> BOOLEAN]
  /\ buffered \in [Clients -> 0 .. SendCap]
  /\ kick \in [Clients -> {"none", "closing", "leaving"}]
  /\ sender \subseteq Clients
  /\ sending \in BOOLEAN
  /\ admin \in {"idle", "deleting", "closing"}
  /\ targets \subseteq Clients
  /\ sends \in 0 .. MaxSends
  /\ kicks \in 0 .. MaxKicks

Init == /\ registry = [s \in Sessions |-> NoClient]
        /\ register = <<>>
        /\ unregister = <<>>
        /\ run = Idle
        /\ conn = [c \in Clients |-> "none"]
        /\ reader = [c \in Clients |-> "none"]
        /\ writer = [c \in Clients |-> "off"]
        /\ sendOpen = [c \in Clients |-> TRUE]
        /\ buffered = [c \in Clients |-> 0]
        /\ kick = [c \in Clients |-> "none"]
        /\ sender = {}
        /\ sending = FALSE
        /\ admin = "idle"
        /\ targets = {}
        /\ sends = 0
        /\ kicks = 0

Registered == {c \in Clients : registry[SessionOf[c]] = c}
CloseConn(c) == conn' = [conn EXCEPT ![c] = "closed"]
-----------------------------------------------------------------------------
(* The handshake: ServeWS redeems the ticket, upgrades, makes the client,  *)
(* enqueues its registration and starts the pumps.                         *)

Upgrade(c) ==
  /\ reader[c] = "none"
  /\ conn' = [conn EXCEPT ![c] = "open"]
  /\ reader' = [reader EXCEPT ![c] = "registering"]
  /\ UNCHANGED <<registry, channels, writer, sendOpen, buffered, kick, fanOut, kicking>>

\* Mutant: the registration does not wait for room in the channel.
Register_Unbounded(c) ==
  /\ reader[c] = "registering"
  /\ register' = Append(register, c)
  /\ reader' = [reader EXCEPT ![c] = "reading"]
  /\ writer' = [writer EXCEPT ![c] = "writing"]
  /\ UNCHANGED <<registry, unregister, run, conn, sendOpen, buffered, kick, fanOut, kicking>>

\* hub.Register blocks while the channel is full.
Register(c) ==
  /\ reader[c] = "registering"
  /\ Len(register) < ChanCap
  /\ register' = Append(register, c)
  /\ reader' = [reader EXCEPT ![c] = "reading"]
  /\ writer' = [writer EXCEPT ![c] = "writing"]
  /\ UNCHANGED <<registry, unregister, run, conn, sendOpen, buffered, kick, fanOut, kicking>>
-----------------------------------------------------------------------------
(* Run: one goroutine serves both channels in whatever order select picks. *)

Take ==
  /\ run = Idle
  /\ \/ /\ register # <<>>
        /\ run' = [op |-> "register", client |-> Head(register)]
        /\ register' = Tail(register)
        /\ UNCHANGED unregister
     \/ /\ unregister # <<>>
        /\ run' = [op |-> "unregister", client |-> Head(unregister)]
        /\ unregister' = Tail(unregister)
        /\ UNCHANGED register
  /\ UNCHANGED <<registry, pumps, fanOut, kicking>>

\* The entry of the session is overwritten, whoever held it.
ApplyRegister ==
  /\ run.op = "register"
  /\ ~sending
  /\ registry' = [registry EXCEPT ![SessionOf[run.client]] = run.client]
  /\ run' = Idle
  /\ UNCHANGED <<register, unregister, pumps, fanOut, kicking>>

\* If the session has an entry, whichever client it is, the entry goes and the
\* leaving client's Send is closed (a second close is recovered).
ApplyUnregister ==
  /\ run.op = "unregister"
  /\ ~sending
  /\ LET s == SessionOf[run.client]
     IN  IF registry[s] # NoClient
         THEN /\ registry' = [registry EXCEPT ![s] = NoClient]
              /\ sendOpen' = [sendOpen EXCEPT ![run.client] = FALSE]
         ELSE UNCHANGED <<registry, sendOpen>>
  /\ run' = Idle
  /\ UNCHANGED <<register, unregister, conn, reader, writer, buffered, kick, fanOut, kicking>>
-----------------------------------------------------------------------------
(* ReadPump and WritePump.                                                 *)

\* The peer closes, is silent for PongWait, or the connection was closed here.
ReadFails(c) ==
  /\ reader[c] = "reading"
  /\ reader' = [reader EXCEPT ![c] = "leaving"]
  /\ UNCHANGED <<registry, channels, conn, writer, sendOpen, buffered, kick, fanOut, kicking>>

\* The deferred hub.Unregister blocks while the channel is full ...
ReaderUnregisters(c) ==
  /\ reader[c] = "leaving"
  /\ Len(unregister) < ChanCap
  /\ unregister' = Append(unregister, c)
  /\ reader' = [reader EXCEPT ![c] = "closing"]
  /\ UNCHANGED <<registry, register, run, conn, writer, sendOpen, buffered, kick, fanOut, kicking>>

\* ... and then the connection is closed.
ReaderCloses(c) ==
  /\ reader[c] = "closing"
  /\ reader' = [reader EXCEPT ![c] = "done"]
  /\ CloseConn(c)
  /\ UNCHANGED <<registry, channels, writer, sendOpen, buffered, kick, fanOut, kicking>>

\* Mutant: the pump returns without closing the connection.
WriterEnds_LeavesConn(c) ==
  /\ writer[c] = "writing"
  /\ writer' = [writer EXCEPT ![c] = "done"]
  /\ UNCHANGED <<registry, channels, conn, reader, sendOpen, buffered, kick, fanOut, kicking>>

\* A frame is written.
WriteFrame(c) ==
  /\ writer[c] = "writing"
  /\ buffered[c] > 0
  /\ conn[c] = "open"
  /\ buffered' = [buffered EXCEPT ![c] = @ - 1]
  /\ UNCHANGED <<registry, channels, conn, reader, writer, sendOpen, kick, fanOut, kicking>>

\* The pump ends when Send is closed and drained (after a close frame), when a
\* write or ping fails, and then closes the connection.  It never unregisters.
WriterEnds(c) ==
  /\ writer[c] = "writing"
  /\ writer' = [writer EXCEPT ![c] = "done"]
  /\ CloseConn(c)
  /\ UNCHANGED <<registry, channels, reader, sendOpen, buffered, kick, fanOut, kicking>>

\* It must end then; on an open connection a write may fail or not.
WriterMustEnd(c) ==
  /\ conn[c] = "closed" \/ (~sendOpen[c] /\ buffered[c] = 0)
  /\ WriterEnds(c)
-----------------------------------------------------------------------------
(* SendToUser, SendToUsers and Broadcast.                                  *)

SendBegin ==
  /\ ~sending
  /\ sends < MaxSends
  /\ sends' = sends + 1
  /\ sending' = TRUE
  /\ sender' = Registered
  /\ UNCHANGED <<registry, channels, pumps, kicking>>

\* Mutant: the slow client is kicked inline, under the shard's read lock.
SendOne_KicksInline(c) ==
  /\ c \in sender
  /\ sender' = sender \ {c}
  /\ IF sendOpen[c] /\ buffered[c] < SendCap
     THEN buffered' = [buffered EXCEPT ![c] = @ + 1] /\ UNCHANGED <<unregister, conn>>
     ELSE /\ Len(unregister) < ChanCap
          /\ unregister' = Append(unregister, c)
          /\ CloseConn(c)
          /\ UNCHANGED buffered
  /\ UNCHANGED <<registry, register, run, reader, writer, sendOpen, kick, sending, sends, kicking>>

\* Enqueue never blocks; a full Send channel trips the breaker and the kick
\* runs in a goroutine of its own.
SendOne(c) ==
  /\ c \in sender
  /\ sender' = sender \ {c}
  /\ IF sendOpen[c] /\ buffered[c] < SendCap
     THEN buffered' = [buffered EXCEPT ![c] = @ + 1] /\ UNCHANGED kick
     ELSE /\ kick' = [kick EXCEPT ![c] = IF @ = "none" THEN "closing" ELSE @]
          /\ UNCHANGED buffered
  /\ UNCHANGED <<registry, channels, conn, reader, writer, sendOpen, sending, sends, kicking>>

SendEnd ==
  /\ sending
  /\ sender = {}
  /\ sending' = FALSE
  /\ UNCHANGED <<registry, channels, pumps, sender, sends, kicking>>

\* kickClient: close the connection, then a blocking Unregister.
KickCloses(c) ==
  /\ kick[c] = "closing"
  /\ kick' = [kick EXCEPT ![c] = "leaving"]
  /\ CloseConn(c)
  /\ UNCHANGED <<registry, channels, reader, writer, sendOpen, buffered, fanOut, kicking>>

\* Mutant: the kick only closes the connection.
KickUnregisters_Skipped(c) ==
  /\ kick[c] = "leaving"
  /\ kick' = [kick EXCEPT ![c] = "none"]
  /\ UNCHANGED <<registry, channels, conn, reader, writer, sendOpen, buffered, fanOut, kicking>>

KickUnregisters(c) ==
  /\ kick[c] = "leaving"
  /\ Len(unregister) < ChanCap
  /\ unregister' = Append(unregister, c)
  /\ kick' = [kick EXCEPT ![c] = "none"]
  /\ UNCHANGED <<registry, register, run, conn, reader, writer, sendOpen, buffered, fanOut, kicking>>
-----------------------------------------------------------------------------
(* KickUser and KickSession, called by the admin service.                  *)

\* KickUser first collects the user's clients under the read lock.
KickUserBegin ==
  /\ admin = "idle"
  /\ kicks < MaxKicks
  /\ kicks' = kicks + 1
  /\ targets' = Registered
  /\ admin' = IF Registered = {} THEN "idle" ELSE "deleting"
  /\ UNCHANGED <<registry, channels, pumps, fanOut>>

\* Mutant: only entries still held by the oldest collected client go.
KickUserDelete_OneSession ==
  /\ admin = "deleting"
  /\ ~sending
  /\ \E c \in targets :
       /\ registry' = [registry EXCEPT ![SessionOf[c]] = NoClient]
       /\ sendOpen' = [sendOpen EXCEPT ![c] = FALSE]
  /\ admin' = "closing"
  /\ UNCHANGED <<channels, conn, reader, writer, buffered, kick, fanOut, targets, kicks>>

\* Then, under the write lock, the entries of their sessions are deleted,
\* whichever client they hold by now, and the collected clients' Send closed.
KickUserDelete ==
  /\ admin = "deleting"
  /\ ~sending
  /\ LET present == {c \in targets : registry[SessionOf[c]] # NoClient}
         gone    == {SessionOf[c] : c \in present}
     IN  /\ registry' = [s \in Sessions |-> IF s \in gone THEN NoClient ELSE registry[s]]
         /\ sendOpen' = [c \in Clients |-> c \notin present /\ sendOpen[c]]
  /\ admin' = "closing"
  /\ UNCHANGED <<channels, conn, reader, writer, buffered, kick, fanOut, targets, kicks>>

\* KickSession deletes and closes under one write lock.
KickSession(s) ==
  /\ admin = "idle"
  /\ kicks < MaxKicks
  /\ ~sending
  /\ registry[s] # NoClient
  /\ kicks' = kicks + 1
  /\ targets' = {registry[s]}
  /\ registry' = [registry EXCEPT ![s] = NoClient]
  /\ sendOpen' = [sendOpen EXCEPT ![registry[s]] = FALSE]
  /\ admin' = "closing"
  /\ UNCHANGED <<channels, conn, reader, writer, buffered, kick, fanOut>>

\* Outside the lock the connections are closed, one by one.
KickConnClose(c) ==
  /\ admin = "closing"
  /\ c \in targets
  /\ CloseConn(c)
  /\ targets' = targets \ {c}
  /\ admin' = IF targets = {c} THEN "idle" ELSE "closing"
  /\ UNCHANGED <<registry, channels, reader, writer, sendOpen, buffered, kick, fanOut, kicks>>
-----------------------------------------------------------------------------
Run == Take \/ ApplyRegister \/ ApplyUnregister
Sender == SendEnd \/ \E c \in Clients : SendOne(c)
Kicker(c) == KickCloses(c) \/ KickUnregisters(c)
Reader(c) == \/ Register(c) \/ ReaderUnregisters(c) \/ ReaderCloses(c)
             \/ conn[c] = "closed" /\ ReadFails(c)
Writer(c) == WriteFrame(c) \/ WriterMustEnd(c)
Admin == KickUserDelete \/ \E c \in Clients : KickConnClose(c)

Next ==
  \/ Run \/ Sender \/ SendBegin \/ Admin \/ KickUserBegin
  \/ \E s \in Sessions : KickSession(s)
  \/ \E c \in Clients : \/ Upgrade(c) \/ Reader(c) \/ ReadFails(c)
                        \/ Writer(c) \/ WriterEnds(c) \/ Kicker(c)

\* Every goroutine is scheduled; peers, senders and admins act at will.
Fairness ==
  /\ WF_vars(Run) /\ WF_vars(Sender) /\ WF_vars(Admin)
  /\ \A c \in Clients : WF_vars(Kicker(c)) /\ WF_vars(Reader(c)) /\ WF_vars(Writer(c))

Spec == Init /\ [][Next]_vars /\ Fairness
-----------------------------------------------------------------------------
(* KickUser and KickSession are synchronous: once the entries are deleted, *)
(* none of the clients being kicked is registered, and none comes back     *)
(* while its connection is still being closed.                             *)
KickedIsUnregistered == admin = "closing" => targets \cap Registered = {}

(* Whatever trips first (a closed connection, a closed Send, one pump's    *)
(* end), both pumps end and the connection is closed: nothing leaks.       *)
TeardownCompletes ==
  \A c \in Clients :
    (conn[c] = "closed" \/ ~sendOpen[c] \/ reader[c] = "leaving" \/ writer[c] = "done") ~>
      (conn[c] = "closed" /\ reader[c] = "done" /\ writer[c] = "done")

(* The breaker never deadlocks: a fan-out holding the read lock finishes   *)
(* even when every client is slow and the unregister channel is full.      *)
FanOutFinishes == sending ~> ~sending

(* The breaker gets rid of the client it tripped on, also of one whose     *)
(* registration was applied after its pumps had ended.                     *)
BreakerDrops == \A c \in Clients : kick[c] # "none" ~> c \notin Registered

(* Between events, IsOnline answers for exactly the live connections.      *)
Quiet == /\ register = <<>> /\ unregister = <<>> /\ run = Idle
         /\ \A c \in Clients : kick[c] = "none"
         /\ admin = "idle"

(* IsOnline "checks if a user has any active session": an open connection  *)
(* whose registration was applied is reachable through the registry.       *)
ActiveIsOnline ==
  Quiet => \A c \in Clients :
             reader[c] = "reading" /\ conn[c] = "open" =>
               registry[SessionOf[c]] # NoClient

(* The other direction: nobody is online through a connection that ended.  *)
OnlineIsActive == Quiet => \A c \in Registered : reader[c] # "done"
=============================================================================
