------------------------------ MODULE MCLiveness ------------------------------
(***************************************************************************)
(* What must eventually happen in the relay, the hub and the web client's  *)
(* session, checked in one run on small instances of the three.  They      *)
(* share no state here, so a behaviour takes the steps of one of them,     *)
(* which part chooses at the start, and fairness is asked of that one.     *)
(***************************************************************************)
EXTENDS Integers, Sequences, FiniteSets, TLC

CONSTANTS c1, c2, m1, m3, s1, k1, k2, None

VARIABLES part,
  \* Relay
  table, lastSeq, window, queue, pc, frame, seq, res, acked, pushed, crashes,
  \* Hub
  registry, register, unregister, run, conn, reader, writer, sendOpen, buffered, kick,
  sender, sending, admin, targets, sends, kicks,
  \* Session
  storage, user, expired, form, calls, refresh, link, logins, valid, rotation

rvars == <<table, lastSeq, window, queue, pc, frame, seq, res, acked, pushed, crashes>>
hvars == <<registry, register, unregister, run, conn, reader, writer, sendOpen, buffered, kick,
           sender, sending, admin, targets, sends, kicks>>
svars == <<storage, user, expired, form, calls, refresh, link, logins, valid, rotation>>
vars == <<part, rvars, hvars, svars>>

\* two messages, one of them without a stanza, over two connections
R == INSTANCE Relay WITH Conns <- {c1, c2}, Frames <- {m1, m3},
       StanzaOf <- (m1 :> "a") @@ (m3 :> ""), NoStanza <- "", WindowCap <- 1, QueueCap <- 1,
       FanOutMayFail <- TRUE, MaxSeq <- 2, MaxCrashes <- 1
\* a connection and its reconnect
H == INSTANCE Hub WITH Clients <- {c1, c2}, Sessions <- {s1}, SessionOf <- (c1 :> s1) @@ (c2 :> s1),
       ChanCap <- 1, SendCap <- 1, MaxSends <- 2, MaxKicks <- 0
\* one login
S == INSTANCE Session WITH Calls <- 1..2, Socks <- {k1, k2}, MaxLogins <- 1

Init == /\ part \in {"relay", "hub", "session"}
        /\ R!Init /\ H!Init /\ S!Init

Next ==
  \/ part = "relay" /\ R!Next /\ UNCHANGED <<part, hvars, svars>>
  \/ part = "hub" /\ H!Next /\ UNCHANGED <<part, rvars, svars>>
  \/ part = "session" /\ S!Next /\ UNCHANGED <<part, rvars, hvars>>

\* read goroutines run and relay's timer fires; a statement may wait for ever
RelayFairness == \A c \in {c1, c2} : WF_rvars(part = "relay" /\ R!Scheduled(c))

\* Run, the pumps, fan-outs and kicks are goroutines that run
HubFairness ==
  /\ WF_hvars(part = "hub" /\ H!Run) /\ WF_hvars(part = "hub" /\ H!Sender)
  /\ WF_hvars(part = "hub" /\ H!Admin)
  /\ \A c \in {c1, c2} : /\ WF_hvars(part = "hub" /\ H!Kicker(c))
                        /\ WF_hvars(part = "hub" /\ H!Reader(c))
                        /\ WF_hvars(part = "hub" /\ H!Writer(c))

\* apiClient's calls are answered or time out, and the timers fire; the refresh
\* is a bare post without a timeout
SessionFairness ==
  /\ \A c \in 1..2 : WF_svars(part = "session" /\ S!Answer(c))
  /\ WF_svars(part = "session" /\ S!Refreshed) /\ WF_svars(part = "session" /\ S!RefreshFailed)
  /\ WF_svars(part = "session" /\ S!Ping) /\ WF_svars(part = "session" /\ S!PongTimeout)

Spec == Init /\ [][Next]_vars /\ RelayFairness /\ HubFairness /\ SessionFairness

-----------------------------------------------------------------------------
\* The wait for a writer that makes no progress ends: only a statement of its own can hold
\* a connection.
NoConnectionHangs == R!NoConnectionHangs

\* Whichever part of a connection fails first, both pumps end and the socket is closed.
TeardownCompletes == H!TeardownCompletes

\* A fan-out under the read lock finishes though clients are slow and the channel is full.
FanOutFinishes == H!FanOutFinishes

\* The client that tripped the breaker leaves the registry.
BreakerDrops == H!BreakerDrops

\* Refreshing, queueing and replaying calls of the client do not go round for ever, as long
\* as every refresh is answered.
EveryCallSettles == S!EveryCallSettles

\* The client closes a socket that is dead.
DeadSocketNoticed == S!DeadSocketNoticed
=============================================================================
