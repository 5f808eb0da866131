------------------------------ MODULE Hub_proofs ------------------------------
(***************************************************************************)
(* For any number of connections, sessions, fan-outs and kicks and any     *)
(* capacities: Hub keeps its types and channel bounds, and no client that  *)
(* is being kicked is registered once the entries have been deleted.       *)
(* Two promises that are false on the code hold under a condition each:    *)
(* every live connection is online if no two share a login session, and    *)
(* nobody is online through a dead one if registrations are taken first.   *)
(***************************************************************************)
EXTENDS Hub, SequenceTheorems, TLAPS

\* A registration of c was enqueued and has not been applied.
InChan(q, c) == \E i \in 1 .. Len(q) : q[i] = c
Waiting(c) == (run.op = "register" /\ run.client = c) \/ InChan(register, c)
\* c's handshake is over, so it will not enqueue a registration any more
Entered(c) == reader[c] \notin {"none", "registering"}

\* A connection's registration is enqueued once.
OnceInv == /\ \A i, j \in 1 .. Len(register) : register[i] = register[j] => i = j
           /\ run.op = "register" => ~InChan(register, run.client)

\* Who waits to be registered is neither in the registry nor being kicked.
WaitInv == \A c \in Clients : Waiting(c) => /\ Entered(c)
                                            /\ c \notin Registered \cup targets
HeldInv == \A c \in Registered \cup targets : Entered(c)

\* An entry holds a connection of its own session.
EntryInv == \A s \in Sessions : registry[s] # NoClient => SessionOf[registry[s]] = s

Inv == OnceInv /\ WaitInv /\ HeldInv /\ EntryInv /\ KickedIsUnregistered
IInv == TypeOK /\ Inv
-----------------------------------------------------------------------------
LEMMA InitOK == Init => IInv
  <1> SUFFICES ASSUME Init PROVE IInv
    OBVIOUS
  <1> USE DEF Init
  <1>1. TypeOK
    <2>1. CapAssumption /\ BoundAssumption
      BY CapAssumption, BoundAssumption
    <2>2. sendOpen \in [Clients -> BOOLEAN] /\ sending \in BOOLEAN
      BY Zenon
    <2>3. buffered \in [Clients -> 0 .. SendCap] /\ sends \in 0 .. MaxSends /\ kicks \in 0 .. MaxKicks
      BY <2>1 DEF CapAssumption, BoundAssumption
    <2>4. /\ register \in Seq(Clients) /\ Len(register) <= ChanCap
          /\ unregister \in Seq(Clients) /\ Len(unregister) <= ChanCap
      BY <2>1, EmptySeq DEF CapAssumption
    <2> QED BY <2>2, <2>3, <2>4 DEF TypeOK
  <1>2. Registered = {} /\ targets = {}
    BY NoClientAssumption, SessionAssumption DEF Registered
  <1>3. \A c \in Clients : ~Waiting(c)
    BY DEF Waiting, InChan, Idle
  <1> QED BY <1>1, <1>2, <1>3
          DEF IInv, Inv, OnceInv, WaitInv, HeldInv, EntryInv, KickedIsUnregistered, Idle

\* What one more or one fewer frame makes of a channel.
LEMMA Channels ==
  ASSUME NEW q \in Seq(Clients)
  PROVE  /\ \A c \in Clients : /\ Append(q, c) \in Seq(Clients)
                               /\ Len(Append(q, c)) = Len(q) + 1
                               /\ \A i \in 1 .. Len(q) : Append(q, c)[i] = q[i]
                               /\ Append(q, c)[Len(q) + 1] = c
         /\ q # <<>> => /\ Head(q) \in Clients /\ Head(q) = q[1] /\ Tail(q) \in Seq(Clients)
                        /\ Len(q) >= 1 /\ Len(Tail(q)) = Len(q) - 1
                        /\ \A i \in 1 .. Len(Tail(q)) : Tail(q)[i] = q[i + 1]
  <1>1. ASSUME NEW c \in Clients
        PROVE  /\ Append(q, c) \in Seq(Clients)
               /\ Len(Append(q, c)) = Len(q) + 1
               /\ \A i \in 1 .. Len(q) : Append(q, c)[i] = q[i]
               /\ Append(q, c)[Len(q) + 1] = c
    BY AppendProperties
  <1>2. ASSUME q # <<>>
        PROVE  /\ Head(q) \in Clients /\ Head(q) = q[1] /\ Tail(q) \in Seq(Clients)
               /\ Len(q) >= 1 /\ Len(Tail(q)) = Len(q) - 1
               /\ \A i \in 1 .. Len(Tail(q)) : Tail(q)[i] = q[i + 1]
    BY <1>2, HeadTailProperties, EmptySeq
  <1> QED BY <1>1, <1>2
-----------------------------------------------------------------------------
(* The types.                                                              *)

LEMMA RunTypes ==
  ASSUME TypeOK, Run PROVE TypeOK'
  <1> USE DEF TypeOK
  <1>1. CASE Take
    <2>1. CASE /\ register # <<>> /\ run' = [op |-> "register", client |-> Head(register)]
               /\ register' = Tail(register) /\ UNCHANGED unregister
      <3>1. Head(register) \in Clients /\ register' \in Seq(Clients) /\ Len(register') <= ChanCap
        BY <2>1, Channels, CapAssumption DEF CapAssumption
      <3> QED BY <1>1, <2>1, <3>1 DEF Take, pumps, fanOut, kicking
    <2>2. CASE /\ unregister # <<>> /\ run' = [op |-> "unregister", client |-> Head(unregister)]
               /\ unregister' = Tail(unregister) /\ UNCHANGED register
      <3>1. Head(unregister) \in Clients /\ unregister' \in Seq(Clients) /\ Len(unregister') <= ChanCap
        BY <2>2, Channels, CapAssumption DEF CapAssumption
      <3> QED BY <1>1, <2>2, <3>1 DEF Take, pumps, fanOut, kicking
    <2> QED BY <1>1, <2>1, <2>2 DEF Take
  <1>2. CASE ApplyRegister
    <2>1. run.client \in Clients
      BY <1>2 DEF ApplyRegister, Idle
    <2>2. registry' \in [Sessions -> Clients \cup {NoClient}]
      BY <1>2, <2>1 DEF ApplyRegister
    <2> QED BY <1>2, <2>2 DEF ApplyRegister, pumps, fanOut, kicking
  <1>3. CASE ApplyUnregister
    <2>1. registry' \in [Sessions -> Clients \cup {NoClient}]
      BY <1>3 DEF ApplyUnregister
    <2>2. sendOpen' \in [Clients -> BOOLEAN]
      BY <1>3 DEF ApplyUnregister
    <2> QED BY <1>3, <2>1, <2>2 DEF ApplyUnregister, fanOut, kicking
  <1> QED BY <1>1, <1>2, <1>3 DEF Run

\* One pump, handshake or breaker step of one connection.
LEMMA PumpTypes ==
  ASSUME TypeOK, NEW c \in Clients,
         Upgrade(c) \/ Reader(c) \/ ReadFails(c) \/ Writer(c) \/ WriterEnds(c) \/ Kicker(c)
  PROVE  TypeOK'
  <1> USE DEF TypeOK
  <1>1. CASE Upgrade(c)
    BY <1>1 DEF Upgrade, channels, fanOut, kicking
  <1>2. CASE Register(c)
    <2>1. register' \in Seq(Clients) /\ Len(register') <= ChanCap
      BY <1>2, Channels, CapAssumption DEF Register, CapAssumption
    <2> QED BY <1>2, <2>1 DEF Register, fanOut, kicking
  <1>3. CASE ReaderUnregisters(c)
    <2>1. unregister' \in Seq(Clients) /\ Len(unregister') <= ChanCap
      BY <1>3, Channels, CapAssumption DEF ReaderUnregisters, CapAssumption
    <2> QED BY <1>3, <2>1 DEF ReaderUnregisters, fanOut, kicking
  <1>4. CASE KickUnregisters(c)
    <2>1. unregister' \in Seq(Clients) /\ Len(unregister') <= ChanCap
      BY <1>4, Channels, CapAssumption DEF KickUnregisters, CapAssumption
    <2> QED BY <1>4, <2>1 DEF KickUnregisters, fanOut, kicking
  <1>5. CASE ReadFails(c)
    BY <1>5 DEF ReadFails, channels, fanOut, kicking
  <1>6. CASE ReaderCloses(c) \/ WriterEnds(c) \/ KickCloses(c)
    BY <1>6 DEF ReaderCloses, WriterEnds, KickCloses, CloseConn, channels, fanOut, kicking
  <1>7. CASE WriteFrame(c)
    <2>1. buffered' \in [Clients -> 0 .. SendCap]
      BY <1>7, CapAssumption DEF WriteFrame, CapAssumption
    <2> QED BY <1>7, <2>1 DEF WriteFrame, channels, fanOut, kicking
  <1> QED BY <1>1, <1>2, <1>3, <1>4, <1>5, <1>6, <1>7 DEF Reader, Writer, WriterMustEnd, Kicker

\* A fan-out.
LEMMA SenderTypes ==
  ASSUME TypeOK, Sender \/ SendBegin PROVE TypeOK'
  <1> USE DEF TypeOK
  <1>1. CASE SendBegin
    <2>1. sends' \in 0 .. MaxSends /\ sending' \in BOOLEAN /\ sender' \subseteq Clients
      BY <1>1, BoundAssumption DEF SendBegin, BoundAssumption, Registered
    <2> QED BY <1>1, <2>1 DEF SendBegin, channels, pumps, kicking
  <1>2. CASE SendEnd
    <2>1. sending' \in BOOLEAN
      BY <1>2 DEF SendEnd
    <2> QED BY <1>2, <2>1 DEF SendEnd, channels, pumps, kicking
  <1>3. ASSUME NEW c \in Clients, SendOne(c) PROVE TypeOK'
    <2>1. buffered' \in [Clients -> 0 .. SendCap]
      BY <1>3, CapAssumption DEF SendOne, CapAssumption
    <2>2. kick' \in [Clients -> {"none", "closing", "leaving"}] /\ sender' \subseteq Clients
      BY <1>3 DEF SendOne
    <2> QED BY <1>3, <2>1, <2>2 DEF SendOne, channels, kicking
  <1> QED BY <1>1, <1>2, <1>3 DEF Sender

\* An administrative kick.
LEMMA AdminTypes ==
  ASSUME TypeOK, Admin \/ KickUserBegin \/ \E s \in Sessions : KickSession(s)
  PROVE  TypeOK'
  <1> USE DEF TypeOK
  <1>1. CASE KickUserBegin
    <2>1. kicks' \in 0 .. MaxKicks /\ targets' \subseteq Clients
      BY <1>1, BoundAssumption DEF KickUserBegin, BoundAssumption, Registered
    <2> QED BY <1>1, <2>1 DEF KickUserBegin, channels, pumps, fanOut
  <1>2. CASE KickUserDelete
    <2>1. registry' \in [Sessions -> Clients \cup {NoClient}]
      BY <1>2 DEF KickUserDelete
    <2>2. sendOpen' \in [Clients -> BOOLEAN]
      BY <1>2 DEF KickUserDelete
    <2> QED BY <1>2, <2>1, <2>2 DEF KickUserDelete, channels, fanOut
  <1>3. ASSUME NEW c \in Clients, KickConnClose(c) PROVE TypeOK'
    BY <1>3 DEF KickConnClose, CloseConn, channels, fanOut
  <1>4. ASSUME NEW s \in Sessions, KickSession(s) PROVE TypeOK'
    <2>1. kicks' \in 0 .. MaxKicks /\ targets' \subseteq Clients
      BY <1>4, BoundAssumption DEF KickSession, BoundAssumption
    <2>2. /\ registry' \in [Sessions -> Clients \cup {NoClient}]
          /\ sendOpen' \in [Clients -> BOOLEAN]
      BY <1>4 DEF KickSession
    <2> QED BY <1>4, <2>1, <2>2 DEF KickSession, channels, fanOut
  <1> QED BY <1>1, <1>2, <1>3, <1>4 DEF Admin

LEMMA NextTypeOK == TypeOK /\ [Next]_vars => TypeOK'
  <1>1. ASSUME TypeOK, UNCHANGED vars PROVE TypeOK'
    BY <1>1 DEF TypeOK, vars, channels, pumps, fanOut, kicking
  <1> QED BY <1>1, RunTypes, PumpTypes, SenderTypes, AdminTypes DEF Next
-----------------------------------------------------------------------------
(* Who is being kicked stays unregistered.                                 *)

\* Steps that leave the registry, the registrations and the kick alone.
LEMMA Aside ==
  ASSUME IInv, UNCHANGED <<registry, register, run>>,
         \A c \in Clients : Entered(c) => Entered(c)',
         targets' \subseteq targets, admin' \in {"idle", admin}
  PROVE  Inv'
  <1> USE DEF IInv, Inv
  <1>1. OnceInv' /\ EntryInv' /\ (Registered' = Registered)
    BY DEF OnceInv, EntryInv, InChan, Registered
  <1>2. \A c \in Clients : Waiting(c)' <=> Waiting(c)
    BY DEF Waiting, InChan
  <1>3. WaitInv' /\ HeldInv'
    BY <1>1, <1>2 DEF WaitInv, HeldInv, Registered, TypeOK
  <1>4. KickedIsUnregistered'
    BY <1>1 DEF KickedIsUnregistered
  <1> QED BY <1>1, <1>3, <1>4

\* The handshake's registration joins the channel, for the first time.
LEMMA RegisterInv ==
  ASSUME IInv, NEW c \in Clients, Register(c) PROVE Inv'
  <1> USE DEF IInv, Inv
  <1>1. /\ register \in Seq(Clients) /\ Len(register) \in Nat /\ register' = Append(register, c)
        /\ Len(register') = Len(register) + 1 /\ register'[Len(register) + 1] = c
        /\ \A i \in 1 .. Len(register) : register'[i] = register[i]
        /\ UNCHANGED <<registry, run, targets, admin>>
    BY Channels, LenProperties DEF Register, TypeOK, kicking
  <1>2. ~Entered(c) /\ \A d \in Clients : Entered(d) \/ d = c => Entered(d)'
    BY DEF Register, Entered, TypeOK
  <1>3. ~Waiting(c) /\ c \notin Registered \cup targets
    BY <1>2 DEF WaitInv, HeldInv
  <1>4. \A d \in Clients : InChan(register', d) <=> InChan(register, d) \/ d = c
    BY <1>1 DEF InChan
  <1>5. OnceInv'
    <2>1. \A i, j \in 1 .. Len(register') : register'[i] = register'[j] => i = j
      BY <1>1, <1>3 DEF OnceInv, Waiting, InChan
    <2>2. run'.op = "register" => ~InChan(register', run'.client)
      BY <1>1, <1>3, <1>4 DEF OnceInv, Waiting, TypeOK, Idle
    <2> QED BY <2>1, <2>2 DEF OnceInv
  <1>6. Registered' = Registered /\ EntryInv' /\ KickedIsUnregistered'
    BY <1>1 DEF Registered, EntryInv, KickedIsUnregistered
  <1>7. WaitInv' /\ HeldInv'
    BY <1>1, <1>2, <1>3, <1>4, <1>6 DEF WaitInv, HeldInv, Waiting, Registered, TypeOK
  <1> QED BY <1>5, <1>6, <1>7

\* Run takes a frame, registers its client, or removes an entry.
LEMMA RunInv ==
  ASSUME IInv, Run PROVE Inv'
  <1> USE DEF IInv, Inv
  <1>1. UNCHANGED <<reader, targets, admin>>
    BY DEF Run, Take, ApplyRegister, ApplyUnregister, pumps, kicking
  <1>2. CASE Take
    <2>1. UNCHANGED registry /\ Registered' = Registered
      BY <1>2 DEF Take, Registered
    <2>2. EntryInv' /\ KickedIsUnregistered' /\ HeldInv'
      BY <1>1, <2>1 DEF EntryInv, KickedIsUnregistered, HeldInv, Entered
    <2>3. OnceInv' /\ \A c \in Clients : Waiting(c)' => Waiting(c)
      <3>1. CASE /\ register # <<>> /\ run' = [op |-> "register", client |-> Head(register)]
                 /\ register' = Tail(register)
        <4>1. /\ Len(register) \in Nat /\ Len(register) >= 1 /\ Len(register') = Len(register) - 1
              /\ \A i \in 1 .. Len(register') : register'[i] = register[i + 1]
              /\ run'.op = "register" /\ run'.client = register[1]
          BY <3>1, Channels, LenProperties DEF TypeOK
        <4>2. \A i, j \in 1 .. Len(register') : register'[i] = register'[j] => i = j
          BY <4>1 DEF OnceInv
        <4>3. ~InChan(register', run'.client)
          BY <4>1 DEF OnceInv, InChan
        <4>4. \A c \in Clients : Waiting(c)' => Waiting(c)
          BY <4>1 DEF Waiting, InChan
        <4> QED BY <4>2, <4>3, <4>4 DEF OnceInv
      <3>2. CASE run'.op = "unregister" /\ UNCHANGED register
        BY <3>2 DEF OnceInv, Waiting, InChan
      <3> QED BY <1>2, <3>1, <3>2 DEF Take
    <2>4. WaitInv'
      BY <1>1, <2>1, <2>3 DEF WaitInv, Entered
    <2> QED BY <2>2, <2>3, <2>4
  <1>3. CASE ApplyRegister
    <2> DEFINE c == run.client
               s == SessionOf[run.client]
    <2>1. /\ c \in Clients /\ s \in Sessions /\ Waiting(c) /\ ~InChan(register, c)
          /\ run' = Idle /\ UNCHANGED register /\ registry' = [registry EXCEPT ![s] = c]
      BY <1>3, SessionAssumption DEF ApplyRegister, Waiting, OnceInv, TypeOK, Idle
    <2>2. Entered(c) /\ c \notin targets
      BY <2>1 DEF WaitInv
    <2> HIDE DEF c, s
    <2>3. Registered' \subseteq Registered \cup {c}
      BY <2>1, SessionAssumption DEF Registered, TypeOK
    <2>4. \A d \in Clients : Waiting(d)' => Waiting(d) /\ d # c
      BY <2>1 DEF Waiting, InChan, Idle
    <2>5. OnceInv'
      BY <2>1 DEF OnceInv, InChan, Idle
    <2>6. WaitInv' /\ HeldInv' /\ KickedIsUnregistered'
      BY <1>1, <2>2, <2>3, <2>4 DEF WaitInv, HeldInv, KickedIsUnregistered, Entered
    <2>7. EntryInv'
      <3>1. SessionOf[c] = s
        BY DEF c, s
      <3> QED BY <2>1, <3>1 DEF EntryInv, TypeOK
    <2> QED BY <2>5, <2>6, <2>7
  <1>4. CASE ApplyUnregister
    <2> DEFINE s == SessionOf[run.client]
    <2>1. run' = Idle /\ UNCHANGED register
          /\ (registry' = registry \/ registry' = [registry EXCEPT ![s] = NoClient])
      BY <1>4 DEF ApplyUnregister
    <2> HIDE DEF s
    <2>2. \A r \in Sessions : registry'[r] \in {registry[r], NoClient}
      BY <2>1 DEF TypeOK
    <2>3. Registered' \subseteq Registered
      <3> SUFFICES ASSUME NEW d \in Clients, registry'[SessionOf[d]] = d
                   PROVE  registry[SessionOf[d]] = d
        BY DEF Registered
      <3>1. SessionOf[d] \in Sessions /\ d # NoClient
        BY SessionAssumption, NoClientAssumption
      <3> QED BY <2>2, <3>1
    <2>4. EntryInv'
      BY <2>2 DEF EntryInv
    <2>5. OnceInv' /\ \A d \in Clients : Waiting(d)' => Waiting(d)
      <3>1. run'.op # "register" /\ \A d \in Clients : InChan(register, d)' <=> InChan(register, d)
        BY <2>1 DEF Idle, InChan
      <3>2. OnceInv'
        BY <2>1, <3>1 DEF OnceInv
      <3>3. ASSUME NEW d \in Clients, Waiting(d)' PROVE Waiting(d)
        BY <3>1, <3>3 DEF Waiting
      <3> QED BY <3>2, <3>3
    <2> QED BY <1>1, <2>3, <2>4, <2>5 DEF WaitInv, HeldInv, KickedIsUnregistered, Entered
  <1> QED BY <1>2, <1>3, <1>4 DEF Run

\* Steps of a kick that change the registry or choose whom to kick.
LEMMA KickInv ==
  ASSUME IInv, KickUserBegin \/ KickUserDelete \/ \E s \in Sessions : KickSession(s)
  PROVE  Inv'
  <1> USE DEF IInv, Inv
  <1>1. UNCHANGED <<reader, register, run>>
    BY DEF KickUserBegin, KickUserDelete, KickSession, channels, pumps
  <1>2. OnceInv' /\ \A c \in Clients : (Waiting(c)' <=> Waiting(c)) /\ (Entered(c)' <=> Entered(c))
    BY <1>1 DEF OnceInv, Waiting, InChan, Entered
  <1>3. CASE KickUserBegin
    <2>1. Registered' = Registered /\ targets' = Registered /\ admin' # "closing" /\ EntryInv'
      BY <1>3 DEF KickUserBegin, Registered, EntryInv
    <2> QED BY <1>2, <2>1 DEF WaitInv, HeldInv, KickedIsUnregistered, Registered
  <1>4. CASE KickUserDelete
    <2>1. \A c \in Clients : c \in Registered' => c \in Registered /\ c \notin targets
      BY <1>4, NoClientAssumption, SessionAssumption
         DEF KickUserDelete, Registered, TypeOK, NoClientAssumption
    <2>2. EntryInv' /\ targets' = targets
      BY <1>4 DEF KickUserDelete, EntryInv
    <2> QED BY <1>2, <2>1, <2>2 DEF WaitInv, HeldInv, KickedIsUnregistered, Registered, TypeOK
  <1>5. ASSUME NEW s \in Sessions, KickSession(s) PROVE Inv'
    <2> DEFINE c == registry[s]
    <2>1. c \in Clients /\ SessionOf[c] = s /\ c \in Registered
      BY <1>5 DEF KickSession, EntryInv, TypeOK, Registered
    <2>2. registry' = [registry EXCEPT ![s] = NoClient] /\ targets' = {c}
      BY <1>5 DEF KickSession
    <2> HIDE DEF c
    <2>3. Registered' \subseteq Registered \ {c} /\ EntryInv'
      BY <2>1, <2>2, NoClientAssumption, SessionAssumption DEF Registered, EntryInv, TypeOK, NoClientAssumption
    <2> QED BY <1>2, <2>1, <2>2, <2>3 DEF WaitInv, HeldInv, KickedIsUnregistered, Registered
  <1> QED BY <1>3, <1>4, <1>5

LEMMA NextInv == IInv /\ [Next]_vars => Inv'
  <1> SUFFICES ASSUME IInv, [Next]_vars PROVE Inv'
    OBVIOUS
  <1>1. ASSUME UNCHANGED <<registry, register, run, reader, targets, admin>> PROVE Inv'
    BY <1>1, Aside DEF Entered
  <1>2. CASE Sender \/ SendBegin
    BY <1>1, <1>2 DEF Sender, SendBegin, SendOne, SendEnd, channels, pumps, kicking
  <1>3. ASSUME NEW c \in Clients, KickConnClose(c) PROVE Inv'
    BY <1>3, Aside DEF KickConnClose, channels, Entered
  <1>4. ASSUME NEW c \in Clients,
               Upgrade(c) \/ ReaderUnregisters(c) \/ ReaderCloses(c) \/ ReadFails(c)
        PROVE  Inv'
    <2>1. UNCHANGED <<registry, register, run, targets, admin>>
      BY <1>4 DEF Upgrade, ReaderUnregisters, ReaderCloses, ReadFails, channels, kicking
    <2>2. \A d \in Clients : Entered(d) => Entered(d)'
      BY <1>4 DEF Upgrade, ReaderUnregisters, ReaderCloses, ReadFails, Entered, IInv, TypeOK
    <2> QED BY <2>1, <2>2, Aside
  <1>5. ASSUME NEW c \in Clients, Writer(c) \/ WriterEnds(c) \/ Kicker(c) PROVE Inv'
    BY <1>1, <1>5 DEF Writer, WriteFrame, WriterMustEnd, WriterEnds, Kicker, KickCloses,
                      KickUnregisters, channels, kicking
  <1>6. CASE UNCHANGED vars
    BY <1>1, <1>6 DEF vars, channels, pumps, kicking
  <1> QED BY <1>2, <1>3, <1>4, <1>5, <1>6, RegisterInv, RunInv, KickInv DEF Next, Reader, Admin

LEMMA Always == Spec => []IInv
  <1>1. IInv /\ [Next]_vars => IInv'
    BY NextTypeOK, NextInv DEF IInv
  <1> QED BY <1>1, InitOK, PTL DEF Spec
-----------------------------------------------------------------------------
\* Every variable keeps its type; no channel exceeds its capacity (hub.go).
THEOREM TypeCorrect == Spec => []TypeOK
  <1>1. IInv => TypeOK
    BY DEF IInv
  <1> QED BY <1>1, Always, PTL

\* From the deletion of its entry on, a client being kicked is not registered and
\* no late registration brings it back (KickUser and KickSession of hub.go).
THEOREM KickedStaysOut == Spec => []KickedIsUnregistered
  <1>1. IInv => KickedIsUnregistered
    BY DEF IInv, Inv
  <1> QED BY <1>1, Always, PTL
-----------------------------------------------------------------------------
(* IsOnline.  ActiveIsOnline and OnlineIsActive are false on the code; each *)
(* of them has one cause, and without it holds.                             *)

\* The cause of the first: a reconnect has the session of the connection it replaces.
OneConnectionPerSession == \A c, d \in Clients : SessionOf[c] = SessionOf[d] => c = d

\* The cause of the second: select may take an unregistration before older registrations.
RegistrationsFirst == [][Take /\ run'.op = "unregister" => register = <<>>]_vars

Leaving(c) == (run.op = "unregister" /\ run.client = c) \/ InChan(unregister, c)
\* c's connection is closed, or its reader has ended, and neither will change
Ended(c) == Entered(c) /\ (reader[c] # "reading" \/ conn[c] = "closed")

\* Only a client that has ended is unregistered.
EndInv == \A c \in Clients :
  /\ c \in sender \/ kick[c] # "none" => Entered(c)
  /\ kick[c] = "leaving" \/ Leaving(c) => Ended(c)

\* A client that has not ended is on its way into the registry, in it or being kicked.
ReachInv == \A c \in Clients :
  reader[c] = "reading" /\ conn[c] = "open" =>
    Waiting(c) \/ c \in Registered \/ (admin = "closing" /\ c \in targets)

\* A client whose reader has ended is on its way out, and not behind itself.
LeftInv ==
  /\ \A c \in Clients : reader[c] \in {"closing", "done"} /\ (Waiting(c) \/ c \in Registered) => Leaving(c)
  /\ run.op = "unregister" => ~InChan(register, run.client)

\* A frame joins a channel, or leaves it and is taken by Run.
LEMMA Joins ==
  ASSUME NEW q \in Seq(Clients), NEW c \in Clients
  PROVE  \A d \in Clients : InChan(Append(q, c), d) <=> InChan(q, d) \/ d = c
  <1>1. /\ Len(q) \in Nat /\ Len(Append(q, c)) = Len(q) + 1 /\ Append(q, c)[Len(q) + 1] = c
        /\ \A i \in 1 .. Len(q) : Append(q, c)[i] = q[i]
    BY Channels, LenProperties
  <1> QED BY <1>1 DEF InChan

LEMMA Leaves ==
  ASSUME NEW q \in Seq(Clients), q # <<>>
  PROVE  Head(q) \in Clients /\ \A d \in Clients : InChan(q, d) <=> InChan(Tail(q), d) \/ d = Head(q)
  <1>1. /\ Len(q) \in Nat /\ Len(q) >= 1 /\ Len(Tail(q)) = Len(q) - 1
        /\ Head(q) \in Clients /\ Head(q) = q[1] /\ \A i \in 1 .. Len(Tail(q)) : Tail(q)[i] = q[i + 1]
    BY Channels, LenProperties
  <1>2. ASSUME NEW d \in Clients, InChan(q, d)
        PROVE  InChan(Tail(q), d) \/ d = Head(q)
    <2>1. PICK i \in 1 .. Len(q) : q[i] = d
      BY <1>2 DEF InChan
    <2>2. CASE i = 1
      BY <1>1, <2>1, <2>2
    <2>3. CASE i # 1
      <3>1. i - 1 \in 1 .. Len(Tail(q)) /\ Tail(q)[i - 1] = d
        BY <1>1, <2>1, <2>3
      <3> QED BY <3>1 DEF InChan
    <2> QED BY <2>2, <2>3
  <1>3. ASSUME NEW d \in Clients, InChan(Tail(q), d) \/ d = Head(q)
        PROVE  InChan(q, d)
    <2>1. CASE d = Head(q)
      BY <1>1, <2>1 DEF InChan
    <2>2. ASSUME NEW i \in 1 .. Len(Tail(q)), Tail(q)[i] = d
          PROVE  InChan(q, d)
      <3>1. i + 1 \in 1 .. Len(q) /\ q[i + 1] = d
        BY <1>1, <2>2
      <3> QED BY <3>1 DEF InChan
    <2> QED BY <1>3, <2>1, <2>2 DEF InChan
  <1> QED BY <1>1, <1>2, <1>3

\* Most steps leave the two channels and Run alone.
LEMMA ChannelSteps ==
  ASSUME [Next]_vars
  PROVE  \/ Take \/ ApplyRegister \/ ApplyUnregister
         \/ \E c \in Clients : Register(c) \/ ReaderUnregisters(c) \/ KickUnregisters(c)
         \/ UNCHANGED <<register, unregister, run>>
  BY DEF Next, Run, Sender, Admin, Reader, Writer, Kicker, SendBegin, SendEnd, SendOne, KickUserBegin,
         KickUserDelete, KickSession, KickConnClose, Upgrade, ReadFails, ReaderCloses, WriteFrame,
         WriterMustEnd, WriterEnds, KickCloses, vars, channels

\* Who leaves was leaving, or one of its goroutines unregisters it now.
LEMMA LeaversStep ==
  ASSUME TypeOK, [Next]_vars, NEW c \in Clients, Leaving(c)'
  PROVE  Leaving(c) \/ ReaderUnregisters(c) \/ KickUnregisters(c)
  <1>1. CASE Take
    <2>1. CASE run'.op = "register" /\ UNCHANGED unregister
      BY <2>1 DEF Leaving, InChan
    <2>2. CASE /\ unregister # <<>> /\ run' = [op |-> "unregister", client |-> Head(unregister)]
               /\ unregister' = Tail(unregister)
      BY <2>2, Leaves DEF Leaving, TypeOK
    <2> QED BY <1>1, <2>1, <2>2 DEF Take
  <1>2. CASE ApplyRegister \/ ApplyUnregister
    BY <1>2 DEF ApplyRegister, ApplyUnregister, Leaving, InChan, Idle
  <1>3. ASSUME NEW d \in Clients, Register(d)
        PROVE  Leaving(c)
    BY <1>3 DEF Register, Leaving, InChan
  <1>4. ASSUME NEW d \in Clients, ReaderUnregisters(d) \/ KickUnregisters(d)
        PROVE  Leaving(c) \/ c = d
    <2>1. unregister' = Append(unregister, d) /\ run' = run
      BY <1>4 DEF ReaderUnregisters, KickUnregisters
    <2> QED BY <2>1, Joins DEF Leaving, TypeOK
  <1>5. CASE UNCHANGED <<register, unregister, run>>
    BY <1>5 DEF Leaving, InChan
  <1> QED BY <1>1, <1>2, <1>3, <1>4, <1>5, ChannelSteps

\* What the two pumps of a connection have done stays done.
LEMMA StaysEnded ==
  ASSUME TypeOK, [Next]_vars, NEW c \in Clients
  PROVE  (Entered(c) => Entered(c)') /\ (Ended(c) => Ended(c)')
  <1>1. ASSUME UNCHANGED reader, conn' = conn \/ \E d \in Clients : CloseConn(d)
        PROVE  (Entered(c) => Entered(c)') /\ (Ended(c) => Ended(c)')
    BY <1>1 DEF CloseConn, Entered, Ended, TypeOK
  <1>2. CASE Run \/ Sender \/ SendBegin \/ Admin \/ KickUserBegin \/ \E s \in Sessions : KickSession(s)
    BY <1>1, <1>2 DEF Run, Take, ApplyRegister, ApplyUnregister, Sender, SendBegin, SendOne, SendEnd,
                      Admin, KickUserDelete, KickConnClose, KickUserBegin, KickSession, pumps
  <1>3. ASSUME NEW d \in Clients, Writer(d) \/ WriterEnds(d) \/ Kicker(d)
        PROVE  (Entered(c) => Entered(c)') /\ (Ended(c) => Ended(c)')
    BY <1>1, <1>3 DEF Writer, WriteFrame, WriterMustEnd, WriterEnds, Kicker, KickCloses, KickUnregisters
  <1>4. ASSUME NEW d \in Clients, Upgrade(d)
        PROVE  (Entered(c) => Entered(c)') /\ (Ended(c) => Ended(c)')
    BY <1>4 DEF Upgrade, Entered, Ended, TypeOK
  <1>5. ASSUME NEW d \in Clients, Reader(d) \/ ReadFails(d)
        PROVE  (Entered(c) => Entered(c)') /\ (Ended(c) => Ended(c)')
    BY <1>5 DEF Reader, Register, ReadFails, ReaderUnregisters, ReaderCloses, CloseConn, Entered, Ended, TypeOK
  <1>6. CASE UNCHANGED vars
    BY <1>1, <1>6 DEF vars, pumps
  <1> QED BY <1>2, <1>3, <1>4, <1>5, <1>6 DEF Next

LEMMA EndStep ==
  ASSUME IInv, EndInv, [Next]_vars
  PROVE  EndInv'
  <1> USE DEF IInv
  <1>t. TypeOK /\ HeldInv
    BY DEF Inv
  <1> SUFFICES ASSUME NEW c \in Clients
               PROVE  /\ c \in sender' \/ kick'[c] # "none" => Entered(c)'
                      /\ kick'[c] = "leaving" \/ Leaving(c)' => Ended(c)'
    BY DEF EndInv
  <1>1. c \in sender' => c \in sender \/ c \in Registered
    BY <1>t DEF Next, Run, Take, ApplyRegister, ApplyUnregister, Sender, SendBegin, SendOne, SendEnd, Admin,
           KickUserDelete, KickConnClose, KickUserBegin, KickSession, Upgrade, Reader, Register, ReadFails,
           ReaderUnregisters, ReaderCloses, Writer, WriteFrame, WriterMustEnd, WriterEnds, Kicker,
           KickCloses, KickUnregisters, fanOut, vars
  <1>k. kick' = kick \/ \E d \in Clients : SendOne(d) \/ Kicker(d)
    BY DEF Next, Run, Take, ApplyRegister, ApplyUnregister, Sender, SendBegin, SendEnd, Admin,
           KickUserDelete, KickConnClose, KickUserBegin, KickSession, Upgrade, Reader, Register, ReadFails,
           ReaderUnregisters, ReaderCloses, Writer, WriteFrame, WriterMustEnd, WriterEnds, pumps, vars
  <1>2. kick'[c] # "none" => kick[c] # "none" \/ c \in sender
    <2>1. ASSUME NEW d \in Clients, SendOne(d)
          PROVE  kick'[c] = kick[c] \/ (c = d /\ c \in sender)
      BY <1>t, <2>1 DEF SendOne, TypeOK
    <2>2. ASSUME NEW d \in Clients, Kicker(d)
          PROVE  kick'[c] = kick[c] \/ kick[c] # "none"
      BY <1>t, <2>2 DEF Kicker, KickCloses, KickUnregisters, TypeOK
    <2> QED BY <1>k, <2>1, <2>2
  <1>3. c \in sender' \/ kick'[c] # "none" => Entered(c)'
    BY <1>1, <1>2, <1>t, StaysEnded DEF EndInv, HeldInv
  <1>4. kick'[c] = "leaving" => kick[c] = "leaving" \/ KickCloses(c)
    <2>1. ASSUME NEW d \in Clients, SendOne(d)
          PROVE  kick'[c] = "leaving" => kick[c] = "leaving"
      BY <1>t, <2>1 DEF SendOne, TypeOK
    <2>2. ASSUME NEW d \in Clients, Kicker(d)
          PROVE  kick'[c] = "leaving" => kick[c] = "leaving" \/ KickCloses(c)
      BY <1>t, <2>2 DEF Kicker, KickCloses, KickUnregisters, TypeOK
    <2> QED BY <1>k, <2>1, <2>2
  <1>5. ASSUME KickCloses(c)
        PROVE  Ended(c)'
    <2>1. Entered(c) /\ UNCHANGED reader /\ conn'[c] = "closed"
      BY <1>5, <1>t DEF KickCloses, CloseConn, EndInv, TypeOK
    <2> QED BY <2>1 DEF Ended, Entered
  <1>6. ASSUME ReaderUnregisters(c)
        PROVE  Ended(c)'
    BY <1>6, <1>t DEF ReaderUnregisters, Ended, Entered, TypeOK
  <1>7. ASSUME KickUnregisters(c)
        PROVE  Ended(c)
    BY <1>7 DEF KickUnregisters, EndInv
  <1> QED BY <1>3, <1>4, <1>5, <1>6, <1>7, <1>t, LeaversStep, StaysEnded DEF EndInv

LEMMA ReachStep ==
  ASSUME OneConnectionPerSession, IInv, EndInv, ReachInv, [Next]_vars
  PROVE  ReachInv'
  <1>t. TypeOK /\ EntryInv
    BY DEF IInv, Inv
  <1> SUFFICES ASSUME NEW c \in Clients, reader'[c] = "reading", conn'[c] = "open"
               PROVE  Waiting(c)' \/ c \in Registered' \/ (admin' = "closing" /\ c \in targets')
    BY DEF ReachInv
  <1>s. SessionOf[c] \in Sessions /\ \A d \in Clients : d # c => SessionOf[d] # SessionOf[c]
    BY SessionAssumption DEF OneConnectionPerSession
  <1>1. ASSUME Register(c)
        PROVE  Waiting(c)'
    <2>1. register' = Append(register, c)
      BY <1>1 DEF Register
    <2> QED BY <1>t, <2>1, Joins DEF Waiting, TypeOK
  <1>2. ASSUME ~Register(c)
        PROVE  reader[c] = "reading" /\ conn[c] = "open"
    <2>1. ASSUME NEW d \in Clients, Upgrade(d) \/ Reader(d) \/ ReadFails(d)
          PROVE  reader[c] = "reading" /\ conn[c] = "open"
      BY <1>2, <1>t, <2>1 DEF Upgrade, Reader, Register, ReadFails, ReaderUnregisters, ReaderCloses, CloseConn, TypeOK
    <2>2. CASE UNCHANGED reader /\ (conn' = conn \/ \E d \in Clients : CloseConn(d))
      BY <1>t, <2>2 DEF CloseConn, TypeOK
    <2>3. \/ UNCHANGED reader /\ (conn' = conn \/ \E d \in Clients : CloseConn(d))
          \/ \E d \in Clients : Upgrade(d) \/ Reader(d) \/ ReadFails(d)
      BY DEF Next, Run, Take, ApplyRegister, ApplyUnregister, Sender, SendBegin, SendOne, SendEnd, Admin,
             KickUserDelete, KickConnClose, KickUserBegin, KickSession, Writer, WriteFrame, WriterMustEnd,
             WriterEnds, Kicker, KickCloses, KickUnregisters, pumps, vars
    <2> QED BY <2>1, <2>2, <2>3
  <1> SUFFICES ASSUME ~Register(c)
               PROVE  Waiting(c)' \/ c \in Registered' \/ (admin' = "closing" /\ c \in targets')
    BY <1>1
  <1>3. Waiting(c) \/ c \in Registered \/ (admin = "closing" /\ c \in targets)
    BY <1>2 DEF ReachInv
  <1>4. ~Leaving(c)
    BY <1>2 DEF EndInv, Ended
\* the steps that change neither the registrations nor the kick
  <1>5. ASSUME Waiting(c) => Waiting(c)', registry'[SessionOf[c]] = registry[SessionOf[c]],
               admin = "closing" /\ c \in targets => admin' = "closing" /\ c \in targets'
        PROVE  Waiting(c)' \/ c \in Registered' \/ (admin' = "closing" /\ c \in targets')
    BY <1>3, <1>5 DEF Registered
  <1>6. CASE Take
    <2>1. Waiting(c) => Waiting(c)'
      <3>1. CASE register # <<>> /\ run' = [op |-> "register", client |-> Head(register)] /\ register' = Tail(register)
        BY <1>6, <1>t, <3>1, Leaves DEF Take, Waiting, Idle, TypeOK
      <3>2. CASE UNCHANGED register
        BY <1>6, <3>2 DEF Take, Waiting, Idle, InChan
      <3> QED BY <1>6, <3>1, <3>2 DEF Take
    <2> QED BY <1>5, <1>6, <2>1 DEF Take, kicking
  <1>7. CASE ApplyRegister
    <2>1. run.client \in Clients
      BY <1>7, <1>t DEF ApplyRegister, TypeOK, Idle
    <2>2. CASE run.client = c
      BY <1>7, <1>s, <1>t, <2>2 DEF ApplyRegister, Registered, TypeOK
    <2>3. CASE run.client # c
      <3>1. Waiting(c) => Waiting(c)'
        BY <1>7, <2>3 DEF ApplyRegister, Waiting, InChan
      <3>2. registry'[SessionOf[c]] = registry[SessionOf[c]]
        BY <1>7, <1>s, <1>t, <2>1, <2>3 DEF ApplyRegister, TypeOK
      <3> QED BY <1>5, <1>7, <3>1, <3>2 DEF ApplyRegister, kicking
    <2> QED BY <2>2, <2>3
  <1>8. CASE ApplyUnregister
    <2>1. run.client \in Clients /\ run.client # c
      BY <1>4, <1>8, <1>t DEF ApplyUnregister, TypeOK, Idle, Leaving
    <2>2. Waiting(c) => Waiting(c)'
      BY <1>8 DEF ApplyUnregister, Waiting, InChan
    <2>3. registry'[SessionOf[c]] = registry[SessionOf[c]]
      BY <1>8, <1>s, <1>t, <2>1 DEF ApplyUnregister, TypeOK
    <2> QED BY <1>5, <1>8, <2>2, <2>3 DEF ApplyUnregister, kicking
  <1>9. CASE KickUserDelete
    <2>1. Waiting(c) => Waiting(c)'
      BY <1>9 DEF KickUserDelete, channels, Waiting, InChan
    <2>2. c \in targets \/ registry'[SessionOf[c]] = registry[SessionOf[c]]
      BY <1>9, <1>s, <1>t DEF KickUserDelete, TypeOK
    <2> QED BY <1>5, <1>9, <2>1, <2>2 DEF KickUserDelete
  <1>10. ASSUME NEW s \in Sessions, KickSession(s)
         PROVE  Waiting(c)' \/ c \in Registered' \/ (admin' = "closing" /\ c \in targets')
    <2>1. Waiting(c) => Waiting(c)'
      BY <1>10 DEF KickSession, channels, Waiting, InChan
    <2>2. CASE s = SessionOf[c]
      <3>1. registry[s] \in Clients /\ SessionOf[registry[s]] = s
        BY <1>10, <1>t DEF KickSession, EntryInv, TypeOK
      <3> QED BY <1>10, <1>s, <2>2, <3>1 DEF KickSession
    <2>3. CASE s # SessionOf[c]
      BY <1>10, <1>5, <1>s, <1>t, <2>1, <2>3 DEF KickSession, TypeOK
    <2> QED BY <2>2, <2>3
  <1>11. CASE KickUserBegin
    BY <1>5, <1>11 DEF KickUserBegin, channels, Waiting, InChan
  <1>12. ASSUME NEW d \in Clients, KickConnClose(d)
         PROVE  Waiting(c)' \/ c \in Registered' \/ (admin' = "closing" /\ c \in targets')
    <2>1. d # c
      BY <1>12, <1>t DEF KickConnClose, CloseConn, TypeOK
    <2> QED BY <1>5, <1>12, <2>1 DEF KickConnClose, channels, Waiting, InChan
  <1>13. ASSUME NEW d \in Clients, Register(d)
         PROVE  Waiting(c)' \/ c \in Registered' \/ (admin' = "closing" /\ c \in targets')
    <2>1. Waiting(c) => Waiting(c)'
      BY <1>13, <1>t, Joins DEF Register, Waiting, TypeOK
    <2> QED BY <1>5, <1>13, <2>1 DEF Register, kicking
  <1>14. CASE UNCHANGED <<registry, register, run, kicking>>
    BY <1>5, <1>14 DEF kicking, Waiting, InChan
  <1> QED BY <1>6, <1>7, <1>8, <1>9, <1>10, <1>11, <1>12, <1>13, <1>14
      DEF Next, Run, Sender, SendBegin, SendOne, SendEnd, Admin, Upgrade, Reader, ReadFails, ReaderUnregisters,
          ReaderCloses, Writer, WriteFrame, WriterMustEnd, WriterEnds, Kicker, KickCloses, KickUnregisters,
          channels, vars

\* As long as no reconnect shares the login session of the connection it replaces, every
\* live connection is online between events, whatever is kicked, slow or leaving (hub.go).
THEOREM UnsharedIsOnline ==
  ASSUME OneConnectionPerSession
  PROVE  Spec => []ActiveIsOnline
  <1>1. Init => EndInv /\ ReachInv
    BY DEF Init, EndInv, ReachInv, Leaving, InChan, Idle
  <1>2. IInv /\ EndInv /\ ReachInv /\ [Next]_vars => EndInv' /\ ReachInv'
    BY EndStep, ReachStep
  <1>3. IInv /\ ReachInv => ActiveIsOnline
    <2> SUFFICES ASSUME IInv, ReachInv, Quiet, NEW c \in Clients, reader[c] = "reading", conn[c] = "open"
                 PROVE  registry[SessionOf[c]] # NoClient
      BY DEF ActiveIsOnline
    <2>1. ~Waiting(c)
      BY DEF Quiet, Waiting, InChan, Idle
    <2>2. c \in Registered
      BY <2>1 DEF Quiet, ReachInv
    <2> QED BY <2>2, NoClientAssumption DEF Registered
  <1> QED BY <1>1, <1>2, <1>3, Always, PTL DEF Spec

\* Registrations are applied in their own order, and never behind an unregistration.
LEMMA LeftStep ==
  ASSUME IInv, EndInv, LeftInv, [Next]_vars,
         Take /\ run'.op = "unregister" => register = <<>>
  PROVE  LeftInv'
  <1>t. TypeOK /\ HeldInv /\ WaitInv
    BY DEF IInv, Inv
  <1>1. run'.op = "unregister" => ~InChan(register', run'.client)
    <2>1. CASE Take
      BY <2>1, <1>t DEF Take, InChan
    <2>2. CASE ApplyRegister \/ ApplyUnregister
      BY <2>2 DEF ApplyRegister, ApplyUnregister, Idle
    <2>3. ASSUME NEW d \in Clients, Register(d), run'.op = "unregister"
          PROVE  ~InChan(register', run'.client)
      <3>1. run' = run /\ run.client \in Clients /\ register' = Append(register, d)
        BY <1>t, <2>3 DEF Register, TypeOK, Idle
      <3>2. Leaving(run.client)
        BY <2>3, <3>1 DEF Leaving
      <3>3. run.client # d
        BY <1>t, <2>3, <3>1, <3>2 DEF EndInv, Ended, Entered, Register
      <3> QED BY <1>t, <2>3, <3>1, <3>3, Joins DEF LeftInv, TypeOK
    <2>4. CASE UNCHANGED <<register, run>>
      BY <2>4 DEF LeftInv, InChan
    <2> QED BY <2>1, <2>2, <2>3, <2>4, ChannelSteps DEF ReaderUnregisters, KickUnregisters
  <1> SUFFICES ASSUME NEW c \in Clients, reader'[c] \in {"closing", "done"}, Waiting(c)' \/ c \in Registered'
               PROVE  Leaving(c)'
    BY <1>1 DEF LeftInv
\* a client that unregisters now is leaving
  <1>2. ASSUME ReaderUnregisters(c)
        PROVE  Leaving(c)'
    <2>1. unregister' = Append(unregister, c)
      BY <1>2 DEF ReaderUnregisters
    <2> QED BY <1>t, <2>1, Joins DEF Leaving, TypeOK
  <1>3. ASSUME ~ReaderUnregisters(c)
        PROVE  reader[c] \in {"closing", "done"} /\ ~Register(c)
    <2>1. ASSUME NEW d \in Clients, Upgrade(d) \/ Reader(d) \/ ReadFails(d)
          PROVE  reader[c] \in {"closing", "done"} /\ ~Register(c)
      BY <1>3, <1>t, <2>1 DEF Upgrade, Reader, Register, ReadFails, ReaderUnregisters, ReaderCloses, TypeOK
    <2>2. CASE UNCHANGED reader
      BY <1>t, <2>2 DEF Register, TypeOK
    <2>3. UNCHANGED reader \/ \E d \in Clients : Upgrade(d) \/ Reader(d) \/ ReadFails(d)
      BY DEF Next, Run, Take, ApplyRegister, ApplyUnregister, Sender, SendBegin, SendOne, SendEnd, Admin,
             KickUserDelete, KickConnClose, KickUserBegin, KickSession, Writer, WriteFrame, WriterMustEnd,
             WriterEnds, Kicker, KickCloses, KickUnregisters, pumps, vars
    <2> QED BY <2>1, <2>2, <2>3
  <1> SUFFICES ASSUME ~ReaderUnregisters(c)
               PROVE  Leaving(c)'
    BY <1>2
\* who waits or is registered was so before, and leaves until it is unregistered
  <1>4. Waiting(c)' => Waiting(c)
    <2>1. CASE Take
      <3>1. CASE register # <<>> /\ run' = [op |-> "register", client |-> Head(register)] /\ register' = Tail(register)
        BY <1>t, <3>1, Leaves DEF Waiting, TypeOK
      <3>2. CASE run'.op = "unregister" /\ UNCHANGED register
        BY <3>2 DEF Waiting, InChan
      <3> QED BY <2>1, <3>1, <3>2 DEF Take
    <2>2. CASE ApplyRegister \/ ApplyUnregister
      BY <2>2 DEF ApplyRegister, ApplyUnregister, Waiting, InChan, Idle
    <2>3. ASSUME NEW d \in Clients, Register(d)
          PROVE  Waiting(c)' => Waiting(c)
      BY <1>3, <1>t, <2>3, Joins DEF Register, Waiting, TypeOK
    <2>4. CASE UNCHANGED <<register, run>>
      BY <2>4 DEF Waiting, InChan
    <2> QED BY <2>1, <2>2, <2>3, <2>4, ChannelSteps DEF ReaderUnregisters, KickUnregisters
  <1>5. c \in Registered' => Waiting(c) \/ c \in Registered
    <2>1. CASE ApplyRegister
      BY <1>t, <2>1, SessionAssumption DEF ApplyRegister, Registered, Waiting, TypeOK
    <2>2. CASE ApplyUnregister \/ KickUserDelete \/ \E s \in Sessions : KickSession(s)
      <3>1. \A s \in Sessions : registry'[s] \in {registry[s], NoClient}
        BY <1>t, <2>2 DEF ApplyUnregister, KickUserDelete, KickSession, TypeOK
      <3> QED BY <3>1, SessionAssumption, NoClientAssumption DEF Registered
    <2>3. CASE UNCHANGED registry
      BY <2>3 DEF Registered
    <2> QED BY <2>1, <2>2, <2>3
        DEF Next, Run, Take, Sender, SendBegin, SendOne, SendEnd, Admin, KickUserBegin, KickConnClose, Upgrade,
            Reader, Register, ReadFails, ReaderUnregisters, ReaderCloses, Writer, WriteFrame, WriterMustEnd,
            WriterEnds, Kicker, KickCloses, KickUnregisters, vars
  <1>6. Leaving(c)
    BY <1>3, <1>4, <1>5 DEF LeftInv
  <1>7. CASE Take
    <2>1. CASE run'.op = "register" /\ UNCHANGED unregister
      BY <1>6, <1>7, <2>1 DEF Take, Leaving, InChan, Idle
    <2>2. CASE /\ unregister # <<>> /\ run' = [op |-> "unregister", client |-> Head(unregister)]
               /\ unregister' = Tail(unregister)
      BY <1>6, <1>7, <1>t, <2>2, Leaves DEF Take, Leaving, Idle, TypeOK
    <2> QED BY <1>7, <2>1, <2>2 DEF Take
  <1>8. CASE ApplyRegister
    BY <1>6, <1>8 DEF ApplyRegister, Leaving, InChan
  <1>9. CASE ApplyUnregister
    <2>1. CASE run.client = c
      <3>1. c \notin Registered'
        BY <1>9, <1>t, <2>1, SessionAssumption, NoClientAssumption DEF ApplyUnregister, Registered, TypeOK
      <3>2. ~Waiting(c)'
        BY <1>9, <2>1 DEF ApplyUnregister, LeftInv, Waiting, InChan, Idle
      <3> QED BY <3>1, <3>2
    <2>2. CASE run.client # c
      BY <1>6, <1>9, <2>2 DEF ApplyUnregister, Leaving, InChan
    <2> QED BY <2>1, <2>2
  <1>10. ASSUME NEW d \in Clients, ReaderUnregisters(d) \/ KickUnregisters(d)
         PROVE  Leaving(c)'
    <2>1. unregister' = Append(unregister, d) /\ run' = run
      BY <1>10 DEF ReaderUnregisters, KickUnregisters
    <2> QED BY <1>6, <1>t, <2>1, Joins DEF Leaving, TypeOK
  <1>11. CASE UNCHANGED <<unregister, run>>
    BY <1>6, <1>11 DEF Leaving, InChan
  <1> QED BY <1>7, <1>8, <1>9, <1>10, <1>11, ChannelSteps DEF Register

\* As long as Run takes no unregistration while registrations wait, nobody stays online
\* through a connection that has ended, also when sessions are shared (hub.go).
THEOREM OrderedIsActive == Spec /\ RegistrationsFirst => []OnlineIsActive
  <1>1. Init => EndInv /\ LeftInv
    BY DEF Init, EndInv, LeftInv, Leaving, InChan, Idle
  <1>2. IInv /\ EndInv /\ LeftInv /\ [Next]_vars /\ [Take /\ run'.op = "unregister" => register = <<>>]_vars
        => EndInv' /\ LeftInv'
    <2>1. ASSUME UNCHANGED vars
          PROVE  ~Take
      BY <2>1 DEF vars, channels, Take, Idle
    <2> QED BY <2>1, EndStep, LeftStep
  <1>3. IInv /\ LeftInv => OnlineIsActive
    <2> SUFFICES ASSUME IInv, LeftInv, Quiet, NEW c \in Registered, reader[c] = "done"
                 PROVE  FALSE
      BY DEF OnlineIsActive
    <2>1. c \in Clients /\ Leaving(c)
      BY DEF LeftInv, Registered
    <2> QED BY <2>1 DEF Quiet, Leaving, InChan, Idle
  <1> QED BY <1>1, <1>2, <1>3, Always, PTL DEF Spec, RegistrationsFirst
===============================================================================
