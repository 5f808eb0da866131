--------------------------------- MODULE Call ---------------------------------
(***************************************************************************)
(* Voice calls: the WebRtcEngine of each client with the call state of     *)
(* useAudioStore, the incoming-call modal and the call overlay, over the   *)
(* signaling relay, which forwards a frame to the peer and acknowledges    *)
(* nothing.  The browser's media stack is the nondeterminism: microphone   *)
(* prompts, SDP promises, gathered candidates, lost connections.           *)
(*                                                                         *)
(* call and answer are asynchronous: a flow is one such function suspended *)
(* at an await, and hangup cancels none of them.                           *)
(***************************************************************************)
EXTENDS Naturals, Sequences, FiniteSets

CONSTANTS Peers,    \* the clients
          Flows     \* calls and answers started in one behaviour (bound)

ASSUME CallAssumption == Flows \in Nat \ {0} /\ IsFiniteSet(Peers)

VARIABLES eng,     \* per peer, the engine's fields and its part of the store
          flow,    \* the flows: whose, which function, at which await
          mics,    \* per peer, the microphone streams that are on
          conns,   \* per peer, the RTCPeerConnections that are not closed
          gather,  \* per peer, connections that have yet to find a candidate
          chan,    \* per peer, signaling frames on their way to it
          lost     \* history: per peer, what a field held when it was overwritten

media == <<mics, conns, lost>>
vars == <<eng, flow, media, gather, chan>>

Ids == 1..Flows       \* a flow, its microphone stream and its RTCPeerConnection
Quiet == [pc |-> 0, rd |-> FALSE, stream |-> 0, target |-> {},
          cands |-> 0, inc |-> {}, open |-> FALSE, status |-> "idle", muted |-> FALSE]
Unused == [who |-> {}, fn |-> "none", at |-> "none", to |-> {}]

Live(p) == {f \in Ids : flow[f].who = {p} /\ flow[f].at # "done"}
Send(q, k, from) == chan' = [chan EXCEPT ![q] = Append(@, [k |-> k, from |-> from])]

\* AudioCallOverlay and IncomingCallModal
OverlayShown(p) == eng[p].open
ModalShown(p) == eng[p].inc # {}

\* what hangup and endCall leave of the engine
HungUp(e) == Quiet

\* startCall
Started(e, q) == [e EXCEPT !.open = TRUE, !.status = "calling", !.muted = FALSE,
                           !.target = {q}, !.cands = 0]

\* mutant: setCallConnected before the call has a status of its own
Described_Unknown(e) == [e EXCEPT !.rd = TRUE, !.status = "active", !.cands = 0]

\* setRemoteDescription succeeds: ontrack plays the stream and calls
\* setCallConnected, and flushPendingCandidates empties the buffer
Described(e) == [e EXCEPT !.rd = TRUE, !.status = "connected", !.cands = 0]

Begin(p, fn, q) ==
  \E f \in Ids : /\ flow[f] = Unused /\ \A g \in Ids : flow[g] = Unused => f <= g
                 /\ flow' = [flow EXCEPT ![f] = [who |-> {p}, fn |-> fn, at |-> "mic", to |-> {q}]]
End(f) == flow' = [flow EXCEPT ![f].at = "done"]

\* mutant: hangup returns at once when there is no call on the screen
HangUp_OnlyShown(p) ==
  LET Free(s, x) == IF OverlayShown(p) THEN [s EXCEPT ![p] = @ \ {x}] ELSE s
  IN  /\ eng' = IF OverlayShown(p) THEN [eng EXCEPT ![p] = HungUp(@)] ELSE eng
      /\ mics' = Free(mics, eng[p].stream)
      /\ conns' = Free(conns, eng[p].pc)
      /\ gather' = Free(gather, eng[p].pc)
      /\ UNCHANGED lost

\* hangup stops the stream and closes the connection that the fields hold
HangUp(p) ==
  /\ eng' = [eng EXCEPT ![p] = HungUp(@)]
  /\ mics' = [mics EXCEPT ![p] = @ \ {eng[p].stream}]
  /\ conns' = [conns EXCEPT ![p] = @ \ {eng[p].pc}]
  /\ gather' = [gather EXCEPT ![p] = @ \ {eng[p].pc}]
  /\ UNCHANGED lost

-----------------------------------------------------------------------------
Init ==
  /\ eng = [p \in Peers |-> Quiet] /\ flow = [f \in Ids |-> Unused]
  /\ mics = [p \in Peers |-> {}] /\ conns = [p \in Peers |-> {}]
  /\ lost = [p \in Peers |-> {}]
  /\ gather = [p \in Peers |-> {}] /\ chan = [p \in Peers |-> <<>>]

-----------------------------------------------------------------------------
(* The user.                                                               *)

\* the call button of a private chat
Dial(p, q) ==
  /\ p # q
  /\ Begin(p, "call", q)
  /\ eng' = [eng EXCEPT ![p] = Started(@, q)]
  /\ UNCHANGED <<media, gather, chan>>

Accept(p) ==
  /\ ModalShown(p)
  /\ \E q \in eng[p].inc :
       /\ Begin(p, "answer", q)
       /\ eng' = [eng EXCEPT ![p] = [Started(@, q) EXCEPT !.inc = {}]]
  /\ UNCHANGED <<media, gather, chan>>

Reject(p) ==
  /\ ModalShown(p)
  /\ HangUp(p)
  /\ UNCHANGED <<flow, chan>>

HangUpButton(p) ==
  /\ OverlayShown(p)
  /\ HangUp(p)
  /\ UNCHANGED <<flow, chan>>

ToggleMute(p) ==
  /\ OverlayShown(p) /\ eng[p].stream # 0
  /\ \E m \in BOOLEAN \ {eng[p].muted} : eng' = [eng EXCEPT ![p].muted = m]
  /\ UNCHANGED <<flow, media, gather, chan>>

-----------------------------------------------------------------------------
(* The flows.                                                              *)

\* getUserMedia is granted: the stream and a new connection replace the fields; what
\* another flow had put there is neither stopped nor closed, and hangup finds it no more
MicGranted(p, f) ==
  /\ f \in Live(p) /\ flow[f].at = "mic"
  /\ eng' = [eng EXCEPT ![p].stream = f, ![p].pc = f, ![p].rd = FALSE]
  /\ mics' = [mics EXCEPT ![p] = @ \cup {f}]
  /\ conns' = [conns EXCEPT ![p] = @ \cup {f}]
  /\ lost' = [lost EXCEPT ![p] = @ \cup ({eng[p].stream, eng[p].pc} \ {0})]
  /\ flow' = [flow EXCEPT ![f].at = "sdp"]
  /\ UNCHANGED <<gather, chan>>

\* mutant: the flow fails without its catch block
Throws_NoHangup(p, f) ==
  /\ f \in Live(p)
  /\ End(f)
  /\ UNCHANGED <<eng, media, gather, chan>>

\* an await throws: a denied microphone, SDP for another flow's connection, a
\* socket that is not open, and always the ACK no server sends within 6 s
Throws(p, f) ==
  /\ f \in Live(p)
  /\ End(f)
  /\ HangUp(p)
  /\ UNCHANGED chan

\* createOffer or setRemoteDescription of a closed connection never settles
NeverSettles(p, f) ==
  /\ f \in Live(p) /\ flow[f].at = "sdp" /\ f \notin conns[p]
  /\ End(f)
  /\ UNCHANGED <<eng, media, gather, chan>>

OfferSent(p, f) ==
  /\ f \in Live(p) /\ flow[f].fn = "call" /\ flow[f].at = "sdp" /\ eng[p].pc = f
  /\ flow' = [flow EXCEPT ![f].at = "ack"]
  /\ gather' = [gather EXCEPT ![p] = @ \cup {f}]
  /\ \E q \in flow[f].to : Send(q, "offer", p)
  /\ UNCHANGED <<eng, media>>

AnswerSent(p, f) ==
  /\ f \in Live(p) /\ flow[f].fn = "answer" /\ flow[f].at = "sdp" /\ eng[p].pc = f
  /\ eng' = [eng EXCEPT ![p] = Described(@)]
  /\ flow' = [flow EXCEPT ![f].at = "ack"]
  /\ gather' = [gather EXCEPT ![p] = @ \cup {f}]
  /\ \E q \in flow[f].to : Send(q, "answer", p)
  /\ UNCHANGED media

-----------------------------------------------------------------------------
(* Callbacks.                                                              *)

\* onicecandidate: sent to the target of the moment
Candidate(p) == \E c \in gather[p] :
  /\ gather' = [gather EXCEPT ![p] = @ \ {c}]
  /\ IF eng[p].target = {} THEN UNCHANGED chan
     ELSE \E q \in eng[p].target : Send(q, "candidate", p)
  /\ UNCHANGED <<eng, flow, media>>

Receive(p, k) == /\ chan[p] # <<>> /\ Head(chan[p]).k = k
                 /\ chan' = [chan EXCEPT ![p] = Tail(@)]

OnOffer(p) ==
  /\ Receive(p, "offer")
  /\ eng' = [eng EXCEPT ![p].inc = {Head(chan[p]).from}]
  /\ UNCHANGED <<flow, media, gather>>

\* taken by the connection there is, whoever sent it; a second one throws
OnAnswer(p) ==
  /\ Receive(p, "answer")
  /\ eng' = IF eng[p].pc # 0 /\ ~eng[p].rd THEN [eng EXCEPT ![p] = Described(@)] ELSE eng
  /\ UNCHANGED <<flow, media, gather>>

OnCandidate(p) ==
  /\ Receive(p, "candidate")
  /\ eng' = IF eng[p].pc # 0 /\ eng[p].rd THEN eng ELSE [eng EXCEPT ![p].cands = @ + 1]
  /\ UNCHANGED <<flow, media, gather>>

\* onconnectionstatechange: disconnected, failed or closed
ConnectionDrops(p) ==
  /\ eng[p].pc # 0 /\ eng[p].rd
  /\ HangUp(p)
  /\ UNCHANGED <<flow, chan>>

\* the relay drops what it may not forward, or the peer is offline
SignalLost(p) ==
  /\ chan[p] # <<>>
  /\ chan' = [chan EXCEPT ![p] = Tail(@)]
  /\ UNCHANGED <<eng, flow, media, gather>>

-----------------------------------------------------------------------------
Step(p, f) == MicGranted(p, f) \/ Throws(p, f) \/ NeverSettles(p, f)
              \/ OfferSent(p, f) \/ AnswerSent(p, f)

Next == \E p \in Peers :
  \/ \E q \in Peers : Dial(p, q)
  \/ Accept(p) \/ Reject(p) \/ HangUpButton(p) \/ ToggleMute(p)
  \/ \E f \in Ids : Step(p, f)
  \/ Candidate(p) \/ OnOffer(p) \/ OnAnswer(p) \/ OnCandidate(p)
  \/ ConnectionDrops(p) \/ SignalLost(p)

Spec == Init /\ [][Next]_vars

\* past its prompt a flow goes on: promises settle and the ACK timer fires; nobody has to
\* answer a prompt
FairSpec == Spec /\ \A f \in Ids : WF_vars(\E p \in Peers : flow[f].at # "mic" /\ Step(p, f))

-----------------------------------------------------------------------------
TypeOK ==
  /\ eng \in [Peers -> [pc : Ids \cup {0}, rd : BOOLEAN, stream : Ids \cup {0},
                        target : SUBSET Peers, cands : Nat, inc : SUBSET Peers, open : BOOLEAN,
                        status : {"idle", "calling", "connected"}, muted : BOOLEAN]]
  /\ flow \in [Ids -> [who : SUBSET Peers, fn : {"none", "call", "answer"},
                       at : {"none", "mic", "sdp", "ack", "done"}, to : SUBSET Peers]]
  /\ \A ids \in {mics, conns, gather, lost} : ids \in [Peers -> SUBSET Ids]
  /\ chan \in [Peers -> Seq([k : {"offer", "answer", "candidate"}, from : Peers])]

\* No call on the screen and none under way.
NoCall(p) == ~OverlayShown(p) /\ Live(p) = {}

\* With no call on the screen and no flow under way no microphone is on and no connection
\* open, although hangup cancels no suspended flow and a prompt may be answered after
\* it; except those that a second flow put out of hangup's reach by overwriting them.
ResourcesFreed ==
  \A p \in Peers : NoCall(p) => mics[p] \cup conns[p] \subseteq lost[p]

\* All of them are off.  The code does not keep this: dial, hang up in the prompt, dial
\* again and grant both prompts, and the first microphone stays on.
AllFreed == \A p \in Peers : NoCall(p) => mics[p] \cup conns[p] = {}

\* A client has at most one flow under way.
OneAtATime == \A p \in Peers : \A f, g \in Live(p) : f = g

\* 'Calling' stays on the screen only as long as a microphone prompt waits, also when the
\* peer rejects, is offline or never answers, although no frame tells the caller.
CallingEnds == \A p \in Peers :
  LET Calling == OverlayShown(p) /\ eng[p].status = "calling"
      Prompted == \E f \in Live(p) : flow[f].at = "mic"
  IN Calling /\ ~Prompted ~> ~Calling \/ Prompted

\* 'Buffer queue: keeps candidates received before setRemoteDescription from being
\* dropped': accepting a call does not empty it.
CandidatesKept == [][\A p \in Peers : Accept(p) => eng'[p].cands = eng[p].cands]_vars
=============================================================================
