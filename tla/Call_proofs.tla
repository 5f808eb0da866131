----------------------------- MODULE Call_proofs -----------------------------
(***************************************************************************)
(* What Call keeps of its microphones and connections, for any number of   *)
(* clients, calls and answers.  ResourcesFreed is not inductive: a flow    *)
(* may end without hanging up when its connection was closed, and the step *)
(* must then know that the fields hold nothing of it.  FieldsTogether says *)
(* that hangup finds both in the fields or neither, OnIsHeld that what is  *)
(* on is in the fields or was overwritten, and HolderLives that the fields *)
(* belong to a flow that is past its prompt and will hang up.              *)
(***************************************************************************)
EXTENDS Call, TLAPS

\* the stream and the connection are of one flow
FieldsTogether == \A p \in Peers : eng[p].stream = eng[p].pc

\* what is on is in the fields or was overwritten there
OnIsHeld == \A p \in Peers : mics[p] \cup conns[p] \subseteq lost[p] \cup {eng[p].pc}

\* the fields are of a flow past its prompt, and its connection is not closed
Holder(p, f) == flow[f].who = {p} /\ flow[f].at \in {"sdp", "ack"} /\ f \in conns[p]
HolderLives == \A p \in Peers : eng[p].pc # 0 => Holder(p, eng[p].pc)

IInv == TypeOK /\ FieldsTogether /\ OnIsHeld /\ HolderLives

\* a step leaves the flow with its client, and past its prompt if it was
Onward(f) == /\ flow'[f].who = flow[f].who
             /\ flow[f].at \in {"sdp", "ack"} => flow'[f].at \in {"sdp", "ack"}

Engine == [pc : Ids \cup {0}, rd : BOOLEAN, stream : Ids \cup {0},
           target : SUBSET Peers, cands : Nat, inc : SUBSET Peers, open : BOOLEAN,
           status : {"idle", "calling", "connected"}, muted : BOOLEAN]
Flow == [who : SUBSET Peers, fn : {"none", "call", "answer"},
         at : {"none", "mic", "sdp", "ack", "done"}, to : SUBSET Peers]
Frame == [k : {"offer", "answer", "candidate"}, from : Peers]

IdSets == [Peers -> SUBSET Ids]

\* The variables have their types exactly when TypeOK holds.
LEMMA Types == TypeOK <=> /\ eng \in [Peers -> Engine] /\ flow \in [Ids -> Flow]
                          /\ mics \in IdSets /\ conns \in IdSets
                          /\ gather \in IdSets /\ lost \in IdSets
                          /\ chan \in [Peers -> Seq(Frame)]
  BY DEF TypeOK, Engine, Flow, Frame, IdSets

\* The operators on one engine give an engine.
LEMMA EngineOps ==
  ASSUME NEW e \in Engine, NEW q \in Peers
  PROVE  /\ Quiet \in Engine /\ HungUp(e) = Quiet
         /\ Started(e, q) \in Engine /\ Described(e) \in Engine
         /\ Quiet.stream = 0 /\ Quiet.pc = 0 /\ Started(e, q).open
         /\ Started(e, q).stream = e.stream /\ Started(e, q).pc = e.pc
         /\ Described(e).stream = e.stream /\ Described(e).pc = e.pc /\ Described(e).open = e.open
  BY DEF Engine, Quiet, HungUp, Started, Described

\* A frame appended to a peer's channel, or the first one taken off it.
LEMMA Channels ==
  ASSUME chan \in [Peers -> Seq(Frame)], NEW p \in Peers, NEW q \in Peers,
         NEW k \in {"offer", "answer", "candidate"}
  PROVE  /\ Send(q, k, p) => chan' \in [Peers -> Seq(Frame)]
         /\ chan[p] # <<>> => Head(chan[p]) \in Frame
         /\ chan[p] # <<>> /\ chan' = [chan EXCEPT ![p] = Tail(@)] => chan' \in [Peers -> Seq(Frame)]
  <1>1. [k |-> k, from |-> p] \in Frame
    BY DEF Frame
  <1>2. \A s \in Seq(Frame), m \in Frame : Append(s, m) \in Seq(Frame)
    OBVIOUS
  <1>3. \A s \in Seq(Frame) : s # <<>> => Tail(s) \in Seq(Frame) /\ Head(s) \in Frame
    OBVIOUS
  <1> QED
    BY <1>1, <1>2, <1>3 DEF Send

LEMMA InitOK == Init => IInv
  <1> SUFFICES ASSUME Init PROVE IInv
    OBVIOUS
  <1>1. Quiet \in Engine /\ Quiet.stream = 0 /\ Quiet.pc = 0 /\ Unused \in Flow
    BY DEF Quiet, Engine, Unused, Flow
  <1>2. TypeOK
    BY <1>1, Types DEF Init, IdSets
  <1> QED
    BY <1>1, <1>2 DEF Init, IInv, FieldsTogether, OnIsHeld, HolderLives

\* The field updates that two of the actions make on their own.
LEMMA Edits ==
  ASSUME NEW e \in Engine, NEW f \in Ids
  PROVE  /\ [e EXCEPT !.stream = f, !.pc = f, !.rd = FALSE] \in Engine
         /\ [e EXCEPT !.stream = f, !.pc = f, !.rd = FALSE].stream = f
         /\ [e EXCEPT !.stream = f, !.pc = f, !.rd = FALSE].pc = f /\ f # 0
         /\ [e EXCEPT !.inc = {}] \in Engine
         /\ [e EXCEPT !.inc = {}].open = e.open /\ [e EXCEPT !.inc = {}].pc = e.pc
         /\ [e EXCEPT !.inc = {}].stream = e.stream
  <1>1. f \in Nat /\ f # 0
    BY CallAssumption DEF Ids
  <1> QED
    BY <1>1 DEF Engine

\* Updating a field that none of the invariants reads.
LEMMA Apart ==
  ASSUME NEW e \in Engine, NEW m \in BOOLEAN, NEW n \in Nat, NEW P \in SUBSET Peers
  PROVE  \A x \in {[e EXCEPT !.muted = m], [e EXCEPT !.cands = n], [e EXCEPT !.inc = P]} :
           x \in Engine /\ x.open = e.open /\ x.pc = e.pc /\ x.stream = e.stream
  BY DEF Engine

\* What every step may use of the invariant and of one peer.
LEMMA Facts ==
  ASSUME IInv, NEW p \in Peers
  PROVE  /\ eng \in [Peers -> Engine] /\ flow \in [Ids -> Flow]
         /\ mics \in IdSets /\ conns \in IdSets /\ lost \in IdSets
         /\ gather \in IdSets /\ chan \in [Peers -> Seq(Frame)]
         /\ eng[p] \in Engine /\ HungUp(eng[p]) = Quiet /\ Quiet \in Engine
         /\ eng[p].pc \in Ids \cup {0} /\ eng[p].stream = eng[p].pc
         /\ eng[p].pc # 0 => Holder(p, eng[p].pc)
         /\ Quiet.pc = 0 /\ Quiet.stream = 0
  <1>1. eng[p] \in Engine
    BY Types DEF IInv
  <1>2. eng[p].pc \in Ids \cup {0}
    BY <1>1 DEF Engine
  <1> QED
    BY <1>1, <1>2, Types, EngineOps DEF IInv, FieldsTogether, HolderLives

\* hangup, by whatever button or callback, keeps the invariant.
LEMMA HangUpKeeps ==
  ASSUME IInv, NEW p \in Peers, HangUp(p), chan' \in [Peers -> Seq(Frame)],
         flow' \in [Ids -> Flow],
         \A q \in Peers \ {p} : eng[q].pc # 0 => Onward(eng[q].pc)
  PROVE  IInv'
  <1>1. /\ eng' = [eng EXCEPT ![p] = Quiet]
        /\ mics' = [mics EXCEPT ![p] = mics[p] \ {eng[p].stream}]
        /\ conns' = [conns EXCEPT ![p] = conns[p] \ {eng[p].pc}]
        /\ gather' = [gather EXCEPT ![p] = gather[p] \ {eng[p].pc}]
        /\ lost' = lost
    BY Facts DEF HangUp
  <1>2. TypeOK'
    <2>1. eng' \in [Peers -> Engine]
      BY <1>1, Facts
    <2>2. mics' \in IdSets /\ conns' \in IdSets /\ gather' \in IdSets /\ lost' \in IdSets
      BY <1>1, Facts DEF IdSets
    <2> QED
      BY <2>1, <2>2 DEF TypeOK, Engine, Flow, Frame, IdSets
  <1>3. eng'[p] = Quiet /\ \A q \in Peers \ {p} : /\ eng'[q] = eng[q] /\ mics'[q] = mics[q]
                                                  /\ conns'[q] = conns[q]
    BY <1>1, Facts DEF IdSets
  <1>4. FieldsTogether'
    BY <1>3, Facts DEF IInv, FieldsTogether
  <1>5. OnIsHeld'
    <2>1. mics'[p] \cup conns'[p] \subseteq lost'[p]
      BY <1>1, Facts DEF IInv, OnIsHeld, IdSets
    <2> QED
      BY <1>1, <1>3, <2>1 DEF IInv, OnIsHeld
  <1>6. HolderLives'
    <2> SUFFICES ASSUME NEW q \in Peers, eng'[q].pc # 0 PROVE Holder(q, eng[q].pc)' /\ q # p
      BY <1>3 DEF HolderLives, Holder
    <2>1. q # p
      BY <1>3, Facts
    <2> QED
      BY <1>3, <2>1, Facts DEF Holder, Onward
  <1> QED
    BY <1>2, <1>4, <1>5, <1>6 DEF IInv

\* A flow that ends, or moves on, leaves the flows in the other peers' fields alone.
LEMMA FlowMoves ==
  ASSUME IInv, NEW p \in Peers, NEW f \in Live(p), NEW a \in {"sdp", "ack", "done"},
         flow' = [flow EXCEPT ![f].at = a]
  PROVE  /\ flow' \in [Ids -> Flow] /\ f \in Ids
         /\ \A q \in Peers : eng[q].pc \notin {0, f} => Onward(eng[q].pc)
         /\ \A q \in Peers \ {p} : eng[q].pc # 0 => Onward(eng[q].pc)
         /\ a # "done" => Onward(f)
         /\ flow'[f].who = {p} /\ flow'[f].at = a
  <1>1. f \in Ids /\ flow \in [Ids -> Flow] /\ flow[f].who = {p}
    BY Facts DEF Live
  <1>2. flow[f] \in Flow /\ [flow[f] EXCEPT !.at = a] \in Flow
    BY <1>1 DEF Flow
  <1>3. flow' = [flow EXCEPT ![f] = [flow[f] EXCEPT !.at = a]]
    BY <1>1
  <1>4. /\ flow' \in [Ids -> Flow]
        /\ \A g \in Ids : g # f => flow'[g] = flow[g]
        /\ flow'[f].who = {p} /\ flow'[f].at = a
    BY <1>1, <1>2, <1>3 DEF Flow
  <1>5. ASSUME NEW q \in Peers, eng[q].pc # 0, q # p PROVE eng[q].pc # f
    <2>1. {q} # {p}
      BY <1>5
    <2> QED
      BY <1>1, <1>5, <2>1, Facts DEF Holder
  <1>6. \A q \in Peers : eng[q].pc \notin {0, f} => Onward(eng[q].pc)
    BY <1>4, Facts DEF Onward
  <1> QED
    BY <1>1, <1>4, <1>5, <1>6 DEF Onward

\* A flow that begins is in nobody's fields.
LEMMA FlowBegins ==
  ASSUME IInv, NEW p \in Peers, NEW q \in Peers, NEW fn \in {"call", "answer"}, Begin(p, fn, q)
  PROVE  flow' \in [Ids -> Flow] /\ \A r \in Peers : eng[r].pc # 0 => Onward(eng[r].pc)
  <1>1. PICK f \in Ids : flow[f] = Unused
                         /\ flow' = [flow EXCEPT ![f] = [who |-> {p}, fn |-> fn, at |-> "mic", to |-> {q}]]
    BY DEF Begin
  <1>2. [who |-> {p}, fn |-> fn, at |-> "mic", to |-> {q}] \in Flow
    BY DEF Flow
  <1>3. \A r \in Peers : eng[r].pc # 0 => eng[r].pc # f
    <2>1. flow[f].at = "none"
      BY <1>1 DEF Unused
    <2> QED
      BY <2>1, Facts DEF Holder
  <1> QED
    BY <1>1, <1>2, <1>3, Facts DEF Onward

\* A step that leaves the fields, what is on and the flows in the fields keeps IInv.
LEMMA Keeps ==
  ASSUME IInv, eng' \in [Peers -> Engine], flow' \in [Ids -> Flow], UNCHANGED media,
         gather' \in IdSets, chan' \in [Peers -> Seq(Frame)],
         \A p \in Peers : /\ eng'[p].stream = eng[p].stream /\ eng'[p].pc = eng[p].pc
                          /\ eng[p].pc # 0 => Onward(eng[p].pc)
  PROVE  IInv'
  <1>1. TypeOK'
    BY Types DEF IInv, TypeOK, Engine, Flow, Frame, IdSets, media
  <1>2. FieldsTogether' /\ OnIsHeld'
    BY DEF IInv, FieldsTogether, OnIsHeld, media
  <1>3. HolderLives'
    BY Facts DEF HolderLives, Holder, Onward, media
  <1> QED
    BY <1>1, <1>2, <1>3 DEF IInv

\* Flows that do not move, among others.
LEMMA Still == flow' = flow => \A f : Onward(f)
  BY DEF Onward

\* What the user does.
LEMMA UserSteps ==
  ASSUME IInv, NEW p \in Peers, NEW q \in Peers,
         \/ Dial(p, q) \/ Accept(p) \/ Reject(p) \/ HangUpButton(p) \/ ToggleMute(p)
  PROVE  IInv'
  <1>1. CASE Dial(p, q)
    <2>1. eng' = [eng EXCEPT ![p] = Started(eng[p], q)] /\ Started(eng[p], q) \in Engine
          /\ Started(eng[p], q).open /\ Started(eng[p], q).stream = eng[p].stream
          /\ Started(eng[p], q).pc = eng[p].pc /\ UNCHANGED <<media, gather, chan>>
      BY <1>1, Facts, EngineOps DEF Dial
    <2>2. flow' \in [Ids -> Flow] /\ \A r \in Peers : eng[r].pc # 0 => Onward(eng[r].pc)
      BY <1>1, FlowBegins DEF Dial
    <2> QED
      BY <2>1, <2>2, Facts, Keeps
  <1>2. CASE Accept(p)
    <2>1. PICK r \in eng[p].inc : /\ Begin(p, "answer", r)
                                  /\ eng' = [eng EXCEPT ![p] = [Started(eng[p], r) EXCEPT !.inc = {}]]
      BY <1>2 DEF Accept
    <2>2. r \in Peers
      BY Facts DEF Engine
    <2> DEFINE e == [Started(eng[p], r) EXCEPT !.inc = {}]
    <2>3. e \in Engine /\ e.open /\ e.stream = eng[p].stream /\ e.pc = eng[p].pc
      <3>1. 1 \in Ids /\ Started(eng[p], r) \in Engine
        BY <2>2, Facts, EngineOps, CallAssumption DEF Ids
      <3>2. e \in Engine
        BY <3>1, Edits
      <3>3. e.open = Started(eng[p], r).open /\ e.pc = Started(eng[p], r).pc
            /\ e.stream = Started(eng[p], r).stream
        BY <3>1, Edits
      <3>4. Started(eng[p], r).open /\ Started(eng[p], r).pc = eng[p].pc
            /\ Started(eng[p], r).stream = eng[p].stream
        BY <2>2, Facts, EngineOps
      <3> QED
        BY <3>2, <3>3, <3>4
    <2>4. flow' \in [Ids -> Flow] /\ \A x \in Peers : eng[x].pc # 0 => Onward(eng[x].pc)
      BY <2>1, <2>2, FlowBegins
    <2>5. UNCHANGED <<media, gather, chan>>
      BY <1>2 DEF Accept
    <2> QED
      BY <2>1, <2>3, <2>4, <2>5, Facts, Keeps
  <1>3. CASE Reject(p)
    BY <1>3, Facts, HangUpKeeps, Still DEF Reject
  <1>4. CASE HangUpButton(p)
    BY <1>4, Facts, HangUpKeeps, Still DEF HangUpButton
  <1>5. CASE ToggleMute(p)
    <2>1. PICK m \in BOOLEAN : eng' = [eng EXCEPT ![p].muted = m]
      BY <1>5 DEF ToggleMute
    <2> DEFINE e == [eng[p] EXCEPT !.muted = m]
    <2>2. e \in Engine /\ e.open = eng[p].open /\ e.stream = eng[p].stream /\ e.pc = eng[p].pc
      <3>1. 0 \in Nat /\ {} \in SUBSET Peers
        OBVIOUS
      <3> QED
        BY <3>1, Facts, Apart
    <2>3. eng' = [eng EXCEPT ![p] = e] /\ flow' = flow /\ UNCHANGED <<media, gather, chan>>
      BY <1>5, <2>1 DEF ToggleMute
    <2>4. \A r : Onward(r)
      BY <2>3, Still
    <2> QED
      BY <2>2, <2>3, <2>4, Facts, Keeps
  <1> QED
    BY <1>1, <1>2, <1>3, <1>4, <1>5

\* The flows at their awaits.
LEMMA FlowSteps ==
  ASSUME IInv, NEW p \in Peers, NEW f \in Ids, Step(p, f)
  PROVE  IInv'
  <1>1. CASE MicGranted(p, f)
    <2> DEFINE e == [eng[p] EXCEPT !.stream = f, !.pc = f, !.rd = FALSE]
    <2>1. e \in Engine /\ e.stream = f /\ e.pc = f /\ f # 0
      <3>1. eng[p] \in Engine
        BY Facts
      <3> QED
        BY <3>1, Edits
    <2>2. /\ eng' = [eng EXCEPT ![p] = e] /\ f \in Live(p) /\ flow' = [flow EXCEPT ![f].at = "sdp"]
          /\ mics' = [mics EXCEPT ![p] = mics[p] \cup {f}]
          /\ conns' = [conns EXCEPT ![p] = conns[p] \cup {f}]
          /\ lost' = [lost EXCEPT ![p] = lost[p] \cup ({eng[p].stream, eng[p].pc} \ {0})]
          /\ gather' = gather /\ chan' = chan
      BY <1>1, Facts DEF MicGranted, Engine
    <2> HIDE DEF e
    <2>3. /\ flow' \in [Ids -> Flow] /\ flow'[f].who = {p} /\ flow'[f].at = "sdp"
          /\ \A q \in Peers \ {p} : eng[q].pc # 0 => Onward(eng[q].pc)
      BY <2>2, FlowMoves
    <2>4. eng' \in [Peers -> Engine]
      BY <2>1, <2>2, Facts
    <2>5. TypeOK'
      <3>1. mics' \in IdSets /\ conns' \in IdSets /\ lost' \in IdSets
        BY <2>2, Facts DEF IdSets
      <3>2. gather' \in IdSets /\ chan' \in [Peers -> Seq(Frame)]
        BY <2>2, Facts
      <3> QED
        BY <2>3, <2>4, <3>1, <3>2 DEF TypeOK, Engine, Flow, Frame, IdSets
    <2>6. /\ eng'[p] = e /\ f \in conns'[p]
          /\ mics'[p] \cup conns'[p] \subseteq mics[p] \cup conns[p] \cup {f}
          /\ lost[p] \cup ({eng[p].pc} \ {0}) \subseteq lost'[p]
          /\ \A q \in Peers \ {p} : /\ eng'[q] = eng[q] /\ mics'[q] = mics[q]
                                    /\ conns'[q] = conns[q] /\ lost'[q] = lost[q]
      BY <2>1, <2>2, Facts DEF IdSets
    <2>7. FieldsTogether'
      BY <2>1, <2>6 DEF IInv, FieldsTogether
    <2>8. OnIsHeld'
      <3>1. mics[p] \cup conns[p] \subseteq Ids
        BY Facts DEF IdSets
      <3>2. 0 \notin Ids
        BY CallAssumption DEF Ids
      <3>3. mics'[p] \cup conns'[p] \subseteq lost'[p] \cup {f}
        BY <2>6, <3>1, <3>2 DEF IInv, OnIsHeld
      <3>4. \A q \in Peers : mics'[q] \cup conns'[q] \subseteq lost'[q] \cup {eng'[q].pc}
        BY <2>1, <2>6, <3>3 DEF IInv, OnIsHeld
      <3> QED
        BY <3>4 DEF OnIsHeld
    <2>9. HolderLives'
      <3>1. Holder(p, f)'
        BY <2>3, <2>6 DEF Holder
      <3>2. ASSUME NEW q \in Peers \ {p}, eng[q].pc # 0 PROVE Holder(q, eng[q].pc)'
        BY <2>3, <2>6, <3>2, Facts DEF Holder, Onward
      <3> QED
        BY <2>1, <2>6, <3>1, <3>2 DEF HolderLives, Holder
    <2> QED
      BY <2>5, <2>7, <2>8, <2>9 DEF IInv
  <1>2. CASE Throws(p, f)
    BY <1>2, Facts, FlowMoves, HangUpKeeps DEF Throws, End
  <1>3. CASE NeverSettles(p, f)
    <2>1. f \in Live(p) /\ flow' = [flow EXCEPT ![f].at = "done"] /\ f \notin conns[p]
          /\ eng' = eng /\ UNCHANGED <<media, gather, chan>>
      BY <1>3 DEF NeverSettles, End
    <2>2. eng[p].pc # f
      <3>1. f \in Ids /\ f # 0
        BY CallAssumption DEF Ids
      <3> QED
        BY <2>1, <3>1, Facts DEF Holder
    <2>3. flow' \in [Ids -> Flow] /\ \A q \in Peers : eng[q].pc # 0 => Onward(eng[q].pc)
      BY <2>1, <2>2, FlowMoves
    <2> QED
      BY <2>1, <2>3, Facts, Keeps
  <1>4. CASE OfferSent(p, f)
    <2>1. f \in Live(p) /\ flow' = [flow EXCEPT ![f].at = "ack"] /\ eng' = eng
          /\ gather' = [gather EXCEPT ![p] = @ \cup {f}] /\ UNCHANGED media
      BY <1>4 DEF OfferSent
    <2>2. flow' \in [Ids -> Flow] /\ \A q \in Peers : eng[q].pc # 0 => Onward(eng[q].pc)
      BY <2>1, FlowMoves
    <2>3. chan' \in [Peers -> Seq(Frame)]
      <3>1. PICK q \in flow[f].to : Send(q, "offer", p)
        BY <1>4 DEF OfferSent
      <3>2. q \in Peers
        BY Facts DEF Flow
      <3> QED
        BY <3>1, <3>2, Facts, Channels
    <2>4. gather' \in IdSets
      BY <2>1, Facts DEF IdSets
    <2> QED
      BY <2>1, <2>2, <2>3, <2>4, Facts, Keeps
  <1>5. CASE AnswerSent(p, f)
    <2>1. f \in Live(p) /\ flow' = [flow EXCEPT ![f].at = "ack"]
          /\ eng' = [eng EXCEPT ![p] = Described(eng[p])]
          /\ gather' = [gather EXCEPT ![p] = @ \cup {f}] /\ UNCHANGED media
      BY <1>5 DEF AnswerSent
    <2>2. flow' \in [Ids -> Flow] /\ \A q \in Peers : eng[q].pc # 0 => Onward(eng[q].pc)
      BY <2>1, FlowMoves
    <2>3. chan' \in [Peers -> Seq(Frame)]
      <3>1. PICK q \in flow[f].to : Send(q, "answer", p)
        BY <1>5 DEF AnswerSent
      <3>2. q \in Peers
        BY Facts DEF Flow
      <3> QED
        BY <3>1, <3>2, Facts, Channels
    <2>4. /\ Described(eng[p]) \in Engine
          /\ Described(eng[p]).stream = eng[p].stream /\ Described(eng[p]).pc = eng[p].pc
      BY Facts, EngineOps
    <2>5. gather' \in IdSets
      BY <2>1, Facts DEF IdSets
    <2> QED
      BY <2>1, <2>2, <2>3, <2>4, <2>5, Facts, Keeps
  <1> QED
    BY <1>1, <1>2, <1>3, <1>4, <1>5 DEF Step

\* What the browser and the relay do.
LEMMA CallbackSteps ==
  ASSUME IInv, NEW p \in Peers,
         \/ Candidate(p) \/ OnOffer(p) \/ OnAnswer(p) \/ OnCandidate(p)
         \/ ConnectionDrops(p) \/ SignalLost(p)
  PROVE  IInv'
  <1>1. CASE Candidate(p)
    <2>1. PICK c \in gather[p] : gather' = [gather EXCEPT ![p] = @ \ {c}]
      BY <1>1 DEF Candidate
    <2>2. gather' \in IdSets /\ eng' = eng /\ flow' = flow /\ UNCHANGED media
      BY <1>1, <2>1, Facts DEF Candidate, IdSets
    <2>3. chan' \in [Peers -> Seq(Frame)]
      <3>1. eng[p].target \subseteq Peers
        BY Facts DEF Engine
      <3>2. chan' = chan \/ \E q \in eng[p].target : Send(q, "candidate", p)
        BY <1>1 DEF Candidate
      <3> QED
        BY <3>1, <3>2, Facts, Channels
    <2>4. \A r : Onward(r)
      BY <2>2, Still
    <2> QED
      BY <2>2, <2>3, <2>4, Facts, Keeps
  <1>2. ASSUME NEW k \in {"offer", "answer", "candidate"}, Receive(p, k)
        PROVE  chan' \in [Peers -> Seq(Frame)] /\ Head(chan[p]) \in Frame
    BY <1>2, Facts, Channels DEF Receive
  <1>3. CASE OnOffer(p)
    <2>1. chan' \in [Peers -> Seq(Frame)] /\ Head(chan[p]) \in Frame /\ flow' = flow /\ UNCHANGED <<media, gather>>
      BY <1>2, <1>3 DEF OnOffer
    <2> DEFINE P == {Head(chan[p]).from}
    <2> DEFINE e == [eng[p] EXCEPT !.inc = P]
    <2>2. e \in Engine /\ e.open = eng[p].open /\ e.pc = eng[p].pc /\ e.stream = eng[p].stream
      <3>1. P \in SUBSET Peers /\ 0 \in Nat /\ TRUE \in BOOLEAN
        BY <2>1 DEF Frame
      <3> HIDE DEF P
      <3> QED
        BY <3>1, Facts, Apart
    <2>3. eng' = [eng EXCEPT ![p] = e]
      BY <1>3 DEF OnOffer
    <2>4. \A r : Onward(r)
      BY <2>1, Still
    <2> QED
      BY <2>1, <2>2, <2>3, <2>4, Facts, Keeps
  <1>4. CASE OnAnswer(p)
    <2>1. chan' \in [Peers -> Seq(Frame)] /\ flow' = flow /\ UNCHANGED <<media, gather>>
      BY <1>2, <1>4 DEF OnAnswer
    <2>2. eng' = eng \/ eng' = [eng EXCEPT ![p] = Described(eng[p])]
      BY <1>4 DEF OnAnswer
    <2>3. /\ Described(eng[p]) \in Engine /\ Described(eng[p]).open = eng[p].open
          /\ Described(eng[p]).pc = eng[p].pc /\ Described(eng[p]).stream = eng[p].stream
      BY Facts, EngineOps
    <2>4. \A r : Onward(r)
      BY <2>1, Still
    <2> QED
      BY <2>1, <2>2, <2>3, <2>4, Facts, Keeps
  <1>5. CASE OnCandidate(p)
    <2>1. chan' \in [Peers -> Seq(Frame)] /\ flow' = flow /\ UNCHANGED <<media, gather>>
      BY <1>2, <1>5 DEF OnCandidate
    <2> DEFINE e == [eng[p] EXCEPT !.cands = eng[p].cands + 1]
    <2>2. e \in Engine /\ e.open = eng[p].open /\ e.pc = eng[p].pc /\ e.stream = eng[p].stream
      <3>1. eng[p].cands + 1 \in Nat /\ {} \in SUBSET Peers /\ TRUE \in BOOLEAN
        BY Facts DEF Engine
      <3> QED
        BY <3>1, Facts, Apart
    <2>3. eng' = eng \/ eng' = [eng EXCEPT ![p] = e]
      BY <1>5 DEF OnCandidate
    <2>4. \A r : Onward(r)
      BY <2>1, Still
    <2> QED
      BY <2>1, <2>2, <2>3, <2>4, Facts, Keeps
  <1>6. CASE ConnectionDrops(p)
    BY <1>6, Facts, HangUpKeeps, Still DEF ConnectionDrops
  <1>7. CASE SignalLost(p)
    <2>1. chan' \in [Peers -> Seq(Frame)] /\ eng' = eng /\ flow' = flow /\ UNCHANGED <<media, gather>>
      BY <1>7, Facts, Channels DEF SignalLost
    <2>2. \A r : Onward(r)
      BY <2>1, Still
    <2> QED
      BY <2>1, <2>2, Facts, Keeps
  <1> QED
    BY <1>1, <1>3, <1>4, <1>5, <1>6, <1>7

LEMMA NextOK == IInv /\ [Next]_vars => IInv'
  <1> SUFFICES ASSUME IInv, [Next]_vars PROVE IInv'
    OBVIOUS
  <1>1. CASE Next
    <2>1. PICK p \in Peers :
            \/ \E q \in Peers : Dial(p, q)
            \/ Accept(p) \/ Reject(p) \/ HangUpButton(p) \/ ToggleMute(p)
            \/ \E f \in Ids : Step(p, f)
            \/ Candidate(p) \/ OnOffer(p) \/ OnAnswer(p) \/ OnCandidate(p)
            \/ ConnectionDrops(p) \/ SignalLost(p)
      BY <1>1 DEF Next
    <2> QED
      BY <2>1, UserSteps, FlowSteps, CallbackSteps
  <1>2. CASE UNCHANGED vars
    BY <1>2 DEF vars, media, IInv, TypeOK, FieldsTogether, OnIsHeld, HolderLives, Holder
  <1> QED
    BY <1>1, <1>2

\* What is on with no flow under way was overwritten: the fields are empty.
LEMMA NothingHeld == IInv => ResourcesFreed
  <1> SUFFICES ASSUME IInv, NEW p \in Peers, Live(p) = {}
               PROVE  mics[p] \cup conns[p] \subseteq lost[p]
    BY DEF ResourcesFreed, NoCall
  <1>1. eng[p].pc = 0
    BY Facts DEF Holder, Live
  <1>2. 0 \notin mics[p] \cup conns[p]
    BY Facts, CallAssumption DEF IdSets, Ids
  <1> QED
    BY <1>1, <1>2 DEF IInv, OnIsHeld

\* Only the grant to a flow overwrites, and only the fields of another one.
NoneLost == \A p \in Peers : lost[p] = {}

LEMMA AloneLosesNothing == IInv /\ OneAtATime /\ NoneLost /\ [Next]_vars => NoneLost'
  <1> SUFFICES ASSUME IInv, OneAtATime, NoneLost, [Next]_vars PROVE NoneLost'
    OBVIOUS
  <1>1. ASSUME NEW p \in Peers, NEW f \in Ids, MicGranted(p, f) PROVE NoneLost'
    <2>1. f \in Live(p) /\ flow[f].at = "mic"
          /\ lost' = [lost EXCEPT ![p] = lost[p] \cup ({eng[p].stream, eng[p].pc} \ {0})]
      BY <1>1 DEF MicGranted
    <2>2. eng[p].pc = 0
      <3> SUFFICES ASSUME eng[p].pc # 0 PROVE FALSE
        OBVIOUS
      <3>1. eng[p].pc \in Live(p) /\ flow[eng[p].pc].at # "mic"
        BY Facts DEF Holder, Live
      <3> QED
        BY <2>1, <3>1 DEF OneAtATime
    <2> QED
      BY <2>1, <2>2, Facts DEF NoneLost, IdSets
  <1>2. (\A p \in Peers, f \in Ids : ~MicGranted(p, f)) => lost' = lost
    BY DEF Next, Step, Dial, Accept, Reject, HangUpButton, ToggleMute, Throws, NeverSettles,
           OfferSent, AnswerSent, Candidate, OnOffer, OnAnswer, OnCandidate, ConnectionDrops,
           SignalLost, HangUp, media, vars
  <1> QED
    BY <1>1, <1>2 DEF NoneLost

\* The variables of the clients and the relay keep their types.
THEOREM Typed == Spec => []TypeOK
  <1>1. IInv => TypeOK
    BY DEF IInv
  <1> QED
    BY <1>1, InitOK, NextOK, PTL DEF Spec

\* With no call on the screen and none under way, every microphone that is on and every
\* connection that is open is one a second flow overwrote in the fields of the engine,
\* for any number of clients, calls and answers.
THEOREM Freed == Spec => []ResourcesFreed
  BY NothingHeld, InitOK, NextOK, PTL DEF Spec

\* A client that never has two flows under way leaves no microphone on and no connection
\* open: only a second dial or accept before the first has ended loses them.
THEOREM AloneIsFreed == Spec /\ []OneAtATime => []AllFreed
  <1>1. Init => NoneLost
    BY DEF Init, NoneLost
  <1>2. ResourcesFreed /\ NoneLost => AllFreed
    BY DEF ResourcesFreed, NoneLost, AllFreed
  <1> QED
    BY <1>1, <1>2, NothingHeld, AloneLosesNothing, InitOK, NextOK, PTL DEF Spec
=============================================================================
