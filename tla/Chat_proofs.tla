------------------------------ MODULE Chat_proofs ------------------------------
(***************************************************************************)
(* For any number of messages, history requests and page sizes: the lists  *)
(* of the chat agree with the server, show the user's own messages once    *)
(* and never mark an acknowledged one as failed.                           *)
(***************************************************************************)
EXTENDS Chat, SequenceTheorems, TLAPS

Entry == [id : Ids, seq : Nat, st : Status]

\* Where a conversation mentions an id: on the screen, in the table, on its way up.
Shows(c, id) == \E i \in 1 .. Len(list[c]) : list[c][i].id = id
Stores(c, id) == \E i \in 1 .. Len(log[c]) : log[c][i] = id
Rises(c, id) == \E i \in 1 .. Len(toServer) : toServer[i].id = id /\ toServer[i].cov = c
Mentions(c, id) == Shows(c, id) \/ Stores(c, id) \/ Rises(c, id)

\* the entry m says of conversation c what the server has stored
Agrees(m, c) == /\ m.seq > 0 => m.seq <= Len(log[c]) /\ log[c][m.seq] = m.id
                /\ m.st = "success" => m.seq > 0

\* A message belongs to one conversation.
HomeInv == \A id \in Ids, c, d \in Covs : Mentions(c, id) /\ Mentions(d, id) => c = d

\* It is stored once, and what is on its way up is on its way once and not stored.
OnceInv ==
  /\ \A c \in Covs : \A i, j \in 1 .. Len(log[c]) : log[c][i] = log[c][j] => i = j
  /\ \A i, j \in 1 .. Len(toServer) : toServer[i].id = toServer[j].id => i = j
  /\ \A id \in Ids, c, d \in Covs : ~(Rises(c, id) /\ Stores(d, id))

\* A frame of the server names the row of its message; only own messages are ACKed.
FrameOK(f) == \E c \in Covs :
  /\ f.seq \in 1 .. Len(log[c]) /\ log[c][f.seq] = f.id
  /\ f.kind = "push" => f.cov = c
  /\ f.kind = "ack" => f.id \in MyIds
FramesInv == \A i \in 1 .. Len(toMe) : FrameOK(toMe[i])

\* A history answer is a part of the table, however old.
PageOK(p, c) ==
  /\ p \in Seq(Entry)
  /\ \A i \in 1 .. Len(p) : Agrees(p[i], c) /\ p[i].seq > 0 /\ p[i].st = "success"
  /\ \A i, j \in 1 .. Len(p) : p[i].id = p[j].id => i = j
SlotOK(s) == \E c \in Covs \cup {None} : \E p :
               /\ loads[s] = [cov |-> c, ans |-> p]
               /\ c = None => p = None
               /\ p # None => PageOK(p, c)
LoadsInv == DOMAIN loads = Loads /\ \A s \in Loads : SlotOK(s)

\* What is acknowledged has no timer any more.
AckInv == acked \cap pending = {}

ListsInv == \A c \in Covs : \A i \in 1 .. Len(list[c]) :
              /\ Agrees(list[c][i], c)
              /\ list[c][i].id \in acked => list[c][i].st # "error"

IInv == TypeOK /\ LoadsInv /\ HomeInv /\ OnceInv /\ FramesInv /\ AckInv /\ ListsInv /\ OwnOnce
-----------------------------------------------------------------------------
(* The helpers.                                                            *)

\* A queue of frames, a list or a table with one more or one fewer element.
LEMMA Sequences ==
  ASSUME NEW S, NEW q \in Seq(S)
  PROVE  /\ Len(q) \in Nat /\ DOMAIN q = 1 .. Len(q)
         /\ \A i \in 1 .. Len(q) : q[i] \in S
         /\ \A x \in S : /\ Append(q, x) \in Seq(S) /\ Len(Append(q, x)) = Len(q) + 1
                         /\ \A i \in 1 .. Len(q) : Append(q, x)[i] = q[i]
                         /\ Append(q, x)[Len(q) + 1] = x
         /\ q # <<>> => /\ Head(q) \in S /\ Head(q) = q[1] /\ Tail(q) \in Seq(S)
                        /\ Len(q) >= 1 /\ Len(Tail(q)) = Len(q) - 1
                        /\ \A i \in 1 .. Len(Tail(q)) : Tail(q)[i] = q[i + 1]
  <1>1. Len(q) \in Nat /\ DOMAIN q = 1 .. Len(q) /\ \A i \in 1 .. Len(q) : q[i] \in S
    BY LenProperties, ElementOfSeq
  <1>2. ASSUME NEW x \in S
        PROVE  /\ Append(q, x) \in Seq(S) /\ Len(Append(q, x)) = Len(q) + 1
               /\ \A i \in 1 .. Len(q) : Append(q, x)[i] = q[i]
               /\ Append(q, x)[Len(q) + 1] = x
    BY AppendProperties
  <1>3. ASSUME q # <<>>
        PROVE  /\ Head(q) \in S /\ Head(q) = q[1] /\ Tail(q) \in Seq(S)
               /\ Len(q) >= 1 /\ Len(Tail(q)) = Len(q) - 1
               /\ \A i \in 1 .. Len(Tail(q)) : Tail(q)[i] = q[i + 1]
    BY <1>3, HeadTailProperties, EmptySeq
  <1> QED BY <1>1, <1>2, <1>3

\* One more element in the sequence of one conversation.
LEMMA Longer ==
  ASSUME NEW S, NEW f \in [Covs -> Seq(S)], NEW c \in Covs, NEW x \in S,
         NEW g, g = [f EXCEPT ![c] = Append(@, x)]
  PROVE  /\ g \in [Covs -> Seq(S)]
         /\ \A d \in Covs : /\ Len(f[d]) \in Nat /\ Len(f[d]) <= Len(g[d])
                            /\ \A i \in 1 .. Len(f[d]) : g[d][i] = f[d][i]
                            /\ d # c => Len(g[d]) = Len(f[d])
         /\ Len(g[c]) = Len(f[c]) + 1 /\ g[c][Len(f[c]) + 1] = x
  <1>1. g[c] = Append(f[c], x) /\ \A d \in Covs : d # c => g[d] = f[d]
    OBVIOUS
  <1>2. /\ Append(f[c], x) \in Seq(S) /\ Len(Append(f[c], x)) = Len(f[c]) + 1
        /\ \A i \in 1 .. Len(f[c]) : Append(f[c], x)[i] = f[c][i]
        /\ Append(f[c], x)[Len(f[c]) + 1] = x
    BY Sequences
  <1>3. \A d \in Covs : Len(f[d]) \in Nat
    BY Sequences
  <1>4. g \in [Covs -> Seq(S)]
    BY <1>2
  <1> QED BY <1>1, <1>2, <1>3, <1>4

\* g is ls with the mark st, and the seq if one is given, on the entries of id.
Marked(g, ls, id, st, seq) ==
  /\ g \in [Covs -> Seq(Entry)]
  /\ \A c \in Covs : /\ Len(g[c]) = Len(ls[c]) /\ Len(ls[c]) \in Nat
                     /\ \A i \in 1 .. Len(ls[c]) :
                          /\ g[c][i].id = ls[c][i].id
                          /\ ls[c][i].id # id => g[c][i] = ls[c][i]
                          /\ ls[c][i].id = id =>
                               /\ g[c][i].st = st
                               /\ seq \in Nat => g[c][i].seq = seq
                               /\ seq = None => g[c][i].seq = ls[c][i].seq

\* SetStatus changes the entries with this id, and nothing but their marks and seqs.
LEMMA StatusSet ==
  ASSUME NEW ls \in [Covs -> Seq(Entry)], NEW id, NEW st \in Status, NEW seq \in Nat \cup {None},
         NEW g, g = SetStatus(ls, id, st, seq)
  PROVE  Marked(g, ls, id, st, seq)
  <1> DEFINE new(c, i) == IF ls[c][i].id = id
                          THEN [ls[c][i] EXCEPT !.st = st, !.seq = IF seq = None THEN @ ELSE seq]
                          ELSE ls[c][i]
  <1>1. \A c \in Covs : /\ Len(ls[c]) \in Nat
                        /\ \A i \in 1 .. Len(ls[c]) : ls[c][i] \in Entry
    BY Sequences
  <1>2. \A c \in Covs : \A i \in 1 .. Len(ls[c]) :
          /\ new(c, i) \in Entry /\ new(c, i).id = ls[c][i].id
          /\ ls[c][i].id # id => new(c, i) = ls[c][i]
          /\ ls[c][i].id = id => /\ new(c, i).st = st
                                 /\ seq \in Nat => new(c, i).seq = seq
                                 /\ seq = None => new(c, i).seq = ls[c][i].seq
    BY <1>1, ChatAssumption DEF Entry, ChatAssumption
  <1>3. \A c \in Covs : g[c] = [i \in 1 .. Len(ls[c]) |-> new(c, i)]
    BY DEF SetStatus
  <1>4. \A c \in Covs : g[c] \in Seq(Entry) /\ Len(g[c]) = Len(ls[c])
    <2>1. TAKE c \in Covs
    <2> HIDE DEF new
    <2>2. g[c] \in [1 .. Len(ls[c]) -> Entry]
      BY <1>2, <1>3
    <2>3. g[c] \in Seq(Entry)
      BY <1>1, <2>2, SeqDef
    <2> QED BY <1>1, <2>2, <2>3, LenProperties
  <1>5. g = [c \in Covs |-> g[c]]
    BY DEF SetStatus
  <1>6. g \in [Covs -> Seq(Entry)]
    BY <1>4, <1>5
  <1> HIDE DEF new
  <1>7. \A c \in Covs : \A i \in 1 .. Len(ls[c]) : g[c][i] = new(c, i)
    BY <1>3
  <1> QED BY <1>1, <1>2, <1>4, <1>6, <1>7 DEF Marked

\* The newest page holds what the table holds.
LEMMA NewestPage ==
  ASSUME TypeOK, OnceInv, NEW c \in Covs
  PROVE  PageOK(LastPage(c), c) /\ \A i \in 1 .. Len(LastPage(c)) : Stores(c, LastPage(c)[i].id)
  <1> DEFINE n == Len(log[c])
             from == IF n > Page THEN n - Page ELSE 0
             p == LastPage(c)
  <1>1. n \in Nat /\ from \in 0 .. n /\ \A i \in 1 .. n : log[c][i] \in Ids
    BY Sequences, ChatAssumption DEF TypeOK, ChatAssumption
  <1>2. p = [i \in 1 .. (n - from) |-> Message(log[c][from + i], from + i, "success")]
    BY DEF LastPage
  <1> HIDE DEF p, from, n
  <1>3. \A i \in 1 .. (n - from) : /\ p[i] = Message(log[c][from + i], from + i, "success")
                                   /\ from + i \in 1 .. n /\ log[c][from + i] \in Ids
    BY <1>1, <1>2
  <1>4. \A i \in 1 .. (n - from) : /\ p[i] \in Entry
                                   /\ p[i].id = log[c][from + i] /\ p[i].seq = from + i
                                   /\ p[i].st = "success" /\ p[i].seq > 0
    <2>1. TAKE i \in 1 .. (n - from)
    <2> DEFINE x == log[c][from + i]
               k == from + i
    <2>2. p[i] = [id |-> x, seq |-> k, st |-> "success"]
      BY <1>3 DEF Message
    <2>3. x \in Ids /\ k \in Nat /\ k > 0
      BY <1>1, <1>3
    <2> HIDE DEF x, k
    <2>4. p[i] \in Entry
      BY <2>2, <2>3 DEF Entry, Status
    <2> QED BY <2>2, <2>3, <2>4 DEF x, k
  <1>5. p \in [1 .. (n - from) -> Entry] /\ n - from \in Nat
    BY <1>1, <1>2, <1>4
  <1>6. p \in Seq(Entry)
    BY <1>5, SeqDef
  <1>7. Len(p) = n - from
    BY <1>5, <1>6, LenProperties
  <1>8. \A i \in 1 .. Len(p) : Agrees(p[i], c) /\ Stores(c, p[i].id)
    BY <1>1, <1>3, <1>4, <1>7 DEF Agrees, Stores, n
  <1>9. \A i, j \in 1 .. Len(p) : p[i].id = p[j].id => i = j
    BY <1>1, <1>3, <1>4, <1>7 DEF OnceInv, n
  <1> QED BY <1>4, <1>6, <1>7, <1>8, <1>9 DEF PageOK, p

\* the tables only grow
Grown == \A c \in Covs : /\ Len(log[c]) <= Len(log'[c])
                         /\ \A i \in 1 .. Len(log[c]) : log'[c][i] = log[c][i]

\* What was true of the table stays true when it grows.
LEMMA StillTrue ==
  ASSUME TypeOK, TypeOK', Grown
  PROVE  /\ \A m \in Entry, c \in Covs : Agrees(m, c) => Agrees(m, c)'
         /\ \A p : \A c \in Covs : PageOK(p, c) => PageOK(p, c)'
         /\ \A f : FrameOK(f) => FrameOK(f)'
  <1>1. \A c \in Covs : Len(log[c]) \in Nat /\ Len(log'[c]) \in Nat
    BY Sequences DEF TypeOK
  <1>2. ASSUME NEW m \in Entry, NEW c \in Covs, Agrees(m, c) PROVE Agrees(m, c)'
    BY <1>1, <1>2 DEF Agrees, Grown, Entry
  <1>3. ASSUME NEW p, NEW c \in Covs, PageOK(p, c) PROVE PageOK(p, c)'
    <2>1. \A i \in 1 .. Len(p) : p[i] \in Entry
      BY <1>3, Sequences DEF PageOK
    <2> QED BY <1>2, <1>3, <2>1 DEF PageOK
  <1>4. ASSUME NEW f, FrameOK(f) PROVE FrameOK(f)'
    BY <1>1, <1>4 DEF FrameOK, Grown
  <1> QED BY <1>2, <1>3, <1>4

\* A new id is mentioned nowhere.
LEMMA FreshId ==
  ASSUME TypeOK, NEW id, id \notin Used
  PROVE  id \notin acked /\ id \notin pending /\ \A c \in Covs : ~Mentions(c, id)
  <1>1. id \notin acked /\ id \notin pending
    BY DEF Used
  <1>2. ASSUME NEW c \in Covs PROVE ~Mentions(c, id)
    <2>1. /\ DOMAIN log[c] = 1 .. Len(log[c]) /\ DOMAIN list[c] = 1 .. Len(list[c])
          /\ DOMAIN toServer = 1 .. Len(toServer)
      BY Sequences DEF TypeOK
    <2>2. ~Shows(c, id)
      BY <2>1 DEF Shows, Used, ToSet
    <2>3. ~Stores(c, id)
      BY <2>1 DEF Stores, Used, ToSet
    <2>4. ~Rises(c, id)
      BY <2>1 DEF Rises, Used, ToSet
    <2> QED BY <2>2, <2>3, <2>4 DEF Mentions
  <1> QED BY <1>1, <1>2

\* What the input waits for.
LEMMA UploadTypes ==
  /\ NoUpload \in Uploads
  /\ [at |-> "file", id |-> None] \in Uploads
  /\ \A id \in MyIds : [at |-> "message", id |-> id] \in Uploads
BY DEF NoUpload, Uploads

LEMMA InitOK == Init => IInv
  <1> SUFFICES ASSUME Init PROVE IInv
    OBVIOUS
  <1> USE DEF Init
  <1>1. \A c \in Covs : log[c] = <<>> /\ list[c] = <<>>
    OBVIOUS
  <1>2. \A S : <<>> \in Seq(S) /\ Len(<<>>) = 0
    BY EmptySeq
  <1>3. TypeOK
    <2>1. log \in [Covs -> Seq(Ids)] /\ list \in [Covs -> Seq([id : Ids, seq : Nat, st : Status])]
      BY <1>2
    <2>2. \A s \in Loads : loads[s].cov \in Covs \cup {None}
      BY DEF NoLoad
    <2> QED BY <1>2, <2>1, <2>2, UploadTypes DEF TypeOK, Covs
  <1>4. LoadsInv
    BY DEF LoadsInv, SlotOK, NoLoad
  <1>5. \A id : \A c \in Covs : ~Mentions(c, id)
    BY <1>1, <1>2 DEF Mentions, Shows, Stores, Rises
  <1>6. HomeInv /\ OnceInv
    BY <1>1, <1>2, <1>5 DEF HomeInv, OnceInv, Mentions
  <1>7. FramesInv /\ AckInv /\ ListsInv /\ OwnOnce
    BY <1>1, <1>2 DEF FramesInv, AckInv, ListsInv, OwnOnce
  <1> QED BY <1>3, <1>4, <1>6, <1>7 DEF IInv
-----------------------------------------------------------------------------
(* One lemma per kind of step.                                             *)

\* The history slots.
LEMMA LoadsStep ==
  ASSUME IInv, UNCHANGED log,
         \/ UNCHANGED loads
         \/ \E c \in Covs : StartLoad(c)
         \/ \E s \in Loads : loads' = [loads EXCEPT ![s] = NoLoad]
         \/ \E s \in Loads : ServerAnswers(s)
  PROVE  LoadsInv' /\ \A s \in Loads : loads'[s].cov \in Covs \cup {None}
  <1> USE DEF IInv
  <1>1. \A p : \A c \in Covs : PageOK(p, c) => PageOK(p, c)'
    BY DEF PageOK, Agrees
  <1>2. CASE UNCHANGED loads
    BY <1>1, <1>2 DEF LoadsInv, SlotOK
  <1>3. ASSUME NEW c \in Covs \cup {None}, NEW p, NEW s \in Loads,
               loads' = [loads EXCEPT ![s] = [cov |-> c, ans |-> p]],
               c = None => p = None, p # None => PageOK(p, c)'
        PROVE  LoadsInv'
    <2>1. /\ DOMAIN loads' = Loads /\ loads'[s] = [cov |-> c, ans |-> p]
          /\ \A t \in Loads : t # s => loads'[t] = loads[t]
      BY <1>3 DEF LoadsInv
    <2>2. ASSUME NEW t \in Loads PROVE SlotOK(t)'
      <3>1. CASE t = s
        BY <1>3, <2>1, <3>1 DEF SlotOK
      <3>2. CASE t # s
        BY <1>1, <2>1, <3>2 DEF LoadsInv, SlotOK
      <3> QED BY <3>1, <3>2
    <2> QED BY <2>1, <2>2 DEF LoadsInv
  <1>4. ASSUME NEW c \in Covs, StartLoad(c) PROVE LoadsInv'
    BY <1>3, <1>4 DEF StartLoad
  <1>5. ASSUME NEW s \in Loads, loads' = [loads EXCEPT ![s] = NoLoad] PROVE LoadsInv'
    BY <1>3, <1>5 DEF NoLoad
  <1>6. ASSUME NEW s \in Loads, ServerAnswers(s) PROVE LoadsInv'
    <2>1. PICK c \in Covs \cup {None} :
                 /\ loads[s] = [cov |-> c, ans |-> None]
                 /\ loads[s] # NoLoad /\ loads[s].cov = c
      BY <1>6 DEF LoadsInv, SlotOK, ServerAnswers
    <2>2. c \in Covs /\ c # None
      BY <2>1 DEF NoLoad
    <2>3. PICK a : a = LastPage(c)
      OBVIOUS
    <2>4. loads' = [loads EXCEPT ![s] = [cov |-> c, ans |-> a]]
      <3>1. [loads[s] EXCEPT !.ans = LastPage(loads[s].cov)] = [cov |-> c, ans |-> a]
        BY <2>1, <2>2, <2>3
      <3>2. loads' = [loads EXCEPT ![s] = [loads[s] EXCEPT !.ans = LastPage(loads[s].cov)]]
        BY <1>6 DEF ServerAnswers
      <3> QED BY <3>1, <3>2
    <2>5. PageOK(a, c)'
      <3>1. PageOK(LastPage(c), c)
        BY <2>2, NewestPage
      <3>2. PageOK(a, c)
        BY <2>3, <3>1 DEF PageOK
      <3> QED BY <1>1, <2>2, <3>2
    <2> QED BY <1>3, <2>2, <2>4, <2>5
  <1>7. LoadsInv'
    BY <1>2, <1>4, <1>5, <1>6
  <1> QED BY <1>7 DEF LoadsInv, SlotOK

\* The types of what every step but the named ones leaves alone.
SmallTypes == up \in BOOLEAN /\ active \in Covs /\ upload \in Uploads

\* Opening, asking, uploading, and a connection that comes or goes.
LEMMA QuietStep ==
  ASSUME IInv, UNCHANGED <<log, list, pending, acked>>, SmallTypes', LoadsInv',
         \A s \in Loads : loads'[s].cov \in Covs \cup {None},
         toServer' \in {toServer, <<>>}, toMe' \in {toMe, <<>>}
  PROVE  IInv'
  <1> USE DEF IInv
  <1>1. \A S : <<>> \in Seq(S) /\ Len(<<>>) = 0
    BY EmptySeq
  <1>2. TypeOK'
    BY <1>1 DEF TypeOK, SmallTypes
  <1>3. \A c \in Covs : \A id : Rises(c, id)' => Rises(c, id)
    BY <1>1 DEF Rises
  <1>4. \A c \in Covs : \A id : (Stores(c, id)' <=> Stores(c, id)) /\ (Shows(c, id)' <=> Shows(c, id))
    BY DEF Stores, Shows
  <1>5. HomeInv'
    BY <1>3, <1>4 DEF HomeInv, Mentions
  <1>6. OnceInv'
    BY <1>1, <1>3, <1>4 DEF OnceInv
  <1>7. FramesInv'
    BY <1>1 DEF FramesInv, FrameOK
  <1>8. AckInv' /\ ListsInv' /\ OwnOnce'
    BY DEF AckInv, ListsInv, Agrees, OwnOnce
  <1> QED BY <1>2, <1>5, <1>6, <1>7, <1>8

\* sendTextMessage and sendMediaMessage.
LEMMA SendStep ==
  ASSUME IInv, Send, UNCHANGED <<log, toMe, loads, acked>>, SmallTypes'
  PROVE  IInv'
  <1> USE DEF IInv
  <1>1. PICK id \in MyIds :
          /\ id \notin Used
          /\ list' = [list EXCEPT ![active] =
                        Append(@, Message(id, 0, IF up THEN "sending" ELSE "error"))]
          /\ \/ /\ toServer' = Append(toServer, [id |-> id, cov |-> active])
                /\ pending' = pending \cup {id}
             \/ UNCHANGED <<toServer, pending>>
    <2>1. NewId \in MyIds /\ NewId \notin Used
      BY DEF Send, NewId
    <2> QED BY <2>1 DEF Send
  <1>2. id \notin acked /\ id \notin pending /\ \A c \in Covs : ~Mentions(c, id)
    BY <1>1, FreshId
  <1>3. PICK m \in Entry : /\ m.id = id /\ m.seq = 0 /\ m.st # "success"
                           /\ list' = [list EXCEPT ![active] = Append(@, m)]
    <2> DEFINE st == IF up THEN "sending" ELSE "error"
               m == [id |-> id, seq |-> 0, st |-> st]
    <2>1. m \in Entry /\ m.id = id /\ m.seq = 0 /\ m.st # "success"
      BY DEF Entry, Status, Ids
    <2>2. list' = [list EXCEPT ![active] = Append(@, m)]
      BY <1>1 DEF Message
    <2> HIDE DEF m
    <2> QED BY <2>1, <2>2
  <1>4. /\ list' \in [Covs -> Seq(Entry)]
        /\ \A d \in Covs : /\ Len(list[d]) \in Nat /\ Len(list[d]) <= Len(list'[d])
                           /\ \A i \in 1 .. Len(list[d]) : list'[d][i] = list[d][i]
                           /\ d # active => Len(list'[d]) = Len(list[d])
        /\ Len(list'[active]) = Len(list[active]) + 1
        /\ list'[active][Len(list[active]) + 1] = m
    <2>1. list \in [Covs -> Seq(Entry)] /\ active \in Covs
      BY DEF TypeOK, Entry
    <2> QED BY <1>3, <2>1, Longer
  <1>5. /\ toServer' \in Seq([id : MyIds, cov : Covs])
        /\ \/ UNCHANGED toServer
           \/ /\ Len(toServer') = Len(toServer) + 1
              /\ \A i \in 1 .. Len(toServer) : toServer'[i] = toServer[i]
              /\ toServer'[Len(toServer) + 1] = [id |-> id, cov |-> active]
    <2> DEFINE F == [id : MyIds, cov : Covs]
               f == [id |-> id, cov |-> active]
    <2>1. toServer \in Seq(F) /\ f \in F
      BY DEF TypeOK
    <2>2. toServer' = Append(toServer, f) \/ UNCHANGED toServer
      BY <1>1
    <2> HIDE DEF F, f
    <2>3. /\ Append(toServer, f) \in Seq(F) /\ Len(Append(toServer, f)) = Len(toServer) + 1
          /\ \A i \in 1 .. Len(toServer) : Append(toServer, f)[i] = toServer[i]
          /\ Append(toServer, f)[Len(toServer) + 1] = f
      BY <2>1, Sequences
    <2> QED BY <2>1, <2>2, <2>3 DEF F, f
  <1>6. Len(toServer) \in Nat
    BY Sequences DEF TypeOK
  <1>7. TypeOK'
    BY <1>1, <1>4, <1>5 DEF TypeOK, SmallTypes, Entry
  <1>8. ASSUME NEW c \in Covs, NEW x \in Ids
        PROVE  /\ Shows(c, x)' => Shows(c, x) \/ (x = id /\ c = active)
               /\ Rises(c, x)' => Rises(c, x) \/ (x = id /\ c = active)
               /\ Stores(c, x)' <=> Stores(c, x)
    <2>1. Shows(c, x)' => Shows(c, x) \/ (x = id /\ c = active)
      BY <1>3, <1>4 DEF Shows
    <2>2. Rises(c, x)' => Rises(c, x) \/ (x = id /\ c = active)
      BY <1>5, <1>6 DEF Rises
    <2> QED BY <2>1, <2>2 DEF Stores
  <1>9. HomeInv'
    BY <1>2, <1>8 DEF HomeInv, Mentions
  <1>10. OnceInv'
    <2>1. \A i \in 1 .. Len(toServer) : toServer[i].id # id
      <3>1. \A i \in 1 .. Len(toServer) : toServer[i].cov \in Covs
        <4>1. toServer \in Seq([id : MyIds, cov : Covs])
          BY DEF TypeOK
        <4>2. \A i \in 1 .. Len(toServer) : toServer[i] \in [id : MyIds, cov : Covs]
          BY <4>1, Sequences
        <4> QED BY <4>2
      <3> QED BY <1>2, <3>1 DEF Mentions, Rises
    <2>2. \A i, j \in 1 .. Len(toServer') : toServer'[i].id = toServer'[j].id => i = j
      BY <1>5, <1>6, <2>1 DEF OnceInv
    <2>3. \A x \in Ids, c, d \in Covs : ~(Rises(c, x)' /\ Stores(d, x)')
      BY <1>2, <1>8 DEF OnceInv, Mentions
    <2> QED BY <2>2, <2>3 DEF OnceInv
  <1>11. FramesInv'
    BY DEF FramesInv, FrameOK
  <1>12. AckInv'
    BY <1>1, <1>2 DEF AckInv
  <1>13. ListsInv'
    BY <1>2, <1>3, <1>4 DEF ListsInv, Agrees
  <1>14. OwnOnce'
    <2>1. \A c \in Covs : \A i \in 1 .. Len(list[c]) : list[c][i].id # id
      BY <1>2 DEF Mentions, Shows
    <2>2. ASSUME NEW c \in Covs, NEW i \in 1 .. Len(list'[c]), NEW j \in 1 .. Len(list'[c]),
                 list'[c][i].id = list'[c][j].id, list'[c][i].id \in MyIds
          PROVE  i = j
      <3>1. CASE i \in 1 .. Len(list[c]) /\ j \in 1 .. Len(list[c])
        BY <1>4, <2>2, <3>1 DEF OwnOnce
      <3>2. CASE ~(i \in 1 .. Len(list[c]) /\ j \in 1 .. Len(list[c]))
        BY <1>3, <1>4, <2>1, <2>2, <3>2
      <3> QED BY <3>1, <3>2
    <2> QED BY <2>2 DEF OwnOnce
  <1>15. LoadsInv'
    BY LoadsStep
  <1> QED BY <1>7, <1>9, <1>10, <1>11, <1>12, <1>13, <1>14, <1>15

\* A new mark and a new seq: who is where does not change.
LEMMA MarkStep ==
  ASSUME IInv, UNCHANGED <<log, toServer, loads>>,
         NEW id, NEW st \in Status, NEW seq \in Nat \cup {None},
         list' = SetStatus(list, id, st, seq)
  PROVE  Marked(list', list, id, st, seq) /\ LoadsInv' /\ HomeInv' /\ OnceInv' /\ OwnOnce'
  <1> USE DEF IInv
  <1>1. list \in [Covs -> Seq(Entry)]
    BY DEF TypeOK, Entry
  <1>2. Marked(list', list, id, st, seq)
    BY <1>1, StatusSet
  <1>3. \A c \in Covs : /\ Len(list'[c]) = Len(list[c])
                       /\ \A i \in 1 .. Len(list[c]) : list'[c][i].id = list[c][i].id
    BY <1>2 DEF Marked
  <1>4. ASSUME NEW c \in Covs, NEW x \in Ids
        PROVE  /\ Shows(c, x)' => Shows(c, x)
               /\ Stores(c, x)' <=> Stores(c, x)
               /\ Rises(c, x)' <=> Rises(c, x)
    <2>1. Shows(c, x)' => Shows(c, x)
      BY <1>3 DEF Shows
    <2> QED BY <2>1 DEF Stores, Rises
  <1>5. HomeInv'
    BY <1>4 DEF HomeInv, Mentions
  <1>6. OnceInv'
    BY <1>4 DEF OnceInv
  <1>7. OwnOnce'
    BY <1>3 DEF OwnOnce
  <1>8. LoadsInv'
    BY LoadsStep
  <1> QED BY <1>2, <1>3, <1>5, <1>6, <1>7, <1>8

\* The first frame of the server is handled.
LEMMA FrameTaken ==
  ASSUME IInv, toMe # <<>>, toMe' = Tail(toMe), UNCHANGED log
  PROVE  /\ toMe' \in Seq([kind : {"ack", "push"}, id : Ids, seq : Nat, cov : Covs \cup {None}])
         /\ FramesInv' /\ Head(toMe).id \in Ids /\ Head(toMe).seq \in Nat
         /\ \E c \in Covs : /\ Head(toMe).seq \in 1 .. Len(log[c])
                            /\ log[c][Head(toMe).seq] = Head(toMe).id
                            /\ Head(toMe).kind = "push" => Head(toMe).cov = c
                            /\ Head(toMe).kind = "ack" => Head(toMe).id \in MyIds
  <1> USE DEF IInv
  <1> DEFINE F == [kind : {"ack", "push"}, id : Ids, seq : Nat, cov : Covs \cup {None}]
  <1>1. toMe \in Seq(F)
    BY DEF TypeOK
  <1>2. \A x \in F : x.id \in Ids /\ x.seq \in Nat
    OBVIOUS
  <1> HIDE DEF F
  <1>3. /\ Head(toMe) \in F /\ Head(toMe) = toMe[1] /\ Tail(toMe) \in Seq(F)
        /\ Len(toMe) \in Nat /\ Len(toMe) >= 1 /\ Len(Tail(toMe)) = Len(toMe) - 1
        /\ \A i \in 1 .. Len(Tail(toMe)) : Tail(toMe)[i] = toMe[i + 1]
    BY <1>1, Sequences
  <1>4. FramesInv'
    BY <1>3 DEF FramesInv, FrameOK
  <1>5. 1 \in 1 .. Len(toMe)
    BY <1>3
  <1>6. FrameOK(toMe[1])
    BY <1>5 DEF FramesInv
  <1> QED BY <1>2, <1>3, <1>4, <1>6 DEF FrameOK, F

LEMMA AckStep ==
  ASSUME IInv, OnAck PROVE IInv'
  <1> USE DEF IInv
  <1> DEFINE f == Head(toMe)
  <1>1. /\ toMe # <<>> /\ toMe' = Tail(toMe) /\ f.kind = "ack"
        /\ list' = SetStatus(list, f.id, "success", f.seq)
        /\ pending' = pending \ {f.id} /\ acked' = acked \cup {f.id}
        /\ upload' \in {upload, NoUpload}
        /\ UNCHANGED <<log, up, toServer, active, loads>>
    BY DEF OnAck, Settled
  <1>2. PICK c \in Covs, id \in MyIds, seq \in Nat :
               f.id = id /\ f.seq = seq /\ seq \in 1 .. Len(log[c]) /\ log[c][seq] = id
    BY <1>1, FrameTaken
  <1>3. Len(log[c]) \in Nat /\ seq \in Nat
    <2>1. Len(log[c]) \in Nat
      BY Sequences DEF TypeOK
    <2> QED BY <2>1
  <1>4. /\ list' \in [Covs -> Seq(Entry)] /\ LoadsInv' /\ HomeInv' /\ OnceInv' /\ OwnOnce'
        /\ \A d \in Covs : /\ Len(list'[d]) = Len(list[d])
                           /\ \A i \in 1 .. Len(list[d]) :
                                /\ list'[d][i].id = list[d][i].id
                                /\ list[d][i].id # id => list'[d][i] = list[d][i]
                                /\ list[d][i].id = id => /\ list'[d][i].st = "success"
                                                         /\ list'[d][i].seq = seq
    <2>1. Marked(list', list, id, "success", seq) /\ LoadsInv' /\ HomeInv' /\ OnceInv' /\ OwnOnce'
      BY <1>1, <1>2, <1>3, MarkStep DEF Status
    <2> QED BY <1>3, <2>1 DEF Marked
  <1>5. TypeOK' /\ FramesInv'
    BY <1>1, <1>2, <1>4, FrameTaken, UploadTypes DEF TypeOK, Entry
  <1>6. AckInv'
    BY <1>1 DEF AckInv
  <1>7. ASSUME NEW d \in Covs, NEW i \in 1 .. Len(list'[d])
        PROVE  Agrees(list[d][i], d)' /\ (list'[d][i].id \in acked' => list'[d][i].st # "error")
    <2>1. CASE list[d][i].id # id
      BY <1>1, <1>2, <1>4, <2>1 DEF ListsInv, Agrees
    <2>2. CASE list[d][i].id = id
      <3>1. Mentions(d, id) /\ Mentions(c, id) /\ id \in Ids
        BY <1>2, <1>4, <2>2 DEF Mentions, Shows, Stores, Ids
      <3>2. c = d
        BY <3>1 DEF HomeInv
      <3> QED BY <1>1, <1>2, <1>3, <1>4, <2>2, <3>2 DEF Agrees
    <2> QED BY <2>1, <2>2
  <1>8. ListsInv'
    BY <1>7 DEF ListsInv
  <1> QED BY <1>4, <1>5, <1>6, <1>8

LEMMA TimeoutStep ==
  ASSUME IInv, NEW id \in MyIds, SendTimeout(id) PROVE IInv'
  <1> USE DEF IInv
  <1>1. /\ id \in pending /\ id \notin acked
        /\ list' = SetStatus(list, id, "error", None)
        /\ pending' = pending \ {id}
        /\ upload' \in {upload, NoUpload}
        /\ UNCHANGED <<log, up, toServer, toMe, active, loads, acked>>
    BY DEF SendTimeout, Settled, AckInv
  <1>2. /\ list' \in [Covs -> Seq(Entry)] /\ LoadsInv' /\ HomeInv' /\ OnceInv' /\ OwnOnce'
        /\ \A d \in Covs : /\ Len(list'[d]) = Len(list[d])
                           /\ \A i \in 1 .. Len(list[d]) :
                                /\ list'[d][i].id = list[d][i].id
                                /\ list[d][i].id # id => list'[d][i] = list[d][i]
                                /\ list[d][i].id = id => /\ list'[d][i].st = "error"
                                                         /\ list'[d][i].seq = list[d][i].seq
    <2>1. Marked(list', list, id, "error", None) /\ LoadsInv' /\ HomeInv' /\ OnceInv' /\ OwnOnce'
      BY <1>1, MarkStep DEF Status
    <2> QED BY <2>1 DEF Marked
  <1>3. TypeOK' /\ FramesInv' /\ AckInv'
    BY <1>1, <1>2, UploadTypes DEF TypeOK, Entry, FramesInv, FrameOK, AckInv
  <1>4. ListsInv'
    BY <1>1, <1>2 DEF ListsInv, Agrees
  <1> QED BY <1>2, <1>3, <1>4

LEMMA PushStep ==
  ASSUME IInv, OnPush PROVE IInv'
  <1> USE DEF IInv
  <1> DEFINE f == Head(toMe)
  <1>1. /\ toMe # <<>> /\ toMe' = Tail(toMe) /\ f.kind = "push"
        /\ list' = AddIncoming(list, f)
        /\ UNCHANGED <<log, up, toServer, active, pending, upload, loads, acked>>
    BY DEF OnPush
  <1>2. PICK c \in Covs, id \in Ids, seq \in Nat :
               /\ f.id = id /\ f.seq = seq /\ f.cov = c
               /\ seq \in 1 .. Len(log[c]) /\ log[c][seq] = id
    BY <1>1, FrameTaken
  <1>3. Mentions(c, id) /\ Len(log[c]) \in Nat /\ seq > 0 /\ seq <= Len(log[c])
    <2>1. Len(log[c]) \in Nat
      BY Sequences DEF TypeOK
    <2> QED BY <1>2, <2>1 DEF Mentions, Stores
  <1>4. toMe' \in Seq([kind : {"ack", "push"}, id : Ids, seq : Nat, cov : Covs \cup {None}])
        /\ FramesInv'
    BY <1>1, FrameTaken
  <1>5. LoadsInv'
    BY <1>1, LoadsStep
  <1>6. CASE UNCHANGED list
    <2>1. HomeInv' /\ OnceInv'
      BY <1>1, <1>6 DEF HomeInv, OnceInv, Mentions, Shows, Stores, Rises
    <2>2. ListsInv' /\ OwnOnce' /\ AckInv'
      BY <1>1, <1>6 DEF ListsInv, Agrees, OwnOnce, AckInv
    <2>3. TypeOK'
      BY <1>1, <1>4, <1>6 DEF TypeOK
    <2> QED BY <1>4, <1>5, <2>1, <2>2, <2>3
  <1>7. ASSUME list' = [list EXCEPT ![c] = Append(@, Message(id, seq, "success"))],
               id \in MyIds => \A m \in ToSet(list[c]) : m.id # id
        PROVE  IInv'
    <2>1. PICK m \in Entry : /\ m.id = id /\ m.seq = seq /\ m.st = "success"
                             /\ list' = [list EXCEPT ![c] = Append(@, m)]
      <3>1. [id |-> id, seq |-> seq, st |-> "success"] \in Entry
        BY DEF Entry, Status
      <3> QED BY <1>7, <3>1 DEF Message
    <2>2. list \in [Covs -> Seq(Entry)]
      BY DEF TypeOK, Entry
    <2>3. /\ list' \in [Covs -> Seq(Entry)]
          /\ \A d \in Covs : /\ Len(list[d]) \in Nat /\ Len(list[d]) <= Len(list'[d])
                             /\ \A i \in 1 .. Len(list[d]) : list'[d][i] = list[d][i]
                             /\ d # c => Len(list'[d]) = Len(list[d])
          /\ Len(list'[c]) = Len(list[c]) + 1 /\ list'[c][Len(list[c]) + 1] = m
      BY <2>1, <2>2, Longer
    <2>4. ASSUME NEW d \in Covs, NEW x \in Ids
          PROVE  /\ Shows(d, x)' => Mentions(d, x)
                 /\ Stores(d, x)' <=> Stores(d, x)
                 /\ Rises(d, x)' <=> Rises(d, x)
      <3>1. Shows(d, x)' => Shows(d, x) \/ (x = id /\ d = c)
        BY <2>1, <2>3 DEF Shows
      <3> QED BY <1>1, <1>3, <3>1 DEF Mentions, Stores, Rises
    <2>5. HomeInv' /\ OnceInv'
      <3>1. HomeInv'
        BY <2>4 DEF HomeInv, Mentions
      <3> QED BY <1>1, <2>4, <3>1 DEF OnceInv
    <2>6. ListsInv'
      BY <1>1, <1>2, <1>3, <2>1, <2>3 DEF ListsInv, Agrees
    <2>7. OwnOnce'
      <3>1. DOMAIN list[c] = 1 .. Len(list[c])
        BY <2>2, Sequences
      <3>2. id \in MyIds => \A i \in 1 .. Len(list[c]) : list[c][i].id # id
        BY <1>7, <3>1 DEF ToSet
      <3>3. ASSUME NEW d \in Covs, NEW i \in 1 .. Len(list'[d]), NEW j \in 1 .. Len(list'[d]),
                   list'[d][i].id = list'[d][j].id, list'[d][i].id \in MyIds
            PROVE  i = j
        <4>1. CASE i \in 1 .. Len(list[d]) /\ j \in 1 .. Len(list[d])
          BY <2>3, <3>3, <4>1 DEF OwnOnce
        <4>2. CASE ~(i \in 1 .. Len(list[d]) /\ j \in 1 .. Len(list[d]))
          BY <2>1, <2>3, <3>2, <3>3, <4>2
        <4> QED BY <4>1, <4>2
      <3> QED BY <3>3 DEF OwnOnce
    <2>8. TypeOK' /\ AckInv'
      BY <1>1, <1>4, <2>3 DEF TypeOK, Entry, AckInv
    <2> QED BY <1>4, <1>5, <2>5, <2>6, <2>7, <2>8
  <1>8. \/ UNCHANGED list
        \/ /\ list' = [list EXCEPT ![c] = Append(@, Message(id, seq, "success"))]
           /\ id \in MyIds => \A m \in ToSet(list[c]) : m.id # id
    BY <1>1, <1>2 DEF AddIncoming
  <1> QED BY <1>6, <1>7, <1>8

LEMMA HistoryStep ==
  ASSUME IInv, NEW s \in Loads, HistoryLoaded(s) PROVE IInv'
  <1> USE DEF IInv
  <1>1. PICK c \in Covs \cup {None} : \E q : /\ loads[s] = [cov |-> c, ans |-> q]
                                             /\ c = None => q = None
                                             /\ q # None => PageOK(q, c)
    BY DEF LoadsInv, SlotOK
  <1>2. PICK p : /\ loads[s] = [cov |-> c, ans |-> p]
                 /\ c = None => p = None
                 /\ p # None => PageOK(p, c)
    BY <1>1
  <1>3. /\ c \in Covs /\ PageOK(p, c)
        /\ list' = IF p = <<>> THEN list ELSE [list EXCEPT ![c] = p]
        /\ loads' = [loads EXCEPT ![s] = NoLoad]
        /\ UNCHANGED <<log, up, toServer, toMe, active, pending, upload, acked>>
    BY <1>2 DEF HistoryLoaded
  <1>4. LoadsInv' /\ \A t \in Loads : loads'[t].cov \in Covs \cup {None}
    BY <1>3, LoadsStep
  <1>5. list \in [Covs -> Seq(Entry)] /\ p \in Seq(Entry)
    BY <1>3 DEF TypeOK, Entry, PageOK
  <1>6. /\ list' \in [Covs -> Seq(Entry)]
        /\ \A d \in Covs : list'[d] = list[d] \/ (d = c /\ list'[d] = p)
    BY <1>3, <1>5
  <1>7. /\ \A i \in 1 .. Len(p) : Agrees(p[i], c) /\ p[i].seq > 0 /\ p[i].st = "success"
        /\ \A i, j \in 1 .. Len(p) : p[i].id = p[j].id => i = j
        /\ \A i \in 1 .. Len(p) : p[i] \in Entry
    BY <1>3, <1>5, Sequences DEF PageOK
  <1>8. \A i \in 1 .. Len(p) : Stores(c, p[i].id)
    <2>1. Len(log[c]) \in Nat
      BY <1>3, Sequences DEF TypeOK
    <2>2. \A i \in 1 .. Len(p) : p[i].seq \in 1 .. Len(log[c]) /\ log[c][p[i].seq] = p[i].id
      BY <1>7, <2>1 DEF Agrees, Entry
    <2> QED BY <2>2 DEF Stores
  <1>9. ASSUME NEW d \in Covs, NEW x \in Ids
        PROVE  /\ Shows(d, x)' => Mentions(d, x)
               /\ Stores(d, x)' <=> Stores(d, x)
               /\ Rises(d, x)' <=> Rises(d, x)
    <2>1. Shows(d, x)' => Shows(d, x) \/ Stores(d, x)
      <3>1. CASE list'[d] = list[d]
        BY <3>1 DEF Shows
      <3>2. CASE d = c /\ list'[d] = p
        <4>1. ASSUME NEW i \in 1 .. Len(p), p[i].id = x PROVE Stores(c, x)
          <5>1. Stores(c, p[i].id)
            BY <1>8
          <5> QED BY <4>1, <5>1 DEF Stores
        <4> QED BY <3>2, <4>1 DEF Shows
      <3> QED BY <1>6, <3>1, <3>2
    <2> QED BY <1>3, <2>1 DEF Mentions, Stores, Rises
  <1>10. HomeInv'
    BY <1>9 DEF HomeInv, Mentions
  <1>11. OnceInv'
    BY <1>3, <1>9 DEF OnceInv
  <1>12. ListsInv'
    <2>1. ASSUME NEW d \in Covs, NEW i \in 1 .. Len(list'[d])
          PROVE  Agrees(list[d][i], d)' /\ (list'[d][i].id \in acked' => list'[d][i].st # "error")
      <3>1. CASE list'[d] = list[d]
        BY <1>3, <3>1 DEF ListsInv, Agrees
      <3>2. CASE d = c /\ list'[d] = p
        BY <1>3, <1>7, <3>2 DEF Agrees
      <3> QED BY <1>6, <3>1, <3>2
    <2> QED BY <2>1 DEF ListsInv
  <1>13. OwnOnce'
    BY <1>6, <1>7 DEF OwnOnce
  <1>14. TypeOK' /\ FramesInv' /\ AckInv'
    BY <1>3, <1>4, <1>6 DEF TypeOK, Entry, FramesInv, FrameOK, AckInv
  <1> QED BY <1>4, <1>10, <1>11, <1>12, <1>13, <1>14

Frame == [kind : {"ack", "push"}, id : Ids, seq : Nat, cov : Covs \cup {None}]

\* The server stores the message id in conversation c and tells of it.
LEMMA StoreStep ==
  ASSUME IInv, NEW c \in Covs, NEW id \in Ids,
         log' = [log EXCEPT ![c] = Append(@, id)],
         UNCHANGED <<up, active, list, pending, upload, loads, acked>>,
         \A d \in Covs : ~Stores(d, id) /\ (Mentions(d, id) => d = c),
         toServer' \in Seq([id : MyIds, cov : Covs]),
         \A i, j \in 1 .. Len(toServer') : toServer'[i].id = toServer'[j].id => i = j,
         \A i \in 1 .. Len(toServer') : /\ toServer'[i].id # id
                                        /\ \E j \in 1 .. Len(toServer) : toServer'[i] = toServer[j],
         toMe' \in Seq(Frame),
         \A i \in 1 .. Len(toMe') :
           \/ \E j \in 1 .. Len(toMe) : toMe'[i] = toMe[j]
           \/ /\ toMe'[i].id = id /\ toMe'[i].seq = Len(log[c]) + 1
              /\ toMe'[i].kind = "push" => toMe'[i].cov = c
              /\ toMe'[i].kind = "ack" => id \in MyIds
  PROVE  IInv'
  <1> USE DEF IInv
  <1>1. log \in [Covs -> Seq(Ids)]
    BY DEF TypeOK
  <1>2. /\ log' \in [Covs -> Seq(Ids)]
        /\ \A d \in Covs : /\ Len(log[d]) \in Nat /\ Len(log[d]) <= Len(log'[d])
                           /\ \A i \in 1 .. Len(log[d]) : log'[d][i] = log[d][i]
                           /\ d # c => Len(log'[d]) = Len(log[d])
        /\ Len(log'[c]) = Len(log[c]) + 1 /\ log'[c][Len(log[c]) + 1] = id
    BY <1>1, Longer
  <1>3. TypeOK' /\ Grown
    BY <1>2 DEF TypeOK, Grown, Frame
  <1>4. LoadsInv'
    <2>1. \A p : \A d \in Covs : PageOK(p, d) => PageOK(p, d)'
      BY <1>3, StillTrue
    <2>2. DOMAIN loads' = Loads
      BY DEF LoadsInv
    <2>3. ASSUME NEW s \in Loads PROVE SlotOK(s)'
      BY <2>1 DEF LoadsInv, SlotOK
    <2> QED BY <2>2, <2>3 DEF LoadsInv
  <1>5. ASSUME NEW d \in Covs, NEW x \in Ids
        PROVE  /\ Shows(d, x)' <=> Shows(d, x)
               /\ Stores(d, x)' => Stores(d, x) \/ (x = id /\ d = c)
               /\ Rises(d, x)' => Rises(d, x) /\ x # id
    <2>1. Stores(d, x)' => Stores(d, x) \/ (x = id /\ d = c)
      BY <1>2 DEF Stores
    <2>2. Rises(d, x)' => Rises(d, x) /\ x # id
      BY DEF Rises
    <2> QED BY <2>1, <2>2 DEF Shows
  <1>6. HomeInv'
    BY <1>5 DEF HomeInv, Mentions
  <1>7. OnceInv'
    <2>1. ASSUME NEW d \in Covs, NEW i \in 1 .. Len(log'[d]), NEW j \in 1 .. Len(log'[d]),
                 log'[d][i] = log'[d][j]
          PROVE  i = j
      <3>1. CASE i \in 1 .. Len(log[d]) /\ j \in 1 .. Len(log[d])
        BY <1>2, <2>1, <3>1 DEF OnceInv
      <3>2. CASE ~(i \in 1 .. Len(log[d]) /\ j \in 1 .. Len(log[d]))
        BY <1>2, <2>1, <3>2 DEF Stores
      <3> QED BY <3>1, <3>2
    <2>2. \A x \in Ids, d, e \in Covs : ~(Rises(d, x)' /\ Stores(e, x)')
      BY <1>5 DEF OnceInv
    <2> QED BY <2>1, <2>2 DEF OnceInv
  <1>8. FramesInv'
    <2>1. ASSUME NEW i \in 1 .. Len(toMe') PROVE FrameOK(toMe[i])'
      <3>1. CASE \E j \in 1 .. Len(toMe) : toMe'[i] = toMe[j]
        <4>1. PICK j \in 1 .. Len(toMe) : toMe'[i] = toMe[j]
          BY <3>1
        <4>2. PICK f : f = toMe[j]
          OBVIOUS
        <4>3. FrameOK(f)
          BY <4>2 DEF FramesInv, FrameOK
        <4>4. FrameOK(f)'
          BY <1>3, <4>3, StillTrue
        <4> QED BY <4>1, <4>2, <4>4 DEF FrameOK
      <3>2. CASE ~\E j \in 1 .. Len(toMe) : toMe'[i] = toMe[j]
        <4>1. /\ toMe'[i].id = id /\ toMe'[i].seq = Len(log[c]) + 1
              /\ toMe'[i].kind = "push" => toMe'[i].cov = c
              /\ toMe'[i].kind = "ack" => id \in MyIds
          BY <2>1, <3>2
        <4>2. toMe'[i].seq \in 1 .. Len(log'[c]) /\ log'[c][toMe'[i].seq] = id
          BY <1>2, <4>1
        <4> QED BY <4>1, <4>2 DEF FrameOK
      <3> QED BY <3>1, <3>2
    <2> QED BY <2>1 DEF FramesInv
  <1>9. ListsInv'
    <2>1. ASSUME NEW d \in Covs, NEW i \in 1 .. Len(list[d])
          PROVE  /\ list[d][i].seq \in Nat
                 /\ Agrees(list[d][i], d)
                 /\ list[d][i].id \in acked => list[d][i].st # "error"
      <3>1. list[d] \in Seq(Entry)
        BY DEF TypeOK, Entry
      <3>2. list[d][i] \in Entry
        BY <3>1, Sequences
      <3> QED BY <3>2 DEF Entry, ListsInv
    <2> QED BY <1>2, <2>1 DEF ListsInv, Agrees
  <1>10. AckInv' /\ OwnOnce'
    BY DEF AckInv, OwnOnce
  <1> QED BY <1>3, <1>4, <1>6, <1>7, <1>8, <1>9, <1>10

LEMMA ServerStep ==
  ASSUME IInv, ServerTakes PROVE IInv'
  <1> USE DEF IInv
  <1> DEFINE F == [id : MyIds, cov : Covs]
             f == Head(toServer)
  <1>1. toServer \in Seq(F) /\ toMe \in Seq(Frame)
    BY DEF TypeOK, Frame
  <1>2. toServer # <<>> /\ toServer' = Tail(toServer)
        /\ UNCHANGED <<up, active, list, pending, upload, loads, acked>>
    BY DEF ServerTakes
  <1>3. PICK c \in Covs, id \in MyIds : f.cov = c /\ f.id = id
    <2> HIDE DEF F
    <2>1. f \in F
      BY <1>1, <1>2, Sequences
    <2> QED BY <2>1 DEF F
  <1>4. /\ f = toServer[1] /\ toServer' \in Seq(F) /\ Len(toServer) \in Nat /\ Len(toServer) >= 1
        /\ Len(toServer') = Len(toServer) - 1
        /\ \A i \in 1 .. Len(toServer') : toServer'[i] = toServer[i + 1]
    <2> HIDE DEF F
    <2> QED BY <1>1, <1>2, Sequences
  <1>5. id \in Ids /\ Rises(c, id)
    BY <1>3, <1>4 DEF Rises, Ids
  <1>6. \A d \in Covs : ~Stores(d, id) /\ (Mentions(d, id) => d = c)
    BY <1>5 DEF OnceInv, HomeInv, Mentions
  <1>7. \A i, j \in 1 .. Len(toServer') : toServer'[i].id = toServer'[j].id => i = j
    BY <1>4 DEF OnceInv
  <1>8. \A i \in 1 .. Len(toServer') : /\ toServer'[i].id # id
                                       /\ \E j \in 1 .. Len(toServer) : toServer'[i] = toServer[j]
    <2>1. TAKE i \in 1 .. Len(toServer')
    <2>2. i + 1 \in 1 .. Len(toServer) /\ i + 1 # 1 /\ 1 \in 1 .. Len(toServer)
      BY <1>4
    <2>3. toServer[i + 1].id # toServer[1].id
      BY <2>2 DEF OnceInv
    <2> QED BY <1>3, <1>4, <2>2, <2>3
  <1>9. Len(log[c]) \in Nat
    BY Sequences DEF TypeOK
  <1>10. PICK n \in Nat : n = Len(log[c]) + 1
    BY <1>9
  <1>11. PICK a \in Frame, b \in Frame :
           /\ a = Ack(id, n) /\ b = Push(id, n, Hall)
           /\ a.id = id /\ a.seq = n /\ a.kind = "ack"
           /\ b.id = id /\ b.seq = n /\ b.kind = "push" /\ b.cov = Hall
    <2>1. [kind |-> "ack", id |-> id, seq |-> n, cov |-> None] \in Frame
      BY <1>5 DEF Frame
    <2>2. [kind |-> "push", id |-> id, seq |-> n, cov |-> Hall] \in Frame
      BY <1>5 DEF Frame, Covs
    <2> QED BY <2>1, <2>2 DEF Ack, Push
  <1>12. /\ log' = [log EXCEPT ![c] = Append(@, id)]
         /\ \/ toMe' = toMe
            \/ toMe' = Append(toMe, a) \o <<>>
            \/ c = Hall /\ toMe' = Append(toMe, a) \o <<b>>
    BY <1>3, <1>10, <1>11 DEF ServerTakes
  <1>13. /\ toMe' \in Seq(Frame)
         /\ \A i \in 1 .. Len(toMe') : \/ \E j \in 1 .. Len(toMe) : toMe'[i] = toMe[j]
                                       \/ toMe'[i] = a \/ (c = Hall /\ toMe'[i] = b)
    <2>1. /\ Append(toMe, a) \in Seq(Frame) /\ Len(Append(toMe, a)) = Len(toMe) + 1
          /\ \A i \in 1 .. Len(toMe) : Append(toMe, a)[i] = toMe[i]
          /\ Append(toMe, a)[Len(toMe) + 1] = a /\ Len(toMe) \in Nat
      BY <1>1, Sequences
    <2>2. CASE toMe' = toMe
      BY <1>1, <2>2
    <2>3. CASE toMe' = Append(toMe, a) \o <<>>
      <3>1. toMe' = Append(toMe, a)
        BY <2>1, <2>3, ConcatEmptySeq
      <3> QED BY <2>1, <3>1
    <2>4. CASE c = Hall /\ toMe' = Append(toMe, a) \o <<b>>
      <3>1. toMe' = Append(Append(toMe, a), b)
        BY <2>1, <2>4, AppendIsConcat
      <3>2. /\ toMe' \in Seq(Frame) /\ Len(toMe') = Len(toMe) + 2
            /\ \A i \in 1 .. Len(toMe) + 1 : toMe'[i] = Append(toMe, a)[i]
            /\ toMe'[Len(toMe) + 2] = b
        BY <2>1, <3>1, Sequences
      <3>3. ASSUME NEW i \in 1 .. Len(toMe')
            PROVE  \/ \E j \in 1 .. Len(toMe) : toMe'[i] = toMe[j]
                   \/ toMe'[i] = a \/ toMe'[i] = b
        <4>1. i \in 1 .. Len(toMe) \/ i = Len(toMe) + 1 \/ i = Len(toMe) + 2
          BY <2>1, <3>2
        <4> QED BY <2>1, <3>2, <4>1
      <3> QED BY <2>4, <3>2, <3>3
    <2> QED BY <1>12, <2>2, <2>3, <2>4
  <1> QED BY <1>2, <1>4, <1>5, <1>6, <1>7, <1>8, <1>10, <1>11, <1>12, <1>13, StoreStep

LEMMA PeerStep ==
  ASSUME IInv, PeerSends PROVE IInv'
  <1> USE DEF IInv
  <1>1. PICK c \in Covs, id \in PeerIds :
          /\ id \notin Used
          /\ log' = [log EXCEPT ![c] = Append(@, id)]
          /\ toMe' = Append(toMe, Push(id, Len(log[c]) + 1, c)) \/ toMe' = toMe
          /\ UNCHANGED <<up, toServer, active, list, pending, upload, loads, acked>>
    BY DEF PeerSends
  <1>2. id \in Ids /\ \A d \in Covs : ~Mentions(d, id)
    BY <1>1, FreshId DEF Ids
  <1>3. toServer \in Seq([id : MyIds, cov : Covs]) /\ toMe \in Seq(Frame)
    BY DEF TypeOK, Frame
  <1>4. Len(log[c]) \in Nat
    BY Sequences DEF TypeOK
  <1>5. PICK n \in Nat : n = Len(log[c]) + 1
    BY <1>4
  <1>6. PICK b \in Frame : /\ b = Push(id, n, c)
                           /\ b.id = id /\ b.seq = n /\ b.kind = "push" /\ b.cov = c
    <2>1. [kind |-> "push", id |-> id, seq |-> n, cov |-> c] \in Frame
      BY <1>2 DEF Frame
    <2> QED BY <2>1 DEF Push
  <1>7. toMe' = toMe \/ toMe' = Append(toMe, b)
    BY <1>1, <1>5, <1>6
  <1>8. /\ toMe' \in Seq(Frame)
        /\ \A i \in 1 .. Len(toMe') : (\E j \in 1 .. Len(toMe) : toMe'[i] = toMe[j]) \/ toMe'[i] = b
    <2>1. /\ Append(toMe, b) \in Seq(Frame) /\ Len(Append(toMe, b)) = Len(toMe) + 1
          /\ \A i \in 1 .. Len(toMe) : Append(toMe, b)[i] = toMe[i]
          /\ Append(toMe, b)[Len(toMe) + 1] = b /\ Len(toMe) \in Nat
      BY <1>3, Sequences
    <2>2. CASE toMe' = toMe
      BY <1>3, <2>2
    <2>3. CASE toMe' = Append(toMe, b)
      BY <2>1, <2>3
    <2> QED BY <1>7, <2>2, <2>3
  <1>9. \A i \in 1 .. Len(toServer') : /\ toServer'[i].id # id
                                       /\ \E j \in 1 .. Len(toServer) : toServer'[i] = toServer[j]
    <2> DEFINE F == [id : MyIds, cov : Covs]
    <2>1. \A i \in 1 .. Len(toServer) : toServer[i] \in F
      <3> HIDE DEF F
      <3>1. toServer \in Seq(F)
        BY <1>3 DEF F
      <3> QED BY <3>1, Sequences
    <2>2. \A i \in 1 .. Len(toServer) : toServer[i].id \in MyIds
      BY <2>1
    <2> QED BY <1>1, <2>2, ChatAssumption DEF ChatAssumption
  <1>10. \A i, j \in 1 .. Len(toServer') : toServer'[i].id = toServer'[j].id => i = j
    BY <1>1 DEF OnceInv
  <1>11. \A d \in Covs : ~Stores(d, id) /\ (Mentions(d, id) => d = c)
    BY <1>2 DEF Mentions
  <1> QED BY <1>1, <1>2, <1>3, <1>5, <1>6, <1>8, <1>9, <1>10, <1>11, StoreStep
-----------------------------------------------------------------------------
LEMMA NextStep == IInv /\ [Next]_vars => IInv'
  <1> SUFFICES ASSUME IInv, [Next]_vars PROVE IInv'
    OBVIOUS
  <1>1. SmallTypes
    BY DEF IInv, TypeOK, SmallTypes
  <1>2. CASE SendText \/ MediaUploaded
    <2>1. Send /\ UNCHANGED <<log, toMe, loads, acked>> /\ SmallTypes'
      <3>1. CASE SendText
        BY <1>1, <3>1 DEF SendText, SmallTypes
      <3>2. CASE MediaUploaded
        <4>1. NewId \in MyIds
          BY <3>2 DEF MediaUploaded, Send, NewId
        <4> QED BY <1>1, <3>2, <4>1, UploadTypes DEF MediaUploaded, SmallTypes
      <3> QED BY <1>2, <3>1, <3>2
    <2> QED BY <2>1, SendStep
  <1>3. ASSUME UNCHANGED <<log, list, pending, acked>>, SmallTypes',
               toServer' \in {toServer, <<>>}, toMe' \in {toMe, <<>>},
               \/ UNCHANGED loads
               \/ \E c \in Covs : StartLoad(c)
               \/ \E s \in Loads : loads' = [loads EXCEPT ![s] = NoLoad]
               \/ \E s \in Loads : ServerAnswers(s)
        PROVE  IInv'
    <2>1. LoadsInv' /\ \A s \in Loads : loads'[s].cov \in Covs \cup {None}
      BY <1>3, LoadsStep
    <2> QED BY <1>3, <2>1, QuietStep
  <1>4. CASE PickMedia \/ MediaFailed \/ ConnectionLost \/ Reconnected \/ UNCHANGED vars
    BY <1>1, <1>3, <1>4, UploadTypes DEF PickMedia, MediaFailed, ConnectionLost, Reconnected, SmallTypes, vars
  <1>5. CASE ViewHistory \/ \E c \in Covs : Open(c)
    BY <1>1, <1>3, <1>5 DEF ViewHistory, Open, SmallTypes
  <1>6. CASE \E s \in Loads : HistoryFailed(s) \/ ServerAnswers(s)
    BY <1>1, <1>3, <1>6 DEF HistoryFailed, ServerAnswers, SmallTypes
  <1>7. CASE OnAck \/ OnPush \/ ServerTakes \/ PeerSends
    BY <1>7, AckStep, PushStep, ServerStep, PeerStep
  <1>8. CASE (\E id \in MyIds : SendTimeout(id)) \/ \E s \in Loads : HistoryLoaded(s)
    BY <1>8, TimeoutStep, HistoryStep
  <1> QED BY <1>2, <1>4, <1>5, <1>6, <1>7, <1>8 DEF Next

LEMMA Always == Spec => []IInv
  BY InitOK, NextStep, PTL DEF Spec

\* Lists, frames, answers and the server's tables keep their types (useChatStore.ts).
THEOREM Typed == Spec => []TypeOK
  <1>1. IInv => TypeOK
    BY DEF IInv
  <1> QED BY <1>1, Always, PTL

\* What a list shows with a seq is what the server stored at it, whatever the order
\* of ACKs, timeouts, pushes and history answers (useChatStore.ts).
THEOREM ListsTellTheTruth == Spec => []ListsAgreeWithLog
  <1>1. IInv => ListsAgreeWithLog
    <2>1. SUFFICES ASSUME IInv, NEW c \in Covs, NEW i \in 1 .. Len(list[c])
          PROVE  /\ list[c][i].seq > 0 => /\ list[c][i].seq <= Len(log[c])
                                         /\ log[c][list[c][i].seq] = list[c][i].id
                 /\ Mark(list[c][i]) = "check" => list[c][i].seq > 0
      BY DEF ListsAgreeWithLog
    <2>2. list[c] \in Seq(Entry)
      BY <2>1 DEF IInv, TypeOK, Entry
    <2>3. list[c][i].st \in Status
      <3>1. list[c][i] \in Entry
        BY <2>1, <2>2, Sequences
      <3> QED BY <3>1 DEF Entry
    <2>4. Mark(list[c][i]) = "check" => list[c][i].st = "success"
      BY <2>3 DEF Mark, Status
    <2> QED BY <2>1, <2>4 DEF IInv, ListsInv, Agrees
  <1> QED BY <1>1, Always, PTL

\* Of one's own messages no list shows one twice (addIncomingMessage, loadHistory).
THEOREM OwnShownOnce == Spec => []OwnOnce
  <1>1. IInv => OwnOnce
    BY DEF IInv
  <1> QED BY <1>1, Always, PTL

\* An acknowledged message is never marked as failed, however late its ACK came
\* (sendMessage and the ACK listener).
THEOREM AckedStaysGood == Spec => []AckedNeverAlert
  <1>1. IInv => AckedNeverAlert
    <2>1. SUFFICES ASSUME IInv, NEW c \in Covs, NEW m \in ToSet(list[c]), m.id \in acked
          PROVE  Mark(m) # "alert"
      BY DEF AckedNeverAlert
    <2>2. list[c] \in Seq(Entry)
      BY <2>1 DEF IInv, TypeOK, Entry
    <2>3. DOMAIN list[c] = 1 .. Len(list[c])
      BY <2>2, Sequences
    <2>4. PICK i \in 1 .. Len(list[c]) : m = list[c][i]
      BY <2>3 DEF ToSet
    <2>5. m \in Entry
      BY <2>2, <2>4, Sequences
    <2>6. m.st \in Status /\ m.st # "error"
      BY <2>1, <2>4, <2>5 DEF IInv, ListsInv, Entry
    <2> QED BY <2>6 DEF Mark, Status
  <1> QED BY <1>1, Always, PTL
===============================================================================
