---------------------------- MODULE Session_proofs ----------------------------
(***************************************************************************)
(* For any number of HTTP calls, sockets and logins: Session keeps its     *)
(* types, no call is parked without a refresh, the login form is honest,   *)
(* and a live session has a socket, a ticket on its way or a retry.        *)
(***************************************************************************)
EXTENDS Session, FiniteSetTheorems, WellFoundedInduction, TLAPS

CallRec == [kind : Kinds \cup {"free"}, ph : {"free", "sent", "queued", "refreshing"},
            tok : Token \cup {None}, retried : BOOLEAN]
SockRec == [st : {"closed", "opening", "open", "dead", "closing"}, hook : BOOLEAN,
            s : 0..MaxLogins]
LinkRec == [status : {"disconnected", "connecting", "connected", "reconnecting"},
            timer : BOOLEAN, hb : {"off", "on", "waiting"}, ws : Socks \cup {None},
            sock : [Socks -> SockRec]]

\* the types of everything but the calls and the link, and what a stored session id is
StateOK ==
  /\ storage \in [at : Token \cup {None}, rt : Token \cup {None}, sid : 0..MaxLogins]
  /\ storage.sid <= logins
  /\ user \in 0..logins /\ expired \in BOOLEAN /\ logins \in 0..MaxLogins
  /\ form \in [isLogin : BOOLEAN, loading : BOOLEAN]
  /\ refresh \in [ph : {"idle", "sent", "granted", "denied", "lost"},
                  by : Calls \cup {None}, tok : Token \cup {None}]
  /\ refresh.ph # "idle" => refresh.tok \in Token
  /\ valid \subseteq Token /\ rotation \in [Sessions -> Int]

\* slots are free or hold a call; a registration is never parked
CallsOK(cs) ==
  /\ cs \in [Calls -> CallRec]
  /\ \A c \in Calls : /\ cs[c].kind = "free" <=> cs[c].ph = "free"
                      /\ cs[c].kind = "register" => cs[c].ph = "sent"

\* every socket that is not closed still has its closures
LinkOK(l) == l \in LinkRec /\ \A k \in Socks : l.sock[k].st # "closed" => l.sock[k].hook

\* what QueueHasRefresh and FormIsHonest say, of a table of calls
QueueOK(cs, r) ==
  /\ \A c \in Calls : cs[c].ph = "queued" => r.ph # "idle"
  /\ \A c \in Calls : cs[c].ph = "refreshing" <=> (r.ph # "idle" /\ c = r.by)
  /\ r.ph # "idle" => r.by \in Calls
FormOK(f, cs) == f.loading => \E c \in Calls : cs[c].kind \in {"login", "register"}

\* a status that says so, and a live session without a retry, has a ticket or a socket
TicketIn(cs) == \E c \in Calls : cs[c].kind = "ticket"
Alive(l) == \E k \in Socks : l.sock[k].st # "closed"
Backed(cs, l) == TicketIn(cs) \/ Alive(l)
Promised(l, u, e) == l.status \in {"connecting", "connected"} \/ (u # 0 /\ ~e /\ ~l.timer)
NetOK(cs, l, u, e) == Promised(l, u, e) => Backed(cs, l)

IInv == /\ StateOK /\ CallsOK(calls) /\ LinkOK(link)
        /\ QueueOK(calls, refresh) /\ FormOK(form, calls)
        /\ NetOK(calls, link, user, expired)

-----------------------------------------------------------------------------
\* A free slot is found when there is one.
LEMMA SlotIsFree ==
  ASSUME NEW cs, Free(cs) # {}
  PROVE  Slot(cs) \in Free(cs)
  <1> DEFINE R == OpToRel(<, Nat)
  <1>1. Free(cs) \subseteq Nat
    BY SessionAssumption DEF Free
  <1>2. \E x \in Free(cs) : \A y \in Free(cs) : ~(<<y, x>> \in R)
    <2>1. IsWellFoundedOn(R, Nat)
      BY NatLessThanWellFounded
    <2> HIDE DEF R
    <2> QED BY <2>1, <1>1, WFMin
  <1>3. ASSUME NEW x \in Nat, NEW y \in Nat, y < x PROVE <<y, x>> \in R
    BY <1>3 DEF OpToRel
  <1> HIDE DEF R
  <1>4. \E x \in Free(cs) : \A y \in Free(cs) : x <= y
    <2>1. PICK x \in Free(cs) : \A y \in Free(cs) : ~(<<y, x>> \in R)
      BY <1>2
    <2>2. ASSUME NEW y \in Free(cs) PROVE x <= y
      <3>1. x \in Nat /\ y \in Nat /\ ~(y < x)
        BY <1>1, <1>3, <2>1
      <3> QED BY <3>1
    <2> QED BY <2>2
  <1> QED BY <1>4 DEF Slot

\* cs2 is cs with a call of this kind in a slot that was free
Added(cs, cs2, kind) ==
  \E c \in Calls : /\ cs[c].kind = "free" /\ cs[c].ph = "free"
                   /\ cs2[c].kind = kind /\ cs2[c].ph = "sent"
                   /\ \A d \in Calls \ {c} : cs2[d] = cs[d]

\* What is sent goes to a slot that was free, and disturbs nothing else.
LEMMA Sent ==
  ASSUME NEW cs, CallsOK(cs), Free(cs) # {}, NEW kind \in Kinds, NEW store,
         store.at \in Token \cup {None}
  PROVE  CallsOK(Send(cs, kind, store)) /\ Added(cs, Send(cs, kind, store), kind)
  <1> DEFINE new == [kind |-> kind, ph |-> "sent", tok |-> store.at, retried |-> FALSE]
  <1>1. Slot(cs) \in Calls /\ cs[Slot(cs)].kind = "free"
    BY SlotIsFree DEF Free
  <1>2. cs[Slot(cs)].ph = "free"
    BY <1>1 DEF CallsOK
  <1>3. Send(cs, kind, store) = [cs EXCEPT ![Slot(cs)] = new]
    BY DEF Send
  <1>4. new \in CallRec
    BY DEF CallRec
  <1>5. CallsOK([cs EXCEPT ![Slot(cs)] = new])
    BY <1>1, <1>4 DEF CallsOK, Kinds
  <1> QED BY <1>1, <1>2, <1>3, <1>5 DEF Added, CallsOK

\* Another call in flight changes no waiting queue, no form and no promise.
LEMMA AddedKeeps ==
  ASSUME NEW cs, NEW cs2, NEW kind, Added(cs, cs2, kind), NEW r, NEW f,
         kind \in Kinds
  PROVE  /\ QueueOK(cs, r) => QueueOK(cs2, r)
         /\ FormOK(f, cs) => FormOK(f, cs2)
         /\ TicketIn(cs) \/ kind = "ticket" => TicketIn(cs2)
         /\ kind \in {"login", "register"} => FormOK(f, cs2)
  <1> PICK c \in Calls : /\ cs[c].kind = "free" /\ cs[c].ph = "free"
                         /\ cs2[c].kind = kind /\ cs2[c].ph = "sent"
                         /\ \A d \in Calls \ {c} : cs2[d] = cs[d]
    BY DEF Added
  <1>1. QueueOK(cs, r) => QueueOK(cs2, r)
    BY DEF QueueOK
  <1>2. FormOK(f, cs) => FormOK(f, cs2)
    BY DEF FormOK
  <1>3. TicketIn(cs) \/ kind = "ticket" => TicketIn(cs2)
    BY DEF TicketIn
  <1>4. kind \in {"login", "register"} => FormOK(f, cs2)
    BY DEF FormOK
  <1> QED BY <1>1, <1>2, <1>3, <1>4

\* wsClient's operators on a link.
LEMMA LinkOps ==
  ASSUME NEW l, LinkOK(l)
  PROVE  /\ LinkOK(ConnectFailed(l)) /\ ConnectFailed(l).timer
         /\ ConnectFailed(l).status \in {"disconnected", "reconnecting"}
         /\ LinkOK(Disconnect(l)) /\ Disconnect(l).status = "disconnected"
         /\ LinkOK([l EXCEPT !.timer = FALSE]) /\ LinkOK([l EXCEPT !.hb = "off"])
         /\ LinkOK([l EXCEPT !.status = "connecting"])
  <1> USE DEF LinkOK, LinkRec
  <1>1. LinkOK(ConnectFailed(l)) /\ ConnectFailed(l).timer
        /\ ConnectFailed(l).status \in {"disconnected", "reconnecting"}
    BY DEF ConnectFailed, ScheduleReconnect
  <1>2. LinkOK(Disconnect(l)) /\ Disconnect(l).status = "disconnected"
    <2>1. NoSock \in SockRec
      BY SessionAssumption DEF NoSock, SockRec
    <2> QED BY <2>1 DEF Disconnect, NoSock
  <1> QED BY <1>1, <1>2

\* A fresh page's link.
LEMMA NoLinkOK == LinkOK(NoLink) /\ NoLink.status = "disconnected"
  <1>1. NoSock \in SockRec /\ NoSock.st = "closed"
    BY SessionAssumption DEF NoSock, SockRec
  <1> QED BY <1>1 DEF LinkOK, LinkRec, NoLink

\* The records that the store, the form and the refresh are reset to.
LEMMA Resets ==
  /\ Blank \in [at : Token \cup {None}, rt : Token \cup {None}, sid : 0..MaxLogins]
  /\ Blank.sid = 0
  /\ NoForm \in [isLogin : BOOLEAN, loading : BOOLEAN] /\ NoForm.loading = FALSE
  /\ Idle \in [ph : {"idle", "sent", "granted", "denied", "lost"},
               by : Calls \cup {None}, tok : Token \cup {None}]
  /\ Idle.ph = "idle"
  BY SessionAssumption DEF Blank, NoForm, Idle

\* Calls that are settled leave a well-formed table, with the others as they were.
LEMMA Settled ==
  ASSUME NEW cs, CallsOK(cs), NEW C
  PROVE  /\ CallsOK(Settle(cs, C))
         /\ \A c \in Calls : c \notin C => Settle(cs, C)[c] = cs[c]
         /\ \A c \in Calls \cap C : Settle(cs, C)[c].kind = "free" /\ Settle(cs, C)[c].ph = "free"
  <1>1. FreeCall \in CallRec
    BY DEF FreeCall, CallRec
  <1> QED BY <1>1 DEF CallsOK, Settle, FreeCall

\* connect: a call more or none, and a status that is true.
LEMMA Connected ==
  ASSUME NEW cs, CallsOK(cs), Free(cs) # {}, NEW l, LinkOK(l), NEW store,
         store.at \in Token \cup {None},
         l.status \in {"connecting", "connected"} => Backed(cs, l)
  PROVE  LET c == Connect(cs, l, store)
         IN /\ CallsOK(c.calls) /\ LinkOK(c.link) /\ Backed(c.calls, c.link)
            /\ c.calls = cs \/ Added(cs, c.calls, "ticket")
  <1>1. CASE MayConnect(l)
    <2>1. Connect(cs, l, store) = [calls |-> Send(cs, "ticket", store),
                                   link |-> [l EXCEPT !.status = "connecting"]]
      BY <1>1 DEF Connect
    <2>2. CallsOK(Send(cs, "ticket", store)) /\ Added(cs, Send(cs, "ticket", store), "ticket")
      BY Sent DEF Kinds
    <2>3. TicketIn(Send(cs, "ticket", store))
      BY <2>2, AddedKeeps DEF Kinds
    <2>4. LinkOK([l EXCEPT !.status = "connecting"])
      BY LinkOps
    <2> QED BY <2>1, <2>2, <2>3, <2>4 DEF Backed
  <1>2. CASE ~MayConnect(l)
    <2>1. Connect(cs, l, store) = [calls |-> cs, link |-> l]
      BY <1>2 DEF Connect
    <2>2. l.status \in {"connecting", "connected"}
      BY <1>2 DEF MayConnect
    <2> QED BY <2>1, <2>2
  <1> QED BY <1>1, <1>2

\* connect and fetchMyProfile, with two slots free.
LEMMA Started ==
  ASSUME NEW cs, CallsOK(cs), NEW l, LinkOK(l), NEW store, store.at \in Token \cup {None},
         NEW a \in Free(cs), NEW b \in Free(cs), a # b,
         l.status \in {"connecting", "connected"} => Backed(cs, l),
         Start(cs, l, store), NEW r, QueueOK(cs, r)
  PROVE  CallsOK(calls') /\ LinkOK(link') /\ Backed(calls', link') /\ QueueOK(calls', r)
  <1> DEFINE c == Connect(cs, l, store)
  <1>1. /\ CallsOK(c.calls) /\ LinkOK(c.link) /\ Backed(c.calls, c.link)
        /\ c.calls = cs \/ Added(cs, c.calls, "ticket")
    BY Connected
  <1>2. Free(c.calls) # {}
    BY <1>1 DEF Free, Added
  <1>3. QueueOK(c.calls, r)
    BY <1>1, AddedKeeps DEF Kinds
  <1>4. calls' = Send(c.calls, "profile", store) /\ link' = c.link
    BY DEF Start
  <1> HIDE DEF c
  <1>5. CallsOK(calls') /\ Added(c.calls, calls', "profile")
    BY <1>1, <1>2, <1>4, Sent DEF Kinds
  <1>6. QueueOK(calls', r) /\ (TicketIn(c.calls) => TicketIn(calls'))
    BY <1>3, <1>5, AddedKeeps DEF Kinds
  <1> QED BY <1>1, <1>4, <1>5, <1>6 DEF Backed

\* Rejected calls: without a ticket among them the link stays as it was, with
\* one the retry is armed.
LEMMA Rejected ==
  ASSUME CallsOK(calls), NEW C, NEW l, LinkOK(l), Reject(C, l)
  PROVE  /\ calls' = Settle(calls, C) /\ CallsOK(calls') /\ LinkOK(link')
         /\ \/ link' = l /\ (TicketIn(calls) => TicketIn(calls'))
            \/ link'.timer /\ link'.status \in {"disconnected", "reconnecting"}
  <1> DEFINE T == {c \in C : calls[c].kind = "ticket"}
             f == ConnectFailed(l)
  <1>1. calls' = Settle(calls, C) /\ CallsOK(calls')
    BY Settled DEF Reject
  <1>2. CASE T = {}
    <2>1. Cardinality(T) # 1
      BY <1>2, FS_EmptySet
    <2>2. link' = l
      BY <1>2, <2>1 DEF Reject
    <2>3. TicketIn(calls) => TicketIn(calls')
      BY <1>1, <1>2, Settled DEF TicketIn
    <2> QED BY <1>1, <2>2, <2>3
  <1>3. CASE T # {}
    <2>1. link' \in {f, ConnectFailed(f)}
      BY <1>3 DEF Reject
    <2>2. LinkOK(f) /\ f.timer /\ f.status \in {"disconnected", "reconnecting"}
      BY LinkOps
    <2> HIDE DEF f
    <2>3. LinkOK(ConnectFailed(f)) /\ ConnectFailed(f).timer
          /\ ConnectFailed(f).status \in {"disconnected", "reconnecting"}
      BY <2>2, LinkOps
    <2> QED BY <1>1, <2>1, <2>2, <2>3
  <1> QED BY <1>2, <1>3

-----------------------------------------------------------------------------
LEMMA InitOK == Init => IInv
  <1> SUFFICES ASSUME Init PROVE IInv
    OBVIOUS
  <1> USE SessionAssumption DEF Init
  <1>1. StateOK
    <2>1. rotation \in [Sessions -> Int] /\ valid \subseteq Token
      OBVIOUS
    <2>2. user \in 0..logins /\ logins \in 0..MaxLogins
      OBVIOUS
    <2>3. expired \in BOOLEAN
      BY Zenon
    <2>4. storage = Blank /\ form = NoForm /\ refresh = Idle /\ logins = 0
      OBVIOUS
    <2> HIDE DEF Init
    <2> QED BY <2>1, <2>2, <2>3, <2>4, Resets DEF StateOK
  <1>2. CallsOK(calls) /\ QueueOK(calls, refresh) /\ FormOK(form, calls)
    BY DEF CallsOK, FreeCall, CallRec, QueueOK, FormOK, NoForm, Idle
  <1>3. LinkOK(link) /\ NetOK(calls, link, user, expired)
    BY NoLinkOK DEF NetOK, Promised
  <1> QED BY <1>1, <1>2, <1>3 DEF IInv

-----------------------------------------------------------------------------
\* The user: typing, submitting, logging out, a view's request, a reload.
LEMMA UserOK ==
  ASSUME IInv, Toggle \/ Submit \/ Logout \/ Call \/ Reload
  PROVE  IInv'
  <1> USE DEF IInv
  <1>1. CASE Toggle
    <2>1. StateOK'
      BY <1>1 DEF Toggle, StateOK
    <2>2. FormOK(form, calls)'
      BY <1>1 DEF Toggle, FormOK, StateOK
    <2> QED BY <1>1, <2>1, <2>2 DEF Toggle
  <1>2. ASSUME NEW kind \in Kinds, Free(calls) # {}, calls' = Send(calls, kind, storage),
               UNCHANGED <<link, user, expired, refresh>>
        PROVE  /\ CallsOK(calls') /\ QueueOK(calls', refresh')
               /\ NetOK(calls', link', user', expired')
               /\ FormOK(form, calls) => FormOK(form, calls')
               /\ kind \in {"login", "register"} => FormOK(form', calls')
    <2>1. storage.at \in Token \cup {None}
      BY DEF StateOK
    <2>2. CallsOK(calls') /\ Added(calls, calls', kind)
      BY <1>2, <2>1, Sent
    <2>3. QueueOK(calls', refresh) /\ (TicketIn(calls) => TicketIn(calls'))
      BY <2>2, AddedKeeps
    <2>4. FormOK(form, calls) => FormOK(form, calls')
      BY <2>2, AddedKeeps
    <2>5. kind \in {"login", "register"} => FormOK(form', calls')
      BY <2>2, AddedKeeps
    <2> QED BY <1>2, <2>2, <2>3, <2>4, <2>5 DEF NetOK, Backed
  <1>3. CASE Submit
    <2>1. StateOK'
      BY <1>3 DEF Submit, StateOK
    <2>2. PICK kind \in {"login", "register"} : calls' = Send(calls, kind, storage)
      BY <1>3 DEF Submit
    <2> QED BY <1>2, <1>3, <2>1, <2>2 DEF Submit, Kinds
  <1>4. CASE Call
    <2>1. StateOK'
      BY <1>4 DEF Call, StateOK
    <2> QED BY <1>2, <1>4, <2>1 DEF Call, Kinds
  <1>5. CASE Logout
    <2>1. StateOK'
      <3>1. expired' \in BOOLEAN
        BY <1>5, Zenon DEF Logout
      <3> QED BY <1>5, <3>1, Resets DEF Logout, StateOK
    <2>2. LinkOK(link') /\ NetOK(calls', link', user', expired')
      BY <1>5, LinkOps DEF Logout, NetOK, Promised
    <2>3. FormOK(form', calls')
      BY <1>5 DEF Logout, FormOK, NoForm
    <2> QED BY <1>5, <2>1, <2>2, <2>3 DEF Logout
  <1>6. CASE Reload
    <2> DEFINE none == [c \in Calls |-> FreeCall]
    <2>1. StateOK'
      <3>1. expired' \in BOOLEAN
        BY <1>6, Zenon DEF Reload
      <3>2. user' \in 0..logins
        BY <1>6 DEF Reload, StateOK
      <3> QED BY <1>6, <3>1, <3>2, Resets DEF Reload, StateOK
    <2>2. FormOK(form', calls')
      BY <1>6 DEF Reload, FormOK, NoForm
    <2>3. CallsOK(none) /\ QueueOK(none, Idle)
      BY DEF CallsOK, CallRec, FreeCall, QueueOK, Idle
    <2>4. PICK a \in Free(none), b \in Free(none) : a # b
      BY SessionAssumption DEF Free, FreeCall
    <2>5. CASE Start(none, NoLink, storage)
      <3>1. storage.at \in Token \cup {None} /\ refresh' = Idle
        BY <1>6 DEF StateOK, Reload
      <3> HIDE DEF none
      <3>2. /\ CallsOK(calls') /\ LinkOK(link') /\ Backed(calls', link')
            /\ QueueOK(calls', Idle)
        BY <2>3, <2>4, <2>5, <3>1, NoLinkOK, Started
      <3> QED BY <2>1, <2>2, <3>1, <3>2 DEF NetOK
    <2>6. CASE user' = 0 /\ calls' = none /\ link' = NoLink
      BY <1>6, <2>1, <2>2, <2>3, <2>6, NoLinkOK DEF Reload, NetOK, Promised
    <2> QED BY <1>6, <2>5, <2>6 DEF Reload
  <1> QED BY <1>1, <1>3, <1>4, <1>5, <1>6

\* An answer to a call: granted, failed, refused, or parked for a refresh.
LEMMA AnswerOK ==
  ASSUME IInv, NEW c \in Calls, Answer(c)
  PROVE  IInv'
  <1> USE DEF IInv
  <1>1. ASSUME calls[c].ph = "sent"
        PROVE  QueueOK(Settle(calls, {c}), refresh)
    BY <1>1, Settled DEF QueueOK
  <1>2. ASSUME calls[c].kind \notin {"login", "register"}
        PROVE  FormOK(form, Settle(calls, {c}))
    BY <1>2, Settled DEF FormOK
  <1>3. CASE Granted(c)
    <2>1. calls' = Settle(calls, {c}) /\ CallsOK(calls') /\ QueueOK(calls', refresh')
      BY <1>1, <1>3, Settled DEF Granted
    <2>2. FormOK(form', calls')
      BY <1>2, <1>3 DEF Granted
    <2>3. StateOK'
      BY <1>3 DEF Granted, StateOK
    <2>4. CASE calls[c].kind = "ticket"
      <3>1. PICK k \in Socks : link' = OpenSocket(link, k, calls[c].tok[1])
        BY <1>3, <2>4 DEF Granted
      <3>2. calls[c].tok[1] \in 0..MaxLogins
        <4>1. calls[c].tok \in Token
          BY <1>3 DEF Granted, StateOK
        <4> QED BY <4>1, SessionAssumption DEF Token, Sessions
      <3>3. LinkOK(link') /\ Alive(link')
        BY <3>1, <3>2 DEF OpenSocket, LinkOK, LinkRec, SockRec, Alive
      <3> QED BY <2>1, <2>2, <2>3, <3>3 DEF NetOK, Backed
    <2>5. CASE calls[c].kind # "ticket"
      <3>1. UNCHANGED <<link, user, expired>>
        BY <1>3, <2>5 DEF Granted
      <3>2. TicketIn(calls) => TicketIn(calls')
        BY <2>1, <2>5, Settled DEF TicketIn
      <3> QED BY <2>1, <2>2, <2>3, <3>1, <3>2 DEF NetOK, Backed
    <2> QED BY <2>4, <2>5
  <1>4. CASE Registered(c)
    <2> DEFINE cs == Settle(calls, {c})
    <2>1. CallsOK(cs) /\ c \in Free(cs) /\ QueueOK(cs, refresh)
      BY <1>1, <1>4, Settled DEF Registered, Free
    <2>2. TicketIn(calls) => TicketIn(cs)
      BY <1>4, Settled DEF TicketIn, Registered
    <2>3. storage.at \in Token \cup {None}
      BY DEF StateOK
    <2>4. calls' = Send(cs, "login", storage)
      BY <1>4 DEF Registered
    <2> HIDE DEF cs
    <2>5. CallsOK(calls') /\ Added(cs, calls', "login")
      BY <2>1, <2>3, <2>4, Sent DEF Kinds
    <2>6. QueueOK(calls', refresh) /\ FormOK(form, calls') /\ (TicketIn(cs) => TicketIn(calls'))
      BY <2>1, <2>5, AddedKeeps DEF Kinds
    <2>7. StateOK'
      BY <1>4 DEF Registered, StateOK
    <2> QED BY <1>4, <2>2, <2>5, <2>6, <2>7 DEF Registered, NetOK, Backed
  <1>5. CASE LoggedIn(c)
    <2> DEFINE cs == Settle(calls, {c})
               n == logins + 1
               store == [at |-> <<n, 0>>, rt |-> <<n, 0>>, sid |-> n]
    <2>1. n \in Sessions /\ n \in 1..MaxLogins /\ <<n, 0>> \in Token
      BY <1>5, SessionAssumption DEF LoggedIn, StateOK, Sessions, Token
    <2>2. /\ logins' = n /\ valid' = valid \cup {<<n, 0>>} /\ storage' = store /\ user' = n
          /\ form' = NoForm /\ UNCHANGED <<refresh, rotation>> /\ Start(cs, link, store)
      BY <1>5 DEF LoggedIn
    <2>3. StateOK'
      <3>1. expired' \in BOOLEAN
        BY <1>5, Zenon DEF LoggedIn
      <3>2. /\ storage' \in [at : Token \cup {None}, rt : Token \cup {None}, sid : 0..MaxLogins]
            /\ storage'.sid = n
        BY <2>1, <2>2
      <3>3. user' \in 0..logins' /\ logins' \in 0..MaxLogins /\ n <= logins'
        BY <2>1, <2>2
      <3> HIDE DEF n, store
      <3> QED BY <2>1, <2>2, <3>1, <3>2, <3>3, Resets DEF StateOK
    <2>4. CallsOK(cs) /\ c \in Free(cs) /\ QueueOK(cs, refresh)
      BY <1>1, <1>5, Settled DEF LoggedIn, Free
    <2>5. PICK b \in Free(calls) : TRUE
      BY <1>5 DEF LoggedIn
    <2>6. b \in Free(cs) /\ b # c
      BY <1>5, Settled DEF Free, LoggedIn, CallsOK
    <2>7. TicketIn(calls) => TicketIn(cs)
      BY <1>5, Settled DEF TicketIn, LoggedIn
    <2>8. link.status \in {"connecting", "connected"} => Backed(cs, link)
      BY <2>7 DEF NetOK, Promised, Backed
    <2>9. store.at \in Token \cup {None}
      BY <2>1
    <2>10. FormOK(form', calls')
      BY <2>2, Resets DEF FormOK
    <2> HIDE DEF cs, store
    <2>11. /\ CallsOK(calls') /\ LinkOK(link') /\ Backed(calls', link')
           /\ QueueOK(calls', refresh)
      BY <2>2, <2>4, <2>6, <2>8, <2>9, Started
    <2> QED BY <2>2, <2>3, <2>10, <2>11 DEF NetOK
  <1>6. CASE Failed(c)
    <2>1. calls[c].ph = "sent" /\ Reject({c}, link) /\ UNCHANGED <<storage, user, expired, refresh, logins, valid, rotation>>
      BY <1>6 DEF Failed
    <2>2. calls' = Settle(calls, {c}) /\ CallsOK(calls') /\ QueueOK(calls', refresh')
      BY <1>1, <2>1, Rejected
    <2>3. LinkOK(link') /\ NetOK(calls', link', user', expired')
      BY <2>1, Rejected DEF NetOK, Promised, Backed
    <2>4. FormOK(form', calls')
      <3>1. form'.loading => form.loading /\ calls[c].kind \notin {"login", "register"}
        BY <1>6 DEF Failed, StateOK
      <3> QED BY <1>2, <2>2, <3>1 DEF FormOK
    <2>5. StateOK'
      BY <1>6, <2>1 DEF Failed, StateOK
    <2> QED BY <2>2, <2>3, <2>4, <2>5
  <1>7. CASE GiveUp(c)
    <2>1. calls[c].ph = "sent" /\ calls[c].kind # "register" /\ Expire({c})
      BY <1>7 DEF GiveUp, Unauthorized
    <2>2. LinkOK(Disconnect(link)) /\ Disconnect(link).status = "disconnected"
      BY LinkOps
    <2>3. Reject({c}, Disconnect(link)) /\ storage' = Blank /\ expired' = TRUE
      BY <2>1 DEF Expire
    <2>4. calls' = Settle(calls, {c}) /\ CallsOK(calls') /\ QueueOK(calls', refresh') /\ LinkOK(link')
      BY <1>1, <1>7, <2>1, <2>2, <2>3, Rejected DEF GiveUp
    <2>5. link'.status \notin {"connecting", "connected"}
      BY <2>2, <2>3, Rejected
    <2>6. FormOK(form', calls')
      <3>1. form'.loading => form.loading /\ calls[c].kind \notin {"login", "register"}
        BY <1>7, <2>1 DEF GiveUp, StateOK
      <3> QED BY <1>2, <2>4, <3>1 DEF FormOK
    <2>7. StateOK'
      <3>1. expired' \in BOOLEAN
        BY <2>3, Zenon
      <3> QED BY <1>7, <2>3, <3>1, Resets DEF GiveUp, StateOK
    <2> QED BY <2>3, <2>4, <2>5, <2>6, <2>7 DEF NetOK, Promised
  <1>8. CASE Enqueue(c)
    <2>1. CallsOK(calls') /\ \A d \in Calls : calls'[d].kind = calls[d].kind
      BY <1>8 DEF Enqueue, CallsOK, CallRec, Unauthorized
    <2>2. QueueOK(calls', refresh')
      BY <1>8 DEF Enqueue, QueueOK, CallsOK, CallRec, Unauthorized
    <2>3. FormOK(form', calls') /\ NetOK(calls', link', user', expired')
      BY <1>8, <2>1 DEF Enqueue, FormOK, NetOK, Backed, TicketIn
    <2>4. StateOK'
      BY <1>8 DEF Enqueue, StateOK
    <2> QED BY <1>8, <2>1, <2>2, <2>3, <2>4 DEF Enqueue
  <1>9. CASE Refresh(c)
    <2>1. CallsOK(calls') /\ \A d \in Calls : calls'[d].kind = calls[d].kind
      BY <1>9 DEF Refresh, CallsOK, CallRec, Unauthorized
    <2>2. QueueOK(calls', refresh')
      BY <1>9 DEF Refresh, QueueOK, CallsOK, CallRec, Unauthorized
    <2>3. FormOK(form', calls') /\ NetOK(calls', link', user', expired')
      BY <1>9, <2>1 DEF Refresh, FormOK, NetOK, Backed, TicketIn
    <2>4. StateOK'
      BY <1>9 DEF Refresh, StateOK
    <2> QED BY <1>9, <2>1, <2>2, <2>3, <2>4 DEF Refresh
  <1> QED BY <1>3, <1>4, <1>5, <1>6, <1>7, <1>8, <1>9 DEF Answer

\* The refresh: the server's rotation, a lost answer, and both ways it ends.
LEMMA RefreshOK ==
  ASSUME IInv, ServerRefresh \/ RefreshLost \/ Refreshed \/ RefreshFailed
  PROVE  IInv'
  <1> USE DEF IInv
  <1>1. CASE ServerRefresh
    <2> DEFINE s == refresh.tok[1]
    <2>1. refresh.ph = "sent" /\ refresh.tok \in Token /\ s \in Sessions
      BY <1>1 DEF ServerRefresh, StateOK, Token
    <2>2. /\ UNCHANGED <<storage, user, expired, form, calls, link, logins>>
          /\ refresh'.ph # "idle" /\ refresh'.by = refresh.by
      BY <1>1, <2>1 DEF ServerRefresh, StateOK
    <2>3. StateOK'
      <3>1. CASE rotation[s] = refresh.tok[2]
        <4>1. rotation[s] \in Nat /\ <<s, rotation[s] + 1>> \in Token
          BY <2>1, <3>1 DEF Token
        <4>2. /\ rotation' = [rotation EXCEPT ![s] = @ + 1]
              /\ valid' = valid \cup {<<s, rotation[s] + 1>>}
              /\ refresh' = [refresh EXCEPT !.ph = "granted", !.tok = <<s, rotation[s] + 1>>]
          BY <1>1, <3>1 DEF ServerRefresh
        <4> HIDE DEF s
        <4> DEFINE new == <<s, rotation[s] + 1>>
        <4>3. rotation' \in [Sessions -> Int] /\ valid' \subseteq Token
          <5>1. rotation' = [rotation EXCEPT ![s] = rotation[s] + 1] /\ rotation[s] + 1 \in Int
            BY <4>1, <4>2
          <5>2. rotation' \in [Sessions -> Int]
            BY <5>1 DEF StateOK
          <5>3. valid' \subseteq Token
            BY <4>1, <4>2 DEF StateOK
          <5> QED BY <5>2, <5>3
        <4>4. refresh' = [refresh EXCEPT !.ph = "granted", !.tok = new] /\ new \in Token
          BY <4>1, <4>2
        <4> HIDE DEF new
        <4>5. /\ refresh' \in [ph : {"idle", "sent", "granted", "denied", "lost"},
                              by : Calls \cup {None}, tok : Token \cup {None}]
              /\ refresh'.tok \in Token
          BY <4>4 DEF StateOK
        <4> QED BY <2>2, <4>3, <4>5 DEF StateOK
      <3>2. CASE rotation[s] # refresh.tok[2]
        <4>1. refresh' = [refresh EXCEPT !.ph = "denied"] /\ UNCHANGED <<rotation, valid>>
          BY <1>1, <3>2 DEF ServerRefresh
        <4> QED BY <2>1, <2>2, <4>1 DEF StateOK
      <3> QED BY <3>1, <3>2
    <2>4. QueueOK(calls', refresh')
      BY <2>1, <2>2 DEF QueueOK
    <2> QED BY <2>2, <2>3, <2>4
  <1>2. CASE RefreshLost
    <2>1. StateOK' /\ QueueOK(calls', refresh')
      BY <1>2 DEF RefreshLost, StateOK, QueueOK
    <2> QED BY <1>2, <2>1 DEF RefreshLost
  <1>3. CASE Refreshed
    <2>1. refresh.tok \in Token /\ refresh' = Idle
      BY <1>3 DEF Refreshed, StateOK
    <2>2. StateOK'
      BY <1>3, <2>1, Resets DEF Refreshed, StateOK
    <2>3. CallsOK(calls') /\ \A d \in Calls : calls'[d].kind = calls[d].kind
      BY <1>3, <2>1 DEF Refreshed, CallsOK, CallRec, Waiting
    <2>4. QueueOK(calls', refresh')
      <3>1. ASSUME NEW d \in Calls PROVE calls'[d].ph \notin {"queued", "refreshing"}
        BY <1>3 DEF Refreshed, CallsOK, CallRec, Waiting
      <3> QED BY <2>1, <3>1, Resets DEF QueueOK
    <2>5. FormOK(form', calls') /\ NetOK(calls', link', user', expired')
      BY <1>3, <2>3 DEF Refreshed, FormOK, NetOK, Backed, TicketIn
    <2> QED BY <1>3, <2>2, <2>3, <2>4, <2>5 DEF Refreshed
  <1>4. CASE RefreshFailed
    <2>1. refresh' = Idle /\ Reject(Waiting, Disconnect(link)) /\ storage' = Blank /\ expired' = TRUE
      BY <1>4 DEF RefreshFailed, Expire
    <2>2. LinkOK(Disconnect(link)) /\ Disconnect(link).status = "disconnected"
      BY LinkOps
    <2>3. calls' = Settle(calls, Waiting) /\ CallsOK(calls') /\ LinkOK(link')
      BY <2>1, <2>2, Rejected
    <2>4. link'.status \notin {"connecting", "connected"}
      BY <2>1, <2>2, Rejected
    <2>5. QueueOK(calls', refresh')
      BY <2>1, <2>3, Settled, Resets DEF QueueOK, Waiting
    <2>6. FormOK(form', calls')
      <3> SUFFICES ASSUME form'.loading PROVE \E d \in Calls : calls'[d].kind \in {"login", "register"}
        BY DEF FormOK
      <3>1. form.loading /\ \A d \in Waiting : calls[d].kind # "login"
        BY <1>4 DEF RefreshFailed, StateOK
      <3>2. PICK d \in Calls : calls[d].kind \in {"login", "register"}
        BY <3>1 DEF FormOK
      <3>3. d \notin Waiting
        BY <3>1, <3>2 DEF Waiting, CallsOK
      <3> QED BY <2>3, <3>2, <3>3, Settled
    <2>7. StateOK'
      <3>1. expired' \in BOOLEAN
        BY <2>1, Zenon
      <3> QED BY <1>4, <2>1, <3>1, Resets DEF RefreshFailed, StateOK
    <2> QED BY <2>1, <2>3, <2>4, <2>5, <2>6, <2>7 DEF NetOK, Promised
  <1> QED BY <1>1, <1>2, <1>3, <1>4

\* wsClient's timers and its sockets' callbacks; the socket's network.
LEMMA SocketOK ==
  ASSUME IInv,
         \/ ReconnectTimer \/ Ping \/ Pong \/ PongTimeout
         \/ \E k \in Socks : OnOpen(k) \/ OnClose(k) \/ LinkDies(k)
  PROVE  IInv'
  <1> USE DEF IInv
  <1>1. CASE ReconnectTimer
    <2> DEFINE l == [link EXCEPT !.timer = FALSE]
               c == Connect(calls, l, storage)
    <2>1. LinkOK(l) /\ l.status = link.status /\ l.sock = link.sock
      BY LinkOps DEF LinkOK, LinkRec
    <2>2. l.status \in {"connecting", "connected"} => Backed(calls, l)
      BY <2>1 DEF NetOK, Promised, Backed, Alive
    <2>3. storage.at \in Token \cup {None} /\ Free(calls) # {}
      BY <1>1 DEF ReconnectTimer, StateOK
    <2> HIDE DEF l
    <2>4. /\ CallsOK(c.calls) /\ LinkOK(c.link) /\ Backed(c.calls, c.link)
          /\ c.calls = calls \/ Added(calls, c.calls, "ticket")
      BY <2>1, <2>2, <2>3, Connected
    <2>5. calls' = c.calls /\ link' = c.link
      BY <1>1 DEF ReconnectTimer, l
    <2> HIDE DEF c
    <2>6. QueueOK(calls', refresh) /\ FormOK(form, calls')
      BY <2>4, <2>5, AddedKeeps DEF Kinds
    <2>7. StateOK'
      BY <1>1 DEF ReconnectTimer, StateOK
    <2> QED BY <1>1, <2>4, <2>5, <2>6, <2>7 DEF ReconnectTimer, NetOK
  \* the other callbacks change the link alone
  <1>2. ASSUME UNCHANGED <<storage, user, expired, form, calls, refresh, logins, valid, rotation>>,
               LinkOK(link'),
               \/ Alive(link')
               \/ link'.status \notin {"connecting", "connected"} /\ link'.timer
               \/ /\ link'.status = link.status /\ link'.timer = link.timer
                  /\ Alive(link) => Alive(link')
        PROVE  IInv'
    <2>1. StateOK'
      BY <1>2 DEF StateOK
    <2>2. NetOK(calls', link', user', expired')
      BY <1>2 DEF NetOK, Promised, Backed
    <2> QED BY <1>2, <2>1, <2>2
  <1>3. CASE Ping \/ Pong
    <2>1. LinkOK(link') /\ link'.status = link.status /\ link'.timer = link.timer
          /\ link'.sock = link.sock
      BY <1>3 DEF Ping, Pong, LinkOK, LinkRec
    <2> QED BY <1>2, <1>3, <2>1 DEF Ping, Pong, Alive
  <1>4. CASE PongTimeout
    <2> DEFINE sock == [k \in Socks |-> IF k = link.ws /\ link.sock[k].st # "closed"
                                        THEN [link.sock[k] EXCEPT !.st = "closing"]
                                        ELSE link.sock[k]]
    <2>1. link' = [link EXCEPT !.hb = "on", !.sock = sock]
      BY <1>4 DEF PongTimeout
    <2>2. /\ sock \in [Socks -> SockRec]
          /\ \A k \in Socks : /\ sock[k].hook = link.sock[k].hook
                              /\ sock[k].st = "closed" <=> link.sock[k].st = "closed"
      BY DEF LinkOK, LinkRec, SockRec
    <2> HIDE DEF sock
    <2>3. /\ LinkOK(link') /\ link'.status = link.status /\ link'.timer = link.timer
          /\ Alive(link) => Alive(link')
      BY <2>1, <2>2 DEF LinkOK, LinkRec, Alive
    <2> QED BY <1>2, <1>4, <2>3 DEF PongTimeout
  <1>5. ASSUME NEW k \in Socks, OnOpen(k) PROVE IInv'
    <2> DEFINE open == [link.sock[k] EXCEPT !.st = "open"]
               sock == [link.sock EXCEPT ![k] = open]
    <2>1. open \in SockRec /\ open.hook /\ open.st = "open"
      BY <1>5 DEF OnOpen, LinkOK, LinkRec, SockRec
    <2>2. link' = [link EXCEPT !.sock = sock, !.status = "connected", !.hb = "on"]
      BY <1>5 DEF OnOpen, LinkOK, LinkRec
    <2> HIDE DEF open
    <2>3. sock \in [Socks -> SockRec] /\ sock[k] = open
          /\ \A j \in Socks : sock[j].st # "closed" => sock[j].hook
      BY <2>1 DEF LinkOK, LinkRec
    <2> HIDE DEF sock
    <2>4. LinkOK(link') /\ Alive(link')
      BY <2>1, <2>2, <2>3 DEF LinkOK, LinkRec, Alive
    <2> QED BY <1>2, <1>5, <2>4 DEF OnOpen
  <1>6. ASSUME NEW k \in Socks, LinkDies(k) PROVE IInv'
    <2>1. LinkOK(link') /\ Alive(link')
      BY <1>6 DEF LinkDies, LinkOK, LinkRec, SockRec, Alive
    <2> QED BY <1>2, <1>6, <2>1 DEF LinkDies
  <1>7. ASSUME NEW k \in Socks, OnClose(k) PROVE IInv'
    <2> DEFINE l == [[link EXCEPT !.sock[k] = NoSock] EXCEPT !.hb = "off"]
    <2>1. NoSock \in SockRec /\ NoSock.st = "closed"
      BY SessionAssumption DEF NoSock, SockRec
    <2>2. LinkOK(l)
      BY <2>1 DEF LinkOK, LinkRec
    <2>3. link' = ConnectFailed(l)
      BY <1>7 DEF OnClose, LinkOK
    <2> HIDE DEF l
    <2>4. LinkOK(link') /\ link'.timer /\ link'.status \in {"disconnected", "reconnecting"}
      BY <2>2, <2>3, LinkOps
    <2> QED BY <1>2, <1>7, <2>4 DEF OnClose
  <1> QED BY <1>1, <1>3, <1>4, <1>5, <1>6, <1>7

\* The server's side: a token runs out, a session is revoked.
LEMMA ServerOK ==
  ASSUME IInv, TokenExpires \/ Revoke
  PROVE  IInv'
  <1> USE DEF IInv
  <1>1. /\ UNCHANGED <<storage, user, expired, form, calls, refresh, link, logins>>
        /\ valid' \subseteq valid
        /\ \/ rotation' = rotation
           \/ \E s \in 1..logins : rotation' = [rotation EXCEPT ![s] = Revoked]
    BY DEF TokenExpires, Revoke
  <1>2. rotation' \in [Sessions -> Int]
    BY <1>1 DEF StateOK, Revoked
  <1>3. StateOK'
    BY <1>1, <1>2 DEF StateOK
  <1> QED BY <1>1, <1>3

LEMMA StutterOK == ASSUME IInv, UNCHANGED vars PROVE IInv'
  BY DEF IInv, vars, StateOK

LEMMA NextOK == IInv /\ [Next]_vars => IInv'
  BY UserOK, AnswerOK, RefreshOK, SocketOK, ServerOK, StutterOK DEF Next

LEMMA Always == Spec => []IInv
  BY InitOK, NextOK, PTL DEF Spec

-----------------------------------------------------------------------------
\* Every variable keeps its type, whatever order the callbacks run in.
THEOREM Typed == Spec => []TypeOK
  <1>1. IInv => TypeOK
    BY DEF IInv, StateOK, CallsOK, LinkOK, CallRec, LinkRec, SockRec, TypeOK
  <1> QED BY <1>1, Always, PTL

\* No call is left in failedQueue with no refresh to settle it (client.ts).
THEOREM QueueNeverStuck == Spec => []QueueHasRefresh
  <1>1. IInv => QueueHasRefresh
    BY DEF IInv, QueueOK, QueueHasRefresh, Waiting
  <1> QED BY <1>1, Always, PTL

\* The login form is disabled only while a login or a registration is in flight.
THEOREM FormHonest == Spec => []FormIsHonest
  <1>1. IInv => FormIsHonest
    BY DEF IInv, FormOK, FormIsHonest, Loading
  <1> QED BY <1>1, Always, PTL

\* A session shown as live has a socket, a ticket on its way or an armed retry,
\* after any number of logins, stale closes and failed tickets (wsClient.ts).
THEOREM LiveReconnects == Spec => []LiveSessionReconnects
  <1>1. IInv => LiveSessionReconnects
    BY DEF IInv, NetOK, Promised, Backed, TicketIn, Alive, LinkOK, LiveSessionReconnects
  <1> QED BY <1>1, Always, PTL
=============================================================================
