------------------------------- MODULE Session -------------------------------
(***************************************************************************)
(* One browser tab of the web client: the tokens in localStorage, the auth *)
(* store, the axios instance that refreshes an expired access token, and   *)
(* the life cycle of the WebSocket client.  The server is what the tab can *)
(* tell of it: which access tokens it accepts and which refresh token each *)
(* session would still rotate.                                             *)
(*                                                                         *)
(* JavaScript runs one callback at a time, so one action is one callback   *)
(* together with the continuations that run before the next one.           *)
(***************************************************************************)
EXTENDS Integers, FiniteSets

CONSTANTS Calls,       \* slots for HTTP calls in flight (bound)
          Socks,       \* WebSocket objects that exist at a time (bound)
          MaxLogins,   \* logins in one behaviour (bound)
          None

ASSUME SessionAssumption == /\ MaxLogins \in Nat \ {0}
                            /\ Calls \subseteq Nat /\ None \notin Socks
                            /\ \E c, d \in Calls : c # d     \* connect and fetchMyProfile

VARIABLES storage,   \* localStorage: access token, refresh token, session id
          user,      \* useAuthStore: the session shown as logged in, 0 if none
          expired,   \* 'auth:expired' was raised since that login
          form,      \* AuthModal: isLogin and loading
          calls,     \* the HTTP calls in flight
          refresh,   \* isRefreshing, and the POST /auth/refresh it stands for
          link,      \* wsClient: status, timers, this.ws and the sockets
          logins,    \* sessions the server has created
          valid,     \* access tokens the server accepts
          rotation   \* per session, the refresh token the server would rotate

vars == <<storage, user, expired, form, calls, refresh, link, logins, valid, rotation>>

Revoked == -1
Sessions == 1..MaxLogins
Kinds == {"ticket", "profile", "api", "login", "register"}
Token == Sessions \X Nat          \* a session and how often it was rotated
Blank == [at |-> None, rt |-> None, sid |-> 0]
Idle == [ph |-> "idle", by |-> None, tok |-> None]
FreeCall == [kind |-> "free", ph |-> "free", tok |-> None, retried |-> FALSE]
NoForm == [isLogin |-> TRUE, loading |-> FALSE]
NoSock == [st |-> "closed", hook |-> FALSE, s |-> 0]
NoLink == [status |-> "disconnected", timer |-> FALSE, hb |-> "off", ws |-> None,
           sock |-> [k \in Socks |-> NoSock]]

-----------------------------------------------------------------------------
(* wsClient, as functions of its private fields.                           *)

\* catch block of connect and the tail of onclose: 'disconnected', then
\* scheduleReconnect, which returns early when a timer is already set.
ScheduleReconnect(l) ==
  IF l.timer THEN l ELSE [l EXCEPT !.status = "reconnecting", !.timer = TRUE]
\* mutant: the catch block and onclose leave the retry to somebody else
ConnectFailed_NoRetry(l) == [l EXCEPT !.status = "disconnected"]

ConnectFailed(l) == ScheduleReconnect([l EXCEPT !.status = "disconnected"])

\* mutant: this.ws becomes undefined instead of null
Disconnect_Undefined(l) ==
  [l EXCEPT !.timer = FALSE, !.hb = "off", !.ws = 0, !.status = "disconnected"]

Disconnect(l) ==
  [l EXCEPT !.timer = FALSE, !.hb = "off", !.ws = None, !.status = "disconnected",
            !.sock = [k \in Socks |-> IF k = l.ws THEN NoSock ELSE l.sock[k]]]

MayConnect(l) == l.status \notin {"connected", "connecting"}

\* the ticket arrived: a socket is made and replaces this.ws, whatever it was
OpenSocket(l, k, s) ==
  [l EXCEPT !.ws = k, !.sock[k] = [st |-> "opening", hook |-> TRUE, s |-> s]]

-----------------------------------------------------------------------------
(* The axios instance: a call carries the access token stored when it is   *)
(* sent.                                                                   *)

Free(cs) == {c \in Calls : cs[c].kind = "free"}
Slot(cs) == CHOOSE c \in Free(cs) : \A d \in Free(cs) : c <= d
Send(cs, kind, store) ==
  [cs EXCEPT ![Slot(cs)] = [kind |-> kind, ph |-> "sent", tok |-> store.at, retried |-> FALSE]]
Settle(cs, C) == [c \in Calls |-> IF c \in C THEN FreeCall ELSE cs[c]]
Loading(cs) == \E c \in Calls : cs[c].kind \in {"login", "register"}

\* connect(), when it does not return early, asks for a ticket
Connect(cs, l, store) ==
  IF MayConnect(l)
  THEN [calls |-> Send(cs, "ticket", store), link |-> [l EXCEPT !.status = "connecting"]]
  ELSE [calls |-> cs, link |-> l]

\* the end of login, register and initAuth: connect, then fetchMyProfile
Start(cs, l, store) ==
  LET c == Connect(cs, l, store)
  IN /\ calls' = Send(c.calls, "profile", store)
     /\ link' = c.link

\* calls C are rejected; a rejected ticket sends connect to its catch block
Reject(C, l) ==
  LET T == {c \in C : calls[c].kind = "ticket"}
  IN /\ calls' = Settle(calls, C)
     /\ link' = CASE T = {} -> l
                  [] Cardinality(T) = 1 -> ConnectFailed(l)
                  [] OTHER -> ConnectFailed(ConnectFailed(l))

\* tokenStorage.clear and 'auth:expired', to which only wsClient listens
Expire(C) ==
  /\ storage' = Blank
  /\ expired' = TRUE
  /\ Reject(C, Disconnect(link))

-----------------------------------------------------------------------------
Init ==
  /\ storage = Blank /\ user = 0 /\ expired = FALSE
  /\ form = NoForm
  /\ calls = [c \in Calls |-> FreeCall]
  /\ refresh = Idle /\ link = NoLink
  /\ logins = 0 /\ valid = {} /\ rotation = [s \in Sessions |-> 0]

-----------------------------------------------------------------------------
(* The user.                                                               *)

Toggle ==
  /\ user = 0
  /\ form' = [form EXCEPT !.isLogin = ~@]
  /\ UNCHANGED <<storage, user, expired, calls, refresh, link, logins, valid, rotation>>

\* AuthModal is shown while nobody is logged in; its inputs and its button are
\* disabled while loading
CanSubmit == user = 0 /\ ~form.loading

\* a valid form is submitted
Submit ==
  /\ CanSubmit /\ Free(calls) # {}
  /\ form' = [form EXCEPT !.loading = TRUE]
  /\ calls' = Send(calls, IF form.isLogin THEN "login" ELSE "register", storage)
  /\ UNCHANGED <<storage, user, expired, refresh, link, logins, valid, rotation>>

Logout ==
  /\ user # 0
  /\ storage' = Blank /\ user' = 0 /\ expired' = FALSE
  /\ link' = Disconnect(link)
  /\ form' = NoForm                                     \* AuthModal mounts anew
  /\ UNCHANGED <<calls, refresh, logins, valid, rotation>>

\* any view's request through apiClient
Call ==
  /\ user # 0 /\ Free(calls) # {}
  /\ calls' = Send(calls, "api", storage)
  /\ UNCHANGED <<storage, user, expired, form, refresh, link, logins, valid, rotation>>

\* the page is loaded again: memory is lost, localStorage is not
Reload ==
  /\ LET back == storage.at # None /\ storage.sid # 0
         none == [c \in Calls |-> FreeCall]
     IN /\ user' = IF back THEN storage.sid ELSE 0
        /\ IF back THEN Start(none, NoLink, storage)
                   ELSE calls' = none /\ link' = NoLink
  /\ expired' = FALSE /\ refresh' = Idle
  /\ form' = NoForm
  /\ UNCHANGED <<storage, logins, valid, rotation>>

-----------------------------------------------------------------------------
(* Answers to HTTP calls.                                                  *)

\* a 2xx answer to an authenticated call
Granted(c) ==
  /\ calls[c].ph = "sent" /\ calls[c].kind \in {"ticket", "profile", "api"}
  /\ calls[c].tok \in valid
  /\ calls' = Settle(calls, {c})
  /\ IF calls[c].kind = "ticket"
     THEN \E k \in Socks : /\ link.sock[k].st = "closed"
                           /\ link' = OpenSocket(link, k, calls[c].tok[1])
     ELSE UNCHANGED link
  /\ UNCHANGED <<storage, user, expired, form, refresh, logins, valid, rotation>>

\* POST /auth/register succeeded: register goes on with a login
Registered(c) ==
  /\ calls[c].ph = "sent" /\ calls[c].kind = "register"
  /\ calls' = Send(Settle(calls, {c}), "login", storage)
  /\ UNCHANGED <<storage, user, expired, form, refresh, link, logins, valid, rotation>>

\* POST /auth/login succeeded: tokenStorage.setAuth, the store, connect, profile
LoggedIn(c) ==
  /\ calls[c].ph = "sent" /\ calls[c].kind = "login"
  /\ logins < MaxLogins /\ Free(calls) # {}
  /\ LET n == logins + 1
         store == [at |-> <<n, 0>>, rt |-> <<n, 0>>, sid |-> n]
     IN /\ logins' = n
        /\ valid' = valid \cup {<<n, 0>>}
        /\ storage' = store /\ user' = n
        /\ Start(Settle(calls, {c}), link, store)
  /\ expired' = FALSE
  /\ form' = NoForm                                     \* AuthModal unmounts
  /\ UNCHANGED <<refresh, rotation>>

\* mutant: handleSubmit without its finally
Failed_NoFinally(c) ==
  /\ calls[c].ph = "sent"
  /\ Reject({c}, link)
  /\ UNCHANGED <<storage, user, expired, form, refresh, logins, valid, rotation>>

\* no answer, or an answer that is neither 2xx nor 401
Failed(c) ==
  /\ calls[c].ph = "sent"
  /\ Reject({c}, link)
  /\ form' = [form EXCEPT !.loading = @ /\ calls[c].kind \notin {"login", "register"}]
  /\ UNCHANGED <<storage, user, expired, refresh, logins, valid, rotation>>

\* 401: a token the server does not accept, or a wrong password
Unauthorized(c) ==
  /\ calls[c].ph = "sent" /\ calls[c].kind # "register"
  /\ calls[c].kind # "login" => calls[c].tok \notin valid

\* handleUnauthorized: the second 401 of one call, or nothing to refresh with
GiveUp(c) ==
  /\ Unauthorized(c)
  /\ \/ calls[c].retried
     \/ refresh.ph = "idle" /\ (storage.rt = None \/ storage.sid = 0)
  /\ Expire({c})
  /\ form' = [form EXCEPT !.loading = @ /\ calls[c].kind # "login"]
  /\ UNCHANGED <<user, refresh, logins, valid, rotation>>

\* handleUnauthorized: another call is refreshing
Enqueue(c) ==
  /\ Unauthorized(c) /\ ~calls[c].retried /\ refresh.ph # "idle"
  /\ calls' = [calls EXCEPT ![c].ph = "queued"]
  /\ UNCHANGED <<storage, user, expired, form, refresh, link, logins, valid, rotation>>

\* handleUnauthorized: this call refreshes
Refresh(c) ==
  /\ Unauthorized(c) /\ ~calls[c].retried /\ refresh.ph = "idle"
  /\ storage.rt # None /\ storage.sid # 0
  /\ calls' = [calls EXCEPT ![c].ph = "refreshing", ![c].retried = TRUE]
  /\ refresh' = [ph |-> "sent", by |-> c, tok |-> storage.rt]
  /\ UNCHANGED <<storage, user, expired, form, link, logins, valid, rotation>>

\* AuthService.Refresh: single-use rotation
ServerRefresh ==
  /\ refresh.ph = "sent"
  /\ LET s == refresh.tok[1]
     IN IF rotation[s] = refresh.tok[2]
        THEN /\ rotation' = [rotation EXCEPT ![s] = @ + 1]
             /\ valid' = valid \cup {<<s, rotation[s] + 1>>}
             /\ refresh' = [refresh EXCEPT !.ph = "granted", !.tok = <<s, rotation[s] + 1>>]
        ELSE /\ refresh' = [refresh EXCEPT !.ph = "denied"]
             /\ UNCHANGED <<rotation, valid>>
  /\ UNCHANGED <<storage, user, expired, form, calls, link, logins>>

RefreshLost ==
  /\ refresh.ph \in {"sent", "granted"}
  /\ refresh' = [refresh EXCEPT !.ph = "lost"]
  /\ UNCHANGED <<storage, user, expired, form, calls, link, logins, valid, rotation>>

Waiting == {c \in Calls : calls[c].ph \in {"queued", "refreshing"}}

\* mutant: the refresh succeeds and processQueue is forgotten
Refreshed_NoDrain ==
  /\ refresh.ph = "granted"
  /\ storage' = [storage EXCEPT !.at = refresh.tok]
  /\ calls' = [calls EXCEPT ![refresh.by].ph = "sent", ![refresh.by].tok = refresh.tok]
  /\ refresh' = Idle
  /\ UNCHANGED <<user, expired, form, link, logins, valid, rotation>>

\* only the access token of the answer is stored; every waiting call is sent again
Refreshed ==
  /\ refresh.ph = "granted"
  /\ storage' = [storage EXCEPT !.at = refresh.tok]
  /\ calls' = [c \in Calls |-> IF c \in Waiting
                               THEN [calls[c] EXCEPT !.ph = "sent", !.tok = refresh.tok]
                               ELSE calls[c]]
  /\ refresh' = Idle
  /\ UNCHANGED <<user, expired, form, link, logins, valid, rotation>>

\* mutant: the refresh fails and the queue is not rejected
RefreshFailed_NoDrain ==
  /\ refresh.ph \in {"denied", "lost"}
  /\ Expire({refresh.by})
  /\ refresh' = Idle
  /\ form' = [form EXCEPT !.loading = @ /\ calls[refresh.by].kind # "login"]
  /\ UNCHANGED <<user, logins, valid, rotation>>

RefreshFailed ==
  /\ refresh.ph \in {"denied", "lost"}
  /\ Expire(Waiting)
  /\ refresh' = Idle
  /\ form' = [form EXCEPT !.loading = @ /\ \A c \in Waiting : calls[c].kind # "login"]
  /\ UNCHANGED <<user, logins, valid, rotation>>

-----------------------------------------------------------------------------
(* wsClient's callbacks.                                                   *)

ReconnectTimer ==
  /\ link.timer /\ Free(calls) # {}
  /\ LET c == Connect(calls, [link EXCEPT !.timer = FALSE], storage)
     IN calls' = c.calls /\ link' = c.link
  /\ UNCHANGED <<storage, user, expired, form, refresh, logins, valid, rotation>>

\* mutant: onopen does not start the heartbeat
OnOpen_NoHeartbeat(k) ==
  /\ link.sock[k].st = "opening"
  /\ link' = [link EXCEPT !.sock[k].st = "open", !.status = "connected"]
  /\ UNCHANGED <<storage, user, expired, form, calls, refresh, logins, valid, rotation>>

OnOpen(k) ==
  /\ link.sock[k].st = "opening"
  /\ link' = [link EXCEPT !.sock[k].st = "open", !.status = "connected", !.hb = "on"]
  /\ UNCHANGED <<storage, user, expired, form, calls, refresh, logins, valid, rotation>>

\* the server, the network or close() ended the socket; its closure acts on the
\* client whether or not it is still this.ws
OnClose(k) ==
  /\ link.sock[k].st # "closed"
  /\ LET l == [link EXCEPT !.sock[k] = NoSock]
     IN link' = IF link.sock[k].hook THEN ConnectFailed([l EXCEPT !.hb = "off"]) ELSE l
  /\ UNCHANGED <<storage, user, expired, form, calls, refresh, logins, valid, rotation>>

\* the heartbeat's interval
Ping ==
  /\ link.hb = "on" /\ link.ws # None /\ link.sock[link.ws].st \in {"open", "dead"}
  /\ link' = [link EXCEPT !.hb = "waiting"]
  /\ UNCHANGED <<storage, user, expired, form, calls, refresh, logins, valid, rotation>>

Pong ==
  /\ link.hb = "waiting" /\ link.ws # None /\ link.sock[link.ws].st = "open"
  /\ link' = [link EXCEPT !.hb = "on"]
  /\ UNCHANGED <<storage, user, expired, form, calls, refresh, logins, valid, rotation>>

PongTimeout ==
  /\ link.hb = "waiting"
  /\ link' = [link EXCEPT !.hb = "on",
                !.sock = [k \in Socks |-> IF k = link.ws /\ link.sock[k].st # "closed"
                                          THEN [link.sock[k] EXCEPT !.st = "closing"]
                                          ELSE link.sock[k]]]
  /\ UNCHANGED <<storage, user, expired, form, calls, refresh, logins, valid, rotation>>

-----------------------------------------------------------------------------
(* The environment.                                                        *)

TokenExpires == \E t \in valid :
  /\ valid' = valid \ {t}
  /\ UNCHANGED <<storage, user, expired, form, calls, refresh, link, logins, rotation>>

\* a ban, a kick or the refresh token's own expiry
Revoke == \E s \in 1..logins :
  /\ rotation[s] # Revoked
  /\ rotation' = [rotation EXCEPT ![s] = Revoked]
  /\ valid' = {t \in valid : t[1] # s}
  /\ UNCHANGED <<storage, user, expired, form, calls, refresh, link, logins>>

\* the network drops without a close frame
LinkDies(k) ==
  /\ link.sock[k].st = "open"
  /\ link' = [link EXCEPT !.sock[k].st = "dead"]
  /\ UNCHANGED <<storage, user, expired, form, calls, refresh, logins, valid, rotation>>

-----------------------------------------------------------------------------
Answer(c) == \/ Granted(c) \/ Registered(c) \/ LoggedIn(c) \/ Failed(c)
             \/ GiveUp(c) \/ Enqueue(c) \/ Refresh(c)

Next ==
  \/ Toggle \/ Submit \/ Logout \/ Call \/ Reload
  \/ \E c \in Calls : Answer(c)
  \/ ServerRefresh \/ RefreshLost \/ Refreshed \/ RefreshFailed
  \/ ReconnectTimer \/ Ping \/ Pong \/ PongTimeout
  \/ \E k \in Socks : OnOpen(k) \/ OnClose(k) \/ LinkDies(k)
  \/ TokenExpires \/ Revoke

\* apiClient's calls end (its 15 s timeout) and timers fire; the refresh is a
\* bare axios.post without a timeout, so nothing makes its answer come
Fairness ==
  /\ \A c \in Calls : WF_vars(Answer(c))
  /\ WF_vars(Refreshed) /\ WF_vars(RefreshFailed)
  /\ WF_vars(Ping) /\ WF_vars(PongTimeout)

Spec == Init /\ [][Next]_vars
FairSpec == Spec /\ Fairness

-----------------------------------------------------------------------------
TypeOK ==
  /\ storage \in [at : Token \cup {None}, rt : Token \cup {None}, sid : 0..MaxLogins]
  /\ user \in 0..logins /\ expired \in BOOLEAN /\ logins \in 0..MaxLogins
  /\ form \in [isLogin : BOOLEAN, loading : BOOLEAN]
  /\ calls \in [Calls -> [kind : Kinds \cup {"free"},
                          ph : {"free", "sent", "queued", "refreshing"},
                          tok : Token \cup {None}, retried : BOOLEAN]]
  /\ refresh \in [ph : {"idle", "sent", "granted", "denied", "lost"},
                  by : Calls \cup {None}, tok : Token \cup {None}]
  /\ link \in [status : {"disconnected", "connecting", "connected", "reconnecting"},
               timer : BOOLEAN, hb : {"off", "on", "waiting"}, ws : Socks \cup {None},
               sock : [Socks -> [st : {"closed", "opening", "open", "dead", "closing"},
                                 hook : BOOLEAN, s : 0..MaxLogins]]]
  /\ valid \subseteq Token /\ rotation \in [Sessions -> Int]

\* Exactly one call owns the refresh in flight, and a call is parked only while
\* there is one: no failedQueue entry is left with nobody to settle it, in
\* particular across logout, a new login and the clear of a failed refresh.
QueueHasRefresh ==
  /\ Waiting # {} => refresh.ph # "idle"
  /\ refresh.ph # "idle" => {c \in Calls : calls[c].ph = "refreshing"} = {refresh.by}

\* The submit button is disabled only while a login is in flight: no path through
\* the interceptors (queueing, refresh, expiry) leaves the form loading for ever.
FormIsHonest == form.loading => Loading(calls)

\* While the tab shows a session that was not declared expired, the socket is
\* up, being set up, or a retry is armed: no order of stale closes, failed
\* tickets, logouts and logins leaves the client silent for good.
LiveSessionReconnects ==
  user # 0 /\ ~expired =>
    \/ link.timer
    \/ \E c \in Calls : calls[c].kind = "ticket"
    \/ \E k \in Socks : link.sock[k].st # "closed" /\ link.sock[k].hook

\* 'Refresh the token silently and retry': a session the server has not revoked
\* is never expired by a refresh the server answered.
SeamlessRefresh ==
  [][refresh.ph = "denied" /\ refresh'.ph = "idle" => rotation[refresh.tok[1]] = Revoked]_vars

\* A logged-in tab is not served by the socket of an earlier login.
SocketIsMine ==
  \A k \in Socks : user # 0 /\ link.ws = k /\ link.sock[k].st = "open" => link.sock[k].s = user

\* While the page is not reloaded again and again, and no refresh stays without
\* an answer (it has no timeout, and parks every later 401), every call is
\* settled: refreshing, queueing and replaying never go round for ever.
EveryCallSettles ==
  <>[][~Reload]_vars /\ []<>(refresh.ph # "sent") =>
    \A c \in Calls : (calls[c].ph # "free") ~> (calls[c].ph = "free")

\* On a socket whose network is gone the client does not stay 'connected' with
\* nothing done: it is closed at the latest by the heartbeat (the browser's
\* close event, on which the reconnect waits, is not promised here).
DeadSocketNoticed ==
  \A k \in Socks : (link.status = "connected" /\ link.ws = k /\ link.sock[k].st = "dead")
                   ~> ~(link.status = "connected" /\ link.ws = k /\ link.sock[k].st = "dead")
=============================================================================
