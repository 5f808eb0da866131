--------------------------------- MODULE Chat ---------------------------------
(***************************************************************************)
(* The chat of one web client: the message lists of useChatStore, the      *)
(* ChatInput that sends text and media, the pending ACKs of wsClient and   *)
(* the history answers, which come by HTTP and race the frames of the      *)
(* socket.  The server is what the client sees of it: per conversation the *)
(* sequence of stored messages, the ACK and the push of each.              *)
(***************************************************************************)
EXTENDS Naturals, Sequences, SequencesExt, FiniteSets

CONSTANTS Hall, Private,   \* the two kinds of conversation that differ here
          MyIds,           \* stanza ids this client generates (bound)
          PeerIds,         \* stanza ids of other users (bound)
          Loads,           \* slots for history requests in flight (bound)
          Page,            \* the page size, 50 in the code (bound)
          None

ASSUME ChatAssumption ==
  /\ Page \in Nat \ {0}
  /\ Hall # Private
  /\ MyIds \cap PeerIds = {}
  /\ None \notin Nat

VARIABLES log,        \* server: per conversation, the stored messages in seq order
          up,         \* the socket is open
          toServer,   \* frames sent and not handled yet
          toMe,       \* frames of the server not handled yet
          active,     \* activeConversation
          list,       \* messages: per conversation, what the store holds
          pending,    \* pendingAcks: promises with a running 6 s timer
          upload,     \* ChatInput.isUploading: a file, then the message that carries it
          loads,      \* history requests in flight
          acked       \* ids whose ACK was handled (history variable)

vars == <<log, up, toServer, toMe, active, list, pending, upload, loads, acked>>

Covs == {Hall, Private}
Ids == MyIds \cup PeerIds
Status == {"sending", "success", "error"}
NoLoad == [cov |-> None, ans |-> None]
Uploads == [at : {"free", "file", "message"}, id : MyIds \cup {None}]
NoUpload == [at |-> "free", id |-> None]

\* a ChatMessage: stanza_id, seq, status; isSelf follows from the id
Message(id, seq, st) == [id |-> id, seq |-> seq, st |-> st]
Ack(id, seq) == [kind |-> "ack", id |-> id, seq |-> seq, cov |-> None]
Push(id, seq, cov) == [kind |-> "push", id |-> id, seq |-> seq, cov |-> cov]

Used == (UNION {ToSet(log[c]) \cup {m.id : m \in ToSet(list[c])} : c \in Covs})
        \cup {f.id : f \in ToSet(toServer)} \cup pending \cup acked

-----------------------------------------------------------------------------
(* What the components show.                                               *)

CurrentMessages == list[active]
HistoryButton == CurrentMessages # <<>>
CanSend == upload = NoUpload

\* the mark under one of the user's own bubbles
Mark(m) == CASE m.st = "sending" -> "spinner"
             [] m.st = "success" -> "check"
             [] m.st = "error"   -> "alert"

-----------------------------------------------------------------------------
(* The store's list operations.                                            *)

\* mutant: a rejected send also overwrites the seq
SetStatus_DropSeq(ls, id, st, seq) ==
  [c \in Covs |-> [i \in 1..Len(ls[c]) |->
     IF ls[c][i].id = id THEN [ls[c][i] EXCEPT !.st = st, !.seq = seq] ELSE ls[c][i]]]

\* every message with this stanza id gets the status, and the seq if one is given
SetStatus(ls, id, st, seq) ==
  [c \in Covs |-> [i \in 1..Len(ls[c]) |->
     IF ls[c][i].id = id
     THEN [ls[c][i] EXCEPT !.st = st, !.seq = IF seq = None THEN @ ELSE seq]
     ELSE ls[c][i]]]

\* mutant: the echo of one's own message is not recognised
AddIncoming_NoDedup(ls, f) ==
  [ls EXCEPT ![f.cov] = Append(@, Message(f.id, f.seq, "success"))]

\* addIncomingMessage: one's own message is not shown twice
AddIncoming(ls, f) ==
  LET exists == \E m \in ToSet(ls[f.cov]) : m.id = f.id \/ (m.seq = f.seq /\ m.seq > 0)
  IN IF exists /\ f.id \in MyIds THEN ls
     ELSE [ls EXCEPT ![f.cov] = Append(@, Message(f.id, f.seq, "success"))]

\* mutant: the entries of a page are numbered from its start
LastPage_Renumbered(c) ==
  LET n == Len(log[c])
      from == IF n > Page THEN n - Page ELSE 0
  IN [i \in 1..(n - from) |-> Message(log[c][from + i], i, "success")]

\* the newest page of a conversation, in seq order
LastPage(c) ==
  LET n == Len(log[c])
      from == IF n > Page THEN n - Page ELSE 0
  IN [i \in 1..(n - from) |-> Message(log[c][from + i], from + i, "success")]

\* loadHistory(covId), isLoadMore false: the only way the components call it
StartLoad(c) ==
  LET free == {s \in Loads : loads[s] = NoLoad}
  IN /\ free # {}
     /\ loads' = [loads EXCEPT ![CHOOSE s \in free : TRUE] = [cov |-> c, ans |-> None]]

-----------------------------------------------------------------------------
Init ==
  /\ log \in [Covs -> {<<>>}] /\ up = TRUE /\ toServer = <<>> /\ toMe = <<>>
  /\ active = Hall /\ list = [c \in Covs |-> <<>>] /\ pending = {}
  /\ upload = NoUpload /\ loads = [s \in Loads |-> NoLoad] /\ acked = {}

-----------------------------------------------------------------------------
(* The user.                                                               *)

\* generateStanzaId
NewId == CHOOSE i \in MyIds : i \notin Used

\* sendTextMessage: the optimistic message, then wsClient.sendMessage, which
\* throws at once when the socket is not open
Send ==
  /\ ~(MyIds \subseteq Used)
  /\ list' = [list EXCEPT ![active] =
                Append(@, Message(NewId, 0, IF up THEN "sending" ELSE "error"))]
  /\ IF up
     THEN /\ toServer' = Append(toServer, [id |-> NewId, cov |-> active])
          /\ pending' = pending \cup {NewId}
     ELSE UNCHANGED <<toServer, pending>>

SendText ==
  /\ CanSend /\ Send
  /\ UNCHANGED <<log, up, toMe, active, upload, loads, acked>>

PickMedia ==
  /\ CanSend
  /\ upload' = [at |-> "file", id |-> None]
  /\ UNCHANGED <<log, up, toServer, toMe, active, list, pending, loads, acked>>

\* the upload is answered: sendMediaMessage sends to the conversation now active, and the
\* input waits for its promise
MediaUploaded ==
  /\ upload.at = "file" /\ Send
  /\ upload' = IF up THEN [at |-> "message", id |-> NewId] ELSE NoUpload
  /\ UNCHANGED <<log, up, toMe, active, loads, acked>>

MediaFailed ==
  /\ upload.at = "file"
  /\ upload' = NoUpload
  /\ UNCHANGED <<log, up, toServer, toMe, active, list, pending, loads, acked>>

\* setActiveConversation: an empty list is loaded
Open(c) ==
  /\ c # active
  /\ active' = c
  /\ IF list[c] = <<>> THEN StartLoad(c) ELSE UNCHANGED loads
  /\ UNCHANGED <<log, up, toServer, toMe, list, pending, upload, acked>>

\* the button above the list
ViewHistory ==
  /\ HistoryButton
  /\ StartLoad(active)
  /\ UNCHANGED <<log, up, toServer, toMe, active, list, pending, upload, acked>>

-----------------------------------------------------------------------------
(* The client's callbacks.                                                 *)

\* the promise of a message resolved or rejected: the input that awaits it goes on
Settled(id) == upload' = IF upload.at = "message" /\ upload.id = id THEN NoUpload ELSE upload

\* mutant: the resolved promise keeps its timer
OnAck_TimerKept ==
  /\ toMe # <<>> /\ Head(toMe).kind = "ack"
  /\ LET f == Head(toMe)
     IN /\ list' = SetStatus(list, f.id, "success", f.seq)
        /\ acked' = acked \cup {f.id}
        /\ Settled(f.id)
  /\ toMe' = Tail(toMe)
  /\ UNCHANGED <<log, up, toServer, active, pending, loads>>

\* an ACK resolves its promise and is given to the ACK listeners
OnAck ==
  /\ toMe # <<>> /\ Head(toMe).kind = "ack"
  /\ LET f == Head(toMe)
     IN /\ list' = SetStatus(list, f.id, "success", f.seq)
        /\ pending' = pending \ {f.id}
        /\ acked' = acked \cup {f.id}
        /\ Settled(f.id)
  /\ toMe' = Tail(toMe)
  /\ UNCHANGED <<log, up, toServer, active, loads>>

OnPush ==
  /\ toMe # <<>> /\ Head(toMe).kind = "push"
  /\ list' = AddIncoming(list, Head(toMe))
  /\ toMe' = Tail(toMe)
  /\ UNCHANGED <<log, up, toServer, active, pending, upload, loads, acked>>

\* the 6 s timer rejects the promise
SendTimeout(id) ==
  /\ id \in pending
  /\ pending' = pending \ {id}
  /\ list' = SetStatus(list, id, "error", None)
  /\ Settled(id)
  /\ UNCHANGED <<log, up, toServer, toMe, active, loads, acked>>

\* the answer replaces the list, unless it holds no message
HistoryLoaded(s) ==
  /\ loads[s].ans # None
  /\ loads' = [loads EXCEPT ![s] = NoLoad]
  /\ list' = IF loads[s].ans = <<>> THEN list
             ELSE [list EXCEPT ![loads[s].cov] = loads[s].ans]
  /\ UNCHANGED <<log, up, toServer, toMe, active, pending, upload, acked>>

HistoryFailed(s) ==
  /\ loads[s] # NoLoad
  /\ loads' = [loads EXCEPT ![s] = NoLoad]
  /\ UNCHANGED <<log, up, toServer, toMe, active, list, pending, upload, acked>>

-----------------------------------------------------------------------------
(* The server and the network.                                             *)

\* stored, acknowledged to the sender, and in the hall pushed to everybody
ServerTakes ==
  /\ toServer # <<>>
  /\ LET f == Head(toServer)
         n == Len(log[f.cov]) + 1
     IN /\ log' = [log EXCEPT ![f.cov] = Append(@, f.id)]
        /\ toMe' = IF ~up THEN toMe
                   ELSE Append(toMe, Ack(f.id, n))
                        \o (IF f.cov = Hall THEN <<Push(f.id, n, Hall)>> ELSE <<>>)
  /\ toServer' = Tail(toServer)
  /\ UNCHANGED <<up, active, list, pending, upload, loads, acked>>

PeerSends == \E c \in Covs :
  /\ ~(PeerIds \subseteq Used)
  /\ LET id == CHOOSE i \in PeerIds : i \notin Used
     IN /\ log' = [log EXCEPT ![c] = Append(@, id)]
        /\ toMe' = IF up THEN Append(toMe, Push(id, Len(log[c]) + 1, c)) ELSE toMe
  /\ UNCHANGED <<up, toServer, active, list, pending, upload, loads, acked>>

ServerAnswers(s) ==
  /\ loads[s] # NoLoad /\ loads[s].ans = None
  /\ loads' = [loads EXCEPT ![s].ans = LastPage(loads[s].cov)]
  /\ UNCHANGED <<log, up, toServer, toMe, active, list, pending, upload, acked>>

\* mutant: the close handler empties pendingAcks without rejecting the promises
ConnectionLost_Forgets ==
  /\ up
  /\ up' = FALSE /\ toMe' = <<>> /\ pending' = {}
  /\ toServer' \in {toServer, <<>>}
  /\ UNCHANGED <<log, active, list, upload, loads, acked>>

\* frames on their way down are lost; those on their way up may have arrived
ConnectionLost ==
  /\ up
  /\ up' = FALSE /\ toMe' = <<>>
  /\ toServer' \in {toServer, <<>>}
  /\ UNCHANGED <<log, active, list, pending, upload, loads, acked>>

Reconnected ==
  /\ ~up
  /\ up' = TRUE
  /\ UNCHANGED <<log, toServer, toMe, active, list, pending, upload, loads, acked>>

-----------------------------------------------------------------------------
Next ==
  \/ SendText \/ PickMedia \/ MediaUploaded \/ MediaFailed \/ ViewHistory
  \/ \E c \in Covs : Open(c)
  \/ OnAck \/ OnPush \/ ServerTakes \/ PeerSends \/ ConnectionLost \/ Reconnected
  \/ \E id \in MyIds : SendTimeout(id)
  \/ \E s \in Loads : HistoryLoaded(s) \/ HistoryFailed(s) \/ ServerAnswers(s)

Spec == Init /\ [][Next]_vars

\* the only fairness needed: a set timer fires
FairSpec == Spec /\ \A id \in MyIds : WF_vars(SendTimeout(id))

-----------------------------------------------------------------------------
TypeOK ==
  /\ log \in [Covs -> Seq(Ids)] /\ up \in BOOLEAN
  /\ toServer \in Seq([id : MyIds, cov : Covs])
  /\ toMe \in Seq([kind : {"ack", "push"}, id : Ids, seq : Nat, cov : Covs \cup {None}])
  /\ active \in Covs /\ upload \in Uploads
  /\ list \in [Covs -> Seq([id : Ids, seq : Nat, st : Status])]
  /\ pending \subseteq MyIds /\ acked \subseteq MyIds
  /\ \A s \in Loads : loads[s].cov \in Covs \cup {None}

\* What a list shows with a seq is what the server stored at that seq of that
\* conversation, and only such messages carry the check mark: ACKs, echoes, pushes
\* and history pages never disagree, whatever their order.
ListsAgreeWithLog ==
  \A c \in Covs : \A i \in 1..Len(list[c]) :
    LET m == list[c][i]
    IN /\ m.seq > 0 => m.seq <= Len(log[c]) /\ log[c][m.seq] = m.id
       /\ Mark(m) = "check" => m.seq > 0

\* The user sees each of his own messages once, although it comes as an optimistic
\* entry, as the hall's echo and in history pages.
OwnOnce ==
  \A c \in Covs : \A i, j \in 1..Len(list[c]) :
    list[c][i].id = list[c][j].id /\ list[c][i].id \in MyIds => i = j

\* Once its ACK was handled, late after its timeout or not, a message is never
\* (again) marked as failed.
AckedNeverAlert ==
  \A c \in Covs : \A m \in ToSet(list[c]) : m.id \in acked => Mark(m) # "alert"

\* A message does not spin for ever, whatever happens to its ACK or its socket.
SendSettles ==
  \A id \in MyIds :
    (\E c \in Covs : \E m \in ToSet(list[c]) : m.id = id /\ Mark(m) = "spinner")
      ~> ~(\E c \in Covs : \E m \in ToSet(list[c]) : m.id = id /\ Mark(m) = "spinner")

\* 'Load more history': the button's answer keeps the messages already shown.
LoadMoreKeeps ==
  [][\A s \in Loads : HistoryLoaded(s) =>
       {m.id : m \in ToSet(list[loads[s].cov])} \subseteq
         {m.id : m \in ToSet(list'[loads[s].cov])}]_vars
=============================================================================
