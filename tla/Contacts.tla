------------------------------- MODULE Contacts -------------------------------
(***************************************************************************)
(* The friend lists of one client: Sidebar, AddFriendModal, useFriendStore *)
(* and App's listener for friend notifications, over HTTP calls that the   *)
(* server serves in any order and that may fail, against one other user.   *)
(* How the service itself interleaves is in Friendship: here each call     *)
(* acts on the pair at once, and the other user may act at any moment.     *)
(*                                                                         *)
(* The spinners of the refresh buttons are left out: the buttons of the    *)
(* empty lists do not look at them.                                        *)
(***************************************************************************)
EXTENDS Naturals, FiniteSets

CONSTANTS Calls,     \* HTTP calls that may be under way at once (bound)
          Timers     \* timers of the form that may be pending at once (bound)

VARIABLES row,     \* the pair on the server; "asked" by this user, "asking" by the other
          call,    \* HTTP calls of the client: operation, step, what came back
          lists,   \* useFriendStore and Sidebar
          chat,    \* the active conversation
          form     \* AddFriendModal

vars == <<row, call, lists, chat, form>>

Slots == 1..Calls
Tabs == {"hall", "friends", "requests"}          \* the groups' tab is in GroupPanel
Free == [op |-> "none", at |-> "free", got |-> "none"]

Start(c, op) ==
  /\ call[c] = Free /\ \A d \in Slots : call[d] = Free => c <= d
  /\ call' = [call EXCEPT ![c] = [op |-> op, at |-> "sent", got |-> "none"]]
Came(c, ops) == call[c].at = "back" /\ call[c].op \in ops
Chain(c, op) == call' = [call EXCEPT ![c] = [op |-> op, at |-> "sent", got |-> "none"]]
Finish(c) == call' = [call EXCEPT ![c] = Free]
Covered == lists.dialog # "none" \/ form.open       \* a dialog covers the page

-----------------------------------------------------------------------------
Init ==
  /\ row = "none" /\ call = [c \in Slots |-> Free]
  /\ lists = [friend |-> FALSE, request |-> FALSE, answering |-> FALSE, dialog |-> "none",
            tab |-> "hall"]
  /\ chat = "hall"
  /\ form = [open |-> FALSE, named |-> FALSE, phase |-> "idle", timers |-> 0]

-----------------------------------------------------------------------------
(* The server.                                                             *)

Serve(c) ==
  /\ call[c].at = "sent"
  /\ LET op == call[c].op
         back(got) == call' = [call EXCEPT ![c] = [op |-> op, at |-> "back", got |-> got]] IN
     \/ /\ op \in {"friends", "friends+"} /\ back(IF row = "accepted" THEN "one" ELSE "empty") /\ UNCHANGED row
     \/ /\ op \in {"requests", "requests+", "requests-"}
        /\ back(IF row = "asking" THEN "one" ELSE "empty") /\ UNCHANGED row
     \/ op = "apply" /\ row = "none" /\ row' = "asked" /\ back("ok")
     \/ op = "accept" /\ row = "asking" /\ row' = "accepted" /\ back("ok")
     \/ op = "reject" /\ row = "asking" /\ row' = "none" /\ back("ok")
     \/ op = "delete" /\ row # "none" /\ row' = "none" /\ back("ok")
     \/ /\ \/ op = "apply" /\ row # "none"
           \/ op \in {"accept", "reject"} /\ row # "asking"
           \/ op = "delete" /\ row = "none"
        /\ back("refused") /\ UNCHANGED row
  /\ UNCHANGED <<lists, chat, form>>

\* the connection fails before or after the server acted
CallFails(c) ==
  /\ call[c].at \in {"sent", "back"} /\ call[c].got # "refused"
  /\ call' = [call EXCEPT ![c] = [@ EXCEPT !.at = "back", !.got = "refused"]]
  /\ UNCHANGED <<row, lists, chat, form>>

\* the other user applies, accepts or removes
PeerActs ==
  /\ \/ row = "none" /\ row' = "asking"
     \/ row = "asked" /\ row' = "accepted"
     \/ row # "none" /\ row' = "none"
  /\ UNCHANGED <<call, lists, chat, form>>

-----------------------------------------------------------------------------
(* The lists.                                                              *)

\* mount, reconnection, and App's listener: a friend notification fetches one list, and it
\* may come late or never
Fetch(c) ==
  /\ \E op \in {"friends", "requests"} : Start(c, op)
  /\ UNCHANGED <<row, lists, chat, form>>

\* the refresh buttons of the bar and of the empty lists fetch what the tab shows
Refresh(c) ==
  /\ ~Covered
  /\ \E op \in {"friends", "requests"} : lists.tab \in {"hall", op} /\ Start(c, op)
  /\ UNCHANGED <<row, lists, chat, form>>

\* a tab shows its list, and the effect fetches it
PickTab(c) == \E t \in Tabs \ {lists.tab} :
  /\ ~Covered
  /\ IF t = "hall" THEN UNCHANGED call ELSE Start(c, t)
  /\ lists' = [lists EXCEPT !.tab = t]
  /\ UNCHANGED <<row, chat, form>>

\* the rows of the tabs, with their buttons
HallShown == lists.tab = "hall" /\ ~Covered
FriendShown == lists.tab = "friends" /\ lists.friend /\ ~Covered
RequestShown == lists.tab = "requests" /\ lists.request /\ ~Covered

\* fetchFriends and fetchPendingRequests keep the list when the call fails
ShowFriends(c, l) == IF call[c].got = "refused" THEN l ELSE [l EXCEPT !.friend = (call[c].got = "one")]
ShowRequests(c, l) == IF call[c].got = "refused" THEN l ELSE [l EXCEPT !.request = (call[c].got = "one")]

Listed(c) ==
  /\ \/ Came(c, {"friends"}) /\ lists' = ShowFriends(c, lists)
     \/ Came(c, {"requests"}) /\ lists' = ShowRequests(c, lists)
  /\ Finish(c)
  /\ UNCHANGED <<row, chat, form>>

\* handleRespondRequest
Answer(c) ==
  /\ RequestShown /\ ~lists.answering
  /\ \E op \in {"accept", "reject"} : Start(c, op)
  /\ lists' = [lists EXCEPT !.answering = TRUE]
  /\ UNCHANGED <<row, chat, form>>

AnswerRefused(c) ==
  /\ Came(c, {"accept", "reject"}) /\ call[c].got = "refused"
  /\ lists' = [lists EXCEPT !.answering = FALSE]
  /\ Finish(c)
  /\ UNCHANGED <<row, chat, form>>

\* the requests are fetched again, after an acceptance the friends too
AnswerTaken(c) ==
  /\ Came(c, {"accept", "reject"}) /\ call[c].got = "ok"
  /\ Chain(c, IF call[c].op = "accept" THEN "requests+" ELSE "requests-")
  /\ UNCHANGED <<row, lists, chat, form>>

AnswerListed(c) ==
  /\ \/ Came(c, {"requests+"}) /\ Chain(c, "friends+") /\ lists' = ShowRequests(c, lists)
     \/ Came(c, {"requests-"}) /\ Finish(c) /\ lists' = [ShowRequests(c, lists) EXCEPT !.answering = FALSE]
     \/ Came(c, {"friends+"}) /\ Finish(c) /\ lists' = [ShowFriends(c, lists) EXCEPT !.answering = FALSE]
  /\ UNCHANGED <<row, chat, form>>

\* the unfriend button, its confirmation and handleConfirmDeleteFriend
AskDelete == /\ FriendShown /\ lists' = [lists EXCEPT !.dialog = "ask"]
             /\ UNCHANGED <<row, call, chat, form>>
DialogOffered == lists.dialog = "ask"       \* busy: both buttons are disabled
CancelDelete == /\ DialogOffered /\ lists' = [lists EXCEPT !.dialog = "none"]
                /\ UNCHANGED <<row, call, chat, form>>
ConfirmDelete(c) ==
  /\ DialogOffered
  /\ Start(c, "delete")
  /\ lists' = [lists EXCEPT !.dialog = "busy"]
  /\ UNCHANGED <<row, chat, form>>

Deleted(c) ==
  /\ Came(c, {"delete"})
  /\ lists' = [lists EXCEPT !.dialog = "none", !.friend = IF call[c].got = "ok" THEN FALSE ELSE @]
  /\ chat' = IF call[c].got = "ok" THEN "hall" ELSE chat
  /\ Finish(c)
  /\ UNCHANGED <<row, form>>

\* a row of the list, and the hall
OpenChat(k) == /\ (IF k = "hall" THEN HallShown ELSE FriendShown) /\ chat # k
               /\ chat' = k
               /\ UNCHANGED <<row, call, lists, form>>

-----------------------------------------------------------------------------
(* AddFriendModal.                                                         *)

\* the friends' tab and a profile window open it
ToggleForm == /\ Covered => form.open
              /\ form' = [form EXCEPT !.open = ~@]
              /\ UNCHANGED <<row, call, lists, chat>>
FormOffered == form.open /\ form.phase # "busy"
TypeName == /\ FormOffered /\ ~form.named
            /\ form' = [form EXCEPT !.named = TRUE]
            /\ UNCHANGED <<row, call, lists, chat>>
SubmitForm(c) ==
  /\ FormOffered /\ form.named /\ form.timers < Timers
  /\ Start(c, "apply")
  /\ form' = [form EXCEPT !.phase = "busy"]
  /\ UNCHANGED <<row, lists, chat>>

\* an application that is taken closes the form 1.5 s later
FormAnswered(c) ==
  /\ Came(c, {"apply"})
  /\ form' = IF call[c].got = "ok" THEN [form EXCEPT !.phase = "done", !.timers = @ + 1]
           ELSE [form EXCEPT !.phase = "failed"]
  /\ Finish(c)
  /\ UNCHANGED <<row, lists, chat>>

FormTimer ==
  /\ form.timers > 0
  /\ form' = [form EXCEPT !.timers = @ - 1, !.open = FALSE, !.named = FALSE,
                      !.phase = IF @ = "busy" THEN @ ELSE "idle"]
  /\ UNCHANGED <<row, call, lists, chat>>

-----------------------------------------------------------------------------
Return(c) == Listed(c) \/ AnswerRefused(c) \/ AnswerTaken(c) \/ AnswerListed(c)
             \/ Deleted(c) \/ FormAnswered(c)
Begin(c) == Fetch(c) \/ Refresh(c) \/ PickTab(c) \/ Answer(c) \/ ConfirmDelete(c) \/ SubmitForm(c)

Next ==
  \/ \E c \in Slots : Serve(c) \/ Return(c) \/ Begin(c) \/ CallFails(c)
  \/ PeerActs
  \/ AskDelete \/ CancelDelete \/ \E k \in {"hall", "peer"} : OpenChat(k)
  \/ ToggleForm \/ TypeName \/ FormTimer

Spec == Init /\ [][Next]_vars

-----------------------------------------------------------------------------
TypeOK ==
  /\ row \in {"none", "asked", "asking", "accepted"}
  /\ call \in [Slots -> [op : {"none", "apply", "accept", "reject", "delete", "friends", "friends+",
                               "requests", "requests+", "requests-"},
                         at : {"free", "sent", "back"}, got : {"none", "ok", "refused", "one", "empty"}]]
  /\ lists \in [friend : BOOLEAN, request : BOOLEAN, answering : BOOLEAN, dialog : {"none", "ask", "busy"},
                tab : Tabs]
  /\ chat \in {"hall", "peer"}
  /\ form \in [open : BOOLEAN, named : BOOLEAN, phase : {"idle", "busy", "done", "failed"}, timers : 0..Timers]

\* A request row, a confirmation or a form that is disabled 'in progress' has its call
\* under way, so no lost answer and no chain of fetches leaves it disabled for ever.
ProgressIsReal ==
  LET busy(ops) == \E c \in Slots : call[c].op \in ops IN
  /\ lists.answering => busy({"accept", "reject", "requests+", "requests-", "friends+"})
  /\ lists.dialog = "busy" => busy({"delete"})
  /\ form.phase = "busy" => busy({"apply"})

\* Removing a friend never leaves the user in the conversation with him.
RemovedIsLeft == \A c \in Slots :
  Came(c, {"delete"}) /\ call[c].got = "ok" /\ lists.dialog = "busy" /\ lists'.dialog = "none" => chat' # "peer"

\* Inductive: what makes these last is that the confirmation and the form have one call
\* at most, as long as they are busy, and the form keeps a timer for its answer.
IInv ==
  /\ TypeOK /\ ProgressIsReal
  /\ \A c \in Slots : call[c].op = "delete" => lists.dialog = "busy"
  /\ \A c \in Slots : call[c].op = "apply" => form.phase = "busy" /\ form.timers < Timers
  /\ \A c, d \in Slots : call[c].op \in {"delete", "apply"} /\ call[c].op = call[d].op => c = d
=============================================================================
