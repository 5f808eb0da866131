------------------------------ MODULE GroupPanel ------------------------------
(***************************************************************************)
(* The group windows of one client: the groups of the sidebar,             *)
(* CreateGroupModal and GroupManagerModal, over HTTP calls that are served *)
(* in any order and may fail.  The manager loads the details and the       *)
(* members of its group with two requests at once; one other user, who may *)
(* be a member of every group, stands for the members.                     *)
(***************************************************************************)
EXTENDS Naturals, FiniteSets

CONSTANTS Groups,    \* the groups of the user at the start
          Owned,     \* those he owns
          Calls      \* handlers of the client under way at once (bound)

VARIABLES mine,    \* server: the groups the user is a member of
          peer,    \* server: the other user in each group
          call,    \* handlers of the client: operation, group, what they wait for
          listed,  \* useFriendStore.groups
          chat,    \* the active conversation
          panel,   \* GroupManagerModal
          form     \* CreateGroupModal

vars == <<mine, peer, call, listed, chat, panel, form>>
server == <<mine, peer>>

Slots == 1..Calls
Nobody == "none"
Free == [op |-> "none", gid |-> Nobody, at |-> "free", details |-> Nobody, members |-> "unread"]

Start(c, op, gid) ==
  /\ call[c] = Free /\ \A d \in Slots : call[d] = Free => c <= d
  /\ call' = [call EXCEPT ![c] = [Free EXCEPT !.op = op, !.gid = gid, !.at = "sent"]]
Came(c, ops) == call[c].at = "back" /\ call[c].op \in ops
Failed(c, ops) == call[c].at = "failed" /\ call[c].op \in ops
Chain(c, op) == call' = [call EXCEPT ![c] = [Free EXCEPT !.op = op, !.gid = call[c].gid, !.at = "sent"]]
Finish(c) == call' = [call EXCEPT ![c] = Free]

Loads == {"load", "load+"}                 \* load+ is the reload of an invitation
Lists == {"list", "list-left", "list-made"}
Covered == panel.gid # Nobody \/ form.open \* a dialog covers the page

-----------------------------------------------------------------------------
Init ==
  /\ mine = Groups /\ peer = [g \in Groups |-> "in"]
  /\ call = [c \in Slots |-> Free]
  /\ listed = {} /\ chat = "hall"
  /\ panel = [gid |-> Nobody, details |-> Nobody, members |-> <<Nobody, "out">>, busy |-> FALSE]
  /\ form = [open |-> FALSE, busy |-> FALSE, timer |-> FALSE]

-----------------------------------------------------------------------------
(* The server.                                                             *)

Serve(c) == LET op == call[c].op
                g == call[c].gid
                back == call' = [call EXCEPT ![c].at = "back"] IN
  /\ call[c].at = "sent"
  /\ \/ op \in Lists /\ call' = [call EXCEPT ![c] = [@ EXCEPT !.at = "back", !.members = mine]] /\ UNCHANGED server
     \/ op = "create" /\ back /\ UNCHANGED server
     \/ op = "invite" /\ g \in mine /\ peer' = [peer EXCEPT ![g] = IF @ = "out" THEN "in" ELSE @]
        /\ back /\ UNCHANGED mine
     \/ op = "kick" /\ g \in Owned /\ peer[g] # "out" /\ peer' = [peer EXCEPT ![g] = "out"]
        /\ back /\ UNCHANGED mine
     \/ op \in {"mute", "unmute"} /\ g \in Owned /\ peer[g] # "out"
        /\ peer' = [peer EXCEPT ![g] = IF op = "mute" THEN "muted" ELSE "in"]
        /\ back /\ UNCHANGED mine
     \/ op = "leave" /\ g \in mine \ Owned /\ mine' = mine \ {g} /\ back /\ UNCHANGED peer
  /\ UNCHANGED <<listed, chat, panel, form>>

\* the two requests of loadData
ServeDetails(c) ==
  /\ call[c].at = "sent" /\ call[c].op \in Loads /\ call[c].details = Nobody
  /\ call' = [call EXCEPT ![c].details = call[c].gid]
  /\ UNCHANGED <<server, listed, chat, panel, form>>
ServeMembers(c) ==
  /\ call[c].at = "sent" /\ call[c].op \in Loads /\ call[c].members = "unread"
  /\ call' = [call EXCEPT ![c].members = peer[call[c].gid]]
  /\ UNCHANGED <<server, listed, chat, panel, form>>

\* a refusal, or a connection that fails before or after the server acted
CallFails(c) ==
  /\ call[c].at \in {"sent", "back"}
  /\ call' = [call EXCEPT ![c] = [Free EXCEPT !.op = call[c].op, !.gid = call[c].gid, !.at = "failed"]]
  /\ UNCHANGED <<server, listed, chat, panel, form>>

-----------------------------------------------------------------------------
(* The groups of the sidebar.                                              *)

\* mount, reconnection, the tab, a refresh button
FetchGroups(c) == Start(c, "list", Nobody) /\ UNCHANGED <<server, listed, chat, panel, form>>

Listed(c) ==
  /\ Came(c, {"list"}) \/ Failed(c, {"list"})
  /\ listed' = IF Came(c, {"list"}) THEN call[c].members ELSE listed
  /\ Finish(c)
  /\ UNCHANGED <<server, chat, panel, form>>

OpenGroup == \E g \in listed \cup {"hall"} :
  /\ ~Covered /\ g # chat
  /\ chat' = g
  /\ UNCHANGED <<server, call, listed, panel, form>>

-----------------------------------------------------------------------------
(* GroupManagerModal.                                                      *)

\* both requests are back: the window takes both answers
Loaded(c) ==
  /\ call[c].op \in Loads /\ call[c].at = "sent"
  /\ Nobody # call[c].details /\ "unread" # call[c].members
  /\ panel' = [panel EXCEPT !.details = call[c].details, !.members = <<call[c].gid, call[c].members>>,
                            !.busy = @ /\ call[c].op # "load+"]
  /\ Finish(c)
  /\ UNCHANGED <<server, listed, chat, form>>

NotLoaded(c) ==
  /\ Failed(c, Loads \cup {"invite"})
  /\ panel' = [panel EXCEPT !.busy = @ /\ call[c].op = "load"]
  /\ Finish(c)
  /\ UNCHANGED <<server, listed, chat, form>>

\* the effect on groupId loads
OpenManager(c) ==
  /\ ~Covered /\ chat # "hall"
  /\ Start(c, "load", chat)
  /\ panel' = [panel EXCEPT !.gid = chat]
  /\ UNCHANGED <<server, listed, chat, form>>
CloseManager ==
  /\ panel.gid # Nobody
  /\ panel' = [panel EXCEPT !.gid = Nobody]
  /\ UNCHANGED <<server, call, listed, chat, form>>

InviteOffered == ~panel.busy       \* and a friend is picked
OwnerButtons == panel.details \in Owned /\ panel.members[2] # "out"

Invite(c) ==
  /\ panel.gid # Nobody /\ InviteOffered
  /\ Start(c, "invite", panel.gid)
  /\ panel' = [panel EXCEPT !.busy = TRUE]
  /\ UNCHANGED <<server, listed, chat, form>>
Invited(c) ==
  /\ Came(c, {"invite"}) /\ Chain(c, "load+")
  /\ UNCHANGED <<server, listed, chat, panel, form>>

\* on the group the window is open for, by what it shows of the members
Kick(c) ==
  /\ panel.gid # Nobody /\ OwnerButtons
  /\ Start(c, "kick", panel.gid)
  /\ UNCHANGED <<server, listed, chat, panel, form>>
Mute(c) ==
  /\ panel.gid # Nobody /\ OwnerButtons
  /\ Start(c, IF panel.members[2] = "muted" THEN "unmute" ELSE "mute", panel.gid)
  /\ UNCHANGED <<server, listed, chat, panel, form>>
Changed(c) ==
  /\ \/ Came(c, {"kick", "mute", "unmute"}) /\ Chain(c, "load")
     \/ Failed(c, {"kick", "mute", "unmute"}) /\ Finish(c)
  /\ UNCHANGED <<server, listed, chat, panel, form>>

Leave(c) ==
  /\ panel.gid # Nobody
  /\ Start(c, "leave", panel.gid)
  /\ UNCHANGED <<server, listed, chat, panel, form>>

\* the groups are listed again, then the hall is opened and the window closed
Left(c) ==
  /\ \/ Came(c, {"leave"}) /\ Chain(c, "list-left") /\ UNCHANGED <<listed, chat, panel>>
     \/ Failed(c, {"leave"}) /\ Finish(c) /\ UNCHANGED <<listed, chat, panel>>
     \/ /\ Came(c, {"list-left"}) \/ Failed(c, {"list-left"})
        /\ listed' = IF Came(c, {"list-left"}) THEN call[c].members ELSE listed
        /\ chat' = "hall"
        /\ panel' = [panel EXCEPT !.gid = Nobody]
        /\ Finish(c)
  /\ UNCHANGED <<server, form>>

-----------------------------------------------------------------------------
(* CreateGroupModal.                                                       *)

OpenForm == /\ ~Covered /\ form' = [form EXCEPT !.open = TRUE]
            /\ UNCHANGED <<server, call, listed, chat, panel>>
CloseForm == /\ form.open /\ form' = [form EXCEPT !.open = FALSE]
             /\ UNCHANGED <<server, call, listed, chat, panel>>
\* while no earlier submission is about to close the form (bound)
Submit(c) ==
  /\ form.open /\ ~form.busy /\ ~form.timer
  /\ Start(c, "create", Nobody)
  /\ form' = [form EXCEPT !.busy = TRUE]
  /\ UNCHANGED <<server, listed, chat, panel>>

\* a group that is made is listed, and 1.2 s later the form closes
Created(c) ==
  /\ \/ Came(c, {"create"}) /\ Chain(c, "list-made") /\ UNCHANGED <<listed, form>>
     \/ /\ Failed(c, {"create"}) /\ Finish(c) /\ UNCHANGED listed
        /\ form' = [form EXCEPT !.busy = FALSE]
     \/ /\ Came(c, {"list-made"}) \/ Failed(c, {"list-made"})
        /\ listed' = IF Came(c, {"list-made"}) THEN call[c].members ELSE listed
        /\ form' = [form EXCEPT !.busy = FALSE, !.timer = TRUE]
        /\ Finish(c)
  /\ UNCHANGED <<server, chat, panel>>

FormTimer ==
  /\ form.timer
  /\ form' = [form EXCEPT !.timer = FALSE, !.open = FALSE]
  /\ UNCHANGED <<server, call, listed, chat, panel>>

-----------------------------------------------------------------------------
Return(c) == Listed(c) \/ Loaded(c) \/ NotLoaded(c) \/ Invited(c) \/ Changed(c) \/ Left(c) \/ Created(c)
Begin(c) == FetchGroups(c) \/ OpenManager(c) \/ Invite(c) \/ Kick(c) \/ Mute(c) \/ Leave(c) \/ Submit(c)

Next ==
  \/ \E c \in Slots : Serve(c) \/ ServeDetails(c) \/ ServeMembers(c) \/ CallFails(c) \/ Return(c) \/ Begin(c)
  \/ OpenGroup \/ CloseManager \/ OpenForm \/ CloseForm \/ FormTimer

Spec == Init /\ [][Next]_vars

-----------------------------------------------------------------------------
TypeOK ==
  /\ mine \subseteq Groups /\ peer \in [Groups -> {"out", "in", "muted"}]
  /\ listed \subseteq Groups /\ chat \in Groups \cup {"hall"}
  /\ call = [c \in Slots |-> [op |-> call[c].op, gid |-> call[c].gid, at |-> call[c].at,
                              details |-> call[c].details, members |-> call[c].members]]
  /\ \A c \in Slots : call[c].gid \in Groups \cup {Nobody} /\ call[c].at \in {"free", "sent", "back", "failed"}
  /\ panel \in [gid : Groups \cup {Nobody}, details : Groups \cup {Nobody},
                members : (Groups \cup {Nobody}) \X {"out", "in", "muted"}, busy : BOOLEAN]
  /\ form \in [open : BOOLEAN, busy : BOOLEAN, timer : BOOLEAN]

\* The members the window lists are those of the group whose name and owner it shows,
\* however the loads of two groups overtake each other: the owner's buttons of one
\* group are never put beside the members of another.
TitleMatchesMembers == panel.details = panel.members[1]

\* The invite button and the form are disabled only while their handler is under way.
ProgressIsReal ==
  /\ panel.busy => \E c \in Slots : call[c].op \in {"invite", "load+"}
  /\ form.busy => \E c \in Slots : call[c].op \in {"create", "list-made"}

\* When a group has been left the window is closed and its conversation too.
LeavingEndsInHall == \A c \in Slots :
  call[c].op = "list-left" /\ call'[c].op = "none" => chat' = "hall" /\ panel'.gid = Nobody

\* Inductive: an answer belongs to the group it was asked for, and a list of groups is one.
IInv ==
  /\ TypeOK /\ TitleMatchesMembers /\ ProgressIsReal
  /\ \A c \in Slots :
       /\ call[c].op \notin Lists \cup {"none", "create"} => call[c].gid \in Groups
       /\ call[c].op \in Loads => /\ call[c].details \in {Nobody, call[c].gid}
                                 /\ call[c].members \in {"unread", "out", "in", "muted"}
       /\ Came(c, Lists) => call[c].members \subseteq Groups
=============================================================================
