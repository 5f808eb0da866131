------------------------------ MODULE Membership ------------------------------
(***************************************************************************)
(* One group on the server: its row, its member rows, the service calls    *)
(* that change them and the verdict the router caches about one user.      *)
(*                                                                         *)
(* Every call of the group service loads the group and the rows it judges  *)
(* by before it writes, and only the write is in a transaction: check is   *)
(* the reads, write the transaction and drop the invalidation.  Mutes are  *)
(* looked up on every frame, and group info decides nothing: left out.     *)
(***************************************************************************)
EXTENDS Naturals, FiniteSets

CONSTANTS Users,
          Founder,     \* who created the group
          Watched,     \* the user whose verdict and frames are followed
          Calls,       \* service calls that may be under way at once (bound)
          MaxMembers

VARIABLES role,    \* the member rows
          owner,   \* owner_id of the group row
          active,  \* its status
          call,    \* service calls
          cache,   \* the router's verdict on Watched
          gate     \* the frame of Watched in the router's membership check

vars == <<role, owner, active, call, cache, gate>>
group == <<role, owner, active>>

Slots == 1..Calls
Free == [op |-> "none", by |-> Founder, on |-> Founder, at |-> "free", hit |-> FALSE]
NoFrame == [at |-> "idle", seen |-> "deny"]

Member(u) == role[u] # "none"
Members == {u \in Users : Member(u)}
Admin(u) == role[u] \in {"owner", "admin"}

Finish(c) == call' = [call EXCEPT ![c] = Free]

\* what is left of a call is to drop verdicts: that on Watched, or others nobody follows
ThenDrop(c, watched) == IF watched THEN call' = [call EXCEPT ![c].at = "drop"] ELSE Finish(c)

-----------------------------------------------------------------------------
\* CreateGroup
Init ==
  /\ role = [u \in Users |-> IF u = Founder THEN "owner" ELSE "none"]
  /\ owner = Founder /\ active = TRUE
  /\ call = [c \in Slots |-> Free] /\ cache = "none" /\ gate = NoFrame

-----------------------------------------------------------------------------
(* What each operation requires of the rows it read: by calls it on on.    *)

MayInvite(by, on) == active /\ Member(by) /\ ~Member(on)
MayJoin(by, on) == active /\ by = on
MayLeave(by, on) == active /\ by = on /\ Member(by) /\ role[by] # "owner"
MayKick(by, on) == /\ active /\ Admin(by) /\ Member(on) /\ role[on] # "owner"
                   /\ (role[by] = "admin" => role[on] = "member")
MaySetRole(by, on) == active /\ owner = by /\ Member(on) /\ on # by
MayDismiss(by, on) == owner = by /\ by = on /\ active

May(op, by, on) ==
  \/ op = "invite" /\ MayInvite(by, on)
  \/ op = "join" /\ MayJoin(by, on)
  \/ op = "leave" /\ MayLeave(by, on)
  \/ op = "kick" /\ MayKick(by, on)
  \/ op = "transfer" /\ MaySetRole(by, on)
  \/ op \in {"admin", "member"} /\ MaySetRole(by, on) /\ role[on] # op
  \/ op = "dismiss" /\ MayDismiss(by, on)

\* a call that is refused changes nothing and is not followed, and only a transfer
\* needs its caller again
Check(c) == \E op \in {"invite", "join", "leave", "kick", "transfer", "admin", "member", "dismiss"},
               by \in Users, on \in Users :
  /\ call[c] = Free /\ \A d \in Slots : call[d] = Free => c <= d
  /\ May(op, by, on)
  /\ call' = [call EXCEPT ![c] = [op |-> op, by |-> IF op = "transfer" THEN by ELSE on, on |-> on, at |-> "write",
                                  hit |-> op = "dismiss" /\ Member(Watched)]]
  /\ UNCHANGED <<group, cache, gate>>

-----------------------------------------------------------------------------
(* The transactions.                                                       *)

Writes(c, op) == call[c].at = "write" /\ call[c].op = op

\* mutant: room for one more is found when the group is full
AddMember_OffByOne(c) ==
  /\ Writes(c, "invite") \/ Writes(c, "join")
  /\ IF Cardinality(Members) > MaxMembers \/ (call[c].op = "join" /\ Member(call[c].on))
     THEN Finish(c) /\ UNCHANGED group
     ELSE /\ role' = [role EXCEPT ![call[c].on] = "member"]
          /\ ThenDrop(c, call[c].on = Watched)
          /\ UNCHANGED <<owner, active>>
  /\ UNCHANGED <<cache, gate>>

\* Invite and Join revive a row as a plain member while there is room
AddMember(c) ==
  /\ Writes(c, "invite") \/ Writes(c, "join")
  /\ IF Cardinality(Members) >= MaxMembers \/ (call[c].op = "join" /\ Member(call[c].on))
     THEN Finish(c) /\ UNCHANGED group
     ELSE /\ role' = [role EXCEPT ![call[c].on] = "member"]
          /\ ThenDrop(c, call[c].on = Watched)
          /\ UNCHANGED <<owner, active>>
  /\ UNCHANGED <<cache, gate>>

Remove(c) ==
  /\ Writes(c, "leave") \/ Writes(c, "kick")
  /\ role' = [role EXCEPT ![call[c].on] = "none"]
  /\ ThenDrop(c, call[c].on = Watched)
  /\ UNCHANGED <<owner, active, cache, gate>>

\* the updates skip the rows that are gone by now
Transfer(c) ==
  /\ Writes(c, "transfer")
  /\ role' = [u \in Users |-> IF ~Member(u) THEN "none"
                              ELSE IF u = call[c].on THEN "owner"
                              ELSE IF u = call[c].by THEN "admin" ELSE role[u]]
  /\ owner' = call[c].on
  /\ Finish(c)
  /\ UNCHANGED <<active, cache, gate>>

\* mutant: the requested role is written as it came
SetRole_Unvalidated(c) ==
  /\ Writes(c, "admin") \/ Writes(c, "member") \/ Writes(c, "transfer")
  /\ role' = IF Member(call[c].on) THEN [role EXCEPT ![call[c].on] = call[c].op] ELSE role
  /\ Finish(c)
  /\ UNCHANGED <<owner, active, cache, gate>>

SetRole(c) ==
  /\ Writes(c, "admin") \/ Writes(c, "member")
  /\ role' = IF Member(call[c].on) THEN [role EXCEPT ![call[c].on] = call[c].op] ELSE role
  /\ Finish(c)
  /\ UNCHANGED <<owner, active, cache, gate>>

\* the verdicts dropped are those of the members of the check
Dismiss(c) ==
  /\ Writes(c, "dismiss")
  /\ active' = FALSE /\ role' = [u \in Users |-> "none"]
  /\ ThenDrop(c, call[c].hit)
  /\ UNCHANGED <<owner, cache, gate>>

Drop(c) ==
  /\ call[c].at = "drop"
  /\ cache' = "none"
  /\ Finish(c)
  /\ UNCHANGED <<group, gate>>

-----------------------------------------------------------------------------
(* The router's membership check of a frame of Watched.                    *)

\* mutant: only refusals lapse
Expire_DenyOnly == cache = "deny" /\ cache' = "none" /\ UNCHANGED <<group, call, gate>>

\* 60 s after the verdict was cached
Expire == cache # "none" /\ cache' = "none" /\ UNCHANGED <<group, call, gate>>

\* IsMember, on a miss
GateReads ==
  /\ gate = NoFrame /\ cache = "none"
  /\ gate' = [at |-> "add", seen |-> IF active /\ Member(Watched) THEN "allow" ELSE "deny"]
  /\ UNCHANGED <<group, call, cache>>

GateAdds ==
  /\ gate.at = "add"
  /\ cache' = gate.seen /\ gate' = NoFrame
  /\ UNCHANGED <<group, call>>

-----------------------------------------------------------------------------
Write(c) == AddMember(c) \/ Remove(c) \/ Transfer(c) \/ SetRole(c) \/ Dismiss(c) \/ Drop(c)

Next == \/ \E c \in Slots : Check(c) \/ Write(c)
        \/ Expire \/ GateReads \/ GateAdds

Spec == Init /\ [][Next]_vars

\* calls go on, a frame in the router goes on, a verdict lapses
Fairness == (\A c \in Slots : WF_vars(Write(c))) /\ WF_vars(Expire) /\ WF_vars(GateAdds)
FairSpec == Spec /\ Fairness

-----------------------------------------------------------------------------
TypeOK ==
  /\ role \in [Users -> {"none", "member", "admin", "owner"}] /\ owner \in Users /\ active \in BOOLEAN
  /\ call \in [Slots -> [op : {"none", "invite", "join", "leave", "kick", "transfer", "admin",
                               "member", "dismiss"},
                         by : Users, on : Users, at : {"free", "write", "drop"}, hit : BOOLEAN]]
  /\ cache \in {"none", "allow", "deny"} /\ gate \in [at : {"idle", "add"}, seen : {"allow", "deny"}]

\* 'MaxMembers is enforced against the active count', whatever was true at the check.
WithinLimit == Cardinality(Members) <= MaxMembers

\* A user who stays out of the group, or whose group stays dismissed, is in the end
\* refused, and one who stays in is in the end let through, whatever verdict was read
\* before a kick, a dismissal or an invitation and cached after it.
VerdictsConverge ==
  /\ <>[](active /\ Member(Watched)) => <>[](cache # "deny")
  /\ <>[]~(active /\ Member(Watched)) => <>[](cache # "allow")

\* 'A dismissed group also has no live rows.'
DismissedIsEmpty == ~active => Members = {}

\* 'The owner cannot leave and must transfer ownership first.'
OwnerNeverLeaves == [][\A c \in Slots : Remove(c) /\ call[c].op = "leave" => role[call[c].on] # "owner"]_vars
=============================================================================
