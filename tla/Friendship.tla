------------------------------ MODULE Friendship ------------------------------
(***************************************************************************)
(* One pair of users on the server: its friendship rows, the service calls *)
(* that change them and the verdict the router caches about the pair.      *)
(*                                                                         *)
(* Both rows of a pair are written by the same transactions, so row is the *)
(* pair.  A call is several steps: Apply reads the pair before its         *)
(* transaction, and every call drops the cached verdict after its own.     *)
(***************************************************************************)
EXTENDS Naturals, FiniteSets

CONSTANTS Calls      \* service calls that may be under way at once (bound)

VARIABLES row,    \* the pair's rows: status and, when pending, the initiator
          cache,  \* the router's verdict on the pair
          gate,   \* the frame in the router's friendship check
          call    \* service calls: whose, which operation, at which step

vars == <<row, cache, gate, call>>

Both == {"a", "b"}
Other(u) == IF u = "a" THEN "b" ELSE "a"
Slots == 1..Calls
Free == [op |-> "none", who |-> "a", at |-> "free"]
NoFrame == [at |-> "idle", seen |-> "deny"]

Advance(c, at) == call' = [call EXCEPT ![c].at = at]
Finish(c) == call' = [call EXCEPT ![c] = Free]

-----------------------------------------------------------------------------
Init ==
  /\ row = [st |-> "none", by |-> {}]
  /\ cache = "none" /\ gate = NoFrame
  /\ call = [c \in Slots |-> Free]

-----------------------------------------------------------------------------
(* The friend service.                                                     *)

Call(c) == \E op \in {"apply", "accept", "reject", "delete"}, u \in Both :
  /\ call[c] = Free /\ \A d \in Slots : call[d] = Free => c <= d
  /\ call' = [call EXCEPT ![c] = [op |-> op, who |-> u, at |-> "sent"]]
  /\ UNCHANGED <<row, cache, gate>>

Refuse(c) == Finish(c) /\ UNCHANGED <<row, cache, gate>>

\* Apply, outside the transaction: a live pending or accepted pair refuses
ApplyCheck(c) ==
  /\ call[c].op = "apply" /\ call[c].at = "sent"
  /\ IF row.st \in {"pending", "accepted"} THEN Refuse(c)
     ELSE Advance(c, "write") /\ UNCHANGED <<row, cache, gate>>

\* the transaction creates or revives both rows, whatever they are by now
ApplyWrite(c) ==
  /\ call[c].op = "apply" /\ call[c].at = "write"
  /\ row' = [st |-> "pending", by |-> {call[c].who}]
  /\ Advance(c, "drop")
  /\ UNCHANGED <<cache, gate>>

Respond(c) ==
  /\ call[c].op \in {"accept", "reject"} /\ call[c].at = "sent"
  /\ IF row = [st |-> "pending", by |-> {Other(call[c].who)}]
     THEN /\ row' = [st |-> IF call[c].op = "accept" THEN "accepted" ELSE "rejected", by |-> {}]
          /\ Advance(c, "drop")
          /\ UNCHANGED <<cache, gate>>
     ELSE Refuse(c)

Delete(c) ==
  /\ call[c].op = "delete" /\ call[c].at = "sent"
  /\ IF row.st \in {"none", "deleted"} THEN Refuse(c)
     ELSE /\ row' = [st |-> "deleted", by |-> {}]
          /\ Advance(c, "drop")
          /\ UNCHANGED <<cache, gate>>

\* invalidatePair
Drop(c) ==
  /\ call[c].at = "drop"
  /\ cache' = "none"
  /\ Finish(c)
  /\ UNCHANGED <<row, gate>>

-----------------------------------------------------------------------------
(* The router's friendship check of a frame between the two.               *)

\* mutant: a verdict is renewed by every frame and never lapses
Expire_DenyOnly == cache = "deny" /\ cache' = "none" /\ UNCHANGED <<row, gate, call>>

\* 60 s after the verdict was cached
Expire == cache # "none" /\ cache' = "none" /\ UNCHANGED <<row, gate, call>>

\* a miss reads the pair; a hit changes nothing
GateReads ==
  /\ gate = NoFrame /\ cache = "none"
  /\ gate' = [at |-> "add", seen |-> IF row.st = "accepted" THEN "allow" ELSE "deny"]
  /\ UNCHANGED <<row, cache, call>>

GateAdds ==
  /\ gate.at = "add"
  /\ cache' = gate.seen /\ gate' = NoFrame
  /\ UNCHANGED <<row, call>>

\* signaling caches what it allows and nothing else
SignalingDenies ==
  /\ gate.at = "add" /\ gate.seen = "deny"
  /\ gate' = NoFrame
  /\ UNCHANGED <<row, cache, call>>

-----------------------------------------------------------------------------

Serve(c) == ApplyCheck(c) \/ ApplyWrite(c) \/ Respond(c) \/ Delete(c) \/ Drop(c)

Next == \/ \E c \in Slots : Call(c) \/ Serve(c)
        \/ Expire \/ GateReads \/ GateAdds \/ SignalingDenies

Spec == Init /\ [][Next]_vars

\* a call goes on, a frame in the router goes on, a verdict lapses
Fairness == (\A c \in Slots : WF_vars(Serve(c))) /\ WF_vars(Expire) /\ WF_vars(GateAdds)
FairSpec == Spec /\ Fairness

-----------------------------------------------------------------------------
TypeOK ==
  /\ row \in [st : {"none", "pending", "accepted", "rejected", "deleted"}, by : SUBSET Both]
  /\ cache \in {"none", "allow", "deny"} /\ gate \in [at : {"idle", "add"}, seen : {"allow", "deny"}]
  /\ call \in [Slots -> [op : {"none", "apply", "accept", "reject", "delete"}, who : Both,
                         at : {"free", "sent", "write", "drop"}]]

\* Once the two stay friends, or stay strangers, the cached verdict stops saying the
\* opposite, although a verdict read before the change may be cached after it.
VerdictsConverge ==
  /\ <>[](row.st = "accepted") => <>[](cache # "deny")
  /\ <>[](row.st # "accepted") => <>[](cache # "allow")

\* 'Guard live verdicts BEFORE reviving: pending/accepted is refused': Apply never
\* writes over a pending or accepted pair.
ApplyNeverRevivesLive ==
  [][\A c \in Slots : ApplyWrite(c) => row.st \notin {"pending", "accepted"}]_vars
=============================================================================
