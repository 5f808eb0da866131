-------------------------------- MODULE Galaxy --------------------------------
(***************************************************************************)
(* ContactsGalaxyView of the mobile client: the applications with their    *)
(* two buttons and the friends; the search, the sections and the groups    *)
(* are left out.  Each answer to an application is a chain of three calls, *)
(* and the chains of two applications overlap although the view remembers  *)
(* one of them only.                                                       *)
(***************************************************************************)
EXTENDS Naturals, FiniteSets

CONSTANTS People,    \* users who have applied
          Calls      \* chains that may be under way at once (bound)

VARIABLES row,        \* server: the pair with each of them
          requests,   \* useFriendStore.pendingRequests
          friends,    \* useFriendStore.friends
          responding, \* respondingId
          call        \* chains: whose, step, what came back

vars == <<row, requests, friends, responding, call>>

Slots == 1..Calls
None == "none"
Free == [of |-> None, step |-> "free", at |-> "free", got |-> {}]

-----------------------------------------------------------------------------
(* What is on screen.                                                      *)

RequestsShown == requests
AnswerOffered(p) == p \in RequestsShown /\ responding # p
FriendsShown == friends

-----------------------------------------------------------------------------
Init ==
  /\ row = [p \in People |-> "asking"] /\ requests = {} /\ friends = {}
  /\ responding = None
  /\ call = [c \in Slots |-> Free]

Start(c, p, step) ==
  /\ call[c] = Free /\ \A d \in Slots : call[d] = Free => c <= d
  /\ call' = [call EXCEPT ![c] = [of |-> p, step |-> step, at |-> "sent", got |-> {}]]

\* the effect of mounting, and App's listener
Fetch(c) ==
  /\ \E step \in {"pending", "friends"} : Start(c, None, step)
  /\ UNCHANGED <<row, requests, friends, responding>>

\* handleRespondRequest
Respond(c, p) ==
  /\ AnswerOffered(p)
  /\ \E step \in {"accept", "reject"} : Start(c, p, step)
  /\ responding' = p
  /\ UNCHANGED <<row, requests, friends>>

-----------------------------------------------------------------------------
\* the server: an answer to what is not pending any more is refused
Serve(c) ==
  /\ call[c].at = "sent"
  /\ LET p == call[c].of
         step == call[c].step
         back(got) == call' = [call EXCEPT ![c].at = "back", ![c].got = got] IN
     \/ /\ step \in {"accept", "reject"} /\ row[p] = "asking" /\ back({})
        /\ row' = [row EXCEPT ![p] = IF step = "accept" THEN "accepted" ELSE "none"]
     \/ /\ step = "pending" /\ back({q \in People : row[q] = "asking"}) /\ UNCHANGED row
     \/ /\ step = "friends" /\ back({q \in People : row[q] = "accepted"}) /\ UNCHANGED row
  /\ UNCHANGED <<requests, friends, responding>>

\* refused, or the connection fails before or after the server acted
CallFails(c) ==
  /\ call[c].at \in {"sent", "back"}
  /\ call' = [call EXCEPT ![c].at = "failed"]
  /\ UNCHANGED <<row, requests, friends, responding>>

-----------------------------------------------------------------------------
\* mutant: the buttons come back only when the answer was taken
Ends_OnlyWhenTaken(c) ==
  /\ call' = [call EXCEPT ![c] = Free]
  /\ responding' = IF call[c].of = None \/ call[c].at = "failed" THEN responding ELSE None

\* the end of a chain, whichever person the view remembers by now
Ends(c) ==
  /\ call' = [call EXCEPT ![c] = Free]
  /\ responding' = IF call[c].of = None THEN responding ELSE None

Then(c, step) == /\ call' = [call EXCEPT ![c] = [@ EXCEPT !.step = step, !.at = "sent", !.got = {}]]
                 /\ UNCHANGED responding

\* the three awaits of the chain; the store's two fetches swallow their failures
Answered(c) ==
  /\ call[c].step \in {"accept", "reject"} /\ call[c].at \in {"back", "failed"}
  /\ IF call[c].at = "back" THEN Then(c, "pending") ELSE Ends(c)
  /\ UNCHANGED <<row, requests, friends>>

PendingComes(c) ==
  /\ call[c].step = "pending" /\ call[c].at \in {"back", "failed"}
  /\ requests' = IF call[c].at = "back" THEN call[c].got ELSE requests
  /\ IF call[c].of = None THEN Ends(c) ELSE Then(c, "friends")
  /\ UNCHANGED <<row, friends>>

FriendsCome(c) ==
  /\ call[c].step = "friends" /\ call[c].at \in {"back", "failed"}
  /\ friends' = IF call[c].at = "back" THEN call[c].got ELSE friends
  /\ Ends(c)
  /\ UNCHANGED <<row, requests>>

-----------------------------------------------------------------------------
Next == \/ \E c \in Slots : \/ Fetch(c) \/ Serve(c) \/ CallFails(c)
                            \/ Answered(c) \/ PendingComes(c) \/ FriendsCome(c)
                            \/ \E p \in People : Respond(c, p)

Spec == Init /\ [][Next]_vars

-----------------------------------------------------------------------------
TypeOK ==
  /\ row \in [People -> {"asking", "accepted", "none"}]
  /\ requests \subseteq People /\ friends \subseteq People /\ responding \in People \cup {None}
  /\ call \in [Slots -> [of : People \cup {None}, step : {"free", "accept", "reject", "pending", "friends"},
                         at : {"free", "sent", "back", "failed"}, got : SUBSET People]]

\* The person whose buttons are disabled has a chain under way: whatever chains overlap or
\* fail, no application stays without its buttons.  They may be back before the chain ends.
ProgressIsReal == responding # None => \E c \in Slots : call[c].of = responding

\* An application has one chain of calls at a time.  The view remembers one application
\* only, so the code does not keep this.
OneChainEach == \A c, d \in Slots : call[c].of = call[d].of /\ call[c].of # None => c = d

\* Inductive as it stands.
IInv == TypeOK /\ ProgressIsReal
=============================================================================
