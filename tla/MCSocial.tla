------------------------------- MODULE MCSocial -------------------------------
(***************************************************************************)
(* The friendship and the membership of a group, checked in one run: they  *)
(* share no state, so a behaviour takes the steps of one of the two, which *)
(* side chooses at the start, and the other stays in its initial state.    *)
(***************************************************************************)
EXTENDS Naturals, FiniteSets

CONSTANTS
  CallsAtOnce,   \* service calls that may be under way at once (bound)
  Users,         \* who may be in the group
  Founder, Watched,
  MaxMembers

ASSUME UsersAssumption == IsFiniteSet(Users) /\ Founder \in Users
ASSUME RoomAssumption == MaxMembers \in Nat \ {0}

VARIABLES side,
          row, pairCache, pairGate, pairCall,
          role, owner, active, call, cache, gate

fvars == <<row, pairCache, pairGate, pairCall>>
mvars == <<role, owner, active, call, cache, gate>>
svars == <<side, fvars, mvars>>

F == INSTANCE Friendship WITH
       Calls <- CallsAtOnce, cache <- pairCache, gate <- pairGate, call <- pairCall
M == INSTANCE Membership WITH Calls <- CallsAtOnce

SocialInit == side \in {"friends", "group"} /\ F!Init /\ M!Init
SocialNext == \/ side = "friends" /\ F!Next /\ UNCHANGED <<side, mvars>>
              \/ side = "group" /\ M!Next /\ UNCHANGED <<side, fvars>>

SocialSpec == SocialInit /\ [][SocialNext]_svars /\ F!Fairness /\ M!Fairness

\* Both components keep their types.
SocialTypeOK == F!TypeOK /\ M!TypeOK

\* A group never has more members than it may, although each call that adds one
\* was allowed before others added theirs.
GroupFits == M!WithinLimit

\* Once two users stay friends or strangers, and once a user stays in a group or out of
\* it, the verdict the router caches about them stops saying the opposite.
VerdictsConverge == F!VerdictsConverge /\ M!VerdictsConverge
=============================================================================
