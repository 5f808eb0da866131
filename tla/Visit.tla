-------------------------------- MODULE Visit --------------------------------
(***************************************************************************)
(* UserProfileModal, the page of another user: the profile is loaded when  *)
(* the modal is asked for a name, the buttons go by the friend list, and   *)
(* answers for names asked before still arrive.                            *)
(***************************************************************************)
EXTENDS Naturals, FiniteSets

CONSTANTS Others,    \* users whose page may be opened
          Loads      \* loads that may be under way at once (bound)

VARIABLES asked,   \* the name the modal is open for
          shown,   \* whose profile it holds
          loading,
          load,    \* loads: whose, answered or not
          friends, \* the friend list of the client
          chat,    \* the active conversation
          adding,  \* the name the add-friend form was opened with
          zoom     \* the lightbox is open

vars == <<asked, shown, loading, load, friends, chat, adding, zoom>>

Nobody == "nobody"
Slots == 1..Loads
Free == [of |-> Nobody, at |-> "free"]

Open == asked # Nobody
Loading == Open /\ loading
PageShown == Open /\ ~loading                  \* of shown, or an empty one
ChatOffered == PageShown /\ asked \in friends
AddOffered == PageShown /\ asked \notin friends
PostsShown == IF PageShown THEN shown ELSE Nobody

-----------------------------------------------------------------------------
Init ==
  /\ asked = Nobody /\ shown = Nobody /\ loading = FALSE /\ zoom = FALSE
  /\ load = [l \in Slots |-> Free] /\ friends = {} /\ chat = "hall" /\ adding = Nobody

Start(l, u) == /\ load[l] = Free /\ \A k \in Slots : load[k] = Free => l <= k
               /\ load' = [load EXCEPT ![l] = [of |-> u, at |-> "sent"]]

\* a name in a list or a message; the profile held so far stays until the answer
Ask(l, u) ==
  /\ ~Open
  /\ asked' = u /\ loading' = TRUE
  /\ Start(l, u)
  /\ UNCHANGED <<shown, friends, chat, adding, zoom>>

\* onClose, and the effect that forgets the profile
Closed == asked' = Nobody /\ shown' = Nobody

Close ==
  /\ Open /\ ~zoom /\ Closed
  /\ UNCHANGED <<loading, load, friends, chat, adding, zoom>>

Loaded(l) ==
  /\ load[l].at = "sent"
  /\ shown' = load[l].of
  /\ loading' = FALSE /\ load' = [load EXCEPT ![l] = Free]
  /\ UNCHANGED <<asked, friends, chat, adding, zoom>>

NotLoaded(l) ==
  /\ load[l].at = "sent"
  /\ loading' = FALSE /\ load' = [load EXCEPT ![l] = Free]
  /\ UNCHANGED <<asked, shown, friends, chat, adding, zoom>>

\* mutant: the conversation of the profile on screen
StartChat_OfShown ==
  /\ ChatOffered /\ ~zoom
  /\ chat' = shown /\ Closed
  /\ UNCHANGED <<loading, load, friends, adding, zoom>>

\* handleStartChat, by the friend of the name asked for
StartChat ==
  /\ ChatOffered /\ ~zoom
  /\ chat' = asked /\ Closed
  /\ UNCHANGED <<loading, load, friends, adding, zoom>>

AddFriend ==
  /\ AddOffered /\ ~zoom
  /\ adding' = asked /\ Closed
  /\ UNCHANGED <<loading, load, friends, chat, zoom>>

Zoom ==
  /\ PostsShown # Nobody /\ ~zoom /\ zoom' = TRUE
  /\ UNCHANGED <<asked, shown, loading, load, friends, chat, adding>>
Unzoom == zoom /\ zoom' = FALSE /\ UNCHANGED <<asked, shown, loading, load, friends, chat, adding>>

\* the friend list changes behind the modal, and the user goes elsewhere
FriendsChange(u) ==
  /\ friends' = IF u \in friends THEN friends \ {u} ELSE friends \cup {u}
  /\ UNCHANGED <<asked, shown, loading, load, chat, adding, zoom>>
GoHome == /\ ~Open /\ chat' = "hall" /\ adding' = Nobody
          /\ UNCHANGED <<asked, shown, loading, load, friends, zoom>>

-----------------------------------------------------------------------------
Next == \/ \E l \in Slots : \/ Loaded(l) \/ NotLoaded(l)
                            \/ \E u \in Others : Ask(l, u)
        \/ Close \/ StartChat \/ AddFriend \/ Zoom \/ Unzoom \/ GoHome
        \/ \E u \in Others : FriendsChange(u)

Spec == Init /\ [][Next]_vars

-----------------------------------------------------------------------------
TypeOK ==
  /\ asked \in Others \cup {Nobody} /\ shown \in Others \cup {Nobody} /\ loading \in BOOLEAN
  /\ load \in [Slots -> [of : Others \cup {Nobody}, at : {"free", "sent"}]] /\ friends \subseteq Others
  /\ chat \in Others \cup {"hall"} /\ adding \in Others \cup {Nobody} /\ zoom \in BOOLEAN

\* The spinner turns only while a load is under way.
LoadingIsReal == loading => \E l \in Slots : load[l].at = "sent"

\* A late answer may put another user's profile on screen, but the buttons act on the user
\* the modal was opened for, and a private conversation is opened only with a friend.
ActsOnAsked ==
  /\ chat' \notin {chat, "hall"} => chat' = asked /\ asked \in friends
  /\ adding' \notin {adding, Nobody} => adding' = asked

\* Inductive as it stands.
IInv == TypeOK /\ LoadingIsReal
=============================================================================
