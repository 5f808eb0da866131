--------------------------------- MODULE Shell ---------------------------------
(***************************************************************************)
(* App of the mobile client and the views it switches between: the list of *)
(* conversations (OrbitalGravityHub), the chat (MorphingChatDeck) laid     *)
(* over it, the navigation island that the chat takes away and that comes  *)
(* back as a new component, and the windows, which App keeps open across a *)
(* logout.  The desktop App differs in keeping the list beside the chat.   *)
(*                                                                         *)
(* conversations holds the hall only: nothing in the store adds to it.     *)
(***************************************************************************)
EXTENDS Naturals, FiniteSets

VARIABLES user,      \* is somebody logged in
          link,      \* status of wsClient
          nav,       \* App: tab, chat open, active conversation
          windows,   \* windows App keeps open
          island,    \* ThumbDynamicIsland: its effect has run, its lamp, its two menus
          listeners  \* status listeners wsClient holds for islands

vars == <<user, link, nav, windows, island, listeners>>

Tabs == {"orbital", "contacts", "tidal", "core"}
Conversations == {"hall"}
Windows == {"add", "create", "manager", "voice", "profile", "notices"}

-----------------------------------------------------------------------------
(* What is on screen.                                                      *)

LoginShown == ~user
TabShown == IF user THEN nav.tab ELSE "none"
ChatShown == user /\ nav.open
IslandShown == user /\ ~nav.open
PageFree == user /\ windows = {}                 \* a window covers everything
CardsShown == IF TabShown = "orbital" /\ ~nav.open THEN Conversations \ {"hall"} ELSE {}
HallOffered == ChatShown /\ nav.with # "hall"
CallOffered == ChatShown /\ nav.with = "peer"
ManagerOffered == ChatShown /\ nav.with = "group"
ProfileOffered == user /\ (nav.open => nav.with = "peer")
BurstShown == IslandShown /\ island.burst
PulseShown == IslandShown /\ island.pulse
Lamp == IF IslandShown THEN island.lamp ELSE "none"

-----------------------------------------------------------------------------
NoIsland == [heard |-> FALSE, lamp |-> "down", burst |-> FALSE, pulse |-> FALSE]
NewIsland == [NoIsland EXCEPT !.lamp = link]     \* rendered with the status of the moment

Init ==
  /\ user = FALSE /\ link = "down" /\ windows = {}
  /\ nav = [tab |-> "orbital", open |-> FALSE, with |-> "hall"]
  /\ island = NoIsland /\ listeners = 0

\* mutant: the island goes without unsubscribing
IslandGoes_StillListens == /\ island' = NoIsland
                           /\ UNCHANGED listeners

\* the cleanup of the island's effect
IslandGoes == /\ island' = NoIsland
              /\ listeners' = IF island.heard THEN listeners - 1 ELSE listeners

Login ==
  /\ ~user
  /\ user' = TRUE
  /\ island' = IF nav.open THEN NoIsland ELSE NewIsland
  /\ UNCHANGED <<link, nav, windows, listeners>>

\* a logout or an expired session
SessionEnds ==
  /\ user
  /\ user' = FALSE /\ link' = "down"
  /\ IslandGoes
  /\ UNCHANGED <<nav, windows>>

SetStatus == \E s \in {"down", "connecting", "up"} \ {link} :
  /\ user /\ link' = s
  /\ island' = IF island.heard THEN [island EXCEPT !.lamp = s] ELSE island
  /\ UNCHANGED <<user, nav, windows, listeners>>

\* the island's effect: onStatus calls the new listener at once
IslandListens ==
  /\ IslandShown /\ ~island.heard
  /\ island' = [island EXCEPT !.heard = TRUE, !.lamp = link] /\ listeners' = listeners + 1
  /\ UNCHANGED <<user, link, nav, windows>>

-----------------------------------------------------------------------------
(* Navigation.                                                             *)

\* handleEnterChat, from the hall's card, the contacts, the feed
EnterChat ==
  /\ PageFree /\ ~nav.open /\ ~BurstShown /\ ~PulseShown
  /\ \E c \in {"hall", "peer", "group"} : nav' = [nav EXCEPT !.open = TRUE, !.with = c]
  /\ IslandGoes
  /\ UNCHANGED <<user, link, windows>>

\* the back button and the swipe; the conversation stays the active one
Back ==
  /\ PageFree /\ nav.open
  /\ nav' = [nav EXCEPT !.open = FALSE] /\ island' = NewIsland
  /\ UNCHANGED <<user, link, windows, listeners>>

QuickSwitch ==
  /\ PageFree /\ HallOffered
  /\ nav' = [nav EXCEPT !.with = "hall"]
  /\ UNCHANGED <<user, link, windows, island, listeners>>

\* handleTabClick
PickTab ==
  /\ IslandShown /\ windows = {} /\ ~BurstShown /\ ~PulseShown
  /\ \E t \in Tabs : nav' = [nav EXCEPT !.tab = t]
  /\ island' = [island EXCEPT !.burst = FALSE]
  /\ UNCHANGED <<user, link, windows, listeners>>

ToggleBurst ==
  /\ IslandShown /\ windows = {} /\ ~PulseShown
  /\ island' = [island EXCEPT !.burst = ~@]
  /\ UNCHANGED <<user, link, nav, windows, listeners>>
TogglePulse ==
  /\ IslandShown /\ windows = {} /\ ~BurstShown
  /\ island' = [island EXCEPT !.pulse = ~@]
  /\ UNCHANGED <<user, link, nav, windows, listeners>>

\* the four entries of the menu: three windows, and the composer on its tab
BurstEntry ==
  /\ BurstShown
  /\ island' = [island EXCEPT !.burst = FALSE]
  /\ \/ /\ nav' = [nav EXCEPT !.tab = "tidal"] /\ UNCHANGED windows
     \/ /\ \E w \in {"add", "create", "notices"} : windows' = windows \cup {w}
        /\ UNCHANGED nav
  /\ UNCHANGED <<user, link, listeners>>

OpenWindow ==
  /\ PageFree /\ ~BurstShown /\ ~PulseShown
  /\ \E w \in (IF ChatShown THEN {"voice"} ELSE {})
              \cup (IF ManagerOffered THEN {"manager"} ELSE {})
              \cup (IF ProfileOffered THEN {"profile"} ELSE {}) : windows' = {w}
  /\ UNCHANGED <<user, link, nav, island, listeners>>

\* also when nobody is logged in: App renders the windows beside the login
CloseWindow == \E w \in windows :
  /\ windows' = windows \ {w}
  /\ UNCHANGED <<user, link, nav, island, listeners>>

\* onOpenAddFriend of UserProfileModal
ProfileToAdd ==
  /\ "profile" \in windows
  /\ windows' = (windows \ {"profile"}) \cup {"add"}
  /\ UNCHANGED <<user, link, nav, island, listeners>>

-----------------------------------------------------------------------------
Next == \/ Login \/ SessionEnds \/ SetStatus \/ IslandListens
        \/ EnterChat \/ Back \/ QuickSwitch \/ PickTab
        \/ ToggleBurst \/ TogglePulse \/ BurstEntry
        \/ OpenWindow \/ CloseWindow \/ ProfileToAdd

Spec == Init /\ [][Next]_vars

-----------------------------------------------------------------------------
TypeOK ==
  /\ user \in BOOLEAN /\ link \in {"down", "connecting", "up"} /\ windows \subseteq Windows
  /\ nav \in [tab : Tabs, open : BOOLEAN, with : {"hall", "peer", "group"}]
  /\ island \in [heard : BOOLEAN, lamp : {"down", "connecting", "up"}, burst : BOOLEAN, pulse : BOOLEAN]
  /\ listeners \in 0..1

\* The lamp of an island whose effect has run is the status of the connection, however
\* often the chat replaced the island and whatever changed before it listened.
LampIsTrue == IslandShown /\ island.heard => Lamp = link

\* Islands that are gone leave no listener behind.
ListenersAreFreed == listeners = IF IslandShown /\ island.heard THEN 1 ELSE 0

\* 'jump back to the conversation': a private or group conversation that the user has
\* opened is among the cards of the hub.
OpenedIsListed == ~ChatShown /\ TabShown = "orbital" /\ nav.with # "hall" => nav.with \in CardsShown

\* Inductive: an island that has gone has stopped listening.
IInv == TypeOK /\ LampIsTrue /\ ListenersAreFreed /\ (island.heard => IslandShown)
=============================================================================
