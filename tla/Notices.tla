------------------------------- MODULE Notices -------------------------------
(***************************************************************************)
(* System notices in the client: the store's list, the bell of AppLayout   *)
(* with its dot, the drawer and the banner with its timer.  The banner and *)
(* the store outlive a logout, the bell is part of the page behind it.     *)
(***************************************************************************)
EXTENDS Naturals, FiniteSets

CONSTANTS Ids        \* notices, by stanza

VARIABLES page,    \* AppLayout: logged in, its badge, does it listen; App: drawer open
          link,    \* status of wsClient
          store,   \* useChatStore: systemNotices, hasUnreadNotice, activeBroadcastNotice
          timer,   \* the banner's effect: has it run for this banner, is its timer set
          seen     \* listed notices that have been on screen in the drawer (history)

vars == <<page, link, store, timer, seen>>

Nothing == "nothing"     \* no banner

-----------------------------------------------------------------------------
(* What is on screen.                                                      *)

BannerShown == store.banner # Nothing
DrawerShown == page.in /\ page.drawer
ListShown == IF DrawerShown THEN store.list ELSE {}
ClearOffered == DrawerShown /\ store.list # {}
BellOffered == page.in /\ ~DrawerShown
DotShown == page.in /\ store.unread
Badge == IF page.in THEN page.badge ELSE "none"

-----------------------------------------------------------------------------
Init ==
  /\ page = [in |-> FALSE, badge |-> "down", heard |-> FALSE, drawer |-> FALSE]
  /\ link = "down"
  /\ store = [list |-> {}, unread |-> FALSE, banner |-> Nothing]
  /\ timer = [settled |-> TRUE, set |-> FALSE]
  /\ seen = {}

\* AppLayout is rendered with the status of that moment
Mount ==
  /\ ~page.in
  /\ page' = [page EXCEPT !.in = TRUE, !.badge = link]
  /\ seen' = IF page.drawer THEN store.list ELSE seen
  /\ UNCHANGED <<link, store, timer>>

\* and listens once its effect has run; onStatus calls a new listener at once
Listen ==
  /\ page.in /\ ~page.heard
  /\ page' = [page EXCEPT !.heard = TRUE, !.badge = link]
  /\ UNCHANGED <<link, store, timer, seen>>

\* the logout button disconnects; the drawer flag belongs to App and stays
Logout ==
  /\ page.in /\ ~DrawerShown
  /\ page' = [page EXCEPT !.in = FALSE, !.heard = FALSE]
  /\ link' = "down"
  /\ UNCHANGED <<store, timer, seen>>

\* the session expires while the drawer is open
Expired ==
  /\ DrawerShown
  /\ page' = [page EXCEPT !.in = FALSE, !.heard = FALSE]
  /\ link' = "down"
  /\ UNCHANGED <<store, timer, seen>>

\* setStatus tells the page, if it listens already
SetStatus == \E s \in {"down", "connecting", "up"} \ {link} :
  /\ page.in
  /\ link' = s
  /\ page' = [page EXCEPT !.badge = IF page.heard THEN s ELSE @]
  /\ UNCHANGED <<store, timer, seen>>

-----------------------------------------------------------------------------
(* A notice arrives, possibly again: addIncomingMessage.                   *)

Listed(n) == [list |-> store.list \cup {n}, unread |-> TRUE, banner |-> n]

Arrive(n) ==
  /\ link = "up"
  /\ store' = Listed(n)
  /\ timer' = [timer EXCEPT !.settled = FALSE]
  /\ seen' = IF DrawerShown THEN seen \cup {n} ELSE seen \ {n}
  /\ UNCHANGED <<page, link>>

\* the effect of another banner clears the timer and sets a new one
BannerEffect ==
  /\ ~timer.settled
  /\ timer' = [settled |-> TRUE, set |-> BannerShown]
  /\ UNCHANGED <<page, link, store, seen>>

\* 8 s later, or before the effect of a newer banner had run
BannerTimer ==
  /\ timer.set
  /\ store' = [store EXCEPT !.banner = Nothing]
  /\ timer' = [settled |-> FALSE, set |-> FALSE]
  /\ UNCHANGED <<page, link, seen>>

CloseBanner ==
  /\ BannerShown
  /\ store' = [store EXCEPT !.banner = Nothing]
  /\ timer' = [timer EXCEPT !.settled = FALSE]
  /\ UNCHANGED <<page, link, seen>>

-----------------------------------------------------------------------------
(* The bell and the drawer.                                                *)

\* markNoticesAsRead
Read == [store EXCEPT !.unread = FALSE]

OpenDrawer ==
  /\ BellOffered
  /\ store' = Read
  /\ page' = [page EXCEPT !.drawer = TRUE]
  /\ seen' = store.list
  /\ UNCHANGED <<link, timer>>

CloseDrawer ==
  /\ DrawerShown
  /\ page' = [page EXCEPT !.drawer = FALSE]
  /\ UNCHANGED <<link, store, timer, seen>>

\* clearSystemNotices leaves the banner
Clear ==
  /\ ClearOffered
  /\ store' = [store EXCEPT !.list = {}, !.unread = FALSE]
  /\ seen' = {}
  /\ UNCHANGED <<page, link, timer>>

-----------------------------------------------------------------------------
Next == \/ Mount \/ Listen \/ Logout \/ Expired \/ SetStatus
        \/ \E n \in Ids : Arrive(n)
        \/ BannerEffect \/ BannerTimer \/ CloseBanner
        \/ OpenDrawer \/ CloseDrawer \/ Clear

Spec == Init /\ [][Next]_vars

-----------------------------------------------------------------------------
TypeOK ==
  /\ page \in [in : BOOLEAN, badge : {"down", "connecting", "up"},
               heard : BOOLEAN, drawer : BOOLEAN]
  /\ link \in {"down", "connecting", "up"}
  /\ store \in [list : SUBSET Ids, unread : BOOLEAN, banner : Ids \cup {Nothing}]
  /\ timer \in [settled : BOOLEAN, set : BOOLEAN] /\ seen \subseteq Ids

\* Without the dot, everything the drawer would list has been on screen, across
\* logouts and repeated deliveries; with the dot, there is something to see.
DotIsHonest == IF store.unread THEN store.list # {} ELSE store.list \subseteq seen

\* A banner that stays has its timer, whichever banner it replaced.
BannerIsTimed == timer.settled => (BannerShown <=> timer.set)

\* A page that listens shows the connection's status, also when it changed between the
\* first rendering and the effect.
BadgeIsTrue == page.heard => Badge = link

\* Inductive: only a page that is on screen listens.
IInv == TypeOK /\ DotIsHonest /\ BannerIsTimed /\ BadgeIsTrue /\ (page.heard => page.in)
=============================================================================
