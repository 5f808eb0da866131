------------------------------- MODULE MCPanels -------------------------------
(***************************************************************************)
(* The small components of the clients, checked in one run.  They share no *)
(* state, so a behaviour is one of one component, which part chooses at    *)
(* the start, and the components take turns in the variables v1 to v9.     *)
(***************************************************************************)
EXTENDS Naturals

CONSTANTS
  Calls,         \* calls, handlers or loads of a component under way at once (bound)
  FormTimers,    \* pending timers of AddFriendModal (bound)
  ThanksTimers,  \* pending timers of a form of the dashboard (bound)
  Groups, Owned, \* the user's groups, and those he owns
  People,        \* other users
  Ids,           \* system notices
  Posts, Theirs, \* posts the user may publish, and one of a friend
  Recorders,     \* openings of the recorder (bound)
  Procs,         \* processes of the desktop application
  Wrap, Timeout, Period, Delay, Late, MaxBackoff  \* times of the firmware, see Esp32Link

VARIABLES part, v1, v2, v3, v4, v5, v6, v7, v8, v9

vars == <<part, v1, v2, v3, v4, v5, v6, v7, v8, v9>>

C == INSTANCE Contacts WITH Timers <- FormTimers,
       row <- v1, call <- v2, lists <- v3, chat <- v4, form <- v5
G == INSTANCE GroupPanel WITH
       mine <- v1, peer <- v2, call <- v3, listed <- v4, chat <- v5, panel <- v6, form <- v7
X == INSTANCE Galaxy WITH
       row <- v1, requests <- v2, friends <- v3, responding <- v4, call <- v5
N == INSTANCE Notices WITH
       page <- v1, link <- v2, store <- v3, timer <- v4, seen <- v5
D == INSTANCE Dashboard WITH Timers <- ThanksTimers,
       page <- v1, poll <- v2, loading <- v3, form <- v4, call <- v5
P == INSTANCE Profile WITH
       stored <- v1, made <- v2, shown <- v3, draft <- v4, editing <- v5, busy <- v6, call <- v7
T == INSTANCE Tidal WITH
       made <- v1, friend <- v2, view <- v3, form <- v4, call <- v5
U == INSTANCE Visit WITH Others <- People, Loads <- Calls,
       asked <- v1, shown <- v2, loading <- v3, load <- v4, friends <- v5, chat <- v6,
       adding <- v7, zoom <- v8
R == INSTANCE Voice WITH
       open <- v1, rec <- v2, cur <- v3, timers <- v4, live <- v5, held <- v6,
       uploading <- v7, cancelled <- v8, sent <- v9
S == INSTANCE Shell WITH
       user <- v1, link <- v2, nav <- v3, windows <- v4, island <- v5, listeners <- v6
E == INSTANCE Desktop WITH
       owner <- v1, stage <- v2, port <- v3, window <- v4, got <- v5
L == INSTANCE Esp32Link WITH
       clock <- v1, link <- v2, backoff <- v3, hello <- v4, sock <- v5, stamp <- v6,
       wifi <- v7, tx <- v8, since <- v9

ASSUME BoundsAssumption ==
  Calls \in Nat \ {0} /\ FormTimers \in Nat /\ ThanksTimers \in Nat /\ Recorders \in Nat

\* A process of the application is not another program, and is somebody.
ASSUME ProcsAssumption == E!None \notin Procs /\ E!Stranger \notin Procs

\* Whatever is timed is over long before the clock has gone round.
ASSUME ClockAssumption ==
  /\ Wrap \in Nat /\ Timeout \in Nat /\ Delay \in Nat /\ Late \in Nat
  /\ Period \in Nat \ {0} /\ MaxBackoff \in Nat \ {0}
  /\ Wrap > Timeout + Delay + 2 * Late /\ Wrap > Period + Delay + 2 * Late

Unused == "unused"
From9 == v9 = Unused
From8 == v8 = Unused /\ From9
From7 == v7 = Unused /\ From8
From6 == v6 = Unused /\ From7

Init ==
  \/ part = "contacts" /\ C!Init /\ From6
  \/ part = "group" /\ G!Init /\ From8
  \/ part = "galaxy" /\ X!Init /\ From6
  \/ part = "notices" /\ N!Init /\ From6
  \/ part = "dashboard" /\ D!Init /\ From6
  \/ part = "profile" /\ P!Init /\ From8
  \/ part = "tidal" /\ T!Init /\ From6
  \/ part = "visit" /\ U!Init /\ From9
  \/ part = "voice" /\ R!Init
  \/ part = "shell" /\ S!Init /\ From7
  \/ part = "desktop" /\ E!Init /\ From6
  \/ part = "esp32" /\ L!Init

Keep6 == UNCHANGED <<part, v6, v7, v8, v9>>
Keep7 == UNCHANGED <<part, v7, v8, v9>>
Keep8 == UNCHANGED <<part, v8, v9>>

Next ==
  \/ part = "contacts" /\ C!Next /\ Keep6
  \/ part = "group" /\ G!Next /\ Keep8
  \/ part = "galaxy" /\ X!Next /\ Keep6
  \/ part = "notices" /\ N!Next /\ Keep6
  \/ part = "dashboard" /\ D!Next /\ Keep6
  \/ part = "profile" /\ P!Next /\ Keep8
  \/ part = "tidal" /\ T!Next /\ Keep6
  \/ part = "visit" /\ U!Next /\ UNCHANGED <<part, v9>>
  \/ part = "voice" /\ R!Next /\ UNCHANGED part
  \/ part = "shell" /\ S!Next /\ Keep7
  \/ part = "desktop" /\ E!Next /\ Keep6
  \/ part = "esp32" /\ L!Next /\ UNCHANGED part

Spec == Init /\ [][Next]_vars

-----------------------------------------------------------------------------
\* Every component keeps its types.
TypeOK ==
  CASE part = "contacts" -> C!TypeOK [] part = "group" -> G!TypeOK [] part = "galaxy" -> X!TypeOK
    [] part = "notices" -> N!TypeOK [] part = "dashboard" -> D!TypeOK [] part = "profile" -> P!TypeOK
    [] part = "tidal" -> T!TypeOK [] part = "visit" -> U!TypeOK [] part = "voice" -> R!TypeOK
    [] part = "shell" -> S!TypeOK [] part = "desktop" -> E!TypeOK
    [] part = "esp32" -> L!TypeOK

\* What is disabled waits for a call of its handler: the answer, the deletion and the form
\* of the friend lists, the invitation and the form of the group windows, the application
\* answered last in the mobile contacts.  The dashboard's forms, the profile page's save and
\* publish buttons and the feed's publish and image buttons are disabled for exactly one.
\* The spinners of these three and of the profile window turn for a load.  The firmware
\* keeps neither a connection that is silent nor a client without a session.
ProgressIsReal ==
  /\ part = "contacts" => C!ProgressIsReal
  /\ part = "group" => G!ProgressIsReal
  /\ part = "galaxy" => X!ProgressIsReal
  /\ part = "dashboard" => D!ProgressIsReal
  /\ part = "profile" => P!ProgressIsReal
  /\ part = "tidal" => T!ProgressIsReal
  /\ part = "visit" => U!LoadingIsReal
  /\ part = "esp32" => L!SilenceIsNoticed /\ L!HeartbeatGoesOn /\ L!NoClientIsLeft

\* What stands on screen together belongs together: the members under a group's name are
\* that group's; the dot, the banner, the badge and the success lines tell the truth and go
\* away in time; the island's lamp shows the connection and islands that are gone listen to
\* nothing; the refs hold the recorder that runs; a window has the server it loads from.
ScreenIsTrue ==
  /\ part = "group" => G!TitleMatchesMembers
  /\ part = "notices" => N!DotIsHonest /\ N!BannerIsTimed /\ N!BadgeIsTrue
  /\ part = "dashboard" => D!SuccessFades
  /\ part = "shell" => S!LampIsTrue /\ S!ListenersAreFreed
  /\ part = "voice" => R!CurrentIsHeld
  /\ part = "desktop" => E!WindowHasServer

\* What an answer does to the page: a removed friend's and a left group's conversation is
\* left, a failed call costs no draft, a published post is listed when the form is free
\* again, the buttons of a profile act on the user it was opened for, and no recording goes
\* out a second time.
AnswersAreMinded ==
  [][/\ part = "contacts" => C!RemovedIsLeft
     /\ part = "group" => G!LeavingEndsInHall
     /\ part = "profile" => P!FailureKeepsDraft /\ P!PublishedIsListed
     /\ part = "tidal" => T!PublishedIsListed
     /\ part = "visit" => U!ActsOnAsked
     /\ part = "voice" => R!SentOnce]_vars
=============================================================================
