--------------------------------- MODULE Tidal ---------------------------------
(***************************************************************************)
(* TidalBentoView of the mobile client: the feed gathered from the user's  *)
(* own page and then, one call after another, from his friends' pages, and *)
(* the composer, which belongs to App and outlives the view.  One friend   *)
(* stands for the five that are asked.                                     *)
(***************************************************************************)
EXTENDS Naturals, FiniteSets

CONSTANTS Calls,     \* handlers that may be under way at once (bound)
          Posts,     \* posts the user may publish (bound)
          Theirs     \* a post of the friend

VARIABLES made,    \* posts on the server
          friend,  \* the friend list is not empty
          view,    \* mounted, its posts, its spinners
          form,    \* composer: App's flag, has its draft something, its spinners
          call     \* handlers: operation, step, mount they belong to, what they gathered

vars == <<made, friend, view, form, call>>

Slots == 1..Calls
Free == [op |-> "none", step |-> "none", at |-> "free", live |-> FALSE, with |-> FALSE, got |-> {}, post |-> {}]

Idle(c) == call[c] = Free /\ \A d \in Slots : call[d] = Free => c <= d
Began(op, step) == [Free EXCEPT !.op = op, !.step = step, !.at = "sent", !.live = TRUE, !.with = friend]
Came(c, op, step, at) == call[c].op = op /\ call[c].step = step /\ call[c].at = at
Finish(c) == call' = [call EXCEPT ![c] = Free]

-----------------------------------------------------------------------------
(* What is on screen.                                                      *)

ComposerShown == view.in /\ form.app          \* App always passes its flag
FeedShown == IF view.in THEN view.posts ELSE {}
ChatOffered == Theirs \in FeedShown
PublishOffered == ComposerShown /\ ~form.publishing /\ form.some
ImageOffered == ComposerShown /\ ~form.uploading

-----------------------------------------------------------------------------
Unmounted == [in |-> FALSE, posts |-> {}, loading |-> FALSE, refreshing |-> FALSE]
EmptyForm(app) == [app |-> app, some |-> FALSE, uploading |-> FALSE, publishing |-> FALSE]

Init ==
  /\ made = {} /\ friend = FALSE /\ view = Unmounted /\ form = EmptyForm(FALSE)
  /\ call = [c \in Slots |-> Free]

\* the effect: on mounting, and when the number of friends changes
Mount(c) ==
  /\ ~view.in /\ Idle(c)
  /\ view' = [Unmounted EXCEPT !.in = TRUE, !.loading = TRUE]
  /\ call' = [call EXCEPT ![c] = Began("feed", "mine")]
  /\ UNCHANGED <<made, friend, form>>

FriendsChange(c) ==
  /\ friend' = ~friend
  /\ IF view.in THEN /\ Idle(c)
                     /\ call' = [call EXCEPT ![c] = [Began("feed", "mine") EXCEPT !.with = friend']]
                     /\ view' = [view EXCEPT !.loading = TRUE]
     ELSE UNCHANGED <<call, view>>
  /\ UNCHANGED <<made, form>>

Refresh(c) ==
  /\ view.in /\ ~ComposerShown /\ Idle(c)
  /\ view' = [view EXCEPT !.loading = TRUE, !.refreshing = TRUE]
  /\ call' = [call EXCEPT ![c] = Began("feed", "mine")]
  /\ UNCHANGED <<made, friend, form>>

\* another tab, or the session ends: the state goes, App's flag stays
Unmount ==
  /\ view.in
  /\ view' = Unmounted
  /\ form' = EmptyForm(form.app)
  /\ call' = [c \in Slots |-> [call[c] EXCEPT !.live = FALSE]]
  /\ UNCHANGED <<made, friend>>

-----------------------------------------------------------------------------
(* The server.                                                             *)

Serve(c) ==
  /\ call[c].at = "sent"
  /\ LET step == call[c].step IN
     \/ /\ step \in {"mine", "theirs"} /\ UNCHANGED made
        /\ call' = [call EXCEPT ![c].at = "back",
                                ![c].got = @ \cup (made \cap IF step = "mine" THEN Posts ELSE {Theirs})]
     \/ /\ step = "upload" /\ UNCHANGED made /\ call' = [call EXCEPT ![c].at = "back"]
     \/ /\ step = "create"
        /\ \E p \in Posts \ made : /\ made' = made \cup {p}
                                   /\ call' = [call EXCEPT ![c].at = "back", ![c].post = {p}]
  /\ UNCHANGED <<friend, view, form>>

CallFails(c) ==
  /\ call[c].at \in {"sent", "back"}
  /\ call' = [call EXCEPT ![c].at = "failed"]
  /\ UNCHANGED <<made, friend, view, form>>

FriendPosts == /\ Theirs \notin made /\ made' = made \cup {Theirs}
               /\ UNCHANGED <<friend, view, form, call>>

-----------------------------------------------------------------------------
(* loadTidalFeed.                                                          *)

AskFriend(c) ==
  /\ call[c].step = "mine" /\ call[c].at = "back" /\ call[c].with
  /\ call' = [call EXCEPT ![c].step = "theirs", ![c].at = "sent"]
  /\ UNCHANGED <<made, friend, view, form>>

\* a friend that fails is left out; when the own page fails the feed stays
Gathered(c) ==
  \/ call[c].step = "mine" /\ (call[c].at = "failed" \/ (call[c].at = "back" /\ ~call[c].with))
  \/ call[c].step = "theirs" /\ call[c].at \in {"back", "failed"}

FeedComes(c) ==
  /\ Gathered(c)
  /\ view' = IF ~call[c].live THEN view
           ELSE [view EXCEPT !.loading = FALSE, !.refreshing = FALSE,
                             !.posts = IF call[c].step = "mine" /\ call[c].at = "failed" THEN @ ELSE call[c].got]
  /\ form' = IF call[c].live /\ call[c].op = "post" THEN [form EXCEPT !.publishing = FALSE] ELSE form
  /\ Finish(c)
  /\ UNCHANGED <<made, friend>>

-----------------------------------------------------------------------------
(* The composer.                                                           *)

\* The island's menu.  The view's own two buttons set a flag of the view that is not
\* looked at, because App passes its own: they change nothing.
OpenByIsland == /\ ~form.app /\ form' = [form EXCEPT !.app = TRUE]
                /\ UNCHANGED <<made, friend, view, call>>
CloseComposer == /\ ComposerShown /\ form' = [form EXCEPT !.app = FALSE]
                 /\ UNCHANGED <<made, friend, view, call>>

Draft ==
  /\ ComposerShown
  /\ form' = [form EXCEPT !.some = ~@]
  /\ UNCHANGED <<made, friend, view, call>>

\* handleImageFileChange
PickImage(c) ==
  /\ ImageOffered /\ Idle(c)
  /\ form' = [form EXCEPT !.uploading = TRUE]
  /\ call' = [call EXCEPT ![c] = Began("image", "upload")]
  /\ UNCHANGED <<made, friend, view>>

ImageComes(c) ==
  /\ call[c].op = "image" /\ call[c].at \in {"back", "failed"}
  /\ form' = IF ~call[c].live THEN form
           ELSE [form EXCEPT !.uploading = FALSE,
                             !.some = @ \/ call[c].at = "back"]
  /\ Finish(c)
  /\ UNCHANGED <<made, friend, view>>

\* handlePublish
Publish(c) ==
  /\ PublishOffered /\ Idle(c)
  /\ form' = [form EXCEPT !.publishing = TRUE]
  /\ call' = [call EXCEPT ![c] = Began("post", "create")]
  /\ UNCHANGED <<made, friend, view>>

\* the composer is emptied and closed, and the feed is loaded; of a view that is gone,
\* only App hears
Published(c) ==
  /\ Came(c, "post", "create", "back")
  /\ form' = IF call[c].live THEN [form EXCEPT !.app = FALSE, !.some = FALSE] ELSE [form EXCEPT !.app = FALSE]
  /\ view' = IF call[c].live THEN [view EXCEPT !.loading = TRUE] ELSE view
  /\ call' = [call EXCEPT ![c].step = "mine", ![c].at = "sent"]
  /\ UNCHANGED <<made, friend>>

NotPublished(c) ==
  /\ Came(c, "post", "create", "failed")
  /\ form' = IF call[c].live THEN [form EXCEPT !.publishing = FALSE] ELSE form
  /\ Finish(c)
  /\ UNCHANGED <<made, friend, view>>

-----------------------------------------------------------------------------
Next ==
  \/ \E c \in Slots : \/ Mount(c) \/ FriendsChange(c) \/ Refresh(c) \/ Serve(c) \/ CallFails(c)
                      \/ AskFriend(c) \/ FeedComes(c) \/ PickImage(c) \/ ImageComes(c)
                      \/ Publish(c) \/ Published(c) \/ NotPublished(c)
  \/ Unmount \/ FriendPosts \/ OpenByIsland \/ CloseComposer \/ Draft

Spec == Init /\ [][Next]_vars

-----------------------------------------------------------------------------
TypeOK ==
  /\ made \subseteq Posts \cup {Theirs} /\ friend \in BOOLEAN
  /\ view \in [in : BOOLEAN, posts : SUBSET (Posts \cup {Theirs}), loading : BOOLEAN, refreshing : BOOLEAN]
  /\ form \in [app : BOOLEAN, some : BOOLEAN, uploading : BOOLEAN, publishing : BOOLEAN]
  /\ call \in [Slots -> [op : {"none", "feed", "image", "post"}, step : {"none", "mine", "theirs", "upload", "create"},
                         at : {"free", "sent", "back", "failed"}, live : BOOLEAN, with : BOOLEAN,
                         got : SUBSET (Posts \cup {Theirs}), post : SUBSET Posts]]

\* A spinner or a disabled button waits for a handler of this mount, whatever the loads
\* that overlap, the calls that fail and the tabs that unmount the view.
ProgressIsReal ==
  LET under(ops, steps) == {c \in Slots : call[c].live /\ call[c].op \in ops /\ call[c].step \in steps} IN
  /\ view.loading \/ view.refreshing => under({"feed", "post"}, {"mine", "theirs"}) # {}
  /\ Cardinality(under({"post"}, {"create", "mine", "theirs"})) = (IF form.publishing THEN 1 ELSE 0)
  /\ Cardinality(under({"image"}, {"upload"})) = (IF form.uploading THEN 1 ELSE 0)

\* When the publish button is free again after a publication whose calls succeeded, the
\* new post is in the feed, though older loads may still be under way.
PublishedIsListed == \A c \in Slots :
  call[c].op = "post" /\ call[c].live /\ Gathered(c) /\ ~(call[c].step = "mine" /\ call[c].at = "failed")
    /\ form.publishing /\ ~form'.publishing /\ view'.in => call[c].post \subseteq view'.posts

\* Inductive: one handler of this mount for the publish button and one for the image, and
\* a feed gathered after a publication has the post from its first answer on.
IInv ==
  /\ TypeOK
  /\ view.loading \/ view.refreshing =>
       \E c \in Slots : call[c].live /\ call[c].op \in {"feed", "post"} /\ call[c].step \in {"mine", "theirs"}
  /\ form.publishing <=> \E c \in Slots : call[c].live /\ call[c].op = "post"
  /\ form.uploading <=> \E c \in Slots : call[c].live /\ call[c].op = "image"
  /\ \A c, d \in Slots : /\ call[c].live /\ call[c].op \in {"post", "image"}
                          /\ call[d].live /\ call[c].op = call[d].op => c = d
  /\ \A c \in Slots :
       /\ call[c].op = "image" => call[c].step = "upload"
       /\ call[c].op = "post" => call[c].step \in {"create", "mine", "theirs"}
       /\ call[c].op = "post" => call[c].post \subseteq made
       /\ call[c].op = "post" /\ (call[c].step = "theirs" \/ Came(c, "post", "mine", "back"))
            => call[c].post \subseteq call[c].got
=============================================================================
