------------------------------- MODULE Profile -------------------------------
(***************************************************************************)
(* ProfileView, the user's own page: the timeline, the forms and the HTTP  *)
(* calls behind them, which overlap, fail and come back in any order.      *)
(* Every handler ends by loading the page again.                           *)
(*                                                                         *)
(* A load also overwrites the fields of the profile form, whether they are *)
(* being edited or not: their text is left out, so is that of a draft.     *)
(***************************************************************************)
EXTENDS Naturals, FiniteSets

CONSTANTS Calls,     \* HTTP calls that may be under way at once (bound)
          Posts      \* posts the user may publish (bound)

VARIABLES stored,  \* posts on the server
          made,    \* posts ever stored
          shown,   \* the timeline
          draft,   \* the composer
          editing, \* the profile form is open
          busy,    \* loading, savingProfile, publishing
          call     \* HTTP calls: handler, step, its post, and the timeline that came back

vars == <<stored, made, shown, draft, editing, busy, call>>
page == <<shown, draft, editing, busy>>
server == <<stored, made>>

Slots == 1..Calls
Free == [op |-> "none", step |-> "none", at |-> "free", post |-> {}, got |-> {}]
Blank == [some |-> FALSE, kind |-> "text", bv |-> FALSE]   \* bv: a valid BV number

Idle(c) == call[c] = Free /\ \A d \in Slots : call[d] = Free => c <= d
Go(c, op, step) == call' = [call EXCEPT ![c] = [Free EXCEPT !.op = op, !.step = step, !.at = "sent"]]
Finish(c) == call' = [call EXCEPT ![c] = Free]
Came(c, op, step, at) == call[c].op = op /\ call[c].step = step /\ call[c].at = at

-----------------------------------------------------------------------------
(* What the page offers.                                                   *)

DeleteOffered(p) == p \in shown
SaveOffered == editing /\ "saving" \notin busy
ImageOffered == draft.kind = "image"
BvOffered == draft.kind = "bilibili"
PublishOffered == "publishing" \notin busy /\ (draft.some \/ draft.bv)
BvRefused == draft.kind = "bilibili" /\ ~draft.bv

-----------------------------------------------------------------------------
Init ==
  /\ stored = {} /\ made = {} /\ shown = {} /\ draft = Blank /\ editing = FALSE
  /\ busy = {"loading"}
  /\ call = [c \in Slots |-> IF c = 1 THEN [Free EXCEPT !.op = "mount", !.step = "load", !.at = "sent"] ELSE Free]

-----------------------------------------------------------------------------
(* The server.                                                             *)

Serve(c) ==
  /\ call[c].at = "sent"
  /\ \/ /\ call[c].step = "load"
        /\ call' = [call EXCEPT ![c].at = "ok", ![c].got = stored]
        /\ UNCHANGED server
     \/ /\ call[c].step \in {"upload", "update"}
        /\ call' = [call EXCEPT ![c].at = "ok"]
        /\ UNCHANGED server
     \/ /\ call[c].step = "create" /\ made # Posts
        /\ \E p \in Posts \ made : /\ stored' = stored \cup {p} /\ made' = made \cup {p}
                                   /\ call' = [call EXCEPT ![c].at = "ok", ![c].post = {p}]
     \/ /\ call[c].step = "delete"
        /\ stored' = stored \ call[c].post
        /\ call' = [call EXCEPT ![c].at = "ok"]
        /\ UNCHANGED made
  /\ UNCHANGED page

\* refused, or the answer is lost after the server acted
CallFails(c) ==
  /\ call[c].at \in {"sent", "ok"}
  /\ call' = [call EXCEPT ![c].at = "failed"]
  /\ UNCHANGED <<server, page>>

-----------------------------------------------------------------------------
(* Loading, the last step of every handler: loadProfile swallows failures. *)

Leaves(op) == {"loading"} \cup (IF op = "save" THEN {"saving"} ELSE {})
                          \cup (IF op = "post" THEN {"publishing"} ELSE {})

LoadEnds(c) ==
  /\ call[c].step = "load" /\ call[c].at \in {"ok", "failed"}
  /\ shown' = IF call[c].at = "ok" THEN call[c].got ELSE shown
  /\ busy' = busy \ Leaves(call[c].op)
  /\ Finish(c)
  /\ UNCHANGED <<server, draft, editing>>

Load(c) == /\ call' = [call EXCEPT ![c].step = "load", ![c].at = "sent"]
           /\ busy' = busy \cup {"loading"}

\* handleAvatarChange: upload, update, load
PickAvatar(c) == Idle(c) /\ Go(c, "avatar", "upload") /\ UNCHANGED <<server, page>>

AvatarUploaded(c) ==
  /\ Came(c, "avatar", "upload", "ok")
  /\ Go(c, "avatar", "update")
  /\ UNCHANGED <<server, page>>

AvatarSet(c) == Came(c, "avatar", "update", "ok") /\ Load(c) /\ UNCHANGED <<server, shown, draft, editing>>

\* the edit button and handleSaveProfile
ToggleEdit == editing' = ~editing /\ UNCHANGED <<server, shown, draft, busy, call>>

Save(c) ==
  /\ SaveOffered
  /\ Idle(c) /\ Go(c, "save", "update")
  /\ busy' = busy \cup {"saving"}
  /\ UNCHANGED <<server, shown, draft, editing>>

Saved(c) ==
  /\ Came(c, "save", "update", "ok")
  /\ editing' = FALSE
  /\ Load(c)
  /\ UNCHANGED <<server, shown, draft>>

\* handleDeletePost, once confirmed
DeletePost(c) == \E p \in Posts :
  /\ DeleteOffered(p) /\ Idle(c)
  /\ call' = [call EXCEPT ![c] = [Free EXCEPT !.op = "delete", !.step = "delete", !.at = "sent", !.post = {p}]]
  /\ UNCHANGED <<server, page>>

PostDeleted(c) == Came(c, "delete", "delete", "ok") /\ Load(c) /\ UNCHANGED <<server, shown, draft, editing>>

-----------------------------------------------------------------------------
(* The composer.                                                           *)

TypePost == draft' = [draft EXCEPT !.some = ~@] /\ UNCHANGED <<server, shown, editing, busy, call>>
PickKind == \E k \in {"text", "image", "bilibili"} \ {draft.kind} :
  draft' = [draft EXCEPT !.kind = k] /\ UNCHANGED <<server, shown, editing, busy, call>>
TypeBv == /\ BvOffered
          /\ draft' = [draft EXCEPT !.bv = ~@]
          /\ UNCHANGED <<server, shown, editing, busy, call>>

PickImage(c) == ImageOffered /\ Idle(c) /\ Go(c, "image", "upload") /\ UNCHANGED <<server, page>>

\* whatever the composer holds by now
ImageUploaded(c) ==
  /\ Came(c, "image", "upload", "ok")
  /\ draft' = [draft EXCEPT !.some = TRUE]
  /\ Finish(c)
  /\ UNCHANGED <<server, shown, editing, busy>>

Publish(c) ==
  /\ PublishOffered /\ ~BvRefused
  /\ Idle(c) /\ Go(c, "post", "create")
  /\ busy' = busy \cup {"publishing"}
  /\ UNCHANGED <<server, shown, draft, editing>>

\* the composer is emptied, of what was typed meanwhile too
Published(c) ==
  /\ Came(c, "post", "create", "ok")
  /\ draft' = Blank
  /\ Load(c)
  /\ UNCHANGED <<server, shown, editing>>

\* mutant: the composer is emptied whatever the answer
HandlerFails_ClearsDraft(c) ==
  /\ call[c].at = "failed" /\ call[c].step # "load"
  /\ busy' = busy \ (Leaves(call[c].op) \ {"loading"})
  /\ draft' = IF call[c].op = "post" THEN Blank ELSE draft
  /\ Finish(c)
  /\ UNCHANGED <<server, shown, editing>>

\* every handler catches, and its finally takes its flag away
HandlerFails(c) ==
  /\ call[c].at = "failed" /\ call[c].step # "load"
  /\ busy' = busy \ (Leaves(call[c].op) \ {"loading"})
  /\ Finish(c)
  /\ UNCHANGED <<server, shown, draft, editing>>

-----------------------------------------------------------------------------
Next ==
  \/ \E c \in Slots : \/ Serve(c) \/ CallFails(c) \/ LoadEnds(c) \/ HandlerFails(c)
                      \/ PickAvatar(c) \/ AvatarUploaded(c) \/ AvatarSet(c) \/ Save(c) \/ Saved(c)
                      \/ DeletePost(c) \/ PostDeleted(c)
                      \/ PickImage(c) \/ ImageUploaded(c) \/ Publish(c) \/ Published(c)
  \/ ToggleEdit \/ TypePost \/ PickKind \/ TypeBv

Spec == Init /\ [][Next]_vars

-----------------------------------------------------------------------------
TypeOK ==
  /\ stored \subseteq made /\ made \subseteq Posts /\ shown \subseteq Posts /\ editing \in BOOLEAN
  /\ draft \in [some : BOOLEAN, kind : {"text", "image", "bilibili"}, bv : BOOLEAN]
  /\ busy \subseteq {"loading", "saving", "publishing"}
  /\ call \in [Slots -> [op : {"none", "mount", "avatar", "save", "delete", "image", "post"},
                         step : {"none", "load", "upload", "update", "create", "delete"},
                         at : {"free", "sent", "ok", "failed"}, post : SUBSET Posts, got : SUBSET Posts]]

\* A button that is disabled, and a spinner, wait for the handler that set them, and the
\* composer and the profile form have one handler at most.
ProgressIsReal ==
  LET under(op) == {c \in Slots : call[c].op = op} IN
  /\ "loading" \in busy => \E c \in Slots : call[c].step = "load"
  /\ Cardinality(under("save")) = (IF "saving" \in busy THEN 1 ELSE 0)
  /\ Cardinality(under("post")) = (IF "publishing" \in busy THEN 1 ELSE 0)

\* A failed call never costs the user what the composer holds.
FailureKeepsDraft == \A c \in Slots : call[c].at = "failed" /\ call'[c] = Free => draft' = draft

\* When the composer is free again after a publication, the new post is on the timeline
\* unless it is deleted again or a call failed, whatever other handlers loaded meanwhile.
PublishedIsListed == \A c \in Slots :
  call[c].op = "post" /\ call[c].at # "failed" /\ "publishing" \in busy /\ "publishing" \notin busy'
    => call[c].post \cap stored \subseteq shown'

\* Inductive: one handler for the composer and one for the form, and the load at the end
\* of a publication comes back with the post, unless it is deleted.
IInv ==
  /\ TypeOK
  /\ "loading" \in busy => \E c \in Slots : call[c].step = "load"
  /\ "saving" \in busy <=> \E c \in Slots : call[c].op = "save"
  /\ "publishing" \in busy <=> \E c \in Slots : call[c].op = "post"
  /\ \A c, d \in Slots : call[c].op \in {"save", "post"} /\ call[c].op = call[d].op => c = d
  /\ \A c \in Slots : call[c].op = "post" =>
       /\ call[c].post \subseteq made
       /\ call[c].step = "load" /\ call[c].at = "ok" => call[c].post \cap stored \subseteq call[c].got
=============================================================================
