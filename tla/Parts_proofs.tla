---------------------------- MODULE Parts_proofs ----------------------------
(***************************************************************************)
(* The two specifications whose behaviours are of one of several parts:    *)
(* MCPanels, for any number of calls, timers, groups, users, posts,        *)
(* notices, recorders and processes, and at the end MCSocial and what its  *)
(* two components keep when their calls come one at a time.                *)
(*                                                                         *)
(* Each component of MCPanels has an inductive invariant IInv beside its   *)
(* properties in its own module.  There is one lemma per component, that a *)
(* step of it keeps its IInv; as the components share the variables v1 to  *)
(* v9 and the behaviour never changes part, Inv puts them together.  The   *)
(* names of the variables in each component are given above its lemma.     *)
(***************************************************************************)
EXTENDS MCPanels, MCSocial, FiniteSetTheorems, WellFoundedInduction, TLAPS

\* A set of numbers has a least one: the recorder that opens next.
LEMMA Least ==
  ASSUME NEW Nums \in SUBSET Nat, Nums # {}
  PROVE  \E r \in Nums : \A s \in Nums : r <= s
<1> DEFINE Below == {ss \in Nat \X Nat : ss[1] < ss[2]}
<1>1. Below = OpToRel(<, Nat)
  BY Zenon DEF OpToRel
<1>2. IsWellFoundedOn(Below, Nat)
  BY <1>1, NatLessThanWellFounded, Zenon
<1>5. \A r, s \in Nat : <<s, r>> \notin Below => r <= s
  OBVIOUS
<1> HIDE DEF Below
<1>3. \E r \in Nums : \A s \in Nums : <<s, r>> \notin Below
  BY <1>2, WFMin, Zenon
<1> QED BY <1>3, <1>5

-----------------------------------------------------------------------------
(* Contacts and groups.                                                    *)

\* Contacts (friend lists, requests and AddFriendModal): v1 row, v2 call, v3 lists,
\* v4 chat, v5 form.  The invariant ties each flag of a list to the handlers that may still
\* clear it, and a confirmed deletion to the one open dialog.
LEMMA ContactsStep ==
  ASSUME C!IInv, [C!Next]_(C!vars)
  PROVE  C!IInv'
<1> DEFINE Ops == {"none", "apply", "accept", "reject", "delete", "friends", "friends+",
                   "requests", "requests+", "requests-"}
           Answering == {"accept", "reject", "requests+", "requests-", "friends+"}
           CallRec == [op : Ops, at : {"free", "sent", "back"},
                       got : {"none", "ok", "refused", "one", "empty"}]
           CallSet == [C!Slots -> CallRec]
           ListSet == [friend : BOOLEAN, request : BOOLEAN, answering : BOOLEAN,
                       dialog : {"none", "ask", "busy"}, tab : C!Tabs]
           FormSet == [open : BOOLEAN, named : BOOLEAN, phase : {"idle", "busy", "done", "failed"},
                       timers : 0..FormTimers]
           Rows == {"none", "asked", "asking", "accepted"}
           \* the call c is now one of operation o, the others are what they were
           Becomes(c, o) == v2' \in CallSet
                            /\ \A d \in C!Slots : v2'[d].op = (IF d = c THEN o ELSE v2[d].op)
<1>b. FormTimers \in Nat
  BY BoundsAssumption
<1>t. /\ v1 \in Rows /\ v2 \in CallSet /\ v3 \in ListSet
      /\ v4 \in {"hall", "peer"} /\ v5 \in FormSet
  BY DEF C!IInv, C!TypeOK
<1>i. /\ v3.answering => \E c \in C!Slots : v2[c].op \in Answering
      /\ v3.dialog = "busy" => \E c \in C!Slots : v2[c].op = "delete"
      /\ v5.phase = "busy" => \E c \in C!Slots : v2[c].op = "apply"
      /\ \A c \in C!Slots : v2[c].op = "delete" => v3.dialog = "busy"
      /\ \A c \in C!Slots : v2[c].op = "apply" => v5.phase = "busy" /\ v5.timers < FormTimers
      /\ \A c, d \in C!Slots : v2[c].op \in {"delete", "apply"} /\ v2[c].op = v2[d].op => c = d
  BY DEF C!IInv, C!ProgressIsReal
<1>g. ASSUME v1' \in Rows, v2' \in CallSet, v3' \in ListSet,
             v4' \in {"hall", "peer"}, v5' \in FormSet,
             v3'.answering => \E c \in C!Slots : v2'[c].op \in Answering,
             v3'.dialog = "busy" => \E c \in C!Slots : v2'[c].op = "delete",
             v5'.phase = "busy" => \E c \in C!Slots : v2'[c].op = "apply",
             \A c \in C!Slots : v2'[c].op = "delete" => v3'.dialog = "busy",
             \A c \in C!Slots : v2'[c].op = "apply" => v5'.phase = "busy" /\ v5'.timers < FormTimers,
             \A c, d \in C!Slots : v2'[c].op \in {"delete", "apply"} /\ v2'[c].op = v2'[d].op => c = d
      PROVE  C!IInv'
  BY <1>g DEF C!IInv, C!TypeOK, C!ProgressIsReal
\* the steps of a call
<1>s. ASSUME NEW c \in C!Slots, NEW o \in Ops, C!Start(c, o)
      PROVE  Becomes(c, o) /\ v2[c].op = "none"
  <2>1. [op |-> o, at |-> "sent", got |-> "none"] \in CallRec
    OBVIOUS
  <2>2. v2[c] = C!Free /\ v2' = [v2 EXCEPT ![c] = [op |-> o, at |-> "sent", got |-> "none"]]
    BY <1>s DEF C!Start
  <2> HIDE DEF CallRec
  <2> QED BY <1>t, <2>1, <2>2 DEF C!Free
<1>h. ASSUME NEW c \in C!Slots, NEW o \in Ops, C!Chain(c, o)
      PROVE  Becomes(c, o)
  <2>1. [op |-> o, at |-> "sent", got |-> "none"] \in CallRec
    OBVIOUS
  <2> HIDE DEF CallRec
  <2> QED BY <1>h, <1>t, <2>1 DEF C!Chain
<1>e. ASSUME NEW c \in C!Slots, C!Finish(c)
      PROVE  Becomes(c, "none")
  <2>1. C!Free \in CallRec /\ C!Free.op = "none"
    BY DEF C!Free
  <2> HIDE DEF CallRec
  <2> QED BY <1>e, <1>t, <2>1 DEF C!Finish
<1>k. ASSUME v2' \in CallSet, \A d \in C!Slots : v2'[d].op = v2[d].op,
             v1' \in Rows, v3' \in ListSet, v4' \in {"hall", "peer"},
             v5' \in FormSet, v3'.answering = v3.answering, v3'.dialog = "busy" <=> v3.dialog = "busy",
             v5'.phase = "busy" <=> v5.phase = "busy", v5'.timers <= v5.timers
      PROVE  C!IInv'
  <2>1. \A c \in C!Slots : v2'[c].op = "apply" => v5'.phase = "busy" /\ v5'.timers < FormTimers
    <3>1. v5.timers \in 0..FormTimers /\ v5'.timers \in 0..FormTimers
      BY <1>t, <1>k
    <3> QED BY <1>i, <1>k, <1>b, <3>1
  <2> HIDE DEF CallSet, ListSet, FormSet, Answering
  <2> QED BY <1>g, <1>i, <1>k, <2>1
\* a call that nothing waits for becomes one that nothing waits for
<1>n. ASSUME NEW c \in C!Slots, NEW o \in Ops \ {"apply", "delete"}, Becomes(c, o),
             v2[c].op \in {"none", "friends", "requests"},
             v3' \in ListSet, UNCHANGED <<v1, v4, v5>>,
             v3'.answering = v3.answering, v3'.dialog = v3.dialog
      PROVE  C!IInv'
  <2> HIDE DEF CallSet, ListSet, FormSet
  <2>1. v3'.answering => \E d \in C!Slots : v2'[d].op \in Answering
    BY <1>i, <1>n
  <2>2. v3'.dialog = "busy" => \E d \in C!Slots : v2'[d].op = "delete"
    BY <1>i, <1>n
  <2>3. v5'.phase = "busy" => \E d \in C!Slots : v2'[d].op = "apply"
    BY <1>i, <1>n
  <2>4. \A d \in C!Slots : v2'[d].op \in {"delete", "apply"} => v2'[d].op = v2[d].op
    BY <1>n
  <2> QED BY <1>g, <1>i, <1>n, <1>t, <2>1, <2>2, <2>3, <2>4
<1> HIDE DEF CallSet, ListSet, FormSet
<1>1. ASSUME NEW c \in C!Slots, C!Serve(c)
      PROVE  C!IInv'
  <2>1. UNCHANGED <<v3, v4, v5>>
    BY <1>1 DEF C!Serve
  <2>2. PICK got \in {"ok", "refused", "one", "empty"} :
          /\ v2' = [v2 EXCEPT ![c] = [op |-> v2[c].op, at |-> "back", got |-> got]]
          /\ v1' \in Rows
    BY <1>1, <1>t DEF C!Serve
  <2>3. [op |-> v2[c].op, at |-> "back", got |-> got] \in CallRec
    BY <1>t DEF CallSet
  <2>4. v2' \in CallSet /\ \A d \in C!Slots : v2'[d].op = v2[d].op
    <3> HIDE DEF CallRec
    <3> QED BY <1>t, <2>2, <2>3 DEF CallSet
  <2>5. v5'.timers <= v5.timers
    BY <1>b, <1>t, <2>1 DEF FormSet
  <2> QED BY <1>k, <1>t, <2>1, <2>2, <2>4, <2>5
<1>2. ASSUME NEW c \in C!Slots, C!CallFails(c)
      PROVE  C!IInv'
  <2>1. UNCHANGED <<v1, v3, v4, v5>>
        /\ v2' = [v2 EXCEPT ![c] = [v2[c] EXCEPT !.at = "back", !.got = "refused"]]
    BY <1>2 DEF C!CallFails
  <2>3. /\ [v2[c] EXCEPT !.at = "back", !.got = "refused"] \in CallRec
        /\ [v2[c] EXCEPT !.at = "back", !.got = "refused"].op = v2[c].op
    BY <1>t DEF CallSet
  <2>4. v2' \in CallSet /\ \A d \in C!Slots : v2'[d].op = v2[d].op
    <3> HIDE DEF CallRec
    <3> QED BY <1>t, <2>1, <2>3 DEF CallSet
  <2>5. v5'.timers <= v5.timers
    BY <1>b, <1>t, <2>1 DEF FormSet
  <2> QED BY <1>k, <1>t, <2>1, <2>4, <2>5
<1>3. CASE C!PeerActs
  <2>1. UNCHANGED <<v2, v3, v4, v5>> /\ v1' \in Rows
    BY <1>3, <1>t DEF C!PeerActs
  <2>5. v5'.timers <= v5.timers
    BY <1>b, <1>t, <2>1 DEF FormSet
  <2> QED BY <1>k, <1>t, <2>1, <2>5
<1>4. ASSUME NEW c \in C!Slots, C!Fetch(c) \/ C!Refresh(c)
      PROVE  C!IInv'
  <2>1. UNCHANGED <<v1, v3, v4, v5>>
        /\ \E o \in {"friends", "requests"} : C!Start(c, o)
    BY <1>4, <1>t DEF C!Fetch, C!Refresh
  <2> QED BY <1>n, <1>s, <1>t, <2>1
<1>5. ASSUME NEW c \in C!Slots, C!PickTab(c)
      PROVE  C!IInv'
  <2>1. PICK t \in C!Tabs : /\ IF t = "hall" THEN UNCHANGED v2 ELSE C!Start(c, t)
                            /\ v3' = [v3 EXCEPT !.tab = t]
                            /\ UNCHANGED <<v1, v4, v5>>
    BY <1>5 DEF C!PickTab
  <2>2. v3' \in ListSet /\ v3'.answering = v3.answering /\ v3'.dialog = v3.dialog
    BY <1>t, <2>1 DEF ListSet
  <2>3. CASE t = "hall"
    <3>1. v5'.timers <= v5.timers
      BY <1>b, <1>t, <2>1 DEF FormSet
    <3> QED BY <1>k, <1>t, <2>1, <2>2, <2>3, <3>1
  <2>4. CASE t # "hall"
    BY <1>n, <1>s, <1>t, <2>1, <2>2, <2>4 DEF C!Tabs
  <2> QED BY <2>3, <2>4
<1>6. ASSUME NEW c \in C!Slots, C!Listed(c)
      PROVE  C!IInv'
  <2>1. v2[c].op \in {"friends", "requests"} /\ UNCHANGED <<v1, v4, v5>> /\ C!Finish(c)
    BY <1>6 DEF C!Listed, C!Came
  <2>2. \/ v3' = v3 \/ v3' = [v3 EXCEPT !.friend = (v2[c].got = "one")]
        \/ v3' = [v3 EXCEPT !.request = (v2[c].got = "one")]
    BY <1>6 DEF C!Listed, C!ShowFriends, C!ShowRequests
  <2>3. v3' \in ListSet /\ v3'.answering = v3.answering /\ v3'.dialog = v3.dialog
    BY <1>t, <2>2 DEF ListSet
  <2> QED BY <1>n, <1>e, <1>t, <2>1, <2>3
<1>7. ASSUME NEW c \in C!Slots, C!Answer(c)
      PROVE  C!IInv'
  <2>1. PICK o \in {"accept", "reject"} : C!Start(c, o)
    BY <1>7 DEF C!Answer
  <2>2. v3' = [v3 EXCEPT !.answering = TRUE] /\ UNCHANGED <<v1, v4, v5>>
    BY <1>7 DEF C!Answer
  <2>3. v3' \in ListSet /\ v3'.dialog = v3.dialog
    BY <1>t, <2>2 DEF ListSet
  <2>4. Becomes(c, o) /\ v2[c].op = "none"
    BY <1>s, <2>1
  <2>5. \E d \in C!Slots : v2'[d].op \in Answering
    BY <2>4
  <2>6. \A d \in C!Slots : v2'[d].op \in {"delete", "apply"} => v2'[d].op = v2[d].op
    BY <2>4
  <2>7. \A d \in C!Slots : v2[d].op \in {"delete", "apply"} => v2'[d].op = v2[d].op
    BY <2>4
  <2> HIDE DEF Answering
  <2> QED BY <1>g, <1>t, <1>i, <2>2, <2>3, <2>4, <2>5, <2>6, <2>7
<1>8. ASSUME NEW c \in C!Slots,
             C!AnswerRefused(c) \/ C!AnswerTaken(c) \/ C!AnswerListed(c)
      PROVE  C!IInv'
  <2>1. /\ v2[c].op \in Answering /\ UNCHANGED <<v1, v4, v5>>
    BY <1>8 DEF C!AnswerRefused, C!AnswerTaken, C!AnswerListed, C!Came
  <2>2. v3' \in ListSet /\ v3'.dialog = v3.dialog
    BY <1>8, <1>t DEF ListSet, C!AnswerRefused, C!AnswerTaken, C!AnswerListed, C!ShowFriends, C!ShowRequests
  <2>3. \/ Becomes(c, "none") /\ v3'.answering = FALSE
        \/ \E o \in Answering : Becomes(c, o)
    <3>1. CASE C!AnswerRefused(c)
      BY <3>1, <1>e, <1>t DEF C!AnswerRefused, ListSet
    <3>2. CASE C!AnswerTaken(c)
      BY <3>2, <1>h DEF C!AnswerTaken
    <3>3. CASE C!AnswerListed(c)
      <4>1. CASE C!Chain(c, "friends+")
        BY <4>1, <1>h
      <4>2. CASE C!Finish(c) /\ \/ v3' = [C!ShowRequests(c, v3) EXCEPT !.answering = FALSE]
                                \/ v3' = [C!ShowFriends(c, v3) EXCEPT !.answering = FALSE]
        <5>1. v3'.answering = FALSE
          BY <4>2, <1>t DEF C!ShowRequests, C!ShowFriends, ListSet
        <5> QED BY <1>e, <4>2, <5>1
      <4> QED BY <3>3, <4>1, <4>2 DEF C!AnswerListed
    <3> QED BY <1>8, <3>1, <3>2, <3>3
  <2>4. PICK o \in Answering \cup {"none"} : Becomes(c, o) /\ (v3'.answering = FALSE \/ o \in Answering)
    BY <2>3
  <2>5. v3'.answering => \E d \in C!Slots : v2'[d].op \in Answering
    BY <2>4
  <2>6. \A d \in C!Slots : v2'[d].op \in {"delete", "apply"} => v2'[d].op = v2[d].op
    BY <2>4
  <2>7. \A d \in C!Slots : v2[d].op \in {"delete", "apply"} => v2'[d].op = v2[d].op
    BY <2>1, <2>4
  <2>8. v2' \in CallSet
    BY <2>4
  <2> HIDE DEF Answering
  <2> QED BY <1>g, <1>t, <1>i, <2>1, <2>2, <2>5, <2>6, <2>7, <2>8
<1>9. CASE C!AskDelete \/ C!CancelDelete
  <2>1. UNCHANGED <<v1, v2, v4, v5>>
    BY <1>9 DEF C!AskDelete, C!CancelDelete
  <2>2. v3' \in ListSet /\ v3'.answering = v3.answering /\ v3'.dialog # "busy" /\ v3.dialog # "busy"
    BY <1>9, <1>t DEF ListSet, C!AskDelete, C!CancelDelete, C!FriendShown, C!Covered, C!DialogOffered
  <2>5. v5'.timers <= v5.timers
    BY <1>b, <1>t, <2>1 DEF FormSet
  <2> QED BY <1>k, <1>t, <2>1, <2>2, <2>5
<1>10. ASSUME NEW c \in C!Slots, C!ConfirmDelete(c)
       PROVE  C!IInv'
  <2>1. C!Start(c, "delete") /\ UNCHANGED <<v1, v4, v5>> /\ v3.dialog = "ask"
        /\ v3' = [v3 EXCEPT !.dialog = "busy"]
    BY <1>10 DEF C!ConfirmDelete, C!DialogOffered
  <2>2. v3' \in ListSet /\ v3'.answering = v3.answering /\ v3'.dialog = "busy"
    BY <1>t, <2>1 DEF ListSet
  <2>3. Becomes(c, "delete") /\ v2[c].op = "none"
    BY <1>s, <2>1
  <2>4. \A d \in C!Slots : v2[d].op # "delete"
    BY <1>i, <2>1
  <2>5. v3'.answering => \E d \in C!Slots : v2'[d].op \in Answering
    BY <1>i, <2>2, <2>3
  <2>6. v5'.phase = "busy" => \E d \in C!Slots : v2'[d].op = "apply"
    BY <1>i, <2>1, <2>3
  <2>7. \A d, e \in C!Slots : v2'[d].op \in {"delete", "apply"} /\ v2'[d].op = v2'[e].op => d = e
    BY <1>i, <2>3, <2>4
  <2> QED BY <1>g, <1>t, <1>i, <2>1, <2>2, <2>3, <2>5, <2>6, <2>7
<1>11. ASSUME NEW c \in C!Slots, C!Deleted(c)
       PROVE  C!IInv'
  <2>1. v2[c].op = "delete" /\ C!Finish(c) /\ UNCHANGED <<v1, v5>> /\ v4' \in {"hall", "peer"}
        /\ v3' = [v3 EXCEPT !.dialog = "none", !.friend = IF v2[c].got = "ok" THEN FALSE ELSE @]
    BY <1>11, <1>t DEF C!Deleted, C!Came
  <2>2. v3' \in ListSet /\ v3'.answering = v3.answering /\ v3'.dialog = "none"
    BY <1>t, <2>1 DEF ListSet
  <2>3. Becomes(c, "none")
    BY <1>e, <2>1
  <2>4. \A d \in C!Slots : v2'[d].op # "delete"
    BY <1>i, <2>1, <2>3
  <2>5. v3'.answering => \E d \in C!Slots : v2'[d].op \in Answering
    BY <1>i, <2>1, <2>2, <2>3
  <2>6. v5'.phase = "busy" => \E d \in C!Slots : v2'[d].op = "apply"
    BY <1>i, <2>1, <2>3
  <2>7. \A d \in C!Slots : v2'[d].op = "apply" => v2[d].op = "apply"
    BY <2>3
  <2> QED BY <1>g, <1>t, <1>i, <2>1, <2>2, <2>3, <2>4, <2>5, <2>6, <2>7
<1>12. ASSUME NEW k \in {"hall", "peer"}, C!OpenChat(k)
       PROVE  C!IInv'
  <2>1. UNCHANGED <<v1, v2, v3, v5>> /\ v4' = k
    BY <1>12 DEF C!OpenChat
  <2>5. v5'.timers <= v5.timers
    BY <1>b, <1>t, <2>1 DEF FormSet
  <2> QED BY <1>k, <1>t, <2>1, <2>5
<1>13. CASE C!ToggleForm \/ C!TypeName \/ C!FormTimer
  <2>1. UNCHANGED <<v1, v2, v3, v4>>
    BY <1>13 DEF C!ToggleForm, C!TypeName, C!FormTimer
  <2>2. v5' \in FormSet /\ (v5'.phase = "busy" <=> v5.phase = "busy") /\ v5'.timers <= v5.timers
    <3>1. v5 \in FormSet /\ v5.timers \in Nat
      BY <1>t, <1>b DEF FormSet
    <3>2. CASE C!ToggleForm \/ C!TypeName
      <4>1. \/ v5' = [v5 EXCEPT !.open = ~v5.open]
            \/ v5' = [v5 EXCEPT !.named = TRUE]
        BY <3>2 DEF C!ToggleForm, C!TypeName
      <4>2. v5' \in FormSet /\ v5'.phase = v5.phase /\ v5'.timers = v5.timers
        BY <3>1, <4>1 DEF FormSet
      <4> QED BY <3>1, <4>2
    <3>3. CASE C!FormTimer
      <4>1. v5.timers - 1 \in 0..FormTimers /\ v5.timers - 1 <= v5.timers
        BY <3>1, <3>3, <1>b DEF C!FormTimer, FormSet
      <4>2. v5' = [open |-> FALSE, named |-> FALSE, timers |-> v5.timers - 1,
                   phase |-> IF v5.phase = "busy" THEN "busy" ELSE "idle"]
        BY <3>1, <3>3 DEF C!FormTimer, FormSet
      <4> QED BY <4>1, <4>2 DEF FormSet
    <3> QED BY <1>13, <3>2, <3>3
  <2> QED BY <1>k, <1>t, <2>1, <2>2
<1>14. ASSUME NEW c \in C!Slots, C!SubmitForm(c)
       PROVE  C!IInv'
  <2>1. C!Start(c, "apply") /\ UNCHANGED <<v1, v3, v4>> /\ v5.phase # "busy" /\ v5.timers < FormTimers
        /\ v5' = [v5 EXCEPT !.phase = "busy"]
    BY <1>14 DEF C!SubmitForm, C!FormOffered
  <2>2. v5' \in FormSet /\ v5'.timers = v5.timers /\ v5'.phase = "busy"
    BY <1>t, <2>1 DEF FormSet
  <2>3. Becomes(c, "apply") /\ v2[c].op = "none"
    BY <1>s, <2>1
  <2>4. \A d \in C!Slots : v2[d].op # "apply"
    BY <1>i, <2>1
  <2>5. v3'.answering => \E d \in C!Slots : v2'[d].op \in Answering
    BY <1>i, <2>1, <2>3
  <2>6. v3'.dialog = "busy" => \E d \in C!Slots : v2'[d].op = "delete"
    BY <1>i, <2>1, <2>3
  <2>7. \A d, e \in C!Slots : v2'[d].op \in {"delete", "apply"} /\ v2'[d].op = v2'[e].op => d = e
    BY <1>i, <2>3, <2>4
  <2> QED BY <1>g, <1>t, <1>i, <2>1, <2>2, <2>3, <2>5, <2>6, <2>7
<1>15. ASSUME NEW c \in C!Slots, C!FormAnswered(c)
       PROVE  C!IInv'
  <2>1. v2[c].op = "apply" /\ C!Finish(c) /\ UNCHANGED <<v1, v3, v4>>
        /\ \/ v5' = [v5 EXCEPT !.phase = "done", !.timers = @ + 1]
           \/ v5' = [v5 EXCEPT !.phase = "failed"]
    BY <1>15 DEF C!FormAnswered, C!Came
  <2>2. v5' \in FormSet /\ v5'.phase # "busy"
    <3>1. v5.timers + 1 \in 0..FormTimers
      BY <1>b, <1>i, <1>t, <2>1 DEF FormSet
    <3> QED BY <1>t, <2>1, <3>1 DEF FormSet
  <2>3. Becomes(c, "none")
    BY <1>e, <2>1
  <2>4. \A d \in C!Slots : v2'[d].op # "apply"
    BY <1>i, <2>1, <2>3
  <2>5. v3'.answering => \E d \in C!Slots : v2'[d].op \in Answering
    BY <1>i, <2>1, <2>3
  <2>6. v3'.dialog = "busy" => \E d \in C!Slots : v2'[d].op = "delete"
    BY <1>i, <2>1, <2>3
  <2>7. \A d \in C!Slots : v2'[d].op = "delete" => v2[d].op = "delete"
    BY <2>3
  <2> QED BY <1>g, <1>t, <1>i, <2>1, <2>2, <2>3, <2>4, <2>5, <2>6, <2>7
<1>16. CASE UNCHANGED C!vars
  <2>1. UNCHANGED <<v1, v2, v3, v4, v5>>
    BY <1>16 DEF C!vars
  <2>5. v5'.timers <= v5.timers
    BY <1>b, <1>t, <2>1 DEF FormSet
  <2> QED BY <1>k, <1>t, <2>1, <2>5
<1> QED BY <1>1, <1>2, <1>3, <1>4, <1>5, <1>6, <1>7, <1>8, <1>9, <1>10, <1>11, <1>12, <1>13, <1>14,
           <1>15, <1>16 DEF C!Next, C!Return, C!Begin

\* GroupPanel (group list, manager and creation form): v1 mine, v2 peer, v3 call, v4 listed,
\* v5 chat, v6 panel, v7 form.  The invariant says of which group a load carries details and
\* members, and that an answer which lists groups holds groups.
LEMMA GroupStep ==
  ASSUME G!IInv, [G!Next]_(G!vars)
  PROVE  G!IInv'
<1> DEFINE Gids == Groups \cup {G!Nobody}
           States == {"out", "in", "muted"}
           Panels == [gid : Gids, details : Gids, members : Gids \X States, busy : BOOLEAN]
           Forms == [open : BOOLEAN, busy : BOOLEAN, timer : BOOLEAN]
           Ats == {"free", "sent", "back", "failed"}
           Kind(o, g, a, d, m) == [op : {o}, gid : {g}, at : {a}, details : {d}, members : {m}]
           Good(o, g, a, d, m) ==
             /\ o \notin G!Lists \cup {"none", "create"} => g \in Groups
             /\ o \in G!Loads => d \in {G!Nobody, g} /\ m \in {"unread", "out", "in", "muted"}
             /\ a = "back" /\ o \in G!Lists => m \subseteq Groups
           Inviting == {"invite", "load+"}
           Making == {"create", "list-made"}
<1>t. /\ v1 \subseteq Groups /\ v2 \in [Groups -> States] /\ v4 \subseteq Groups /\ v5 \in Groups \cup {"hall"}
      /\ v6 \in Panels /\ v7 \in Forms /\ v6.details = v6.members[1]
  BY DEF G!IInv, G!TypeOK, G!TitleMatchesMembers
<1>r. /\ v3 = [c \in G!Slots |-> [op |-> v3[c].op, gid |-> v3[c].gid, at |-> v3[c].at,
                                  details |-> v3[c].details, members |-> v3[c].members]]
      /\ \A c \in G!Slots : v3[c].gid \in Gids /\ v3[c].at \in Ats
  BY DEF G!IInv, G!TypeOK
<1>u. v3 = [c \in G!Slots |-> v3[c]]
  BY <1>r
<1>v. \A c \in G!Slots : v3[c] \in Kind(v3[c].op, v3[c].gid, v3[c].at, v3[c].details, v3[c].members)
  BY <1>r
<1>i. /\ \A c \in G!Slots : Good(v3[c].op, v3[c].gid, v3[c].at, v3[c].details, v3[c].members)
      /\ v6.busy => \E c \in G!Slots : v3[c].op \in Inviting
      /\ v7.busy => \E c \in G!Slots : v3[c].op \in Making
  BY DEF G!IInv, G!ProgressIsReal, G!Came
<1>g. ASSUME v1' \subseteq Groups, v2' \in [Groups -> States], v4' \subseteq Groups,
             v5' \in Groups \cup {"hall"}, v6' \in Panels, v7' \in Forms, v6'.details = v6'.members[1],
             v3' = [c \in G!Slots |-> [op |-> v3'[c].op, gid |-> v3'[c].gid, at |-> v3'[c].at,
                                       details |-> v3'[c].details, members |-> v3'[c].members]],
             \A c \in G!Slots : v3'[c].gid \in Gids /\ v3'[c].at \in Ats,
             \A c \in G!Slots : Good(v3'[c].op, v3'[c].gid, v3'[c].at, v3'[c].details, v3'[c].members),
             v6'.busy => \E c \in G!Slots : v3'[c].op \in Inviting,
             v7'.busy => \E c \in G!Slots : v3'[c].op \in Making
      PROVE  G!IInv'
  BY <1>g DEF G!IInv, G!TypeOK, G!TitleMatchesMembers, G!ProgressIsReal, G!Came
<1> HIDE DEF Panels, Forms
\* a step of one handler
<1>a. ASSUME NEW c \in G!Slots, NEW o, NEW g \in Gids, NEW a \in Ats, NEW d, NEW m,
             NEW r \in Kind(o, g, a, d, m), v3' = [v3 EXCEPT ![c] = r], Good(o, g, a, d, m),
             v1' \subseteq Groups, v2' \in [Groups -> States], v4' \subseteq Groups,
             v5' \in Groups \cup {"hall"}, v6' \in Panels, v7' \in Forms, v6'.details = v6'.members[1],
             v6'.busy => o \in Inviting \/ (v6.busy /\ v3[c].op \notin Inviting),
             v7'.busy => o \in Making \/ (v7.busy /\ v3[c].op \notin Making)
      PROVE  G!IInv'
  <2>1. r.op = o /\ r.gid = g /\ r.at = a /\ r.details = d /\ r.members = m
        /\ r = [op |-> r.op, gid |-> r.gid, at |-> r.at, details |-> r.details, members |-> r.members]
    BY <1>a
  <2> HIDE DEF Good, Gids, Ats
  <2>2. v3'[c] = r /\ \A e \in G!Slots : e # c => v3'[e] = v3[e]
    BY <1>a, <1>u
  <2>3. /\ v3' = [e \in G!Slots |-> v3'[e]]
        /\ \A e \in G!Slots : v3'[e] = [op |-> v3'[e].op, gid |-> v3'[e].gid, at |-> v3'[e].at,
                                        details |-> v3'[e].details, members |-> v3'[e].members]
    <3>1. v3' = [e \in G!Slots |-> v3'[e]]
      BY <1>a, <1>u
    <3>2. \A e \in G!Slots : v3[e] = [op |-> v3[e].op, gid |-> v3[e].gid, at |-> v3[e].at,
                                      details |-> v3[e].details, members |-> v3[e].members]
      BY <1>r
    <3> QED BY <2>1, <2>2, <3>1, <3>2
  <2>4. v3' = [e \in G!Slots |-> [op |-> v3'[e].op, gid |-> v3'[e].gid, at |-> v3'[e].at,
                                  details |-> v3'[e].details, members |-> v3'[e].members]]
    BY <2>3
  <2>5. \A e \in G!Slots : v3'[e].gid \in Gids /\ v3'[e].at \in Ats
    BY <1>a, <1>r, <2>1, <2>2
  <2>6. \A e \in G!Slots : Good(v3'[e].op, v3'[e].gid, v3'[e].at, v3'[e].details, v3'[e].members)
    BY <1>a, <1>i, <2>1, <2>2
  <2>7. v6'.busy => \E e \in G!Slots : v3'[e].op \in Inviting
    BY <1>a, <1>i, <2>1, <2>2
  <2>8. v7'.busy => \E e \in G!Slots : v3'[e].op \in Making
    BY <1>a, <1>i, <2>1, <2>2
  <2> QED BY <1>a, <1>g, <2>4, <2>5, <2>6, <2>7, <2>8
\* the steps of a handler, as records
<1>s. ASSUME NEW c \in G!Slots, NEW o, NEW g, G!Start(c, o, g)
      PROVE  /\ v3[c].op = "none"
             /\ \E r \in Kind(o, g, "sent", G!Nobody, "unread") : v3' = [v3 EXCEPT ![c] = r]
  <2>1. [G!Free EXCEPT !.op = o, !.gid = g, !.at = "sent"] \in Kind(o, g, "sent", G!Nobody, "unread")
    BY DEF G!Free
  <2>2. v3[c].op = "none"
    BY <1>s DEF G!Start, G!Free
  <2>3. v3' = [v3 EXCEPT ![c] = [G!Free EXCEPT !.op = o, !.gid = g, !.at = "sent"]]
    BY <1>s DEF G!Start
  <2> HIDE DEF Kind
  <2> QED BY <2>1, <2>2, <2>3
<1>h. ASSUME NEW c \in G!Slots, NEW o, G!Chain(c, o)
      PROVE  \E r \in Kind(o, v3[c].gid, "sent", G!Nobody, "unread") : v3' = [v3 EXCEPT ![c] = r]
  <2>1. [G!Free EXCEPT !.op = o, !.gid = v3[c].gid, !.at = "sent"]
          \in Kind(o, v3[c].gid, "sent", G!Nobody, "unread")
    BY DEF G!Free
  <2> HIDE DEF Kind
  <2> QED BY <1>h, <2>1 DEF G!Chain
<1>e. ASSUME NEW c \in G!Slots, G!Finish(c)
      PROVE  \E r \in Kind("none", G!Nobody, "free", G!Nobody, "unread") : v3' = [v3 EXCEPT ![c] = r]
  <2>1. G!Free \in Kind("none", G!Nobody, "free", G!Nobody, "unread")
    BY DEF G!Free
  <2> HIDE DEF Kind
  <2> QED BY <1>e, <2>1 DEF G!Finish
\* a handler begins an operation, or goes on with the next one, which has read nothing yet
<1>b. ASSUME NEW c \in G!Slots, NEW o, NEW g \in Gids, o \notin G!Lists \cup {"none", "create"} => g \in Groups,
             \E r \in Kind(o, g, "sent", G!Nobody, "unread") : v3' = [v3 EXCEPT ![c] = r],
             UNCHANGED <<v1, v2, v4, v5>>, v6' \in Panels, v7' \in Forms, v6'.details = v6'.members[1],
             v6'.busy => o \in Inviting \/ (v6.busy /\ v3[c].op \notin Inviting),
             v7'.busy => o \in Making \/ (v7.busy /\ v3[c].op \notin Making)
      PROVE  G!IInv'
  <2>1. Good(o, g, "sent", G!Nobody, "unread")
    BY <1>b
  <2>2. "sent" \in Ats
    OBVIOUS
  <2>3. v1' \subseteq Groups /\ v2' \in [Groups -> States] /\ v4' \subseteq Groups /\ v5' \in Groups \cup {"hall"}
    BY <1>b, <1>t
  <2> HIDE DEF Good, Ats, Kind, Gids
  <2> QED BY <1>a, <1>b, <2>1, <2>2, <2>3
\* a handler ends
<1>c. ASSUME NEW c \in G!Slots, G!Finish(c), UNCHANGED <<v1, v2>>, v4' \subseteq Groups,
             v5' \in Groups \cup {"hall"}, v6' \in Panels, v7' \in Forms, v6'.details = v6'.members[1],
             v6'.busy => v6.busy /\ v3[c].op \notin Inviting,
             v7'.busy => v7.busy /\ v3[c].op \notin Making
      PROVE  G!IInv'
  <2>1. Good("none", G!Nobody, "free", G!Nobody, "unread")
    BY DEF G!Lists, G!Loads
  <2>2. "free" \in Ats /\ G!Nobody \in Gids
    OBVIOUS
  <2>3. v1' \subseteq Groups /\ v2' \in [Groups -> States]
    BY <1>c, <1>t
  <2> HIDE DEF Good, Ats, Kind, Gids
  <2> QED BY <1>a, <1>c, <1>e, <2>1, <2>2, <2>3
\* the windows, without a handler
<1>w. ASSUME UNCHANGED <<v1, v2, v3, v4>>, v5' \in Groups \cup {"hall"}, v6' \in Panels, v7' \in Forms,
             v6'.details = v6'.members[1], v6'.busy => v6.busy, v7'.busy => v7.busy
      PROVE  G!IInv'
  <2> HIDE DEF Good, Ats, Gids
  <2> QED BY <1>g, <1>i, <1>r, <1>t, <1>w
<1>x. \A c \in G!Slots : v3[c].gid \in Gids
  BY <1>r
\* an answer of the server
<1>k. ASSUME NEW c \in G!Slots, NEW a \in Ats, NEW d, NEW m,
             NEW r \in Kind(v3[c].op, v3[c].gid, a, d, m), v3' = [v3 EXCEPT ![c] = r],
             Good(v3[c].op, v3[c].gid, a, d, m),
             v1' \subseteq Groups, v2' \in [Groups -> States], UNCHANGED <<v4, v5, v6, v7>>
      PROVE  G!IInv'
  <2>1. v4' \subseteq Groups /\ v5' \in Groups \cup {"hall"} /\ v6' \in Panels /\ v7' \in Forms
        /\ v6'.details = v6'.members[1]
    BY <1>k, <1>t
  <2>2. /\ v6'.busy => v3[c].op \in Inviting \/ (v6.busy /\ v3[c].op \notin Inviting)
        /\ v7'.busy => v3[c].op \in Making \/ (v7.busy /\ v3[c].op \notin Making)
    BY <1>k
  <2> HIDE DEF Good, Ats, Kind, Gids
  <2> QED BY <1>a, <1>k, <1>x, <2>1, <2>2
<1>1. ASSUME NEW c \in G!Slots, G!Serve(c)
      PROVE  G!IInv'
  <2>1. UNCHANGED <<v4, v5, v6, v7>> /\ v3[c].at = "sent"
    BY <1>1 DEF G!Serve
  <2>2. CASE v3[c].op \in G!Lists /\ v3' = [v3 EXCEPT ![c] = [@ EXCEPT !.at = "back", !.members = v1]]
             /\ UNCHANGED <<v1, v2>>
    <3> DEFINE r == [v3[c] EXCEPT !.at = "back", !.members = v1]
    <3>1. r \in Kind(v3[c].op, v3[c].gid, "back", v3[c].details, v1)
      BY <1>v
    <3>2. Good(v3[c].op, v3[c].gid, "back", v3[c].details, v1)
      BY <1>i, <1>t, <2>2 DEF G!Lists, G!Loads
    <3>3. v3' = [v3 EXCEPT ![c] = r]
      BY <2>2
    <3> HIDE DEF r, Kind, Good
    <3> QED BY <1>k, <1>t, <2>1, <2>2, <3>1, <3>2, <3>3
  <2>3. CASE v3[c].op \notin G!Lists /\ v3' = [v3 EXCEPT ![c].at = "back"]
             /\ v1' \subseteq Groups /\ v2' \in [Groups -> States]
    <3> DEFINE r == [v3[c] EXCEPT !.at = "back"]
    <3>1. r \in Kind(v3[c].op, v3[c].gid, "back", v3[c].details, v3[c].members)
      BY <1>v
    <3>2. Good(v3[c].op, v3[c].gid, "back", v3[c].details, v3[c].members)
      BY <1>i, <2>3
    <3>3. v3' = [v3 EXCEPT ![c] = r]
      BY <2>3
    <3> HIDE DEF r, Kind, Good
    <3> QED BY <1>k, <2>1, <2>3, <3>1, <3>2, <3>3
  <2>4. \/ v3[c].op \in G!Lists /\ v3' = [v3 EXCEPT ![c] = [@ EXCEPT !.at = "back", !.members = v1]]
           /\ UNCHANGED <<v1, v2>>
        \/ v3[c].op \notin G!Lists /\ v3' = [v3 EXCEPT ![c].at = "back"]
           /\ v1' \subseteq Groups /\ v2' \in [Groups -> States]
    <3>1. ASSUME NEW g \in Groups, NEW s \in States, v2' = [v2 EXCEPT ![g] = s]
          PROVE  v2' \in [Groups -> States]
      BY <1>t, <3>1
    <3>2. CASE v3[c].op \in G!Lists
      BY <1>1, <3>2 DEF G!Serve, G!Lists, G!server
    <3>3. CASE v3[c].op \notin G!Lists
      <4>1. v3' = [v3 EXCEPT ![c].at = "back"]
        BY <1>1, <3>3 DEF G!Serve
      <4>2. v1' \subseteq Groups
        BY <1>1, <1>t, <3>3 DEF G!Serve, G!server
      <4>3. v2' \in [Groups -> States]
        <5>1. \/ v2' = v2
              \/ \E g \in Groups : \E s \in States : v2' = [v2 EXCEPT ![g] = s]
          <6>1. v3[c].op \in {"invite", "kick", "mute", "unmute"} => v3[c].gid \in Groups
            BY <1>i DEF G!Lists
          <6>2. CASE v3[c].op \notin {"invite", "kick", "mute", "unmute"}
            BY <1>1, <3>3, <6>2 DEF G!Serve, G!server
          <6>3. CASE v3[c].op = "invite"
            <7>1. v2' = [v2 EXCEPT ![v3[c].gid] = IF v2[v3[c].gid] = "out" THEN "in" ELSE v2[v3[c].gid]]
              BY <1>1, <3>3, <6>3 DEF G!Serve
            <7>2. (IF v2[v3[c].gid] = "out" THEN "in" ELSE v2[v3[c].gid]) \in States
              BY <1>t, <6>1, <6>3
            <7> HIDE DEF States
            <7> QED BY <6>1, <6>3, <7>1, <7>2
          <6>4. CASE v3[c].op \in {"kick", "mute", "unmute"}
            <7>1. \E s \in States : v2' = [v2 EXCEPT ![v3[c].gid] = s]
              BY <1>1, <3>3, <6>4 DEF G!Serve
            <7> QED BY <6>1, <6>4, <7>1
          <6> QED BY <6>2, <6>3, <6>4
        <5> QED BY <1>t, <3>1, <5>1
      <4> QED BY <3>3, <4>1, <4>2, <4>3
    <3> QED BY <3>2, <3>3
  <2> QED BY <2>2, <2>3, <2>4
<1>2. ASSUME NEW c \in G!Slots, G!ServeDetails(c)
      PROVE  G!IInv'
  <2> DEFINE r == [v3[c] EXCEPT !.details = v3[c].gid]
  <2>1. UNCHANGED <<v1, v2, v4, v5, v6, v7>> /\ v3[c].op \in G!Loads /\ v3[c].at = "sent"
        /\ v3' = [v3 EXCEPT ![c] = r]
    BY <1>2 DEF G!ServeDetails, G!server
  <2>2. r \in Kind(v3[c].op, v3[c].gid, "sent", v3[c].gid, v3[c].members)
    BY <1>v, <2>1
  <2>3. Good(v3[c].op, v3[c].gid, "sent", v3[c].gid, v3[c].members)
    BY <1>i, <2>1 DEF G!Loads, G!Lists
  <2> HIDE DEF r, Kind, Good
  <2> QED BY <1>k, <1>t, <2>1, <2>2, <2>3
<1>3. ASSUME NEW c \in G!Slots, G!ServeMembers(c)
      PROVE  G!IInv'
  <2> DEFINE r == [v3[c] EXCEPT !.members = v2[v3[c].gid]]
  <2>1. UNCHANGED <<v1, v2, v4, v5, v6, v7>> /\ v3[c].op \in G!Loads /\ v3[c].at = "sent"
        /\ v3' = [v3 EXCEPT ![c] = r]
    BY <1>3 DEF G!ServeMembers, G!server
  <2>2. r \in Kind(v3[c].op, v3[c].gid, "sent", v3[c].details, v2[v3[c].gid])
    BY <1>v, <2>1
  <2>4. v3[c].gid \in Groups
    BY <1>i, <2>1 DEF G!Loads, G!Lists
  <2>3. Good(v3[c].op, v3[c].gid, "sent", v3[c].details, v2[v3[c].gid])
    BY <1>i, <1>t, <2>1, <2>4 DEF G!Loads, G!Lists
  <2> HIDE DEF r, Kind, Good
  <2> QED BY <1>k, <1>t, <2>1, <2>2, <2>3
<1>4. ASSUME NEW c \in G!Slots, G!CallFails(c)
      PROVE  G!IInv'
  <2> DEFINE r == [G!Free EXCEPT !.op = v3[c].op, !.gid = v3[c].gid, !.at = "failed"]
  <2>1. UNCHANGED <<v1, v2, v4, v5, v6, v7>> /\ v3' = [v3 EXCEPT ![c] = r]
    BY <1>4 DEF G!CallFails, G!server
  <2>2. r \in Kind(v3[c].op, v3[c].gid, "failed", G!Nobody, "unread")
    BY DEF G!Free
  <2>3. Good(v3[c].op, v3[c].gid, "failed", G!Nobody, "unread")
    BY <1>i
  <2> HIDE DEF r, Kind, Good
  <2> QED BY <1>k, <1>t, <2>1, <2>2, <2>3
<1>5. ASSUME NEW c \in G!Slots, G!FetchGroups(c)
      PROVE  G!IInv'
  <2>1. G!Start(c, "list", G!Nobody) /\ UNCHANGED <<v1, v2, v4, v5, v6, v7>>
    BY <1>5 DEF G!FetchGroups, G!server
  <2>2. "list" \in G!Lists
    BY DEF G!Lists
  <2> HIDE DEF Kind
  <2> QED BY <1>b, <1>s, <1>t, <2>1, <2>2
<1>6. ASSUME NEW c \in G!Slots, G!Listed(c)
      PROVE  G!IInv'
  <2>1. G!Finish(c) /\ UNCHANGED <<v1, v2, v5, v6, v7>> /\ v3[c].op = "list"
    BY <1>6 DEF G!Listed, G!Came, G!Failed, G!server
  <2>2. v4' \subseteq Groups
    BY <1>6, <1>i, <1>t DEF G!Listed, G!Came, G!Lists
  <2> QED BY <1>c, <1>t, <2>1, <2>2
<1>7. CASE G!OpenGroup \/ G!CloseManager \/ G!OpenForm \/ G!CloseForm \/ G!FormTimer
  <2>1. UNCHANGED <<v1, v2, v3, v4>>
    BY <1>7 DEF G!OpenGroup, G!CloseManager, G!OpenForm, G!CloseForm, G!FormTimer, G!server
  <2>2. v5' \in Groups \cup {"hall"}
    BY <1>7, <1>t DEF G!OpenGroup, G!CloseManager, G!OpenForm, G!CloseForm, G!FormTimer
  <2>3. v6' = v6 \/ v6' = [v6 EXCEPT !.gid = G!Nobody]
    BY <1>7 DEF G!OpenGroup, G!CloseManager, G!OpenForm, G!CloseForm, G!FormTimer
  <2>4. v7' \in Forms /\ v7'.busy = v7.busy
    BY <1>7, <1>t DEF G!OpenGroup, G!CloseManager, G!OpenForm, G!CloseForm, G!FormTimer, Forms
  <2>5. v6' \in Panels /\ v6'.busy = v6.busy /\ v6'.details = v6'.members[1]
    BY <1>t, <2>3 DEF Panels
  <2> QED BY <1>w, <2>1, <2>2, <2>4, <2>5
<1>8. ASSUME NEW c \in G!Slots, G!Loaded(c)
      PROVE  G!IInv'
  <2>1. G!Finish(c) /\ UNCHANGED <<v1, v2, v4, v5, v7>> /\ v3[c].op \in G!Loads
        /\ G!Nobody # v3[c].details /\ "unread" # v3[c].members
        /\ v6' = [v6 EXCEPT !.details = v3[c].details, !.members = <<v3[c].gid, v3[c].members>>,
                            !.busy = @ /\ v3[c].op # "load+"]
    BY <1>8 DEF G!Loaded, G!server
  <2>2. v3[c].details = v3[c].gid /\ v3[c].gid \in Groups /\ v3[c].members \in States
        /\ v3[c].op \in {"load", "load+"}
    BY <1>i, <2>1 DEF G!Loads, G!Lists
  <2>3. PICK b \in BOOLEAN : b = (v6.busy /\ v3[c].op # "load+")
    BY <1>t DEF Panels
  <2>4. v6' = [v6 EXCEPT !.details = v3[c].gid, !.members = <<v3[c].gid, v3[c].members>>, !.busy = b]
    BY <2>1, <2>2, <2>3
  <2>5. v6' \in Panels /\ v6'.busy = b /\ v6'.details = v6'.members[1]
    BY <1>t, <2>2, <2>4 DEF Panels
  <2>6. G!Finish(c) /\ UNCHANGED <<v1, v2, v4, v5, v7>>
    BY <2>1
  <2> QED BY <1>c, <1>t, <2>2, <2>3, <2>5, <2>6
<1>9. ASSUME NEW c \in G!Slots, G!NotLoaded(c)
      PROVE  G!IInv'
  <2>1. G!Finish(c) /\ UNCHANGED <<v1, v2, v4, v5, v7>> /\ v3[c].op \in {"load", "load+", "invite"}
        /\ v6' = [v6 EXCEPT !.busy = @ /\ v3[c].op = "load"]
    BY <1>9 DEF G!NotLoaded, G!Failed, G!Loads, G!server
  <2>3. PICK b \in BOOLEAN : b = (v6.busy /\ v3[c].op = "load")
    BY <1>t DEF Panels
  <2>4. v6' = [v6 EXCEPT !.busy = b]
    BY <2>1, <2>3
  <2>5. v6' \in Panels /\ v6'.busy = b /\ v6'.details = v6'.members[1]
    BY <1>t, <2>4 DEF Panels
  <2>6. G!Finish(c) /\ UNCHANGED <<v1, v2, v4, v5, v7>> /\ v3[c].op \in {"load", "load+", "invite"}
    BY <2>1
  <2> QED BY <1>c, <1>t, <2>3, <2>5, <2>6
<1>10. ASSUME NEW c \in G!Slots, G!OpenManager(c)
       PROVE  G!IInv'
  <2>1. G!Start(c, "load", v5) /\ UNCHANGED <<v1, v2, v4, v5, v7>> /\ v5 # "hall"
        /\ v6' = [v6 EXCEPT !.gid = v5]
    BY <1>10 DEF G!OpenManager, G!server
  <2>2. v5 \in Groups
    BY <1>t, <2>1
  <2>3. v6' \in Panels /\ v6'.busy = v6.busy /\ v6'.details = v6'.members[1]
    BY <1>t, <2>1, <2>2 DEF Panels
  <2>4. v3[c].op = "none" /\ \E r \in Kind("load", v5, "sent", G!Nobody, "unread") : v3' = [v3 EXCEPT ![c] = r]
    BY <1>s, <2>1
  <2> HIDE DEF Kind
  <2> QED BY <1>b, <1>t, <2>1, <2>2, <2>3, <2>4
<1>11. ASSUME NEW c \in G!Slots, G!Invite(c)
       PROVE  G!IInv'
  <2>1. G!Start(c, "invite", v6.gid) /\ UNCHANGED <<v1, v2, v4, v5, v7>> /\ v6.gid # G!Nobody
        /\ v6' = [v6 EXCEPT !.busy = TRUE]
    BY <1>11 DEF G!Invite, G!server
  <2>2. v6.gid \in Groups
    BY <1>t, <2>1 DEF Panels
  <2>3. v6' \in Panels /\ v6'.details = v6'.members[1]
    BY <1>t, <2>1, <2>2 DEF Panels
  <2>4. v3[c].op = "none" /\ \E r \in Kind("invite", v6.gid, "sent", G!Nobody, "unread") : v3' = [v3 EXCEPT ![c] = r]
    BY <1>s, <2>1
  <2>5. UNCHANGED <<v1, v2, v4, v5, v7>>
    BY <2>1
  <2> HIDE DEF Kind
  <2> QED BY <1>b, <1>t, <2>2, <2>3, <2>4, <2>5
<1>12. ASSUME NEW c \in G!Slots, G!Invited(c)
       PROVE  G!IInv'
  <2>1. G!Chain(c, "load+") /\ UNCHANGED <<v1, v2, v4, v5, v6, v7>> /\ v3[c].op = "invite"
    BY <1>12 DEF G!Invited, G!Came, G!server
  <2>2. v3[c].gid \in Groups
    BY <1>i, <2>1 DEF G!Lists
  <2> HIDE DEF Kind
  <2> QED BY <1>b, <1>h, <1>t, <2>1, <2>2
<1>13. ASSUME NEW c \in G!Slots, G!Kick(c) \/ G!Mute(c) \/ G!Leave(c)
       PROVE  G!IInv'
  <2>1. UNCHANGED <<v1, v2, v4, v5, v6, v7>> /\ v6.gid # G!Nobody
        /\ \E o \in {"kick", "mute", "unmute", "leave"} : G!Start(c, o, v6.gid)
    BY <1>13 DEF G!Kick, G!Mute, G!Leave, G!server
  <2>2. v6.gid \in Groups
    BY <1>t, <2>1 DEF Panels
  <2>3. PICK o \in {"kick", "mute", "unmute", "leave"} :
          v3[c].op = "none" /\ \E r \in Kind(o, v6.gid, "sent", G!Nobody, "unread") : v3' = [v3 EXCEPT ![c] = r]
    BY <1>s, <2>1
  <2>4. UNCHANGED <<v1, v2, v4, v5, v6, v7>>
    BY <2>1
  <2> HIDE DEF Kind
  <2> QED BY <1>b, <1>t, <2>2, <2>3, <2>4
<1>14. ASSUME NEW c \in G!Slots, G!Changed(c)
       PROVE  G!IInv'
  <2>1. UNCHANGED <<v1, v2, v4, v5, v6, v7>> /\ v3[c].op \in {"kick", "mute", "unmute"}
        /\ (G!Chain(c, "load") \/ G!Finish(c))
    BY <1>14 DEF G!Changed, G!Came, G!Failed, G!server
  <2>2. v3[c].gid \in Groups /\ v3[c].op \notin Inviting /\ v3[c].op \notin Making
    BY <1>i, <2>1 DEF G!Lists
  <2>3. CASE G!Chain(c, "load")
    <3> HIDE DEF Kind
    <3> QED BY <1>b, <1>h, <1>t, <2>1, <2>2, <2>3
  <2>4. CASE G!Finish(c)
    BY <1>c, <1>t, <2>1, <2>2, <2>4
  <2> QED BY <2>1, <2>3, <2>4
<1>15. ASSUME NEW c \in G!Slots, G!Left(c)
       PROVE  G!IInv'
  <2>1. UNCHANGED <<v1, v2, v7>> /\ v3[c].op \in {"leave", "list-left"}
    BY <1>15 DEF G!Left, G!Came, G!Failed, G!server
  <2>2. CASE G!Chain(c, "list-left") /\ UNCHANGED <<v4, v5, v6>>
    <3>1. "list-left" \in G!Lists
      BY DEF G!Lists
    <3> HIDE DEF Kind
    <3> QED BY <1>b, <1>h, <1>t, <1>x, <2>1, <2>2, <3>1
  <2>3. CASE G!Finish(c) /\ UNCHANGED <<v4, v5, v6>>
    BY <1>c, <1>t, <2>1, <2>3
  <2>4. CASE G!Finish(c) /\ v4' \subseteq Groups /\ v5' = "hall" /\ v6' = [v6 EXCEPT !.gid = G!Nobody]
    <3>1. v6' \in Panels /\ v6'.busy = v6.busy /\ v6'.details = v6'.members[1]
      BY <1>t, <2>4 DEF Panels
    <3> QED BY <1>c, <1>t, <2>1, <2>4, <3>1
  <2>5. \/ G!Chain(c, "list-left") /\ UNCHANGED <<v4, v5, v6>>
        \/ G!Finish(c) /\ UNCHANGED <<v4, v5, v6>>
        \/ G!Finish(c) /\ v4' \subseteq Groups /\ v5' = "hall" /\ v6' = [v6 EXCEPT !.gid = G!Nobody]
    BY <1>15, <1>i, <1>t DEF G!Left, G!Came, G!Lists
  <2> QED BY <2>2, <2>3, <2>4, <2>5
<1>16. ASSUME NEW c \in G!Slots, G!Submit(c)
       PROVE  G!IInv'
  <2>1. G!Start(c, "create", G!Nobody) /\ UNCHANGED <<v1, v2, v4, v5, v6>>
        /\ v7' = [v7 EXCEPT !.busy = TRUE]
    BY <1>16 DEF G!Submit, G!server
  <2>2. v7' \in Forms
    BY <1>t, <2>1 DEF Forms
  <2>3. v3[c].op = "none" /\ \E r \in Kind("create", G!Nobody, "sent", G!Nobody, "unread") : v3' = [v3 EXCEPT ![c] = r]
    BY <1>s, <2>1
  <2>4. UNCHANGED <<v1, v2, v4, v5, v6>>
    BY <2>1
  <2> HIDE DEF Kind
  <2> QED BY <1>b, <1>t, <2>2, <2>3, <2>4
<1>17. ASSUME NEW c \in G!Slots, G!Created(c)
       PROVE  G!IInv'
  <2>1. UNCHANGED <<v1, v2, v5, v6>> /\ v3[c].op \in {"create", "list-made"}
    BY <1>17 DEF G!Created, G!Came, G!Failed, G!server
  <2>2. CASE G!Chain(c, "list-made") /\ UNCHANGED <<v4, v7>>
    <3>1. "list-made" \in G!Lists
      BY DEF G!Lists
    <3> HIDE DEF Kind
    <3> QED BY <1>b, <1>h, <1>t, <1>x, <2>1, <2>2, <3>1
  <2>3. CASE /\ G!Finish(c) /\ v4' \subseteq Groups
             /\ (v7' = [v7 EXCEPT !.busy = FALSE] \/ v7' = [v7 EXCEPT !.busy = FALSE, !.timer = TRUE])
    <3>1. v7' \in Forms /\ v7'.busy = FALSE
      BY <1>t, <2>3 DEF Forms
    <3> QED BY <1>c, <1>t, <2>1, <2>3, <3>1
  <2>5. \/ G!Chain(c, "list-made") /\ UNCHANGED <<v4, v7>>
        \/ /\ G!Finish(c) /\ v4' \subseteq Groups
           /\ (v7' = [v7 EXCEPT !.busy = FALSE] \/ v7' = [v7 EXCEPT !.busy = FALSE, !.timer = TRUE])
    BY <1>17, <1>i, <1>t DEF G!Created, G!Came, G!Lists
  <2> QED BY <2>2, <2>3, <2>5
<1>18. CASE UNCHANGED G!vars
  <2>1. UNCHANGED <<v1, v2, v3, v4, v5, v6, v7>>
    BY <1>18 DEF G!vars
  <2> QED BY <1>w, <1>t, <2>1
<1> QED BY <1>1, <1>2, <1>3, <1>4, <1>5, <1>6, <1>7, <1>8, <1>9, <1>10, <1>11, <1>12, <1>13, <1>14,
           <1>15, <1>16, <1>17, <1>18 DEF G!Next, G!Return, G!Begin

-----------------------------------------------------------------------------
(* Notices, shells and the windows around them.                            *)

\* Notices (system notices on the page): v1 page, v2 link, v3 store, v4 timer, v5 seen.
LEMMA NoticesStep ==
  ASSUME N!IInv, [N!Next]_(N!vars)
  PROVE  N!IInv'
<1> USE DEF N!IInv, N!TypeOK, N!DotIsHonest, N!BannerIsTimed, N!BadgeIsTrue,
            N!BannerShown, N!Badge, N!DrawerShown
<1>1. CASE N!Mount
  BY <1>1 DEF N!Mount
<1>2. CASE N!Listen
  BY <1>2 DEF N!Listen
<1>3. CASE N!Logout \/ N!Expired
  BY <1>3 DEF N!Logout, N!Expired
<1>4. CASE N!SetStatus
  BY <1>4 DEF N!SetStatus
<1>5. ASSUME NEW n \in Ids, N!Arrive(n)
      PROVE  N!IInv'
  BY <1>5 DEF N!Arrive, N!Listed
<1>6. CASE N!BannerEffect
  <2>1. /\ UNCHANGED <<v1, v2, v3, v5>>
        /\ v4' = [settled |-> TRUE, set |-> N!BannerShown]
    <3> HIDE DEF N!IInv, N!BannerShown
    <3> QED BY <1>6 DEF N!BannerEffect
  <2>2. N!DotIsHonest' /\ N!BadgeIsTrue' /\ (v1.heard => v1.in)'
    BY <2>1
  <2>3. CASE N!BannerShown
    <3>1. v4' = [settled |-> TRUE, set |-> TRUE] /\ v3'.banner # N!Nothing
      BY <2>1, <2>3
    <3> HIDE DEF N!DotIsHonest, N!BadgeIsTrue
    <3> QED BY <2>1, <2>2, <3>1
  <2>4. CASE ~N!BannerShown
    <3>1. v4' = [settled |-> TRUE, set |-> FALSE] /\ v3'.banner = N!Nothing
      BY <2>1, <2>4
    <3> HIDE DEF N!DotIsHonest, N!BadgeIsTrue
    <3> QED BY <2>1, <2>2, <3>1
  <2> QED BY <2>3, <2>4
<1>9. CASE N!BannerTimer \/ N!CloseBanner
  <2> HIDE DEF N!IInv, N!BannerShown
  <2>1. /\ v3' = [v3 EXCEPT !.banner = N!Nothing]
        /\ v4' = [v4 EXCEPT !.settled = FALSE] \/ v4' = [settled |-> FALSE, set |-> FALSE]
        /\ UNCHANGED <<v1, v2, v5>>
    BY <1>9 DEF N!BannerTimer, N!CloseBanner
  <2> USE DEF N!IInv, N!BannerShown
  <2>2. v4' \in [settled : BOOLEAN, set : BOOLEAN] /\ ~v4'.settled
    <3>1. v4 \in [settled : BOOLEAN, set : BOOLEAN]
      OBVIOUS
    <3> HIDE DEF N!IInv
    <3>2. CASE v4' = [v4 EXCEPT !.settled = FALSE]
      BY <3>1, <3>2
    <3>3. CASE v4' = [settled |-> FALSE, set |-> FALSE]
      BY <3>3
    <3> QED BY <2>1, <3>2, <3>3
  <2>3. N!TypeOK'
    BY <2>1, <2>2
  <2>4. N!DotIsHonest' /\ N!BannerIsTimed'
    BY <2>1, <2>2
  <2>5. UNCHANGED <<v1, v2>>
    <3> HIDE DEF N!IInv
    <3> QED BY <2>1
  <2>6. N!BadgeIsTrue' /\ (v1.heard => v1.in)'
    BY <2>5
  <2> QED BY <2>3, <2>4, <2>6
<1>7. CASE N!OpenDrawer \/ N!CloseDrawer \/ N!Clear
  BY <1>7 DEF N!OpenDrawer, N!CloseDrawer, N!Clear, N!BellOffered, N!ClearOffered, N!Read
<1>8. CASE UNCHANGED N!vars
  BY <1>8 DEF N!vars
<1> QED BY <1>1, <1>2, <1>3, <1>4, <1>5, <1>6, <1>7, <1>8, <1>9 DEF N!Next

\* Shell (mobile shell, island and windows): v1 user, v2 link, v3 nav, v4 windows,
\* v5 island, v6 listeners.
LEMMA ShellStep ==
  ASSUME S!IInv, [S!Next]_(S!vars)
  PROVE  S!IInv'
<1> USE DEF S!IInv, S!TypeOK, S!LampIsTrue, S!ListenersAreFreed, S!IslandShown, S!Lamp
<1>a. v6 = IF v5.heard THEN 1 ELSE 0
  OBVIOUS
<1>b. S!IslandGoes => v5' = S!NoIsland /\ v6' = 0
  BY <1>a DEF S!IslandGoes
<1>1. CASE S!Login
  BY <1>1 DEF S!Login, S!NoIsland, S!NewIsland
<1>8. CASE S!SessionEnds
  <2>1. v5' = S!NoIsland /\ v6' = 0 /\ v1' = FALSE /\ v2' = "down" /\ UNCHANGED <<v3, v4>>
    BY <1>8, <1>b DEF S!SessionEnds
  <2>2. v5' \in [heard : BOOLEAN, lamp : {"down", "connecting", "up"}, burst : BOOLEAN, pulse : BOOLEAN]
        /\ ~v5'.heard
    BY <2>1 DEF S!NoIsland
  <2>3. v6' \in 0..1 /\ v4' \subseteq S!Windows
    BY <2>1
  <2>4. v3' \in [tab : S!Tabs, open : BOOLEAN, with : {"hall", "peer", "group"}]
    BY <2>1
  <2>5. S!TypeOK'
    BY <2>1, <2>2, <2>3, <2>4
  <2> QED BY <2>1, <2>2, <2>5
<1>2. CASE S!SetStatus
  BY <1>2 DEF S!SetStatus
<1>9. CASE S!IslandListens
  <2>1. v6' = 1
    BY <1>9, <1>a DEF S!IslandListens
  <2>2. v5' = [v5 EXCEPT !.heard = TRUE, !.lamp = v2] /\ UNCHANGED <<v1, v2, v3, v4>> /\ S!IslandShown
    BY <1>9 DEF S!IslandListens
  <2>5. v5' \in [heard : BOOLEAN, lamp : {"down", "connecting", "up"}, burst : BOOLEAN, pulse : BOOLEAN]
        /\ v5'.heard /\ v5'.lamp = v2
    BY <2>2
  <2>6. v6' \in 0..1
    BY <2>1
  <2>3. S!TypeOK'
    BY <2>2, <2>5, <2>6
  <2>4. S!IslandShown'
    BY <2>2
  <2> HIDE DEF S!TypeOK, S!IslandShown
  <2> QED BY <2>1, <2>2, <2>3, <2>4, <2>5
<1>3. CASE S!EnterChat
  <2>1. v5' = S!NoIsland /\ v6' = 0 /\ UNCHANGED <<v1, v2, v4>>
    BY <1>3, <1>b DEF S!EnterChat
  <2>2. v3' \in [tab : S!Tabs, open : BOOLEAN, with : {"hall", "peer", "group"}]
    BY <1>3 DEF S!EnterChat
  <2>3. S!TypeOK' /\ ~v5'.heard
    BY <2>1, <2>2 DEF S!NoIsland
  <2> QED BY <2>1, <2>3
<1>10. CASE S!Back
  BY <1>10 DEF S!Back, S!NoIsland, S!NewIsland
<1>11. CASE S!QuickSwitch
  BY <1>11 DEF S!QuickSwitch
<1>4. CASE S!PickTab \/ S!ToggleBurst \/ S!TogglePulse
  BY <1>4 DEF S!PickTab, S!ToggleBurst, S!TogglePulse
<1>5. CASE S!BurstEntry
  BY <1>5 DEF S!BurstEntry, S!BurstShown, S!Tabs, S!Windows
<1>6. CASE S!OpenWindow \/ S!CloseWindow \/ S!ProfileToAdd
  BY <1>6 DEF S!OpenWindow, S!CloseWindow, S!ProfileToAdd, S!Windows
<1>7. CASE UNCHANGED S!vars
  BY <1>7 DEF S!vars
<1> QED BY <1>1, <1>2, <1>3, <1>4, <1>5, <1>6, <1>7, <1>8, <1>9, <1>10, <1>11 DEF S!Next

\* Desktop (the Electron shell): v1 owner, v2 stage, v3 port, v4 window, v5 got.
LEMMA DesktopStep ==
  ASSUME E!IInv, [E!Next]_(E!vars)
  PROVE  E!IInv'
<1> USE ProcsAssumption
    DEF E!IInv, E!TypeOK, E!WindowHasServer, E!None, E!Stranger, E!Fixed, E!Random
<1>1. ASSUME NEW p \in Procs, E!Launch(p) \/ E!InUse(p)
      PROVE  E!IInv'
  BY <1>1 DEF E!Launch, E!InUse
<1>2. ASSUME NEW p \in Procs, E!Bound(p) \/ E!BoundElsewhere(p)
      PROVE  E!IInv'
  BY <1>2 DEF E!Bound, E!BoundElsewhere, E!Resolve
<1>3. ASSUME NEW p \in Procs, E!Request(p)
      PROVE  E!IInv'
  BY <1>3 DEF E!Request
<1>4. ASSUME NEW p \in Procs, E!Close(p)
      PROVE  E!IInv'
  BY <1>4 DEF E!Close
<1>5. CASE E!StrangerMoves
  BY <1>5 DEF E!StrangerMoves
<1>6. CASE UNCHANGED E!vars
  BY <1>6 DEF E!vars
<1> QED BY <1>1, <1>2, <1>3, <1>4, <1>5, <1>6 DEF E!Next

\* Visit (the profile window): v1 asked, v2 shown, v3 loading, v4 load, v5 friends, v6 chat,
\* v7 adding, v8 zoom.
LEMMA VisitStep ==
  ASSUME U!IInv, [U!Next]_(U!vars)
  PROVE  U!IInv'
<1> USE DEF U!IInv, U!TypeOK, U!LoadingIsReal, U!Nobody
<1>1. ASSUME NEW l \in U!Slots, U!Loaded(l) \/ U!NotLoaded(l)
      PROVE  U!IInv'
  <2>1. /\ v2' \in People \cup {U!Nobody} /\ v3' = FALSE
        /\ v4' = [v4 EXCEPT ![l] = U!Free]
        /\ UNCHANGED <<v1, v5, v6, v7, v8>>
    BY <1>1 DEF U!Loaded, U!NotLoaded
  <2>2. v4' \in [U!Slots -> [of : People \cup {U!Nobody}, at : {"free", "sent"}]]
    BY <2>1 DEF U!Free
  <2> QED BY <2>1, <2>2
<1>2. ASSUME NEW l \in U!Slots, NEW u \in People, U!Ask(l, u)
      PROVE  U!IInv'
  BY <1>2 DEF U!Ask, U!Start, U!Open
<1>3. CASE U!Close \/ U!StartChat \/ U!AddFriend
  BY <1>3 DEF U!Close, U!StartChat, U!AddFriend, U!Closed, U!ChatOffered, U!AddOffered,
              U!PageShown, U!Open
<1>4. CASE U!Zoom \/ U!Unzoom
  <2>1. v8' \in BOOLEAN /\ UNCHANGED <<v1, v2, v3, v4, v5, v6, v7>>
    BY <1>4 DEF U!Zoom, U!Unzoom
  <2>2. U!LoadingIsReal'
    BY <2>1
  <2> QED BY <2>1, <2>2
<1>7. CASE U!GoHome
  BY <1>7 DEF U!GoHome
<1>5. ASSUME NEW u \in People, U!FriendsChange(u)
      PROVE  U!IInv'
  BY <1>5 DEF U!FriendsChange
<1>6. CASE UNCHANGED U!vars
  BY <1>6 DEF U!vars
<1> QED BY <1>1, <1>2, <1>3, <1>4, <1>5, <1>6, <1>7 DEF U!Next

\* Galaxy (the mobile contacts): v1 row, v2 requests, v3 friends, v4 responding, v5 call.
LEMMA GalaxyStep ==
  ASSUME X!IInv, [X!Next]_(X!vars)
  PROVE  X!IInv'
<1> USE DEF X!IInv, X!TypeOK, X!ProgressIsReal
<1>a. ASSUME NEW c \in X!Slots, NEW step \in {"pending", "friends"}, X!Then(c, step),
             UNCHANGED v1, v2' \in SUBSET People, UNCHANGED v3
      PROVE  X!IInv'
  BY <1>a DEF X!Then
<1>b. ASSUME NEW c \in X!Slots, X!Ends(c),
             UNCHANGED v1, v2' \in SUBSET People, v3' \in SUBSET People
      PROVE  X!IInv'
  BY <1>b DEF X!Ends, X!Free
<1>1. ASSUME NEW c \in X!Slots, X!Fetch(c)
      PROVE  X!IInv'
  BY <1>1 DEF X!Fetch, X!Start, X!Free
<1>2. ASSUME NEW c \in X!Slots, NEW p \in People, X!Respond(c, p)
      PROVE  X!IInv'
  BY <1>2 DEF X!Respond, X!Start, X!Free
<1>3. ASSUME NEW c \in X!Slots, X!Serve(c)
      PROVE  X!IInv'
  BY <1>3 DEF X!Serve
<1>4. ASSUME NEW c \in X!Slots, X!CallFails(c)
      PROVE  X!IInv'
  BY <1>4 DEF X!CallFails
<1>5. ASSUME NEW c \in X!Slots, X!Answered(c)
      PROVE  X!IInv'
  <2>1. CASE v5[c].at = "back"
    BY <1>5, <2>1, <1>a DEF X!Answered
  <2>2. CASE v5[c].at = "failed"
    BY <1>5, <2>2, <1>b DEF X!Answered
  <2> QED BY <1>5, <2>1, <2>2 DEF X!Answered
<1>6. ASSUME NEW c \in X!Slots, X!PendingComes(c)
      PROVE  X!IInv'
  <2>1. v2' \in SUBSET People
    BY <1>6 DEF X!PendingComes
  <2> QED BY <1>6, <1>a, <1>b, <2>1 DEF X!PendingComes
<1>8. ASSUME NEW c \in X!Slots, X!FriendsCome(c)
      PROVE  X!IInv'
  <2>1. v3' \in SUBSET People
    BY <1>8 DEF X!FriendsCome
  <2> QED BY <1>8, <1>b, <2>1 DEF X!FriendsCome
<1>7. CASE UNCHANGED X!vars
  BY <1>7 DEF X!vars
<1> QED BY <1>1, <1>2, <1>3, <1>4, <1>5, <1>6, <1>7, <1>8 DEF X!Next

-----------------------------------------------------------------------------
(* The dashboard, the profile page, the feed and the recorder.             *)

\* Dashboard (the admin's statistics and forms): v1 page, v2 poll, v3 loading, v4 form,
\* v5 call.  The invariant has one call of this opening for a busy form, none for a free one.
LEMMA DashboardStep ==
  ASSUME D!IInv, [D!Next]_(D!vars)
  PROVE  D!IInv'
<1> DEFINE Ops == {"none", "load", "poll"} \cup D!Forms
           CallSet == [D!Slots -> [op : Ops, at : {"free", "sent"}, mine : BOOLEAN]]
           FormRec == [text : BOOLEAN, busy : BOOLEAN, done : BOOLEAN, timers : 0..ThanksTimers]
           FormSet == [D!Forms -> FormRec]
           Of(c, o) == v5[c].op = o /\ v5[c].at = "sent" /\ v5[c].mine
\* the invariant in terms of the call that an answer belongs to
<1>t. /\ v1 \in [in : BOOLEAN, open : BOOLEAN] /\ v2 \in BOOLEAN /\ v3 \in BOOLEAN
      /\ v4 \in FormSet /\ v5 \in CallSet
  BY DEF D!IInv, D!TypeOK
<1>f. D!Forms = {"broadcast", "ban"} /\ ThanksTimers \in Nat
  BY BoundsAssumption DEF D!Forms
<1>i. /\ \A f \in D!Forms : v4[f].done => v4[f].timers > 0
      /\ v3 => \E c \in D!Slots : Of(c, "load")
      /\ \A f \in D!Forms : /\ v4[f].busy <=> \E c \in D!Slots : Of(c, f)
                            /\ \A c, d \in D!Slots : Of(c, f) /\ Of(d, f) => c = d
  BY DEF D!IInv, D!SuccessFades, D!Answered
<1>g. ASSUME v1' \in [in : BOOLEAN, open : BOOLEAN], v2' \in BOOLEAN, v3' \in BOOLEAN,
             v4' \in FormSet, v5' \in CallSet,
             \A f \in D!Forms : v4'[f].done => v4'[f].timers > 0,
             v3' => \E c \in D!Slots : Of(c, "load")',
             \A f \in D!Forms : /\ v4'[f].busy <=> \E c \in D!Slots : Of(c, f)'
                                /\ \A c, d \in D!Slots : Of(c, f)' /\ Of(d, f)' => c = d
      PROVE  D!IInv'
  BY <1>g DEF D!IInv, D!TypeOK, D!SuccessFades, D!Answered
\* what the steps of a call do to the answers that are awaited
<1>s. ASSUME NEW c \in D!Slots, NEW o \in Ops, D!Start(c, o)
      PROVE  /\ v5' \in CallSet
             /\ \A d \in D!Slots, p \in Ops : Of(d, p)' <=> (Of(d, p) \/ (d = c /\ p = o))
             /\ ~\E p \in Ops : Of(c, p)
  <2>1. v5[c] = D!Free /\ v5' = [v5 EXCEPT ![c] = D!Sent(o)]
    BY <1>s DEF D!Start, D!Idle
  <2>2. D!Sent(o) \in [op : Ops, at : {"free", "sent"}, mine : BOOLEAN]
    BY DEF D!Sent
  <2> QED BY <1>t, <2>1, <2>2 DEF D!Free, D!Sent
<1>e. ASSUME NEW c \in D!Slots, D!Finish(c)
      PROVE  /\ v5' \in CallSet
             /\ \A d \in D!Slots, p \in Ops : Of(d, p)' <=> (Of(d, p) /\ d # c)
  <2>2. D!Free \in [op : Ops, at : {"free", "sent"}, mine : BOOLEAN]
    BY DEF D!Free
  <2> QED BY <1>e, <1>t, <2>2 DEF D!Finish, D!Free
<1>k. ASSUME UNCHANGED v5
      PROVE  v5' \in CallSet /\ \A d \in D!Slots, p \in Ops : Of(d, p)' <=> Of(d, p)
  BY <1>k, <1>t
<1>o. "load" \in Ops /\ "poll" \in Ops /\ D!Forms \subseteq Ops /\ "load" \notin D!Forms /\ "poll" \notin D!Forms
  BY DEF D!Forms
<1> HIDE DEF Ops, CallSet, FormSet, Of
<1>1. CASE D!Close
  <2>1. /\ v1' = [v1 EXCEPT !.open = FALSE] /\ v2' = FALSE /\ UNCHANGED <<v3, v4, v5>>
    BY <1>1 DEF D!Close
  <2> QED BY <1>g, <1>t, <1>i, <1>k, <1>o, <2>1
<1>2. CASE D!Unmount
  <2>1. /\ v1' = [v1 EXCEPT !.in = FALSE] /\ v2' = FALSE /\ v3' = FALSE
        /\ v4' = [f \in D!Forms |-> D!EmptyForm]
        /\ v5' = [c \in D!Slots |-> [v5[c] EXCEPT !.mine = FALSE]]
    BY <1>2 DEF D!Unmount
  <2>2. v5' \in CallSet /\ \A d \in D!Slots, p \in Ops : ~Of(d, p)'
    BY <1>t, <2>1 DEF CallSet, Of
  <2>3. D!EmptyForm \in FormRec /\ ~D!EmptyForm.busy /\ ~D!EmptyForm.done
    BY <1>f DEF D!EmptyForm
  <2>4. v4' \in FormSet /\ \A f \in D!Forms : v4'[f].busy = FALSE /\ v4'[f].done = FALSE
    BY <2>1, <2>3 DEF FormSet
  <2> QED BY <1>g, <1>t, <1>o, <2>1, <2>2, <2>4
<1>3. ASSUME NEW c \in D!Slots, D!Open(c) \/ D!Tick(c) \/ D!RefreshButton(c) \/ D!Mount(c)
      PROVE  D!IInv'
  <2>1. v1' \in [in : BOOLEAN, open : BOOLEAN] /\ v2' \in BOOLEAN
    BY <1>3, <1>t DEF D!Open, D!Tick, D!RefreshButton, D!Mount
  <2>2. UNCHANGED v4
    BY <1>3 DEF D!Open, D!Tick, D!RefreshButton, D!Mount
  <2>3. CASE D!Start(c, "load") /\ v3' = TRUE
    BY <1>g, <1>t, <1>i, <1>o, <1>s, <2>1, <2>2, <2>3
  <2>4. CASE D!Start(c, "poll") /\ UNCHANGED v3
    BY <1>g, <1>t, <1>i, <1>o, <1>s, <2>1, <2>2, <2>4
  <2>5. CASE UNCHANGED v5 /\ v3' = FALSE
    BY <1>g, <1>t, <1>i, <1>o, <1>k, <2>1, <2>2, <2>5
  <2>6. \/ D!Start(c, "load") /\ v3' = TRUE
        \/ D!Start(c, "poll") /\ UNCHANGED v3
        \/ UNCHANGED v5 /\ v3' = FALSE
    BY <1>3, <1>t DEF D!Open, D!Tick, D!RefreshButton, D!Mount
  <2> QED BY <2>3, <2>4, <2>5, <2>6
<1>4. ASSUME NEW c \in D!Slots, D!StatsCome(c)
      PROVE  D!IInv'
  <2>1. /\ UNCHANGED <<v1, v2, v4>> /\ D!Finish(c)
        /\ v3' = (v3 /\ v5[c].op # "load")
    BY <1>4 DEF D!StatsCome
  <2>2. \A p \in D!Forms : ~Of(c, p)
    BY <1>4, <1>o DEF D!StatsCome, D!Answered, Of
  <2>3. v3' => v3 /\ ~Of(c, "load")
    BY <2>1 DEF Of
  <2>4. v3' \in BOOLEAN
    BY <2>1, <1>t
  <2>5. UNCHANGED <<v1, v2, v4>> /\ D!Finish(c)
    BY <2>1
  <2>6. v3' => \E d \in D!Slots : Of(d, "load")'
    BY <1>i, <1>o, <1>e, <2>3, <2>5
  <2> QED BY <1>g, <1>t, <1>i, <1>o, <1>e, <2>2, <2>4, <2>5, <2>6
<1>5. ASSUME NEW c \in D!Slots, D!Orphaned(c)
      PROVE  D!IInv'
  <2>1. /\ UNCHANGED <<v1, v2, v3, v4>> /\ D!Finish(c)
    BY <1>5 DEF D!Orphaned
  <2>2. \A p \in Ops : ~Of(c, p)
    BY <1>5 DEF D!Orphaned, Of
  <2> QED BY <1>g, <1>t, <1>i, <1>o, <1>e, <2>1, <2>2
<1>6. ASSUME NEW f \in D!Forms, D!TypeText(f) \/ D!ThanksTimer(f)
      PROVE  D!IInv'
  <2>1. UNCHANGED <<v1, v2, v3, v5>>
    BY <1>6 DEF D!TypeText, D!ThanksTimer
  <2>2. v4' \in FormSet
    <3>1. CASE D!TypeText(f)
      BY <1>t, <3>1 DEF D!TypeText, FormSet
    <3>2. CASE D!ThanksTimer(f)
      <4>1. v4' = [v4 EXCEPT ![f] = [v4[f] EXCEPT !.done = FALSE, !.timers = @ - 1]]
            /\ v4[f].timers > 0
        BY <1>t, <3>2 DEF D!ThanksTimer, FormSet
      <4>2. [v4[f] EXCEPT !.done = FALSE, !.timers = @ - 1] \in FormRec
        <5>1. v4[f] \in FormRec /\ v4[f].timers - 1 \in 0..ThanksTimers
          BY <1>t, <1>f, <4>1 DEF FormSet
        <5> QED BY <5>1
      <4> HIDE DEF FormRec
      <4> QED BY <1>t, <4>1, <4>2 DEF FormSet
    <3> QED BY <1>6, <3>1, <3>2
  <2>3. \A g \in D!Forms : v4'[g].busy = v4[g].busy
                           /\ (v4'[g].done => v4[g].done /\ v4'[g].timers = v4[g].timers)
    BY <1>6, <1>t DEF D!TypeText, D!ThanksTimer, FormSet
  <2> QED BY <1>g, <1>t, <1>i, <1>o, <1>k, <2>1, <2>2, <2>3
<1>7. ASSUME NEW c \in D!Slots, NEW f \in D!Forms, D!Submit(c, f)
      PROVE  D!IInv'
  <2>1. /\ UNCHANGED <<v1, v2, v3>> /\ D!Start(c, f) /\ ~v4[f].busy
        /\ v4' = [v4 EXCEPT ![f].busy = TRUE]
    BY <1>7 DEF D!Submit, D!SubmitOffered
  <2>2. v4' \in FormSet
        /\ \A g \in D!Forms : /\ v4'[g].done = v4[g].done /\ v4'[g].timers = v4[g].timers
                              /\ v4'[g].busy = (IF g = f THEN TRUE ELSE v4[g].busy)
    BY <1>t, <2>1 DEF FormSet
  <2>3. UNCHANGED <<v1, v2, v3>> /\ ~\E d \in D!Slots : Of(d, f)
    BY <1>i, <2>1
  <2>4. /\ v5' \in CallSet
        /\ \A d \in D!Slots, p \in Ops : Of(d, p)' <=> (Of(d, p) \/ (d = c /\ p = f))
    BY <1>s, <1>o, <2>1
  <2>5. \A g \in D!Forms : /\ v4'[g].busy <=> \E d \in D!Slots : Of(d, g)'
                           /\ \A d, e \in D!Slots : Of(d, g)' /\ Of(e, g)' => d = e
    BY <1>i, <1>o, <2>2, <2>3, <2>4
  <2> QED BY <1>g, <1>t, <1>i, <1>o, <2>2, <2>3, <2>4, <2>5
<1>8. ASSUME NEW c \in D!Slots, NEW f \in D!Forms, D!Done(c, f)
      PROVE  D!IInv'
  <2>1. /\ UNCHANGED <<v1, v2, v3>> /\ v4[f].timers < ThanksTimers
        /\ v4' = [v4 EXCEPT ![f] = D!Thanked(f)]
        /\ v5' = [v5 EXCEPT ![c] = D!Sent("poll")]
    BY <1>8 DEF D!Done
  <2>2. Of(c, f)
    BY <1>8, <1>f DEF D!Done, D!Answered, Of
  <2>3. D!Sent("poll") \in [op : Ops, at : {"free", "sent"}, mine : BOOLEAN]
    BY <1>o DEF D!Sent
  <2>4. /\ v5' \in CallSet
        /\ \A d \in D!Slots, p \in Ops : Of(d, p)' <=> ((Of(d, p) /\ d # c) \/ (d = c /\ p = "poll"))
    BY <1>t, <2>1, <2>3 DEF CallSet, Of, D!Sent
  <2>5. /\ D!Thanked(f) \in FormRec /\ ~D!Thanked(f).busy /\ D!Thanked(f).timers > 0
    <3>1. v4[f] \in FormRec /\ v4[f].timers + 1 \in 1..ThanksTimers
      BY <1>t, <1>f, <2>1 DEF FormSet
    <3>2. D!Thanked(f) = [v4[f] EXCEPT !.text = FALSE, !.busy = FALSE, !.done = TRUE,
                                       !.timers = v4[f].timers + 1]
      BY DEF D!Thanked
    <3>3. D!Thanked(f) = [text |-> FALSE, busy |-> FALSE, done |-> TRUE, timers |-> v4[f].timers + 1]
      BY <3>1, <3>2
    <3>4. v4[f].timers + 1 \in 0..ThanksTimers /\ v4[f].timers + 1 > 0
      BY <3>1, <1>f
    <3> QED BY <3>3, <3>4
  <2>6. /\ v4' \in FormSet /\ v4'[f].busy = FALSE /\ v4'[f].timers > 0
        /\ \A g \in D!Forms : g # f => v4'[g] = v4[g]
    <3> HIDE DEF FormRec
    <3>1. v4'[f] = D!Thanked(f) /\ v4' \in FormSet /\ \A g \in D!Forms : g # f => v4'[g] = v4[g]
      BY <1>t, <2>1, <2>5 DEF FormSet
    <3> USE DEF FormRec
    <3> QED BY <2>5, <3>1
  <2>7. \A g \in D!Forms : /\ v4'[g].busy <=> \E d \in D!Slots : Of(d, g)'
                           /\ \A d, e \in D!Slots : Of(d, g)' /\ Of(e, g)' => d = e
    <3> SUFFICES ASSUME NEW g \in D!Forms
                 PROVE  /\ v4'[g].busy <=> \E d \in D!Slots : Of(d, g)'
                        /\ \A d, e \in D!Slots : Of(d, g)' /\ Of(e, g)' => d = e
      OBVIOUS
    <3>1. \A d \in D!Slots : Of(d, g)' <=> (Of(d, g) /\ d # c)
      BY <1>o, <2>4
    <3>2. CASE g = f
      BY <1>i, <2>2, <2>6, <3>1, <3>2
    <3>3. CASE g # f
      <4>1. ~Of(c, g) /\ v4'[g] = v4[g]
        BY <2>2, <2>6, <3>3 DEF Of
      <4> QED BY <1>i, <3>1, <4>1
    <3> QED BY <3>2, <3>3
  <2>8. UNCHANGED <<v1, v2, v3>> /\ (v3' => \E d \in D!Slots : Of(d, "load")')
    <3>1. f # "load" /\ UNCHANGED <<v1, v2, v3>> /\ ~Of(c, "load")
      BY <1>o, <2>1, <2>2 DEF Of
    <3> QED BY <1>i, <1>o, <2>4, <3>1
  <2> QED BY <1>g, <1>t, <1>i, <2>4, <2>6, <2>7, <2>8
<1>9. ASSUME NEW c \in D!Slots, NEW f \in D!Forms, D!Failed(c, f)
      PROVE  D!IInv'
  <2>1. /\ UNCHANGED <<v1, v2, v3>> /\ D!Finish(c)
        /\ v4' = [v4 EXCEPT ![f].busy = FALSE]
    BY <1>9 DEF D!Failed
  <2>2. Of(c, f) /\ ~Of(c, "load") /\ \A g \in D!Forms : g # f => ~Of(c, g)
    BY <1>9, <1>f DEF D!Failed, D!Answered, Of
  <2>3. v4' \in FormSet
        /\ \A g \in D!Forms : /\ v4'[g].done = v4[g].done /\ v4'[g].timers = v4[g].timers
                              /\ v4'[g].busy = (IF g = f THEN FALSE ELSE v4[g].busy)
    BY <1>t, <2>1 DEF FormSet
  <2>4. UNCHANGED <<v1, v2, v3>> /\ D!Finish(c)
    BY <2>1
  <2>5. \A g \in D!Forms : /\ v4'[g].busy <=> \E d \in D!Slots : Of(d, g)'
                           /\ \A d, e \in D!Slots : Of(d, g)' /\ Of(e, g)' => d = e
    <3> SUFFICES ASSUME NEW g \in D!Forms
                 PROVE  /\ v4'[g].busy <=> \E d \in D!Slots : Of(d, g)'
                        /\ \A d, e \in D!Slots : Of(d, g)' /\ Of(e, g)' => d = e
      OBVIOUS
    <3>1. \A d \in D!Slots : Of(d, g)' <=> (Of(d, g) /\ d # c)
      BY <1>o, <1>e, <2>4
    <3>2. CASE g = f
      BY <1>i, <2>2, <2>3, <3>1, <3>2
    <3>3. CASE g # f
      <4>1. ~Of(c, g) /\ v4'[g].busy = v4[g].busy
        BY <2>2, <2>3, <3>3
      <4> QED BY <1>i, <3>1, <4>1
    <3> QED BY <3>2, <3>3
  <2>6. v3' => \E d \in D!Slots : Of(d, "load")'
    BY <1>i, <1>o, <1>e, <2>2, <2>4
  <2> QED BY <1>g, <1>t, <1>i, <1>e, <2>3, <2>4, <2>5, <2>6
<1>10. CASE UNCHANGED D!vars
  BY <1>10, <1>g, <1>t, <1>i, <1>k, <1>o DEF D!vars
<1> QED BY <1>1, <1>2, <1>3, <1>4, <1>5, <1>6, <1>7, <1>8, <1>9, <1>10 DEF D!Next

\* Profile (the profile page): v1 stored, v2 made, v3 shown, v4 draft, v5 editing, v6 busy,
\* v7 call.  The invariant adds that the posts of a publication exist and that its last
\* load has them.
LEMMA ProfileStep ==
  ASSUME P!IInv, [P!Next]_(P!vars)
  PROVE  P!IInv'
<1> DEFINE Ops == {"none", "mount", "avatar", "save", "delete", "image", "post"}
           CallRec == [op : Ops, step : {"none", "load", "upload", "update", "create", "delete"},
                       at : {"free", "sent", "ok", "failed"}, post : SUBSET Posts, got : SUBSET Posts]
           CallSet == [P!Slots -> CallRec]
           Drafts == [some : BOOLEAN, kind : {"text", "image", "bilibili"}, bv : BOOLEAN]
           Flags == {"loading", "saving", "publishing"}
           Flag(o) == IF o = "save" THEN {"saving"} ELSE IF o = "post" THEN {"publishing"} ELSE {}
           Kept(c) == v7[c].op = "post" =>
                        /\ v7[c].post \subseteq v2
                        /\ v7[c].step = "load" /\ v7[c].at = "ok" => v7[c].post \cap v1 \subseteq v7[c].got
           \* only the call c has changed
           Only(c) == v7' \in CallSet /\ \A d \in P!Slots : d # c => v7'[d] = v7[d]
<1>t. /\ v1 \subseteq v2 /\ v2 \subseteq Posts /\ v3 \subseteq Posts /\ v4 \in Drafts /\ v5 \in BOOLEAN
      /\ v6 \subseteq Flags /\ v7 \in CallSet
  BY DEF P!IInv, P!TypeOK
<1>i. /\ "loading" \in v6 => \E c \in P!Slots : v7[c].step = "load"
      /\ "saving" \in v6 <=> \E c \in P!Slots : v7[c].op = "save"
      /\ "publishing" \in v6 <=> \E c \in P!Slots : v7[c].op = "post"
      /\ \A c, d \in P!Slots : v7[c].op \in {"save", "post"} /\ v7[c].op = v7[d].op => c = d
      /\ \A c \in P!Slots : Kept(c)
  BY DEF P!IInv
<1>g. ASSUME v1' \subseteq v2', v2' \subseteq Posts, v3' \subseteq Posts, v4' \in Drafts, v5' \in BOOLEAN,
             v6' \subseteq Flags, v7' \in CallSet,
             "loading" \in v6' => \E c \in P!Slots : v7'[c].step = "load",
             "saving" \in v6' <=> \E c \in P!Slots : v7'[c].op = "save",
             "publishing" \in v6' <=> \E c \in P!Slots : v7'[c].op = "post",
             \A c, d \in P!Slots : v7'[c].op \in {"save", "post"} /\ v7'[c].op = v7'[d].op => c = d,
             \A c \in P!Slots : Kept(c)'
      PROVE  P!IInv'
  BY <1>g DEF P!IInv, P!TypeOK
\* what the other calls know of the posts lasts: made grows, and only a new post is stored
<1>w. ASSUME NEW c \in P!Slots, Only(c), v2 \subseteq v2', \A x \in v1' : x \in v1 \/ x \notin v2, Kept(c)'
      PROVE  \A d \in P!Slots : Kept(d)'
  <2> SUFFICES ASSUME NEW d \in P!Slots, d # c
               PROVE  Kept(d)'
    BY <1>w
  <2>1. v7'[d] = v7[d] /\ Kept(d)
    BY <1>w, <1>i
  <2> HIDE DEF CallSet
  <2> QED BY <1>w, <2>1
<1> HIDE DEF CallSet, Drafts
\* a handler goes on
<1>a. ASSUME NEW c \in P!Slots, Only(c), v7'[c].op = v7[c].op,
             v6' = v6 \/ (v6' = v6 \cup {"loading"} /\ v7'[c].step = "load"),
             v7[c].step = "load" => v7'[c].step = "load",
             v1' \subseteq v2', v2' \subseteq Posts, v2 \subseteq v2', \A x \in v1' : x \in v1 \/ x \notin v2,
             Kept(c)', v3' \subseteq Posts, v4' \in Drafts, v5' \in BOOLEAN
      PROVE  P!IInv'
  <2>1. \A d \in P!Slots : Kept(d)'
    BY <1>a, <1>w
  <2> HIDE DEF Kept
  <2>2. \A d \in P!Slots : v7'[d].op = v7[d].op
    BY <1>a
  <2>3. "loading" \in v6' => \E d \in P!Slots : v7'[d].step = "load"
    BY <1>a, <1>i
  <2>4. v6' \subseteq Flags /\ ("saving" \in v6' <=> "saving" \in v6)
        /\ ("publishing" \in v6' <=> "publishing" \in v6)
    BY <1>a, <1>t
  <2> HIDE DEF Flags
  <2> QED BY <1>a, <1>g, <1>i, <2>1, <2>2, <2>3, <2>4
\* a handler begins
<1>b. ASSUME NEW c \in P!Slots, NEW o \in Ops, Only(c), v7[c].op = "none", v7[c].step # "load", v7'[c].op = o,
             v6' = v6 \cup Flag(o), Flag(o) \cap v6 = {},
             v7'[c].step # "load", v7'[c].post = {} \/ o # "post", UNCHANGED <<v1, v2, v3, v4, v5>>
      PROVE  P!IInv'
  <2>0. Kept(c)'
    BY <1>b
  <2>1. \A d \in P!Slots : Kept(d)'
    BY <1>b, <1>w, <2>0
  <2> HIDE DEF Kept
  <2>3. "loading" \in v6' => \E d \in P!Slots : v7'[d].step = "load"
    BY <1>b, <1>i
  <2>4. "saving" \in v6' <=> \E d \in P!Slots : v7'[d].op = "save"
    BY <1>b, <1>i
  <2>5. "publishing" \in v6' <=> \E d \in P!Slots : v7'[d].op = "post"
    BY <1>b, <1>i
  <2>6. ASSUME NEW d \in P!Slots, NEW e \in P!Slots, v7'[d].op \in {"save", "post"}, v7'[d].op = v7'[e].op
        PROVE  d = e
    <3>1. o \in {"save", "post"} => \A x \in P!Slots : v7[x].op # o
      BY <1>b, <1>i
    <3> QED BY <1>b, <1>i, <2>6, <3>1
  <2>7. v6' \subseteq Flags
    BY <1>b, <1>t
  <2> QED BY <1>b, <1>g, <1>t, <2>1, <2>3, <2>4, <2>5, <2>6, <2>7
\* a handler ends
<1>c. ASSUME NEW c \in P!Slots, Only(c), v7'[c].op = "none",
             \/ v6' = (v6 \ Flag(v7[c].op)) \ {"loading"}
             \/ v6' = v6 \ Flag(v7[c].op) /\ v7[c].step # "load",
             v3' \subseteq Posts, v4' \in Drafts, UNCHANGED <<v1, v2, v5>>
      PROVE  P!IInv'
  <2>1. \A d \in P!Slots : Kept(d)'
    <3>1. Kept(c)'
      BY <1>c
    <3> QED BY <1>c, <1>w, <3>1
  <2> HIDE DEF Kept
  <2>3. "loading" \in v6' => \E d \in P!Slots : v7'[d].step = "load"
    BY <1>c, <1>i
  <2>4. "saving" \in v6' <=> \E d \in P!Slots : v7'[d].op = "save"
    BY <1>c, <1>i
  <2>5. "publishing" \in v6' <=> \E d \in P!Slots : v7'[d].op = "post"
    BY <1>c, <1>i
  <2>6. \A d, e \in P!Slots : v7'[d].op \in {"save", "post"} /\ v7'[d].op = v7'[e].op => d = e
    BY <1>c, <1>i
  <2>7. v6' \subseteq Flags
    BY <1>c, <1>t
  <2> QED BY <1>c, <1>g, <1>t, <2>1, <2>3, <2>4, <2>5, <2>6, <2>7
\* the steps of a call
<1>s. ASSUME NEW c \in P!Slots, NEW o \in Ops, NEW s \in {"upload", "update", "create"}, P!Go(c, o, s)
      PROVE  /\ Only(c) /\ v7'[c].op = o /\ v7'[c].step = s /\ v7'[c].post = {} /\ v7'[c].at = "sent"
  <2> DEFINE r == [P!Free EXCEPT !.op = o, !.step = s, !.at = "sent"]
  <2>1. r \in CallRec /\ r.op = o /\ r.step = s /\ r.post = {} /\ r.at = "sent"
    BY DEF P!Free
  <2>2. v7' = [v7 EXCEPT ![c] = r]
    BY <1>s DEF P!Go
  <2> HIDE DEF CallRec, r
  <2> QED BY <1>t, <2>1, <2>2 DEF CallSet
<1>e. ASSUME NEW c \in P!Slots, P!Finish(c)
      PROVE  Only(c) /\ v7'[c].op = "none"
  <2>1. P!Free \in CallRec /\ P!Free.op = "none"
    BY DEF P!Free
  <2> HIDE DEF CallRec
  <2> QED BY <1>e, <1>t, <2>1 DEF CallSet, P!Finish
<1>l. ASSUME NEW c \in P!Slots, P!Load(c)
      PROVE  /\ Only(c) /\ v7'[c].op = v7[c].op /\ v7'[c].step = "load" /\ v7'[c].at = "sent"
             /\ v7'[c].post = v7[c].post /\ v6' = v6 \cup {"loading"}
  BY <1>l, <1>t DEF CallSet, P!Load
<1>f. ASSUME NEW c \in P!Slots, P!Idle(c)
      PROVE  v7[c].op = "none" /\ v7[c].step # "load"
  BY <1>f DEF P!Idle, P!Free
<1>1. ASSUME NEW c \in P!Slots, P!Serve(c)
      PROVE  P!IInv'
  <2>1. UNCHANGED <<v3, v4, v5, v6>>
    BY <1>1 DEF P!Serve, P!page
  <2>2. CASE /\ v7[c].step = "load" /\ v7' = [v7 EXCEPT ![c].at = "ok", ![c].got = v1]
             /\ UNCHANGED <<v1, v2>>
    <3>1. Only(c) /\ v7'[c].op = v7[c].op /\ v7'[c].post = v7[c].post /\ v7'[c].got = v1
          /\ v7'[c].step = v7[c].step
      BY <1>t, <2>2 DEF CallSet
    <3>2. Kept(c)'
      BY <1>i, <2>2, <3>1
    <3> QED BY <1>a, <1>t, <2>1, <2>2, <3>1, <3>2
  <2>3. CASE /\ v7[c].step \in {"upload", "update"} /\ v7' = [v7 EXCEPT ![c].at = "ok"]
             /\ UNCHANGED <<v1, v2>>
    <3>1. Only(c) /\ v7'[c].op = v7[c].op /\ v7'[c].post = v7[c].post /\ v7'[c].step = v7[c].step
      BY <1>t, <2>3 DEF CallSet
    <3>2. Kept(c)'
      BY <1>i, <2>3, <3>1
    <3> QED BY <1>a, <1>t, <2>1, <2>3, <3>1, <3>2
  <2>4. CASE /\ v7[c].step = "create" /\ v2 # Posts
             /\ \E p \in Posts \ v2 : /\ v1' = v1 \cup {p} /\ v2' = v2 \cup {p}
                                      /\ v7' = [v7 EXCEPT ![c].at = "ok", ![c].post = {p}]
    <3>1. PICK p \in Posts \ v2 : /\ v1' = v1 \cup {p} /\ v2' = v2 \cup {p}
                                  /\ v7' = [v7 EXCEPT ![c].at = "ok", ![c].post = {p}]
      BY <2>4
    <3>2. Only(c) /\ v7'[c].op = v7[c].op /\ v7'[c].post = {p} /\ v7'[c].step = "create"
      <4>1. v7[c] \in CallRec /\ v7 \in [P!Slots -> CallRec]
        BY <1>t DEF CallSet
      <4>2. {p} \in SUBSET Posts
        BY <3>1
      <4>3. v7' = [v7 EXCEPT ![c] = [v7[c] EXCEPT !.at = "ok", !.post = {p}]]
        BY <3>1, <4>1
      <4>4. /\ [v7[c] EXCEPT !.at = "ok", !.post = {p}] \in CallRec
            /\ [v7[c] EXCEPT !.at = "ok", !.post = {p}].op = v7[c].op
            /\ [v7[c] EXCEPT !.at = "ok", !.post = {p}].step = v7[c].step
            /\ [v7[c] EXCEPT !.at = "ok", !.post = {p}].post = {p}
        BY <4>1, <4>2
      <4> HIDE DEF CallRec
      <4> QED BY <2>4, <4>1, <4>3, <4>4 DEF CallSet
    <3>3. Kept(c)'
      BY <3>1, <3>2
    <3> QED BY <1>a, <1>t, <2>1, <2>4, <3>1, <3>2, <3>3
  <2>5. CASE /\ v7[c].step = "delete" /\ v1' = v1 \ v7[c].post /\ v7' = [v7 EXCEPT ![c].at = "ok"]
             /\ UNCHANGED v2
    <3>1. Only(c) /\ v7'[c].op = v7[c].op /\ v7'[c].post = v7[c].post /\ v7'[c].step = v7[c].step
      BY <1>t, <2>5 DEF CallSet
    <3>2. Kept(c)'
      BY <1>i, <2>5, <3>1
    <3> QED BY <1>a, <1>t, <2>1, <2>5, <3>1, <3>2
  <2> QED BY <1>1, <2>2, <2>3, <2>4, <2>5 DEF P!Serve, P!server
<1>2. ASSUME NEW c \in P!Slots, P!CallFails(c)
      PROVE  P!IInv'
  <2>1. UNCHANGED <<v1, v2, v3, v4, v5, v6>> /\ v7' = [v7 EXCEPT ![c].at = "failed"]
    BY <1>2 DEF P!CallFails, P!server, P!page
  <2>2. Only(c) /\ v7'[c].op = v7[c].op /\ v7'[c].post = v7[c].post /\ v7'[c].step = v7[c].step
        /\ v7'[c].at = "failed"
    BY <1>t, <2>1 DEF CallSet
  <2>3. Kept(c)'
    BY <1>i, <2>1, <2>2
  <2> QED BY <1>a, <1>t, <2>1, <2>2, <2>3
<1>3. ASSUME NEW c \in P!Slots, P!LoadEnds(c)
      PROVE  P!IInv'
  <2>1. /\ UNCHANGED <<v1, v2, v4, v5>> /\ v3' \subseteq Posts /\ P!Finish(c)
    BY <1>3, <1>t DEF P!LoadEnds, P!server, CallSet
  <2>2. v6' = (v6 \ Flag(v7[c].op)) \ {"loading"}
    BY <1>3 DEF P!LoadEnds, P!Leaves
  <2> QED BY <1>c, <1>e, <1>t, <2>1, <2>2
<1>4. ASSUME NEW c \in P!Slots, P!HandlerFails(c)
      PROVE  P!IInv'
  <2>1. /\ UNCHANGED <<v1, v2, v3, v4, v5>> /\ P!Finish(c) /\ v7[c].step # "load"
    BY <1>4, <1>t DEF P!HandlerFails, P!server
  <2>2. v6' = v6 \ Flag(v7[c].op)
    BY <1>4 DEF P!HandlerFails, P!Leaves
  <2> QED BY <1>c, <1>e, <1>t, <2>1, <2>2
<1>5. ASSUME NEW c \in P!Slots, P!PickAvatar(c) \/ P!PickImage(c)
      PROVE  P!IInv'
  <2>1. UNCHANGED <<v1, v2, v3, v4, v5, v6>> /\ P!Idle(c)
        /\ \E o \in {"avatar", "image"} : P!Go(c, o, "upload")
    BY <1>5 DEF P!PickAvatar, P!PickImage, P!server, P!page
  <2> QED BY <1>b, <1>s, <1>f, <2>1
<1>6. ASSUME NEW c \in P!Slots, P!AvatarUploaded(c)
      PROVE  P!IInv'
  <2>1. UNCHANGED <<v1, v2, v3, v4, v5, v6>> /\ P!Go(c, "avatar", "update")
        /\ v7[c].op = "avatar" /\ v7[c].step = "upload"
    BY <1>6 DEF P!AvatarUploaded, P!Came, P!server, P!page
  <2>2. Only(c) /\ v7'[c].op = "avatar"
    BY <1>s, <2>1
  <2> QED BY <1>a, <1>t, <2>1, <2>2
<1>7. ASSUME NEW c \in P!Slots,
             P!AvatarSet(c) \/ P!Saved(c) \/ P!PostDeleted(c) \/ P!Published(c)
      PROVE  P!IInv'
  <2>1. P!Load(c) /\ UNCHANGED <<v1, v2, v3>>
    BY <1>7 DEF P!AvatarSet, P!Saved, P!PostDeleted, P!Published, P!server
  <2>2. v4' \in Drafts
    <3>1. P!Blank \in Drafts
      BY DEF P!Blank, Drafts
    <3>2. v4' = v4 \/ v4' = P!Blank
      BY <1>7 DEF P!AvatarSet, P!Saved, P!PostDeleted, P!Published
    <3> QED BY <1>t, <3>1, <3>2
  <2>3. v5' \in BOOLEAN
    BY <1>7, <1>t DEF P!AvatarSet, P!Saved, P!PostDeleted, P!Published
  <2>4. Kept(c)'
    BY <1>i, <1>l, <2>1
  <2> QED BY <1>a, <1>l, <1>t, <2>1, <2>2, <2>3, <2>4
<1>8. CASE P!ToggleEdit \/ P!TypePost \/ P!PickKind \/ P!TypeBv
  <2>1. UNCHANGED <<v1, v2, v3, v6, v7>>
    BY <1>8 DEF P!ToggleEdit, P!TypePost, P!PickKind, P!TypeBv, P!server
  <2>2. v5' \in BOOLEAN
    BY <1>8, <1>t DEF P!ToggleEdit, P!TypePost, P!PickKind, P!TypeBv
  <2>3. v4' \in Drafts
    BY <1>8, <1>t DEF P!ToggleEdit, P!TypePost, P!PickKind, P!TypeBv, Drafts
  <2> QED BY <1>g, <1>i, <1>t, <2>1, <2>2, <2>3
<1>9. ASSUME NEW c \in P!Slots, P!Save(c)
      PROVE  P!IInv'
  <2>1. /\ UNCHANGED <<v1, v2, v3, v4, v5>> /\ P!Idle(c) /\ P!Go(c, "save", "update")
        /\ "saving" \notin v6 /\ v6' = v6 \cup {"saving"}
    BY <1>9 DEF P!Save, P!SaveOffered, P!server
  <2> QED BY <1>b, <1>s, <1>f, <2>1
<1>10. ASSUME NEW c \in P!Slots, P!DeletePost(c)
       PROVE  P!IInv'
  <2>1. PICK p \in Posts :
          /\ P!Idle(c) /\ UNCHANGED <<v1, v2, v3, v4, v5, v6>>
          /\ v7' = [v7 EXCEPT ![c] = [P!Free EXCEPT !.op = "delete", !.step = "delete", !.at = "sent", !.post = {p}]]
    BY <1>10 DEF P!DeletePost, P!server, P!page
  <2> DEFINE r == [P!Free EXCEPT !.op = "delete", !.step = "delete", !.at = "sent", !.post = {p}]
  <2>2. r \in CallRec /\ r.op = "delete" /\ r.step = "delete"
    BY DEF P!Free
  <2>5. Only(c) /\ v7'[c].op = "delete" /\ v7'[c].step = "delete"
    <3> HIDE DEF CallRec, r
    <3>1. v7' = [v7 EXCEPT ![c] = r]
      BY <2>1 DEF r
    <3> QED BY <1>t, <2>2, <3>1 DEF CallSet
  <2> QED BY <1>b, <1>f, <2>1, <2>5
<1>11. ASSUME NEW c \in P!Slots, P!ImageUploaded(c)
       PROVE  P!IInv'
  <2>1. UNCHANGED <<v1, v2, v3, v5, v6>> /\ P!Finish(c) /\ v7[c].op = "image" /\ v7[c].step = "upload"
        /\ v4' = [v4 EXCEPT !.some = TRUE]
    BY <1>11 DEF P!ImageUploaded, P!Came, P!server
  <2>2. v4' \in Drafts
    BY <1>t, <2>1 DEF Drafts
  <2> QED BY <1>c, <1>e, <1>t, <2>1, <2>2
<1>12. ASSUME NEW c \in P!Slots, P!Publish(c)
       PROVE  P!IInv'
  <2>1. /\ UNCHANGED <<v1, v2, v3, v4, v5>> /\ P!Idle(c) /\ P!Go(c, "post", "create")
        /\ "publishing" \notin v6 /\ v6' = v6 \cup {"publishing"}
    BY <1>12 DEF P!Publish, P!PublishOffered, P!server
  <2> QED BY <1>b, <1>s, <1>f, <2>1
<1>13. CASE UNCHANGED P!vars
  <2>1. UNCHANGED <<v1, v2, v3, v4, v5, v6, v7>>
    BY <1>13 DEF P!vars
  <2> QED BY <1>g, <1>i, <1>t, <2>1
<1> QED BY <1>1, <1>2, <1>3, <1>4, <1>5, <1>6, <1>7, <1>8, <1>9, <1>10, <1>11, <1>12, <1>13 DEF P!Next

\* Tidal (the mobile feed): v1 made, v2 friend, v3 view, v4 form, v5 call.  The invariant
\* adds that the load which ends a publication holds its post.
LEMMA TidalStep ==
  ASSUME T!IInv, [T!Next]_(T!vars)
  PROVE  T!IInv'
<1> DEFINE All == Posts \cup {Theirs}
           ViewSet == [in : BOOLEAN, posts : SUBSET All, loading : BOOLEAN, refreshing : BOOLEAN]
           FormSet == [app : BOOLEAN, some : BOOLEAN, uploading : BOOLEAN, publishing : BOOLEAN]
           CallRec == [op : {"none", "feed", "image", "post"},
                       step : {"none", "mine", "theirs", "upload", "create"},
                       at : {"free", "sent", "back", "failed"}, live : BOOLEAN, with : BOOLEAN,
                       got : SUBSET All, post : SUBSET Posts]
           CallSet == [T!Slots -> CallRec]
           Live(c, o) == v5[c].live /\ v5[c].op = o
           Loads(c) == v5[c].live /\ v5[c].op \in {"feed", "post"} /\ v5[c].step \in {"mine", "theirs"}
           Spins == v3.loading \/ v3.refreshing
           Kept(c) == /\ v5[c].op = "image" => v5[c].step = "upload"
                      /\ v5[c].op = "post" => v5[c].step \in {"create", "mine", "theirs"}
                      /\ v5[c].op = "post" => v5[c].post \subseteq v1
                      /\ v5[c].op = "post" /\ (v5[c].step = "theirs" \/ (v5[c].step = "mine" /\ v5[c].at = "back"))
                           => v5[c].post \subseteq v5[c].got
           Only(c) == v5' \in CallSet /\ \A d \in T!Slots : d # c => v5'[d] = v5[d]
<1>t. v1 \subseteq All /\ v2 \in BOOLEAN /\ v3 \in ViewSet /\ v4 \in FormSet /\ v5 \in CallSet
  BY DEF T!IInv, T!TypeOK
<1>i. /\ Spins => \E c \in T!Slots : Loads(c)
      /\ v4.publishing <=> \E c \in T!Slots : Live(c, "post")
      /\ v4.uploading <=> \E c \in T!Slots : Live(c, "image")
      /\ \A c, d \in T!Slots : \A o \in {"post", "image"} : Live(c, o) /\ Live(d, o) => c = d
      /\ \A c \in T!Slots : Kept(c)
  BY DEF T!IInv, T!Came
<1>g. ASSUME v1' \subseteq All, v2' \in BOOLEAN, v3' \in ViewSet, v4' \in FormSet, v5' \in CallSet,
             Spins' => \E c \in T!Slots : Loads(c)',
             v4'.publishing <=> \E c \in T!Slots : Live(c, "post")',
             v4'.uploading <=> \E c \in T!Slots : Live(c, "image")',
             \A c, d \in T!Slots : \A o \in {"post", "image"} : Live(c, o)' /\ Live(d, o)' => c = d,
             \A c \in T!Slots : Kept(c)'
      PROVE  T!IInv'
  BY <1>g DEF T!IInv, T!TypeOK, T!Came
<1>w. ASSUME NEW c \in T!Slots, Only(c), v1 \subseteq v1', Kept(c)'
      PROVE  \A d \in T!Slots : Kept(d)'
  <2> SUFFICES ASSUME NEW d \in T!Slots, d # c
               PROVE  Kept(d)'
    BY <1>w
  <2>1. v5'[d] = v5[d] /\ Kept(d)
    BY <1>w, <1>i
  <2> HIDE DEF CallSet
  <2> QED BY <1>w, <2>1
<1>x. ASSUME NEW c \in T!Slots, Only(c)
      PROVE  \A d \in T!Slots : d # c => /\ Loads(d)' <=> Loads(d)
                                         /\ \A o \in {"post", "image"} : Live(d, o)' <=> Live(d, o)
  BY <1>x
<1> HIDE DEF CallSet, ViewSet, FormSet, Kept
\* a handler goes on
<1>a. ASSUME NEW c \in T!Slots, Only(c), \A o \in {"post", "image"} : Live(c, o)' <=> Live(c, o),
             Spins' => Loads(c)' \/ (Spins /\ ~Loads(c)),
             v1 \subseteq v1', v1' \subseteq All, v2' \in BOOLEAN, v3' \in ViewSet, v4' \in FormSet, Kept(c)',
             v4'.publishing = v4.publishing, v4'.uploading = v4.uploading
      PROVE  T!IInv'
  <2>1. \A d \in T!Slots : Kept(d)'
    BY <1>a, <1>w
  <2>2. v5' \in CallSet /\ \A d \in T!Slots : d # c => (Loads(d)' <=> Loads(d))
    BY <1>a, <1>x
  <2>3. \A d \in T!Slots : \A o \in {"post", "image"} : Live(d, o)' <=> Live(d, o)
    BY <1>a, <1>x
  <2> HIDE DEF Live, Loads, Spins
  <2>4. Spins' => \E d \in T!Slots : Loads(d)'
    BY <1>a, <1>i, <2>2
  <2> QED BY <1>a, <1>g, <1>i, <2>1, <2>2, <2>3, <2>4
\* a handler begins
<1>b. ASSUME NEW c \in T!Slots, Only(c), v5[c].live = FALSE, v5'[c].live = TRUE,
             NEW o \in {"feed", "image", "post"}, v5'[c].op = o,
             v5'[c].step = (IF o = "feed" THEN "mine" ELSE IF o = "image" THEN "upload" ELSE "create"),
             v5'[c].post = {},
             Spins' => o = "feed" \/ Spins, UNCHANGED v1, v2' \in BOOLEAN, v3' \in ViewSet, v4' \in FormSet,
             v4'.publishing = (IF o = "post" THEN TRUE ELSE v4.publishing), o = "post" => ~v4.publishing,
             v4'.uploading = (IF o = "image" THEN TRUE ELSE v4.uploading), o = "image" => ~v4.uploading
      PROVE  T!IInv'
  <2>1. Kept(c)'
    BY <1>b DEF Kept
  <2>2. \A d \in T!Slots : Kept(d)'
    BY <1>b, <1>w, <2>1
  <2>3. v5' \in CallSet /\ \A d \in T!Slots : d # c => (Loads(d)' <=> Loads(d))
    BY <1>b, <1>x
  <2>4. \A d \in T!Slots : d # c => \A p \in {"post", "image"} : Live(d, p)' <=> Live(d, p)
    BY <1>b, <1>x
  <2>5. /\ ~Loads(c) /\ (o = "feed" => Loads(c)')
        /\ \A p \in {"post", "image"} : ~Live(c, p) /\ (Live(c, p)' <=> p = o)
    BY <1>b
  <2>6. v1' \subseteq All
    BY <1>b, <1>t
  <2> HIDE DEF Live, Loads, Spins, All
  <2>7. Spins' => \E d \in T!Slots : Loads(d)'
    BY <1>b, <1>i, <2>3, <2>5
  <2>8. v4'.publishing <=> \E d \in T!Slots : Live(d, "post")'
    BY <1>b, <1>i, <2>4, <2>5
  <2>9. v4'.uploading <=> \E d \in T!Slots : Live(d, "image")'
    BY <1>b, <1>i, <2>4, <2>5
  <2>10. ASSUME NEW d \in T!Slots, NEW e \in T!Slots, NEW p \in {"post", "image"}, Live(d, p)', Live(e, p)'
         PROVE  d = e
    <3>1. CASE p = o
      <4>1. \A x \in T!Slots : ~Live(x, p)
        BY <1>b, <1>i, <3>1
      <4> QED BY <2>4, <2>5, <2>10, <4>1
    <3>2. CASE p # o
      BY <1>i, <2>4, <2>5, <2>10, <3>2
    <3> QED BY <3>1, <3>2
  <2> QED BY <1>b, <1>g, <2>2, <2>3, <2>6, <2>7, <2>8, <2>9, <2>10
\* a handler ends
<1>c. ASSUME NEW c \in T!Slots, T!Finish(c), Spins' => Spins /\ ~Loads(c), UNCHANGED <<v1, v2>>,
             v3' \in ViewSet, v4' \in FormSet,
             v4'.publishing <=> (v4.publishing /\ ~Live(c, "post")),
             v4'.uploading <=> (v4.uploading /\ ~Live(c, "image"))
      PROVE  T!IInv'
  <2>1. T!Free \in CallRec /\ T!Free.live = FALSE /\ T!Free.op = "none"
    BY DEF T!Free
  <2>2. Only(c) /\ v5'[c].live = FALSE /\ v5'[c].op = "none"
    <3> HIDE DEF CallRec
    <3> QED BY <1>c, <1>t, <2>1 DEF CallSet, T!Finish
  <2>3. v5' \in CallSet /\ \A d \in T!Slots : d # c => (Loads(d)' <=> Loads(d))
    BY <1>x, <2>2
  <2>4. \A d \in T!Slots : d # c => \A p \in {"post", "image"} : Live(d, p)' <=> Live(d, p)
    BY <1>x, <2>2
  <2>5. \A p \in {"post", "image"} : ~Live(c, p)'
    BY <2>2
  <2>6. \A d \in T!Slots : Kept(d)'
    <3>1. Kept(c)'
      BY <2>2 DEF Kept
    <3> QED BY <1>c, <1>w, <2>2, <3>1
  <2> HIDE DEF Live, Loads, Spins, All, Only
  <2>7. Spins' => \E d \in T!Slots : Loads(d)'
    BY <1>c, <1>i, <2>3
  <2>8. v4'.publishing <=> \E d \in T!Slots : Live(d, "post")'
    BY <1>c, <1>i, <2>4, <2>5
  <2>9. v4'.uploading <=> \E d \in T!Slots : Live(d, "image")'
    BY <1>c, <1>i, <2>4, <2>5
  <2>10. \A d, e \in T!Slots : \A p \in {"post", "image"} : Live(d, p)' /\ Live(e, p)' => d = e
    BY <1>i, <2>4, <2>5
  <2> QED BY <1>c, <1>g, <1>t, <2>3, <2>6, <2>7, <2>8, <2>9, <2>10
\* the first step of a call, for a user who has friends or has none
<1>s. ASSUME NEW c \in T!Slots, NEW r \in CallRec, T!Idle(c), v5' = [v5 EXCEPT ![c] = r], r.live = TRUE
      PROVE  Only(c) /\ v5[c].live = FALSE /\ v5'[c] = r
  <2>2. v5[c].live = FALSE
    BY <1>s DEF T!Idle, T!Free
  <2> HIDE DEF CallRec
  <2> QED BY <1>s, <1>t, <2>2 DEF CallSet
<1>n. ASSUME NEW o \in {"feed", "image", "post"}, NEW s \in {"mine", "upload", "create"}
      PROVE  /\ T!Began(o, s) \in CallRec /\ T!Began(o, s).op = o /\ T!Began(o, s).step = s
             /\ T!Began(o, s).live = TRUE /\ T!Began(o, s).post = {}
  <2>1. v2 \in BOOLEAN
    BY <1>t
  <2> QED BY <2>1 DEF T!Began, T!Free
<1>1. ASSUME NEW c \in T!Slots, T!Mount(c) \/ T!Refresh(c)
      PROVE  T!IInv'
  <2>1. T!Idle(c) /\ v5' = [v5 EXCEPT ![c] = T!Began("feed", "mine")] /\ UNCHANGED <<v1, v2, v4>>
    BY <1>1 DEF T!Mount, T!Refresh
  <2>2. v3' \in ViewSet
    BY <1>1, <1>t DEF T!Mount, T!Refresh, T!Unmounted, ViewSet
  <2> DEFINE r == T!Began("feed", "mine")
  <2>3. r \in CallRec /\ r.live = TRUE /\ r.op = "feed" /\ r.step = "mine" /\ r.post = {}
    BY <1>n
  <2>4. T!Idle(c) /\ v5' = [v5 EXCEPT ![c] = r] /\ UNCHANGED <<v1, v2, v4>>
    BY <2>1
  <2> HIDE DEF r, CallRec
  <2>5. Only(c) /\ v5[c].live = FALSE /\ v5'[c] = r
    BY <1>s, <2>3, <2>4
  <2> QED BY <1>b, <1>t, <2>2, <2>3, <2>4, <2>5
<1>2. ASSUME NEW c \in T!Slots, T!FriendsChange(c)
      PROVE  T!IInv'
  <2>1. UNCHANGED <<v1, v4>> /\ v2' = ~v2 /\ v2' \in BOOLEAN
    BY <1>2, <1>t DEF T!FriendsChange
  <2>2. CASE /\ T!Idle(c) /\ v5' = [v5 EXCEPT ![c] = [T!Began("feed", "mine") EXCEPT !.with = v2']]
             /\ v3' = [v3 EXCEPT !.loading = TRUE]
    <3> DEFINE r == [T!Began("feed", "mine") EXCEPT !.with = v2']
    <3>1. r \in CallRec /\ r.live = TRUE /\ r.op = "feed" /\ r.step = "mine" /\ r.post = {}
      <4> DEFINE b == T!Began("feed", "mine")
      <4>1. b \in CallRec /\ b.op = "feed" /\ b.step = "mine" /\ b.live = TRUE /\ b.post = {}
        BY <1>n
      <4>2. r = [b EXCEPT !.with = v2']
        OBVIOUS
      <4> HIDE DEF b, r
      <4>3. v2' \in BOOLEAN
        BY <2>1
      <4> QED BY <4>1, <4>2, <4>3
    <3>2. v3' \in ViewSet
      BY <1>t, <2>2 DEF ViewSet
    <3>3. T!Idle(c) /\ v5' = [v5 EXCEPT ![c] = r]
      BY <2>2
    <3> HIDE DEF r, CallRec
    <3> QED BY <1>b, <1>s, <1>t, <2>1, <3>1, <3>2, <3>3
  <2>3. CASE UNCHANGED <<v5, v3>>
    BY <1>g, <1>i, <1>t, <2>1, <2>3 DEF Kept
  <2> QED BY <1>2, <2>2, <2>3 DEF T!FriendsChange
<1>3. CASE T!Unmount
  <2>1. v3' = T!Unmounted /\ v4' = T!EmptyForm(v4.app) /\ UNCHANGED <<v1, v2>>
        /\ v5' = [c \in T!Slots |-> [v5[c] EXCEPT !.live = FALSE]]
    BY <1>3 DEF T!Unmount
  <2>2. v3' \in ViewSet /\ ~Spins'
    BY <2>1 DEF T!Unmounted, ViewSet
  <2>3. v4' \in FormSet /\ ~v4'.publishing /\ ~v4'.uploading
    BY <1>t, <2>1 DEF T!EmptyForm, FormSet
  <2>4. v5' \in CallSet /\ \A c \in T!Slots : v5'[c] = [v5[c] EXCEPT !.live = FALSE]
    BY <1>t, <2>1 DEF CallSet
  <2>5. \A c \in T!Slots : /\ v5'[c].live = FALSE /\ v5'[c].op = v5[c].op /\ v5'[c].step = v5[c].step
                           /\ v5'[c].at = v5[c].at /\ v5'[c].got = v5[c].got /\ v5'[c].post = v5[c].post
    BY <1>t, <2>4 DEF CallSet
  <2>6. \A c \in T!Slots : Kept(c)'
    BY <1>i, <2>1, <2>5 DEF Kept
  <2> QED BY <1>g, <1>t, <2>1, <2>2, <2>3, <2>4, <2>5, <2>6
<1>4. ASSUME NEW c \in T!Slots, T!Serve(c)
      PROVE  T!IInv'
  <2>1. UNCHANGED <<v2, v3, v4>> /\ v5[c].at = "sent" /\ v5[c] \in CallRec /\ v5 \in [T!Slots -> CallRec]
    BY <1>4, <1>t DEF T!Serve, CallSet
  <2>2. CASE /\ v5[c].step \in {"mine", "theirs"} /\ UNCHANGED v1
             /\ v5' = [v5 EXCEPT ![c].at = "back",
                                 ![c].got = @ \cup (v1 \cap IF v5[c].step = "mine" THEN Posts ELSE {Theirs})]
    <3> DEFINE new == v5[c].got \cup (v1 \cap IF v5[c].step = "mine" THEN Posts ELSE {Theirs})
               r == [v5[c] EXCEPT !.at = "back", !.got = new]
    <3>1. new \in SUBSET All /\ v5' = [v5 EXCEPT ![c] = r]
      BY <1>t, <2>1, <2>2
    <3>2. v5[c].got \subseteq new /\ (v5[c].step = "mine" => v1 \cap Posts \subseteq new)
      OBVIOUS
    <3> HIDE DEF new
    <3>3. /\ r \in CallRec /\ r.op = v5[c].op /\ r.step = v5[c].step /\ r.live = v5[c].live
          /\ r.post = v5[c].post /\ r.got = new
      BY <2>1, <3>1
    <3> HIDE DEF r
    <3>4. Only(c) /\ v5'[c] = r
      <4> HIDE DEF CallRec
      <4> QED BY <2>1, <3>1, <3>3 DEF CallSet
    <3>5. Kept(c)'
      BY <1>i, <2>1, <2>2, <3>2, <3>3, <3>4 DEF Kept
    <3> QED BY <1>a, <1>t, <2>1, <2>2, <3>3, <3>4, <3>5
  <2>3. CASE v5[c].step = "upload" /\ UNCHANGED v1 /\ v5' = [v5 EXCEPT ![c].at = "back"]
    <3> DEFINE r == [v5[c] EXCEPT !.at = "back"]
    <3>1. v5' = [v5 EXCEPT ![c] = r]
      BY <2>1, <2>3
    <3>2. /\ r \in CallRec /\ r.op = v5[c].op /\ r.step = v5[c].step /\ r.live = v5[c].live
          /\ r.post = v5[c].post /\ r.got = v5[c].got
      BY <2>1
    <3> HIDE DEF r
    <3>3. Only(c) /\ v5'[c] = r
      <4> HIDE DEF CallRec
      <4> QED BY <2>1, <3>1, <3>2 DEF CallSet
    <3>4. Kept(c)'
      BY <1>i, <2>3, <3>2, <3>3 DEF Kept
    <3> QED BY <1>a, <1>t, <2>1, <2>3, <3>2, <3>3, <3>4
  <2>4. ASSUME v5[c].step = "create", NEW p \in Posts \ v1, v1' = v1 \cup {p},
               v5' = [v5 EXCEPT ![c].at = "back", ![c].post = {p}]
        PROVE  T!IInv'
    <3> DEFINE r == [v5[c] EXCEPT !.at = "back", !.post = {p}]
    <3>1. v5' = [v5 EXCEPT ![c] = r] /\ {p} \in SUBSET Posts /\ v1' \subseteq All
      BY <1>t, <2>1, <2>4
    <3>2. /\ r \in CallRec /\ r.op = v5[c].op /\ r.step = v5[c].step /\ r.live = v5[c].live
          /\ r.post = {p}
      BY <2>1, <3>1
    <3> HIDE DEF r
    <3>3. Only(c) /\ v5'[c] = r
      <4> HIDE DEF CallRec
      <4> QED BY <2>1, <3>1, <3>2 DEF CallSet
    <3>4. Kept(c)'
      <4>1. v5[c].op # "image"
        BY <1>i, <2>4 DEF Kept
      <4>2. v5'[c].step = "create" /\ v5'[c].op = v5[c].op /\ v5'[c].post \subseteq v1'
        BY <2>4, <3>2, <3>3
      <4> HIDE DEF Only, CallRec
      <4> QED BY <4>1, <4>2 DEF Kept
    <3> HIDE DEF All
    <3> QED BY <1>a, <1>t, <2>1, <2>4, <3>1, <3>2, <3>3, <3>4
  <2> QED BY <1>4, <2>2, <2>3, <2>4 DEF T!Serve
<1>5. ASSUME NEW c \in T!Slots, T!CallFails(c)
      PROVE  T!IInv'
  <2>1. UNCHANGED <<v1, v2, v3, v4>> /\ v5' = [v5 EXCEPT ![c].at = "failed"]
    BY <1>5 DEF T!CallFails
  <2>2. /\ Only(c) /\ v5'[c].op = v5[c].op /\ v5'[c].step = v5[c].step /\ v5'[c].live = v5[c].live
        /\ v5'[c].post = v5[c].post /\ v5'[c].got = v5[c].got /\ v5'[c].at = "failed"
    BY <1>t, <2>1 DEF CallSet
  <2>3. Kept(c)'
    BY <1>i, <2>1, <2>2 DEF Kept
  <2> QED BY <1>a, <1>t, <2>1, <2>2, <2>3
<1>6. CASE T!FriendPosts
  <2>1. UNCHANGED <<v2, v3, v4, v5>> /\ v1' = v1 \cup {Theirs}
    BY <1>6 DEF T!FriendPosts
  <2>2. \A c \in T!Slots : Kept(c)'
    BY <1>i, <2>1 DEF Kept
  <2> QED BY <1>g, <1>i, <1>t, <2>1, <2>2
<1>7. ASSUME NEW c \in T!Slots, T!AskFriend(c)
      PROVE  T!IInv'
  <2>1. UNCHANGED <<v1, v2, v3, v4>> /\ v5[c].step = "mine" /\ v5[c].at = "back"
        /\ v5' = [v5 EXCEPT ![c].step = "theirs", ![c].at = "sent"]
    BY <1>7 DEF T!AskFriend
  <2>2. /\ Only(c) /\ v5'[c].op = v5[c].op /\ v5'[c].step = "theirs" /\ v5'[c].live = v5[c].live
        /\ v5'[c].post = v5[c].post /\ v5'[c].got = v5[c].got
    BY <1>t, <2>1 DEF CallSet
  <2>3. Kept(c)'
    <3>1. v5[c].op # "image"
          /\ (v5[c].op = "post" => v5[c].post \subseteq v1 /\ v5[c].post \subseteq v5[c].got)
      BY <1>i, <2>1 DEF Kept
    <3> HIDE DEF Only, CallRec
    <3> QED BY <2>1, <2>2, <3>1 DEF Kept
  <2> QED BY <1>a, <1>t, <2>1, <2>2, <2>3
<1>8. ASSUME NEW c \in T!Slots, T!FeedComes(c)
      PROVE  T!IInv'
  <2>1. UNCHANGED <<v1, v2>> /\ T!Finish(c) /\ v5[c].step \in {"mine", "theirs"} /\ v5[c] \in CallRec
    BY <1>8, <1>t DEF T!FeedComes, T!Gathered, CallSet
  <2>2. v3' \in ViewSet /\ (Spins' => Spins /\ ~v5[c].live)
    BY <1>8, <1>t, <2>1 DEF T!FeedComes, ViewSet
  <2>3. ~Live(c, "image")
    BY <1>i, <2>1 DEF Kept
  <2>4. v4' = IF v5[c].live /\ v5[c].op = "post" THEN [v4 EXCEPT !.publishing = FALSE] ELSE v4
    BY <1>8 DEF T!FeedComes
  <2>5. v4' \in FormSet /\ v4'.uploading = v4.uploading
        /\ (v4'.publishing <=> (v4.publishing /\ ~Live(c, "post")))
    BY <1>t, <2>4 DEF FormSet
  <2> QED BY <1>c, <2>1, <2>2, <2>3, <2>5
<1>9. CASE T!OpenByIsland \/ T!CloseComposer \/ T!Draft
  <2>1. UNCHANGED <<v1, v2, v3, v5>>
    BY <1>9 DEF T!OpenByIsland, T!CloseComposer, T!Draft
  <2>2. v4' \in FormSet /\ v4'.publishing = v4.publishing /\ v4'.uploading = v4.uploading
    BY <1>9, <1>t DEF T!OpenByIsland, T!CloseComposer, T!Draft, FormSet
  <2> QED BY <1>g, <1>i, <1>t, <2>1, <2>2 DEF Kept
<1>10. ASSUME NEW c \in T!Slots, T!PickImage(c)
       PROVE  T!IInv'
  <2>1. T!Idle(c) /\ v5' = [v5 EXCEPT ![c] = T!Began("image", "upload")] /\ UNCHANGED <<v1, v2, v3>>
        /\ v4' = [v4 EXCEPT !.uploading = TRUE] /\ ~v4.uploading
    BY <1>10 DEF T!PickImage, T!ImageOffered
  <2>2. v4' \in FormSet /\ v4'.uploading = TRUE /\ v4'.publishing = v4.publishing
    BY <1>t, <2>1 DEF FormSet
  <2>3. UNCHANGED <<v1, v2, v3>> /\ ~v4.uploading
    BY <2>1
  <2>4. /\ Only(c) /\ v5[c].live = FALSE /\ v5'[c].live = TRUE /\ v5'[c].op = "image"
        /\ v5'[c].step = "upload" /\ v5'[c].post = {}
    <3> DEFINE r == T!Began("image", "upload")
    <3>1. r \in CallRec /\ r.live = TRUE /\ r.op = "image" /\ r.step = "upload" /\ r.post = {}
      BY <1>n
    <3>2. T!Idle(c) /\ v5' = [v5 EXCEPT ![c] = r]
      BY <2>1
    <3> HIDE DEF r, CallRec
    <3> QED BY <1>s, <3>1, <3>2
  <2> QED BY <1>b, <1>t, <2>2, <2>3, <2>4
<1>11. ASSUME NEW c \in T!Slots, T!ImageComes(c)
       PROVE  T!IInv'
  <2>1. UNCHANGED <<v1, v2, v3>> /\ T!Finish(c) /\ v5[c].op = "image"
    BY <1>11 DEF T!ImageComes
  <2>4. v4' = IF ~v5[c].live THEN v4
              ELSE [v4 EXCEPT !.uploading = FALSE, !.some = v4.some \/ v5[c].at = "back"]
    BY <1>11 DEF T!ImageComes
  <2>5. v4' \in FormSet /\ v4'.publishing = v4.publishing
        /\ (v4'.uploading <=> (v4.uploading /\ ~v5[c].live))
    BY <1>t, <2>4 DEF FormSet
  <2>6. v3' \in ViewSet /\ (Spins' <=> Spins) /\ ~Loads(c) /\ ~Live(c, "post") /\ (Live(c, "image") <=> v5[c].live)
    BY <1>t, <2>1
  <2> QED BY <1>c, <2>1, <2>5, <2>6
<1>12. ASSUME NEW c \in T!Slots, T!Publish(c)
       PROVE  T!IInv'
  <2>1. T!Idle(c) /\ v5' = [v5 EXCEPT ![c] = T!Began("post", "create")] /\ UNCHANGED <<v1, v2, v3>>
        /\ v4' = [v4 EXCEPT !.publishing = TRUE] /\ ~v4.publishing
    BY <1>12 DEF T!Publish, T!PublishOffered
  <2>2. v4' \in FormSet /\ v4'.publishing = TRUE /\ v4'.uploading = v4.uploading
    BY <1>t, <2>1 DEF FormSet
  <2>3. UNCHANGED <<v1, v2, v3>> /\ ~v4.publishing
    BY <2>1
  <2>4. /\ Only(c) /\ v5[c].live = FALSE /\ v5'[c].live = TRUE /\ v5'[c].op = "post"
        /\ v5'[c].step = "create" /\ v5'[c].post = {}
    <3> DEFINE r == T!Began("post", "create")
    <3>1. r \in CallRec /\ r.live = TRUE /\ r.op = "post" /\ r.step = "create" /\ r.post = {}
      BY <1>n
    <3>2. T!Idle(c) /\ v5' = [v5 EXCEPT ![c] = r]
      BY <2>1
    <3> HIDE DEF r, CallRec
    <3> QED BY <1>s, <3>1, <3>2
  <2> QED BY <1>b, <1>t, <2>2, <2>3, <2>4
<1>13. ASSUME NEW c \in T!Slots, T!Published(c)
       PROVE  T!IInv'
  <2>1. UNCHANGED <<v1, v2>> /\ v5[c].op = "post" /\ v5[c].step = "create"
        /\ v5' = [v5 EXCEPT ![c].step = "mine", ![c].at = "sent"]
    BY <1>13 DEF T!Published, T!Came
  <2>2. /\ Only(c) /\ v5'[c].op = "post" /\ v5'[c].step = "mine" /\ v5'[c].at = "sent"
        /\ v5'[c].live = v5[c].live /\ v5'[c].post = v5[c].post
    <3>1. v5' = [v5 EXCEPT ![c].step = "mine", ![c].at = "sent"] /\ v5 \in [T!Slots -> CallRec]
      BY <1>t, <2>1 DEF CallSet
    <3>2. /\ Only(c) /\ v5'[c].op = v5[c].op /\ v5'[c].step = "mine" /\ v5'[c].at = "sent"
          /\ v5'[c].live = v5[c].live /\ v5'[c].post = v5[c].post
      <4> DEFINE r == [v5[c] EXCEPT !.step = "mine", !.at = "sent"]
      <4>1. v5' = [v5 EXCEPT ![c] = r]
        BY <3>1
      <4>2. v5[c] \in CallRec
        BY <3>1
      <4>3. /\ r \in CallRec /\ r.op = v5[c].op /\ r.step = "mine" /\ r.at = "sent"
            /\ r.live = v5[c].live /\ r.post = v5[c].post
        BY <4>2
      <4> HIDE DEF r, CallRec
      <4> QED BY <3>1, <4>1, <4>3 DEF CallSet
    <3> QED BY <2>1, <3>2
  <2>3. v4' \in FormSet /\ v4'.publishing = v4.publishing /\ v4'.uploading = v4.uploading
    <3>1. v4' = [v4 EXCEPT !.app = FALSE, !.some = FALSE] \/ v4' = [v4 EXCEPT !.app = FALSE]
      BY <1>13 DEF T!Published
    <3>2. v4 \in FormSet
      BY <1>t
    <3> QED BY <3>1, <3>2 DEF FormSet
  <2>4. v3' \in ViewSet /\ (v5[c].live \/ v3' = v3)
    <3>1. v3' = IF v5[c].live THEN [v3 EXCEPT !.loading = TRUE] ELSE v3
      BY <1>13 DEF T!Published
    <3>2. v3 \in ViewSet
      BY <1>t
    <3> QED BY <3>1, <3>2 DEF ViewSet
  <2>5. ~Loads(c) /\ (v5[c].live => Loads(c)')
    BY <2>1, <2>2
  <2>6. Kept(c)'
    <3>1. v5[c].post \subseteq v1
      BY <1>i, <2>1 DEF Kept
    <3> HIDE DEF Only, CallRec
    <3> QED BY <2>1, <2>2, <3>1 DEF Kept
  <2>7. Spins' => Loads(c)' \/ (Spins /\ ~Loads(c))
    BY <2>4, <2>5
  <2>8. \A o \in {"post", "image"} : Live(c, o)' <=> Live(c, o)
    BY <2>1, <2>2
  <2>9. UNCHANGED <<v1, v2>>
    BY <2>1
  <2> QED BY <1>a, <1>t, <2>2, <2>3, <2>4, <2>6, <2>7, <2>8, <2>9
<1>14. ASSUME NEW c \in T!Slots, T!NotPublished(c)
       PROVE  T!IInv'
  <2>1. UNCHANGED <<v1, v2, v3>> /\ T!Finish(c) /\ v5[c].op = "post" /\ v5[c].step = "create"
    BY <1>14 DEF T!NotPublished, T!Came
  <2>4. v4' = IF v5[c].live THEN [v4 EXCEPT !.publishing = FALSE] ELSE v4
    BY <1>14 DEF T!NotPublished
  <2>5. v4' \in FormSet /\ v4'.uploading = v4.uploading
        /\ (v4'.publishing <=> (v4.publishing /\ ~v5[c].live))
    BY <1>t, <2>4 DEF FormSet
  <2>6. v3' \in ViewSet /\ (Spins' <=> Spins) /\ ~Loads(c) /\ ~Live(c, "image") /\ (Live(c, "post") <=> v5[c].live)
    BY <1>t, <2>1
  <2> QED BY <1>c, <2>1, <2>5, <2>6
<1>15. CASE UNCHANGED T!vars
  <2>1. UNCHANGED <<v1, v2, v3, v4, v5>>
    BY <1>15 DEF T!vars
  <2> QED BY <1>g, <1>i, <1>t, <2>1 DEF Kept
<1> QED BY <1>1, <1>2, <1>3, <1>4, <1>5, <1>6, <1>7, <1>8, <1>9, <1>10, <1>11, <1>12, <1>13, <1>14,
           <1>15 DEF T!Next

\* Voice (the recorder): v1 open, v2 rec, v3 cur, v4 timers, v5 live, v6 held, v7 uploading,
\* v8 cancelled, v9 sent.  The invariant adds that only a recorder which is off has sent.
LEMMA VoiceStep ==
  ASSUME R!IInv, [R!Next]_(R!vars)
  PROVE  R!IInv'
<1> DEFINE Recs == [R!Slots -> [at : {"new", "asking", "on", "upload", "off"}, hook : BOOLEAN]]
<1>t. /\ v1 \in BOOLEAN /\ v3 \in R!Slots \cup {0} /\ v4 \subseteq R!Slots /\ v5 \subseteq R!Slots
      /\ v2 \in Recs /\ v6 \in [stream : BOOLEAN, timer : BOOLEAN] /\ v7 \in BOOLEAN
      /\ v8 \subseteq R!Slots /\ v9 \in [R!Slots -> 0..2] /\ R!Slots \subseteq Nat \ {0}
  BY BoundsAssumption DEF R!IInv, R!TypeOK, R!None, R!Slots
<1>i. /\ v3 # 0 /\ v2[v3].at = "on" => v6.stream /\ v6.timer
      /\ \A r \in R!Slots : v9[r] # 0 => v2[r].at = "off"
  BY DEF R!IInv, R!CurrentIsHeld, R!None
<1> DEFINE Held(rs) == v3 # 0 => rs[v3].at # "on"
<1>s. ASSUME NEW rs \in Recs
      PROVE  /\ R!Stopped(rs) \in Recs
             /\ v3 # 0 => R!Stopped(rs)[v3].at # "on"
             /\ \A r \in R!Slots : R!Stopped(rs)[r] = rs[r] \/ rs[r].at = "on"
  BY <1>t DEF R!Stopped, R!None
<1>g. ASSUME v1' \in BOOLEAN, v7' \in BOOLEAN, v3' \in R!Slots \cup {0}, v4' \subseteq R!Slots,
             v5' \subseteq R!Slots, v8' \subseteq R!Slots, v2' \in Recs,
             v6' \in [stream : BOOLEAN, timer : BOOLEAN], v9' \in [R!Slots -> 0..2],
             \A r \in R!Slots : v9'[r] # 0 => v2'[r].at = "off",
             v3' # 0 /\ v2'[v3'].at = "on" => v6'.stream /\ v6'.timer
      PROVE  R!IInv'
  BY <1>g DEF R!IInv, R!TypeOK, R!CurrentIsHeld, R!None
\* cleanupAudio takes intervals and streams away and empties the refs
<1>r. R!Release => /\ v4' \subseteq v4 /\ v5' \subseteq v5
                   /\ v6' \in [stream : BOOLEAN, timer : BOOLEAN]
  BY DEF R!Release
<1> HIDE DEF Recs
<1>1. CASE R!Open
  <2>1. PICK r \in R!New : v2' = [R!Stopped(v2) EXCEPT ![r].at = "asking"]
    <3>1. R!New # {} /\ R!New \subseteq Nat
      BY <1>1, <1>t DEF R!Open, R!New
    <3>2. \E r \in R!New : \A s \in R!New : r <= s
      BY <3>1, Least
    <3> QED BY <1>1, <3>2 DEF R!Open
  <2>2. v1' \in BOOLEAN /\ R!Release /\ UNCHANGED <<v3, v7, v8, v9>>
    BY <1>1 DEF R!Open
  <2>3. r \in R!Slots /\ v2[r].at = "new"
    BY DEF R!New
  <2>4. v2' \in Recs /\ \A s \in R!Slots : v2'[s] = R!Stopped(v2)[s] \/ (s = r /\ v2'[s].at = "asking")
    BY <1>s, <1>t, <2>1, <2>3 DEF Recs
  <2>5. \A s \in R!Slots : v9[s] # 0 => v2'[s].at = "off"
    BY <1>i, <1>s, <1>t, <2>3, <2>4
  <2>6. v3 # 0 => v2'[v3].at # "on"
    BY <1>s, <1>t, <2>4
  <2> QED BY <1>g, <1>r, <1>t, <1>i, <2>2, <2>4, <2>5, <2>6
<1>2. ASSUME NEW r \in R!Slots, R!Granted(r)
      PROVE  R!IInv'
  <2>1. /\ v2[r].at = "asking" /\ v2' = [v2 EXCEPT ![r].at = "on"] /\ v3' = r
        /\ v4' = v4 \cup {r} /\ v5' = v5 \cup {r}
        /\ v6' = [stream |-> TRUE, timer |-> TRUE]
        /\ UNCHANGED <<v1, v7, v8, v9>>
    BY <1>2 DEF R!Granted
  <2>2. v2' \in Recs /\ \A s \in R!Slots : s # r => v2'[s] = v2[s]
    BY <1>t, <2>1 DEF Recs
  <2>3. \A s \in R!Slots : v9[s] # 0 => v2'[s].at = "off"
    BY <1>i, <2>1, <2>2
  <2>4. v6' \in [stream : BOOLEAN, timer : BOOLEAN] /\ v6'.stream /\ v6'.timer
    BY <2>1
  <2> QED BY <1>g, <1>t, <1>i, <2>1, <2>2, <2>3, <2>4
<1>3. ASSUME NEW r \in R!Slots, R!Denied(r)
      PROVE  R!IInv'
  <2>1. /\ v2[r].at = "asking" /\ v1' = FALSE
        /\ \/ v2' = [R!Stopped(v2) EXCEPT ![r].at = "off"] /\ R!Release
           \/ v2' = [v2 EXCEPT ![r].at = "off"] /\ UNCHANGED <<v4, v5, v6>>
        /\ UNCHANGED <<v3, v7, v8, v9>>
    BY <1>3 DEF R!Denied
  <2>2. CASE v2' = [R!Stopped(v2) EXCEPT ![r].at = "off"] /\ R!Release
    <3>1. /\ v2' \in Recs
          /\ \A s \in R!Slots : s # r => v2'[s] = R!Stopped(v2)[s]
          /\ v2'[r].at = "off"
      BY <1>s, <1>t, <2>2 DEF Recs
    <3>2. \A s \in R!Slots : v9[s] # 0 => v2'[s].at = "off"
      BY <1>i, <1>s, <1>t, <3>1
    <3>3. v3 # 0 => v2'[v3].at # "on"
      BY <1>s, <1>t, <3>1
    <3> QED BY <1>g, <1>r, <1>t, <2>1, <2>2, <3>1, <3>2, <3>3
  <2>3. CASE v2' = [v2 EXCEPT ![r].at = "off"] /\ UNCHANGED <<v4, v5, v6>>
    <3>1. /\ v2' \in Recs /\ \A s \in R!Slots : s # r => v2'[s] = v2[s]
          /\ v2'[r].at = "off"
      BY <1>t, <2>3 DEF Recs
    <3> QED BY <1>g, <1>i, <1>t, <2>1, <2>3, <3>1
  <2> QED BY <2>1, <2>2, <2>3
<1>4. CASE R!Cancel
  <2>1. /\ v1' = FALSE /\ v2' = R!Stopped(v2)
        /\ R!Release /\ v8' \subseteq R!Slots
        /\ UNCHANGED <<v3, v7, v9>>
    BY <1>4, <1>t DEF R!Cancel, R!Cleanup
  <2>2. \A s \in R!Slots : v9[s] # 0 => v2'[s].at = "off"
    BY <1>i, <1>s, <1>t, <2>1
  <2>3. v3 # 0 => v2'[v3].at # "on"
    BY <1>s, <1>t, <2>1
  <2>4. v2' \in Recs
    BY <1>s, <1>t, <2>1
  <2> QED BY <1>g, <1>r, <1>t, <1>i, <2>1, <2>2, <2>3, <2>4
<1>5. CASE R!StopAndSend
  <2> DEFINE rs == [v2 EXCEPT ![v3].hook = TRUE]
  <2>1. /\ v3 \in R!Slots /\ v7' = TRUE /\ v2' = R!Stopped(rs)
        /\ UNCHANGED <<v1, v3, v4, v5, v6, v8, v9>>
    BY <1>5, <1>t DEF R!StopAndSend, R!None
  <2>2. rs \in Recs /\ \A s \in R!Slots : rs[s].at = v2[s].at
    BY <1>t, <2>1 DEF Recs
  <2> HIDE DEF rs
  <2>3. \A s \in R!Slots : v9[s] # 0 => v2'[s].at = "off"
    BY <1>i, <1>s, <2>1, <2>2
  <2>4. v2' \in Recs /\ (v3 # 0 => v2'[v3].at # "on")
    BY <1>s, <2>1, <2>2
  <2> QED BY <1>g, <1>t, <1>i, <2>1, <2>3, <2>4
<1>6. ASSUME NEW r \in R!Slots, R!Uploaded(r)
      PROVE  R!IInv'
  <2>1. /\ v2[r].at = "upload" /\ v1' = FALSE /\ v7' = FALSE
        /\ v2' = [R!Stopped(v2) EXCEPT ![r].at = "off"]
        /\ R!Release /\ UNCHANGED <<v3, v8>>
    BY <1>6 DEF R!Uploaded
  <2>2. /\ v2' \in Recs
        /\ \A s \in R!Slots : s # r => v2'[s] = R!Stopped(v2)[s]
        /\ v2'[r].at = "off"
    BY <1>s, <1>t, <2>1 DEF Recs
  <2>3. v9[r] = 0
    BY <1>i, <2>1
  <2>4. PICK n \in {0, 1} : v9' = [v9 EXCEPT ![r] = IF @ < 2 THEN @ + n ELSE @]
    BY <1>6 DEF R!Uploaded
  <2>5. v9' \in [R!Slots -> 0..2] /\ \A s \in R!Slots : s # r => v9'[s] = v9[s]
    BY <1>t, <2>3, <2>4
  <2>6. \A s \in R!Slots : v9'[s] # 0 => v2'[s].at = "off"
    BY <1>i, <1>s, <1>t, <2>2, <2>5
  <2>7. v3 # 0 => v2'[v3].at # "on"
    BY <1>s, <1>t, <2>2
  <2> QED BY <1>g, <1>r, <1>t, <2>1, <2>2, <2>5, <2>6, <2>7
<1>7. CASE UNCHANGED R!vars
  BY <1>7, <1>g, <1>t, <1>i DEF R!vars
<1> QED BY <1>1, <1>2, <1>3, <1>4, <1>5, <1>6, <1>7 DEF R!Next, R!SendButton, R!MinuteOver

LEMMA VoiceInit == R!Init => R!IInv
<1> SUFFICES ASSUME R!Init PROVE R!IInv
  OBVIOUS
<1>1. v2 \in [R!Slots -> [at : {"new", "asking", "on", "upload", "off"}, hook : BOOLEAN]]
  BY DEF R!Init
<1>2. v6 \in [stream : BOOLEAN, timer : BOOLEAN]
  BY DEF R!Init
<1>3. v9 \in [R!Slots -> 0..2] /\ \A r \in R!Slots : v9[r] = 0
  BY DEF R!Init
<1>4. R!TypeOK
  BY <1>1, <1>2, <1>3 DEF R!Init, R!TypeOK
<1>5. v3 = R!None
  BY DEF R!Init
<1> QED BY <1>3, <1>4, <1>5 DEF R!IInv, R!CurrentIsHeld

-----------------------------------------------------------------------------
(* The firmware's connection.                                              *)

\* Unsigned differences: one grows with the clock, and two make a third, until they wrap.
LEMMA Unsigned ==
  ASSUME NEW a \in L!Clock, NEW b \in L!Clock
  PROVE  /\ L!Minus(a, b) \in Nat /\ L!Minus(a, b) < Wrap /\ L!Minus(a, a) = 0
         /\ L!Later(a) \in L!Clock
         /\ L!Minus(a, b) + 1 < Wrap => L!Minus(L!Later(a), b) = L!Minus(a, b) + 1
         /\ \A c \in L!Clock : L!Minus(a, b) + L!Minus(b, c) < Wrap =>
              L!Minus(a, c) = L!Minus(a, b) + L!Minus(b, c)
BY ClockAssumption DEF L!Clock, L!Minus, L!Later

\* Esp32Link (the firmware's connection): v1 clock, v2 link, v3 backoff, v4 hello, v5 sock,
\* v6 stamp, v7 wifi, v8 tx, v9 since.  It starts without a client.
LEMMA LinkInit == L!Init => L!IInv
<1> SUFFICES ASSUME L!Init PROVE L!IInv
  OBVIOUS
<1>1. 0 \in L!Clock /\ 1 \in 1 .. MaxBackoff
  BY ClockAssumption DEF L!Clock
<1>2. /\ v2 \in [at : L!Attempt \cup L!Session, now : L!Clock, spent : Nat]
      /\ v2.at = "wifi" /\ v2.spent = 0 /\ v5 = "none"
  BY <1>1 DEF L!Init, L!Attempt
<1>3. v2.spent <= IF v2.at = "asleep" THEN Delay ELSE Late
  BY <1>2, ClockAssumption
<1>4. v6 \in [ping : L!Clock, pong : L!Clock] /\ v9 \in [pong : Nat, ping : Nat]
      /\ v8 \in [buf : {"none", "hello", "ping", "echo"}, echo : BOOLEAN]
  BY <1>1 DEF L!Init
<1>5. L!TypeOK
  BY <1>1, <1>2, <1>3, <1>4 DEF L!Init, L!TypeOK
<1> QED BY <1>2, <1>5 DEF L!IInv, L!NoClientIsLeft, L!Awake

\* The invariant ties the two stamps to the true ages of the PONG and of the heartbeat:
\* what the task computes from a clock that wraps is the time that has passed.
LEMMA LinkStep ==
  ASSUME L!IInv, [L!Next]_(L!vars)
  PROVE  L!IInv'
<1> DEFINE Links == [at : L!Attempt \cup L!Session, now : L!Clock, spent : Nat]
           Stamps == [ping : L!Clock, pong : L!Clock]
           Sinces == [pong : Nat, ping : Nat]
           Frames == [buf : {"none", "hello", "ping", "echo"}, echo : BOOLEAN]
           \* what is so of the link task, of a session's now, and of its stamps
           Bounded == /\ v2.spent <= (IF v2.at = "asleep" THEN Delay ELSE Late)
                      /\ v5 # "none" => v2.at \in L!Session
           NowIs == v2.at \in L!Awake \ {"stop"} => L!Minus(v1, v2.now) = v2.spent
           Heard == v5 = "stamped" /\ v2.at # "stop" =>
                      /\ L!Minus(v1, v6.pong) = v9.pong
                      /\ v9.pong <= Timeout + Late + v2.spent
                                    + (IF v2.at = "asleep" THEN 0 ELSE Delay)
           Pinged == v5 = "stamped" /\ v2.at # "stop" => L!Beaten \/ L!Fresh \/ L!Early
<1>c. /\ Wrap \in Nat /\ Timeout \in Nat /\ Delay \in Nat /\ Late \in Nat
      /\ Period \in Nat /\ Period > 0 /\ MaxBackoff \in Nat /\ MaxBackoff > 0
      /\ Wrap > Timeout + Delay + 2 * Late /\ Wrap > Period + Delay + 2 * Late
  BY ClockAssumption
<1>t. /\ v1 \in L!Clock /\ v2 \in Links /\ v3 \in 1 .. MaxBackoff /\ v4 \in BOOLEAN
      /\ v5 \in {"none", "closed", "flagged", "stamped"} /\ v6 \in Stamps
      /\ v7 \in {"up", "down", "stuck"} /\ v8 \in Frames /\ v9 \in Sinces
  BY DEF L!IInv, L!TypeOK
<1>i. Bounded /\ NowIs /\ Heard /\ Pinged
  BY DEF L!IInv, L!TypeOK, L!NoClientIsLeft
<1>g. ASSUME v1' \in L!Clock, v2' \in Links, v3' \in 1 .. MaxBackoff, v4' \in BOOLEAN,
             v5' \in {"none", "closed", "flagged", "stamped"}, v6' \in Stamps,
             v7' \in {"up", "down", "stuck"}, v8' \in Frames, v9' \in Sinces,
             Bounded', NowIs', Heard', Pinged'
      PROVE  L!IInv'
  BY <1>g DEF L!IInv, L!TypeOK, L!NoClientIsLeft
<1>f. /\ v2.at \in L!Attempt \cup L!Session /\ v2.now \in L!Clock /\ v2.spent \in Nat
      /\ v6.ping \in L!Clock /\ v6.pong \in L!Clock /\ v9.ping \in Nat /\ v9.pong \in Nat
  BY <1>t
\* the clock and the stamps stand still, and the task goes on, or ends its session
<1>k. ASSUME UNCHANGED <<v1, v6, v9>>, v3' \in 1 .. MaxBackoff, v4' \in BOOLEAN, v5' = v5,
             v7' \in {"up", "down", "stuck"}, v8' \in Frames,
             v2' \in Links, v2'.now = v2.now, v2'.spent = v2.spent,
             \/ v2'.at = v2.at
             \/ v2'.at \in L!Attempt /\ v2.at \in L!Attempt
             \/ v2'.at = "stop" /\ v2.at \in L!Awake
             \/ {v2.at, v2'.at} \subseteq {"look", "hello", "sendHello", "beat"}
      PROVE  L!IInv'
  <2> HIDE DEF Links, Stamps, Sinces, Frames
  <2>2. Bounded'
    BY <1>k, <1>i DEF L!Attempt, L!Session, L!Awake
  <2>3. NowIs'
    BY <1>k, <1>i DEF L!Attempt, L!Session, L!Awake, L!Minus
  <2>4. Heard'
    BY <1>k, <1>i DEF L!Attempt, L!Session, L!Awake, L!Minus
  <2>5. Pinged'
    BY <1>k, <1>i DEF L!Attempt, L!Session, L!Awake, L!Minus, L!Beaten, L!Fresh, L!Early, L!Looked
  <2> QED BY <1>g, <1>k, <1>t, <2>2, <2>3, <2>4, <2>5
\* no session's stamps are looked at
<1>n. ASSUME v1' \in L!Clock, v2' \in Links, v3' \in 1 .. MaxBackoff, v4' \in BOOLEAN,
             v5' \in {"none", "closed", "flagged"} \/ (v2'.at = "stop" /\ v5' = v5), v6' = v6,
             v7' = v7, v8' = v8, v9' = v9, Bounded', NowIs'
      PROVE  L!IInv'
  <2>1. Heard' /\ Pinged'
    BY <1>n
  <2> HIDE DEF Links, Stamps, Sinces, Frames, Heard, Pinged, NowIs, Bounded
  <2> QED BY <1>g, <1>n, <1>t, <2>1
<1>1. CASE L!Pass
  <2>1. /\ v2.at \in L!Session /\ v2.spent < (IF v2.at = "asleep" THEN Delay ELSE Late)
        /\ v1' = L!Later(v1) /\ v2' = [v2 EXCEPT !.spent = v2.spent + 1]
        /\ v9' = (IF v5 = "stamped" THEN [pong |-> v9.pong + 1, ping |-> v9.ping + 1] ELSE v9)
        /\ UNCHANGED <<v3, v4, v5, v6, v7, v8>>
    BY <1>1 DEF L!Pass
  <2>2. /\ v2' \in Links /\ v2'.at = v2.at /\ v2'.now = v2.now /\ v2'.spent = v2.spent + 1
    BY <1>t, <2>1
  <2>3. v9' \in Sinces /\ v5 = "stamped" => v9'.pong = v9.pong + 1 /\ v9'.ping = v9.ping + 1
    BY <1>t, <2>1
  <2>4. v1' \in L!Clock /\ v9' \in Sinces
    BY <1>t, <2>1, Unsigned
  <2>5. Bounded'
    BY <1>i, <1>f, <1>c, <2>1, <2>2
  <2>6. NowIs'
    <3>1. CASE v2.at \in L!Awake \ {"stop"}
      <4>1. L!Minus(v1, v2.now) = v2.spent /\ v2.spent + 1 < Wrap
        BY <1>i, <1>f, <1>c, <2>1, <3>1 DEF L!Awake
      <4>2. L!Minus(v1', v2.now) = L!Minus(v1, v2.now) + 1
        BY <4>1, <2>1, <1>f, <1>t, Unsigned
      <4> QED BY <2>2, <4>1, <4>2
    <3> QED BY <2>2, <3>1
  <2>7. Heard'
    <3>1. CASE v5 = "stamped" /\ v2.at # "stop"
      <4>1. v2.spent < Late \/ (v2.at = "asleep" /\ v2.spent < Delay)
        BY <2>1
      <4>2. /\ L!Minus(v1, v6.pong) = v9.pong /\ v9.pong + 1 < Wrap
        BY <1>i, <1>f, <1>c, <3>1, <4>1
      <4>3. L!Minus(v1', v6.pong) = v9.pong + 1
        BY <4>2, <2>1, <1>f, <1>t, Unsigned
      <4> QED BY <1>i, <1>f, <1>c, <2>1, <2>2, <2>3, <3>1, <4>2, <4>3
    <3> QED BY <2>1, <2>2, <3>1
  <2>8. Pinged'
    <3>1. CASE v5 = "stamped" /\ v2.at # "stop"
      <4>1. v2.spent < Late \/ (v2.at = "asleep" /\ v2.spent < Delay)
        BY <2>1
      <4>2. L!Looked' = L!Looked + 1 /\ L!Looked \in Nat /\ L!Looked < 2 * Late + Delay
        BY <1>f, <1>c, <2>1, <2>2, <4>1 DEF L!Looked
      <4>3. CASE L!Beaten
        <5>1. L!Minus(v1, v6.ping) + 1 < Wrap
          <6>1. /\ L!Minus(v1, v6.ping) \in Nat
                /\ L!Minus(v1, v6.ping) = v2.spent \/ L!Minus(v1, v6.ping) < Period + L!Looked
            BY <1>f, <1>t, <4>3, Unsigned DEF L!Beaten
          <6>2. v2.spent < Late + Delay
            BY <1>f, <1>c, <4>1
          <6> HIDE DEF Links, Stamps, Sinces, Frames, Heard, Pinged, NowIs, Bounded
          <6> QED BY <1>f, <1>c, <4>2, <6>1, <6>2
        <5>2. L!Minus(v1', v6.ping) = L!Minus(v1, v6.ping) + 1
          BY <5>1, <2>1, <1>f, <1>t, Unsigned
        <5>3. L!Minus(v1, v6.ping) \in Nat
          BY <1>f, <1>t, Unsigned
        <5> QED BY <1>f, <1>c, <2>1, <2>2, <2>3, <3>1, <4>2, <4>3, <5>2, <5>3 DEF L!Beaten
      <4>4. CASE L!Fresh
        BY <1>f, <1>c, <2>1, <2>2, <2>3, <3>1, <4>2, <4>4 DEF L!Fresh
      <4>5. CASE L!Early
        <5>1. v1 \in Nat /\ v1' = v1 + 1
          BY <1>t, <1>c, <2>1, <4>2, <4>5 DEF L!Early, L!Later, L!Clock
        <5> QED BY <1>f, <1>c, <2>1, <2>2, <2>3, <3>1, <4>2, <4>5, <5>1 DEF L!Early
      <4> QED BY <1>i, <3>1, <4>3, <4>4, <4>5
    <3> QED BY <2>1, <2>2, <3>1
  <2> HIDE DEF Links, Stamps, Sinces, Frames, Heard, Pinged, NowIs, Bounded
  <2> QED BY <1>g, <1>t, <2>1, <2>2, <2>4, <2>5, <2>6, <2>7, <2>8
\* the task moves on and looks at nothing
<1>m. ASSUME NEW to \in L!Attempt \cup L!Session, v2' = [v2 EXCEPT !.at = to]
      PROVE  v2' \in Links /\ v2'.at = to /\ v2'.now = v2.now /\ v2'.spent = v2.spent
  BY <1>m, <1>t
<1>o. ASSUME NEW to \in L!Attempt \cup L!Session
      PROVE  /\ L!At(to) \in Links /\ L!At(to).at = to
             /\ L!At(to).now = 0 /\ L!At(to).spent = 0
  BY <1>c DEF L!At, L!Clock
<1>a. /\ L!Attempt = {"wifi", "login", "ticket", "start", "backoff"}
      /\ L!Awake = {"look", "hello", "sendHello", "beat", "sendPing", "judge", "stop"}
      /\ L!Session = {"asleep", "look", "hello", "sendHello", "beat", "sendPing", "judge", "stop"}
  BY DEF L!Attempt, L!Session, L!Awake
<1>2. CASE L!WifiWaited
  <2>1. v2' \in Links /\ v2'.at = "login" /\ v2'.now = v2.now /\ v2'.spent = v2.spent
    BY <1>2, <1>m, <1>a DEF L!WifiWaited, L!Goto
  <2>2. v5 = "none"
    BY <1>2, <1>i, <1>a DEF L!WifiWaited
  <2>3. Bounded' /\ NowIs'
    BY <1>2, <1>i, <1>a, <2>1, <2>2 DEF L!WifiWaited
  <2> HIDE DEF Links, Stamps, Sinces, Frames, Heard, Pinged, NowIs, Bounded
  <2> QED BY <1>2, <1>n, <1>t, <2>1, <2>2, <2>3 DEF L!WifiWaited
<1>3. ASSUME NEW l \in {"login", "ticket"}, NEW next \in {"ticket", "start"}, L!Posted(l, next)
      PROVE  L!IInv'
  <2>1. /\ v2' \in Links /\ v2'.at \in L!Attempt /\ v2.at \in L!Attempt
        /\ v2'.now = v2.now /\ v2'.spent = v2.spent
    BY <1>3, <1>m, <1>a DEF L!Posted, L!Goto
  <2> HIDE DEF Links, Stamps, Sinces, Frames, Heard, Pinged, NowIs, Bounded
  <2> QED BY <1>3, <1>k, <1>t, <2>1 DEF L!Posted, L!rest
<1>4. CASE L!Start
  <2>1. CASE v5 = "none" /\ v5' = "closed" /\ v3' = 1 /\ v2' = L!At("asleep")
    <3>1. v2' \in Links /\ v2'.at = "asleep" /\ v2'.now = 0 /\ v2'.spent = 0
      BY <1>o, <1>a, <2>1
    <3>2. Bounded' /\ NowIs' /\ v3' \in 1 .. MaxBackoff
      BY <1>a, <1>c, <2>1, <3>1
    <3>3. UNCHANGED <<v1, v4, v6, v7, v8, v9>>
      BY <1>4 DEF L!Start
    <3> HIDE DEF Links, Stamps, Sinces, Frames, Heard, Pinged, NowIs, Bounded
    <3>4. v1' \in L!Clock /\ v4' \in BOOLEAN /\ UNCHANGED <<v6, v7, v8, v9>>
      BY <1>t, <3>3
    <3> QED BY <1>n, <2>1, <3>1, <3>2, <3>4
  <2>2. CASE L!Goto("backoff") /\ UNCHANGED <<v3, v5>>
    <3>1. /\ v2' \in Links /\ v2'.at \in L!Attempt /\ v2.at \in L!Attempt
          /\ v2'.now = v2.now /\ v2'.spent = v2.spent
      BY <1>4, <1>m, <1>a, <2>2 DEF L!Start, L!Goto
    <3> HIDE DEF Links, Stamps, Sinces, Frames, Heard, Pinged, NowIs, Bounded
    <3> QED BY <1>4, <1>k, <1>t, <2>2, <3>1 DEF L!Start
  <2> QED BY <1>4, <2>1, <2>2 DEF L!Start
<1>5. CASE L!Rest
  <2>1. /\ v2' \in Links /\ v2'.at \in L!Attempt /\ v2.at \in L!Attempt
        /\ v2'.now = v2.now /\ v2'.spent = v2.spent
    BY <1>5, <1>m, <1>a DEF L!Rest, L!Goto
  <2>2. v3' \in 1 .. MaxBackoff
    BY <1>5, <1>t, <1>c DEF L!Rest
  <2> HIDE DEF Links, Stamps, Sinces, Frames, Heard, Pinged, NowIs, Bounded
  <2> QED BY <1>5, <1>k, <1>t, <2>1, <2>2 DEF L!Rest, L!rest
<1>6. CASE L!Wake
  <2>1. /\ v2' \in Links /\ v2.at = "asleep" /\ v2'.at = "look" /\ v2'.now = v1 /\ v2'.spent = 0
        /\ UNCHANGED <<v1, v3, v4, v5, v6, v7, v8, v9>>
    BY <1>6, <1>t, <1>a DEF L!Wake, L!rest
  <2>2. Bounded'
    BY <1>i, <1>a, <1>c, <2>1
  <2>3. NowIs'
    BY <1>t, <2>1, Unsigned
  <2>4. Heard'
    BY <1>i, <1>c, <1>f, <2>1 DEF L!Minus
  <2>5. Pinged'
    <3>1. L!Looked \in Nat /\ L!Looked' \in Nat /\ L!Looked <= L!Looked' /\ v2.spent >= v2'.spent
      BY <1>c, <1>f, <1>i, <2>1 DEF L!Looked
    <3>2. v1 \in Nat /\ L!Minus(v1, v6.ping) \in Nat
      BY <1>t, <1>f, Unsigned DEF L!Clock
    <3>3. CASE L!Beaten
      BY <1>c, <1>f, <2>1, <3>1, <3>2, <3>3 DEF L!Beaten
    <3>4. CASE L!Fresh
      BY <1>c, <1>f, <2>1, <3>1, <3>4 DEF L!Fresh
    <3>5. CASE L!Early
      <4>1. /\ v6.ping = 0 /\ v2.spent <= v1 /\ v1 < Period + L!Looked
            /\ v9.ping <= v1 + Late + Delay
        BY <3>5 DEF L!Early
      <4>2. v6'.ping = 0 /\ v2'.spent <= v1'
        BY <2>1, <3>2, <4>1
      <4>5. v1' = v1 /\ Period \in Nat
        BY <1>c, <2>1
      <4>3. v1' < Period + L!Looked'
        <5>1. \A n, p, x, y \in Nat : n < p + x /\ x <= y => n < p + y
          OBVIOUS
        <5>2. v1 \in Nat /\ L!Looked \in Nat /\ L!Looked' \in Nat /\ L!Looked <= L!Looked'
              /\ v1 < Period + L!Looked
          BY <3>1, <3>2, <4>1
        <5>3. v1 < Period + L!Looked'
          BY <4>5, <5>1, <5>2
        <5> QED BY <4>5, <5>3
      <4>4. v9'.ping <= v1' + Late + Delay
        BY <2>1, <4>1
      <4> QED BY <4>2, <4>3, <4>4 DEF L!Early
    <3> QED BY <1>i, <2>1, <3>3, <3>4, <3>5
  <2> HIDE DEF Links, Stamps, Sinces, Frames, Heard, Pinged, NowIs, Bounded
  <2> QED BY <1>g, <1>t, <2>1, <2>2, <2>3, <2>4, <2>5
<1>7. CASE L!Look
  <2>1. /\ v2' \in Links /\ v2.at = "look" /\ v2'.at \in {"beat", "hello", "stop"}
        /\ v2'.now = v2.now /\ v2'.spent = v2.spent
    BY <1>7, <1>m, <1>a DEF L!Look, L!Goto
  <2> HIDE DEF Links, Stamps, Sinces, Frames, Heard, Pinged, NowIs, Bounded
  <2> QED BY <1>7, <1>a, <1>k, <1>t, <2>1 DEF L!Look, L!rest
<1>8. CASE L!Hello
  <2>1. /\ v2' \in Links /\ v2.at = "hello" /\ v2'.at = "sendHello"
        /\ v2'.now = v2.now /\ v2'.spent = v2.spent
    BY <1>8, <1>m, <1>a DEF L!Hello, L!Goto
  <2>2. v8' \in Frames
    BY <1>8, <1>t DEF L!Hello
  <2> HIDE DEF Links, Stamps, Sinces, Frames, Heard, Pinged, NowIs, Bounded
  <2> QED BY <1>8, <1>a, <1>k, <1>t, <2>1, <2>2 DEF L!Hello
<1>9. CASE L!SendHello
  <2>1. /\ v2' \in Links /\ v2.at = "sendHello" /\ v2'.at = "beat"
        /\ v2'.now = v2.now /\ v2'.spent = v2.spent
    BY <1>9, <1>m, <1>a DEF L!SendHello, L!Goto
  <2> HIDE DEF Links, Stamps, Sinces, Frames, Heard, Pinged, NowIs, Bounded
  <2> QED BY <1>9, <1>a, <1>k, <1>t, <2>1 DEF L!SendHello, L!rest
<1>10. CASE L!Beat
  <2>1. v2.at = "beat" /\ UNCHANGED <<v1, v3, v4, v5, v7, v9>>
    BY <1>10 DEF L!Beat
  <2>2. L!Minus(v1, v2.now) = v2.spent /\ v2.spent <= Late
    BY <1>i, <1>a, <2>1
  <2>3. CASE /\ v6' = [v6 EXCEPT !.ping = v2.now] /\ v8' = [v8 EXCEPT !.buf = "ping"]
             /\ L!Goto("sendPing")
    <3>1. /\ v2' \in Links /\ v2'.at = "sendPing" /\ v2'.now = v2.now /\ v2'.spent = v2.spent
          /\ v6' \in Stamps /\ v6'.ping = v2.now /\ v6'.pong = v6.pong /\ v8' \in Frames
      BY <1>m, <1>a, <1>t, <1>f, <2>3 DEF L!Goto
    <3>2. Bounded' /\ NowIs' /\ Heard'
      BY <1>i, <1>a, <2>1, <2>2, <3>1 DEF L!Minus
    <3>3. Pinged'
      BY <2>1, <2>2, <3>1 DEF L!Beaten, L!Minus
    <3> HIDE DEF Links, Stamps, Sinces, Frames, Heard, Pinged, NowIs, Bounded
    <3> QED BY <1>g, <1>t, <2>1, <3>1, <3>2, <3>3
  <2>4. CASE /\ ~(L!Connected /\ L!Minus(v2.now, v6.ping) >= Period)
             /\ L!Goto("judge") /\ UNCHANGED <<v6, v8>>
    <3>1. /\ v2' \in Links /\ v2'.at = "judge" /\ v2'.now = v2.now /\ v2'.spent = v2.spent
      BY <1>m, <1>a, <2>4 DEF L!Goto
    <3>2. Bounded' /\ NowIs' /\ Heard'
      BY <1>i, <1>a, <2>1, <2>4, <3>1 DEF L!Minus
    <3>3. ASSUME v5 = "stamped"
          PROVE  L!Beaten' \/ L!Fresh' \/ L!Early'
      \* the stamp is younger than a period, now or with the time since now was read
      <4>1. L!Minus(v2.now, v6.ping) \in Nat /\ L!Minus(v2.now, v6.ping) < Period
        <5>1. L!Minus(v2.now, v6.ping) \in Nat
          BY <1>f, Unsigned
        <5>2. ~(L!Minus(v2.now, v6.ping) >= Period)
          BY <2>4, <3>3 DEF L!Connected
        <5> QED BY <1>c, <5>1, <5>2
      <4>2. L!Minus(v1, v6.ping) = v2.spent + L!Minus(v2.now, v6.ping)
        <5>1. v2.spent + L!Minus(v2.now, v6.ping) < Wrap
          BY <1>c, <1>f, <2>2, <4>1
        <5> QED BY <1>t, <1>f, <2>2, <5>1, Unsigned
      <4>3. L!Looked = Late + Delay + v2.spent /\ L!Looked' = v2.spent
        BY <2>1, <3>1 DEF L!Looked
      <4>4. L!Minus(v1', v6'.ping) = L!Minus(v1, v6.ping)
        BY <2>1, <2>4
      <4>5. CASE v9.ping <= L!Minus(v1, v6.ping)
        <5>1. L!Minus(v1', v6'.ping) < Period + v2'.spent /\ v2'.spent <= L!Minus(v1', v6'.ping)
          BY <1>c, <1>f, <3>1, <4>1, <4>2, <4>4
        <5>2. L!Beaten'
          BY <2>1, <3>1, <4>3, <4>4, <4>5, <5>1 DEF L!Beaten
        <5> QED BY <5>2
      <4>6. CASE v6.ping = 0 /\ v9.ping <= v1 + Late + Delay
        <5>1. v1 = v2.spent + v2.now /\ v2.now < Period
          BY <1>c, <1>t, <1>f, <2>2, <4>1, <4>6 DEF L!Minus, L!Clock
        <5>2. v2'.spent <= v1' /\ v1' < Period + v2'.spent
          BY <1>c, <1>f, <2>1, <3>1, <5>1 DEF L!Clock
        <5>3. L!Early'
          BY <2>1, <2>4, <3>1, <4>3, <4>6, <5>2 DEF L!Early
        <5> QED BY <5>3
      <4>7. CASE v6.ping = 0 /\ v9.ping <= Late + Delay + v2.spent
        <5>1. v1 = v2.spent + v2.now
          BY <1>c, <1>t, <1>f, <2>2, <4>1, <4>7 DEF L!Minus, L!Clock
        <5> QED BY <1>c, <1>f, <4>6, <4>7, <5>1 DEF L!Clock
      <4> QED BY <1>i, <2>1, <3>3, <4>3, <4>5, <4>6, <4>7 DEF L!Beaten, L!Fresh, L!Early
    <3>4. Pinged'
      BY <2>1, <3>3
    <3> HIDE DEF Links, Stamps, Sinces, Frames, Heard, Pinged, NowIs, Bounded
    <3> QED BY <1>g, <1>t, <2>1, <2>4, <3>1, <3>2, <3>4
  <2> QED BY <1>10, <2>3, <2>4 DEF L!Beat
<1>11. CASE L!SendPing
  <2>1. v2.at = "sendPing" /\ UNCHANGED <<v1, v3, v4, v5, v6, v7, v8>>
    BY <1>11 DEF L!SendPing
  <2>2. CASE L!Goto("judge") /\ v9' = [v9 EXCEPT !.ping = 0]
    <3>1. /\ v2' \in Links /\ v2'.at = "judge" /\ v2'.now = v2.now /\ v2'.spent = v2.spent
          /\ v9' \in Sinces /\ v9'.ping = 0 /\ v9'.pong = v9.pong
      BY <1>m, <1>a, <1>t, <2>2 DEF L!Goto
    <3>2. Bounded' /\ NowIs' /\ Heard'
      BY <1>i, <1>a, <2>1, <3>1 DEF L!Minus
    <3>3. ASSUME v5 = "stamped"
          PROVE  L!Beaten' \/ L!Fresh' \/ L!Early'
      <4>1. L!Looked = v2.spent /\ L!Looked' = v2.spent
        BY <2>1, <3>1 DEF L!Looked
      <4>2. L!Minus(v1', v6'.ping) = L!Minus(v1, v6.ping) /\ v1 \in Nat
        BY <1>t, <2>1 DEF L!Clock
      <4>3. CASE L!Beaten
        <5>1. L!Minus(v1, v6.ping) = v2.spent
          BY <2>1, <4>3 DEF L!Beaten
        <5>2. 0 <= v2.spent /\ v2.spent < Period + v2.spent
          BY <1>c, <1>f
        <5>3. L!Beaten'
          BY <3>1, <4>1, <4>2, <5>1, <5>2 DEF L!Beaten
        <5> QED BY <5>3
      <4>4. CASE L!Fresh
        <5>1. L!Fresh'
          BY <1>f, <2>1, <3>1, <4>1, <4>4 DEF L!Fresh
        <5> QED BY <5>1
      <4>5. CASE L!Early
        <5>1. L!Early'
          BY <1>c, <1>f, <2>1, <3>1, <4>1, <4>2, <4>5 DEF L!Early
        <5> QED BY <5>1
      <4> QED BY <1>i, <2>1, <3>3, <4>3, <4>4, <4>5
    <3>4. Pinged'
      BY <2>1, <3>3
    <3> HIDE DEF Links, Stamps, Sinces, Frames, Heard, Pinged, NowIs, Bounded
    <3> QED BY <1>g, <1>t, <2>1, <3>1, <3>2, <3>4
  <2>3. CASE L!Goto("stop") /\ UNCHANGED v9
    <3>1. /\ v2' \in Links /\ v2'.at = "stop" /\ v2'.now = v2.now /\ v2'.spent = v2.spent
      BY <1>m, <1>a, <2>3 DEF L!Goto
    <3> HIDE DEF Links, Stamps, Sinces, Frames, Heard, Pinged, NowIs, Bounded
    <3> QED BY <1>a, <1>k, <1>t, <2>1, <2>3, <3>1
  <2> QED BY <1>11, <2>2, <2>3 DEF L!SendPing
<1>12. CASE L!Judge
  <2>1. v2.at = "judge" /\ UNCHANGED <<v1, v3, v4, v5, v6, v7, v8, v9>>
    BY <1>12 DEF L!Judge, L!rest
  <2>2. CASE L!Minus(v2.now, v6.pong) > Timeout /\ v2' = L!At("stop")
    <3>1. v2' \in Links /\ v2'.at = "stop" /\ v2'.now = 0 /\ v2'.spent = 0
      BY <1>a, <1>o, <2>2
    <3>2. Bounded' /\ NowIs'
      BY <1>a, <1>c, <3>1
    <3> HIDE DEF Links, Stamps, Sinces, Frames, Heard, Pinged, NowIs, Bounded
    <3> QED BY <1>n, <1>t, <2>1, <3>1, <3>2
  <2>3. CASE ~(L!Minus(v2.now, v6.pong) > Timeout) /\ v2' = L!At("asleep")
    <3>1. v2' \in Links /\ v2'.at = "asleep" /\ v2'.now = 0 /\ v2'.spent = 0
      BY <1>a, <1>o, <2>3
    <3>2. Bounded' /\ NowIs'
      BY <1>a, <1>c, <3>1
    <3>3. L!Minus(v1, v2.now) = v2.spent /\ v2.spent <= Late
      BY <1>i, <1>a, <2>1
    \* the PONG was within the timeout when now was read
    <3>4. Heard'
      <4>1. L!Minus(v2.now, v6.pong) \in Nat
        BY <1>f, Unsigned
      <4>2. L!Minus(v2.now, v6.pong) <= Timeout
        BY <1>c, <2>3, <4>1
      <4>3. L!Minus(v1, v6.pong) = v2.spent + L!Minus(v2.now, v6.pong)
        <5>1. v2.spent + L!Minus(v2.now, v6.pong) < Wrap
          BY <1>c, <1>f, <3>3, <4>1, <4>2
        <5> QED BY <1>t, <1>f, <3>3, <5>1, Unsigned
      <4>4. L!Minus(v1, v6.pong) <= Timeout + Late
        BY <1>c, <1>f, <3>3, <4>1, <4>2, <4>3
      <4>5. v5 = "stamped" => L!Minus(v1, v6.pong) = v9.pong
        BY <1>i, <2>1
      <4>6. L!Minus(v1', v6'.pong) = L!Minus(v1, v6.pong) /\ v9'.pong = v9.pong
        BY <2>1
      <4>7. v5 = "stamped" => v9'.pong <= Timeout + Late + 0 + 0
        BY <1>c, <1>f, <4>4, <4>5, <4>6
      <4> QED BY <2>1, <3>1, <4>5, <4>6, <4>7
    <3>5. ASSUME v5 = "stamped"
          PROVE  L!Beaten' \/ L!Fresh' \/ L!Early'
      <4>1. L!Looked = v2.spent /\ L!Looked' = Late
        BY <1>c, <2>1, <3>1 DEF L!Looked
      <4>2. L!Minus(v1', v6'.ping) = L!Minus(v1, v6.ping) /\ v1 \in Nat
            /\ L!Minus(v1, v6.ping) \in Nat
        BY <1>t, <1>f, <2>1, Unsigned DEF L!Clock
      <4>3. CASE L!Beaten
        <5>1. L!Minus(v1, v6.ping) < Period + Late /\ v9.ping <= L!Minus(v1, v6.ping)
          BY <1>c, <1>f, <2>1, <3>3, <4>1, <4>2, <4>3 DEF L!Beaten
        <5>3. L!Beaten'
          BY <2>1, <3>1, <4>1, <4>2, <5>1 DEF L!Beaten
        <5> QED BY <5>3
      <4>4. CASE L!Fresh
        <5>1. L!Fresh'
          BY <1>c, <1>f, <2>1, <3>1, <3>3, <4>1, <4>4 DEF L!Fresh
        <5> QED BY <5>1
      <4>5. CASE L!Early
        <5>1. v1 < Period + Late
          BY <1>c, <1>f, <3>3, <4>1, <4>2, <4>5 DEF L!Early
        <5>2. L!Early'
          BY <1>c, <1>f, <2>1, <3>1, <4>1, <4>2, <4>5, <5>1 DEF L!Early
        <5> QED BY <5>2
      <4> QED BY <1>i, <2>1, <3>5, <4>3, <4>4, <4>5
    <3>6. Pinged'
      BY <2>1, <3>5
    <3> HIDE DEF Links, Stamps, Sinces, Frames, Heard, Pinged, NowIs, Bounded
    <3> QED BY <1>g, <1>t, <2>1, <3>1, <3>2, <3>4, <3>6
  <2> QED BY <1>12, <2>2, <2>3 DEF L!Judge
<1>13. CASE L!Stop
  <2>1. v2' \in Links /\ v2'.at = "backoff" /\ v2'.now = 0 /\ v2'.spent = 0 /\ v5' = "none"
        /\ UNCHANGED <<v1, v3, v4, v6, v7, v8, v9>>
    BY <1>13, <1>a, <1>o DEF L!Stop
  <2>2. Bounded' /\ NowIs'
    BY <1>a, <1>c, <2>1
  <2> HIDE DEF Links, Stamps, Sinces, Frames, Heard, Pinged, NowIs, Bounded
  <2> QED BY <1>n, <1>t, <2>1, <2>2
<1>14. CASE L!Opened \/ L!Closed
  <2>1. v5 \in {"closed", "stamped"} /\ v5' \in {"closed", "flagged"}
        /\ UNCHANGED <<v1, v2, v3, v4, v6, v7, v8, v9>>
    BY <1>14 DEF L!Opened, L!Closed
  <2>2. Bounded' /\ NowIs'
    BY <1>i, <2>1 DEF L!Minus
  <2> HIDE DEF Links, Stamps, Sinces, Frames, Heard, Pinged, NowIs, Bounded
  <2> QED BY <1>n, <1>t, <2>1, <2>2
<1>15. CASE L!Stamped
  <2>1. /\ v5 = "flagged" /\ v5' = "stamped" /\ UNCHANGED <<v1, v2, v3, v4, v7, v8>>
        /\ v6' \in Stamps /\ v6'.ping = 0 /\ v6'.pong = v1
        /\ v9' \in Sinces /\ v9'.ping = 0 /\ v9'.pong = 0
    BY <1>15, <1>t, <1>c DEF L!Stamped, L!Clock
  <2>2. Bounded' /\ NowIs'
    BY <1>i, <2>1 DEF L!Minus
  <2>3. L!Minus(v1', v6'.pong) = 0
    BY <1>t, <2>1, Unsigned
  <2>4. Heard'
    BY <1>c, <1>f, <2>1, <2>3
  <2>5. L!Looked' \in Nat
    BY <1>c, <1>f, <2>1 DEF L!Looked
  <2>6. Pinged'
    BY <2>1, <2>5 DEF L!Fresh
  <2> HIDE DEF Links, Stamps, Sinces, Frames, Heard, Pinged, NowIs, Bounded
  <2> QED BY <1>g, <1>t, <2>1, <2>2, <2>4, <2>6
<1>16. CASE L!Pong
  <2>1. /\ v5 = "stamped" /\ UNCHANGED <<v1, v2, v3, v4, v5, v7, v8>>
        /\ v6' \in Stamps /\ v6'.ping = v6.ping /\ v6'.pong = v1
        /\ v9' \in Sinces /\ v9'.ping = v9.ping /\ v9'.pong = 0
    BY <1>16, <1>t, <1>c DEF L!Pong
  <2>2. Bounded' /\ NowIs'
    BY <1>i, <2>1 DEF L!Minus
  <2>3. L!Minus(v1', v6'.pong) = 0
    BY <1>t, <2>1, Unsigned
  <2>4. Heard'
    BY <1>c, <1>f, <2>1, <2>3
  <2>5. L!Looked' = L!Looked /\ L!Minus(v1', v6'.ping) = L!Minus(v1, v6.ping)
    BY <2>1 DEF L!Looked
  <2>6. Pinged'
    BY <1>i, <2>1, <2>5 DEF L!Beaten, L!Fresh, L!Early
  <2> HIDE DEF Links, Stamps, Sinces, Frames, Heard, Pinged, NowIs, Bounded
  <2> QED BY <1>g, <1>t, <2>1, <2>2, <2>4, <2>6
<1>17. CASE L!Echo \/ L!SendEcho
  <2>1. v8' \in Frames /\ UNCHANGED <<v1, v2, v3, v4, v5, v6, v7, v9>>
    BY <1>17, <1>t DEF L!Echo, L!SendEcho
  <2> HIDE DEF Links, Stamps, Sinces, Frames, Heard, Pinged, NowIs, Bounded
  <2> QED BY <1>k, <1>t, <2>1
<1>18. CASE L!WifiMoves
  <2>1. v7' \in {"up", "down", "stuck"} /\ UNCHANGED <<v1, v2, v3, v4, v5, v6, v8, v9>>
    BY <1>18 DEF L!WifiMoves
  <2> HIDE DEF Links, Stamps, Sinces, Frames, Heard, Pinged, NowIs, Bounded
  <2> QED BY <1>k, <1>t, <2>1
<1>19. CASE UNCHANGED L!vars
  <2>1. UNCHANGED <<v1, v2, v3, v4, v5, v6, v7, v8, v9>>
    BY <1>19 DEF L!vars
  <2> HIDE DEF Links, Stamps, Sinces, Frames, Heard, Pinged, NowIs, Bounded
  <2> QED BY <1>k, <1>t, <2>1
<1> HIDE DEF Links, Stamps, Sinces, Frames, Heard, Pinged, NowIs, Bounded
<1> QED
  BY <1>1, <1>2, <1>3, <1>4, <1>5, <1>6, <1>7, <1>8, <1>9, <1>10, <1>11, <1>12, <1>13, <1>14,
     <1>15, <1>16, <1>17, <1>18, <1>19 DEF L!Next, L!Link, L!Client

\* The bounds on silence and on the time between two heartbeats follow.
LEMMA LinkAlive == L!IInv => L!SilenceIsNoticed /\ L!HeartbeatGoesOn /\ L!NoClientIsLeft
<1> SUFFICES ASSUME L!IInv PROVE L!SilenceIsNoticed /\ L!HeartbeatGoesOn /\ L!NoClientIsLeft
  OBVIOUS
<1>1. /\ Period \in Nat /\ Late \in Nat /\ Delay \in Nat /\ Timeout \in Nat /\ Wrap \in Nat
      /\ v2.spent \in Nat /\ v9.pong \in Nat /\ v9.ping \in Nat
      /\ v1 \in L!Clock /\ v6.ping \in L!Clock
  BY ClockAssumption DEF L!IInv, L!TypeOK
<1>2. L!NoClientIsLeft
  BY DEF L!IInv
<1>3. ASSUME v5 = "stamped", v2.at = "asleep"
      PROVE  v9.pong <= Timeout + Late + Delay /\ v9.ping < Period + 2 * (Late + Delay)
  <2>1. v2.spent <= Delay /\ v9.pong <= Timeout + Late + v2.spent
    BY <1>1, <1>3 DEF L!IInv, L!TypeOK
  <2>2. L!Looked = Late + v2.spent
    BY <1>3 DEF L!Looked
  <2>3. L!Minus(v1, v6.ping) \in Nat
    BY <1>1, Unsigned
  <2>8. v1 \in Nat
    BY <1>1 DEF L!Clock
  <2>4. CASE L!Beaten
    <3>1. v9.ping <= L!Minus(v1, v6.ping) /\ L!Minus(v1, v6.ping) < Period + L!Looked
      BY <1>3, <2>4 DEF L!Beaten
    <3> QED BY <1>1, <2>1, <2>2, <2>3, <3>1
  <2>5. CASE L!Fresh
    <3>1. v9.ping <= L!Looked
      BY <2>5 DEF L!Fresh
    <3>2. Period > 0
      BY ClockAssumption
    <3> QED BY <1>1, <2>1, <2>2, <3>1, <3>2
  <2>6. CASE L!Early
    <3>1. v1 < Period + L!Looked /\ v9.ping <= v1 + Late + Delay
      BY <2>6 DEF L!Early
    <3> QED BY <1>1, <2>1, <2>2, <2>8, <3>1
  <2>7. L!Beaten \/ L!Fresh \/ L!Early
    BY <1>3 DEF L!IInv
  <2> QED BY <1>1, <2>1, <2>4, <2>5, <2>6, <2>7
<1> QED BY <1>2, <1>3 DEF L!SilenceIsNoticed, L!HeartbeatGoesOn

-----------------------------------------------------------------------------
(* The components together.                                                *)

Parts == {"contacts", "group", "galaxy", "notices", "dashboard", "profile", "tidal", "visit", "voice",
          "shell", "desktop", "esp32"}

\* The behaviour is of one component, and in that component's invariant.
Inv ==
  /\ part \in Parts
  /\ part = "contacts" => C!IInv
  /\ part = "group" => G!IInv
  /\ part = "galaxy" => X!IInv
  /\ part = "notices" => N!IInv
  /\ part = "dashboard" => D!IInv
  /\ part = "profile" => P!IInv
  /\ part = "tidal" => T!IInv
  /\ part = "visit" => U!IInv
  /\ part = "voice" => R!IInv
  /\ part = "shell" => S!IInv
  /\ part = "desktop" => E!IInv
  /\ part = "esp32" => L!IInv

\* Each component starts in its invariant.
LEMMA InitInv == Init => Inv
<1>c. C!Init => C!IInv
  <2> SUFFICES ASSUME C!Init PROVE C!IInv
    OBVIOUS
  <2>1. FormTimers \in Nat
    BY BoundsAssumption
  <2>2. C!TypeOK
    BY <2>1 DEF C!Init, C!TypeOK, C!Free, C!Tabs
  <2> QED BY <2>2 DEF C!Init, C!IInv, C!ProgressIsReal, C!Free
<1>g. G!Init => G!IInv
  <2> SUFFICES ASSUME G!Init PROVE G!IInv
    OBVIOUS
  <2>1. \A c \in G!Slots : v3[c] = G!Free
    BY DEF G!Init
  <2>2. G!TypeOK
    <3>1. G!Free = [op |-> G!Free.op, gid |-> G!Free.gid, at |-> G!Free.at,
                    details |-> G!Free.details, members |-> G!Free.members]
      BY DEF G!Free
    <3>2. v3 = [c \in G!Slots |-> [op |-> v3[c].op, gid |-> v3[c].gid, at |-> v3[c].at,
                                   details |-> v3[c].details, members |-> v3[c].members]]
      BY <2>1, <3>1 DEF G!Init
    <3>3. \A c \in G!Slots : v3[c].gid = G!Nobody /\ v3[c].at = "free"
      BY <2>1 DEF G!Free
    <3> QED BY <3>2, <3>3 DEF G!Init, G!TypeOK
  <2>3. \A c \in G!Slots : v3[c].op = "none" /\ v3[c].at = "free"
    BY <2>1 DEF G!Free
  <2> QED BY <2>2, <2>3 DEF G!Init, G!IInv, G!TitleMatchesMembers, G!ProgressIsReal, G!Loads, G!Lists, G!Came
<1>x. X!Init => X!IInv
  BY DEF X!Init, X!IInv, X!TypeOK, X!ProgressIsReal, X!Free
<1>n. N!Init => N!IInv
  BY DEF N!Init, N!IInv, N!TypeOK, N!DotIsHonest, N!BannerIsTimed, N!BadgeIsTrue, N!BannerShown, N!Badge
<1>d. D!Init => D!IInv
  <2> SUFFICES ASSUME D!Init PROVE D!IInv
    OBVIOUS
  <2>1. ThanksTimers \in Nat
    BY BoundsAssumption
  <2>2. D!TypeOK
    <3>1. D!EmptyForm \in [text : BOOLEAN, busy : BOOLEAN, done : BOOLEAN, timers : 0..ThanksTimers]
      BY <2>1 DEF D!EmptyForm
    <3>2. D!Free \in [op : {"none", "load", "poll"} \cup D!Forms, at : {"free", "sent"}, mine : BOOLEAN]
      BY DEF D!Free
    <3> QED BY <3>1, <3>2 DEF D!Init, D!TypeOK
  <2>3. /\ \A f \in D!Forms : v4[f].busy = FALSE /\ v4[f].done = FALSE
        /\ \A c \in D!Slots : v5[c].mine = FALSE
        /\ v3 = FALSE
    BY DEF D!Init, D!EmptyForm, D!Free
  <2> QED BY <2>2, <2>3 DEF D!IInv, D!SuccessFades, D!Answered
<1>p. P!Init => P!IInv
  <2> SUFFICES ASSUME P!Init PROVE P!IInv
    OBVIOUS
  <2> DEFINE m == [P!Free EXCEPT !.op = "mount", !.step = "load", !.at = "sent"]
             CallRec == [op : {"none", "mount", "avatar", "save", "delete", "image", "post"},
                         step : {"none", "load", "upload", "update", "create", "delete"},
                         at : {"free", "sent", "ok", "failed"}, post : SUBSET Posts, got : SUBSET Posts]
  <2>1. P!Free \in CallRec /\ P!Free.op = "none"
    BY DEF P!Free
  <2>2. m \in CallRec /\ m.op = "mount" /\ m.step = "load"
    BY DEF P!Free
  <2>3. 1 \in P!Slots
    BY BoundsAssumption DEF P!Slots
  <2>4. v7 = [c \in P!Slots |-> IF c = 1 THEN m ELSE P!Free]
    BY DEF P!Init
  <2> HIDE DEF m, CallRec
  <2>5. /\ v7 \in [P!Slots -> CallRec] /\ v7[1].step = "load"
        /\ \A c \in P!Slots : v7[c].op \in {"none", "mount"}
    BY <2>1, <2>2, <2>3, <2>4
  <2>6. P!TypeOK
    BY <2>5 DEF P!Init, P!TypeOK, P!Blank, CallRec
  <2>7. \A c \in P!Slots : v7[c].op \notin {"save", "post"}
    BY <2>5
  <2> QED BY <2>3, <2>5, <2>6, <2>7 DEF P!Init, P!IInv
<1>t. T!Init => T!IInv
  <2> SUFFICES ASSUME T!Init PROVE T!IInv
    OBVIOUS
  <2>1. T!Free \in [op : {"none", "feed", "image", "post"}, step : {"none", "mine", "theirs", "upload", "create"},
                    at : {"free", "sent", "back", "failed"}, live : BOOLEAN, with : BOOLEAN,
                    got : SUBSET (Posts \cup {Theirs}), post : SUBSET Posts]
    BY DEF T!Free
  <2>2. T!Unmounted \in [in : BOOLEAN, posts : SUBSET (Posts \cup {Theirs}), loading : BOOLEAN, refreshing : BOOLEAN]
    BY DEF T!Unmounted
  <2>3. T!EmptyForm(FALSE) \in [app : BOOLEAN, some : BOOLEAN, uploading : BOOLEAN, publishing : BOOLEAN]
    BY DEF T!EmptyForm
  <2>4. T!TypeOK
    <3>1. v1 = {} /\ v2 = FALSE /\ v3 = T!Unmounted /\ v4 = T!EmptyForm(FALSE)
          /\ v5 = [c \in T!Slots |-> T!Free]
      BY DEF T!Init
    <3>2. v5 \in [T!Slots -> [op : {"none", "feed", "image", "post"},
                             step : {"none", "mine", "theirs", "upload", "create"}, at : {"free", "sent", "back", "failed"}, live : BOOLEAN, with : BOOLEAN,
                             got : SUBSET (Posts \cup {Theirs}), post : SUBSET Posts]]
      BY <2>1, <3>1
    <3> QED BY <2>2, <2>3, <3>1, <3>2 DEF T!TypeOK
  <2>5. /\ \A c \in T!Slots : v5[c].live = FALSE /\ v5[c].op = "none"
        /\ v3.loading = FALSE /\ v3.refreshing = FALSE /\ v4.publishing = FALSE /\ v4.uploading = FALSE
    BY DEF T!Init, T!Free, T!Unmounted, T!EmptyForm
  <2> QED BY <2>4, <2>5 DEF T!IInv, T!Came
<1>u. U!Init => U!IInv
  <2> SUFFICES ASSUME U!Init PROVE U!IInv
    OBVIOUS
  <2>1. U!Free \in [of : People \cup {U!Nobody}, at : {"free", "sent"}]
    BY DEF U!Free
  <2> QED BY <2>1 DEF U!Init, U!IInv, U!TypeOK, U!LoadingIsReal
<1>r. R!Init => R!IInv
  BY VoiceInit
<1>s. S!Init => S!IInv
  <2> SUFFICES ASSUME S!Init PROVE S!IInv
    OBVIOUS
  <2>1. v5 \in [heard : BOOLEAN, lamp : {"down", "connecting", "up"}, burst : BOOLEAN, pulse : BOOLEAN]
        /\ v5.heard = FALSE
    BY DEF S!Init, S!NoIsland
  <2>2. v3 \in [tab : S!Tabs, open : BOOLEAN, with : {"hall", "peer", "group"}]
    BY DEF S!Init, S!Tabs
  <2>3. S!TypeOK /\ v6 = 0
    <3>1. v2 = "down" /\ v4 = {} /\ v6 = 0
      BY DEF S!Init
    <3>2. v1 \in BOOLEAN
      BY DEF S!Init
    <3>3. v6 \in 0..1 /\ v4 \subseteq S!Windows
      BY <3>1
    <3> QED BY <2>1, <2>2, <3>1, <3>2, <3>3 DEF S!TypeOK
  <2> QED BY <2>1, <2>3 DEF S!IInv, S!LampIsTrue, S!ListenersAreFreed
<1>e. E!Init => E!IInv
  BY ProcsAssumption DEF E!Init, E!IInv, E!TypeOK, E!WindowHasServer, E!Fixed, E!None, E!Stranger
<1> QED BY <1>c, <1>g, <1>x, <1>n, <1>d, <1>p, <1>t, <1>u, <1>r, <1>s, <1>e, LinkInit DEF Init, Inv, Parts

\* A step is one of the behaviour's component, which keeps its invariant.
LEMMA NextInv == Inv /\ [Next]_vars => Inv'
<1> SUFFICES ASSUME Inv, [Next]_vars
             PROVE  Inv'
  OBVIOUS
<1>1. part' = part
  BY DEF Next, vars, Keep6, Keep7, Keep8
<1>2. part = "contacts" => [C!Next]_(C!vars)
  BY DEF Next, vars, C!vars
<1>3. part = "group" => [G!Next]_(G!vars)
  BY DEF Next, vars, G!vars
<1>4. part = "galaxy" => [X!Next]_(X!vars)
  BY DEF Next, vars, X!vars
<1>5. part = "notices" => [N!Next]_(N!vars)
  BY DEF Next, vars, N!vars
<1>6. part = "dashboard" => [D!Next]_(D!vars)
  BY DEF Next, vars, D!vars
<1>7. part = "profile" => [P!Next]_(P!vars)
  BY DEF Next, vars, P!vars
<1>8. part = "tidal" => [T!Next]_(T!vars)
  BY DEF Next, vars, T!vars
<1>9. part = "visit" => [U!Next]_(U!vars)
  BY DEF Next, vars, U!vars
<1>10. part = "voice" => [R!Next]_(R!vars)
  BY DEF Next, vars, R!vars
<1>11. part = "shell" => [S!Next]_(S!vars)
  BY DEF Next, vars, S!vars
<1>12. part = "desktop" => [E!Next]_(E!vars)
  BY DEF Next, vars, E!vars
<1>13. part = "esp32" => [L!Next]_(L!vars)
  BY DEF Next, vars, L!vars
<1> QED
  BY <1>1, <1>2, <1>3, <1>4, <1>5, <1>6, <1>7, <1>8, <1>9, <1>10, <1>11, <1>12, <1>13, ContactsStep,
     GroupStep, GalaxyStep, NoticesStep, DashboardStep, ProfileStep, TidalStep, VisitStep, VoiceStep,
     ShellStep, DesktopStep, LinkStep DEF Inv

\* The components' invariants hold at every moment.
LEMMA InvHolds == Spec => []Inv
  BY InitInv, NextInv, PTL DEF Spec

-----------------------------------------------------------------------------
(* Types, and what stands on screen together.                              *)

\* Every component keeps its types, whatever the order of its clicks, calls and answers.
THEOREM TypeCorrect == Spec => []TypeOK
<1>1. Inv =>
        /\ part \in Parts
        /\ part = "contacts" => C!TypeOK
        /\ part = "group" => G!TypeOK
        /\ part = "galaxy" => X!TypeOK
        /\ part = "notices" => N!TypeOK
        /\ part = "dashboard" => D!TypeOK
        /\ part = "profile" => P!TypeOK
        /\ part = "tidal" => T!TypeOK
        /\ part = "visit" => U!TypeOK
        /\ part = "voice" => R!TypeOK
        /\ part = "shell" => S!TypeOK
        /\ part = "desktop" => E!TypeOK
        /\ part = "esp32" => L!TypeOK
  BY DEF Inv, C!IInv, G!IInv, X!IInv, N!IInv, D!IInv, P!IInv, T!IInv, U!IInv, R!IInv, S!IInv, E!IInv,
     L!IInv
<1>2. Inv => TypeOK
  BY <1>1 DEF Parts, TypeOK
<1> QED BY <1>2, InvHolds, PTL

\* The members under a group's name are that group's, the dot, the banner, the badge, the
\* lamp and the success lines tell the truth, the refs hold the recorder that runs, and a
\* window has the server it loads from.
THEOREM ScreenIsTrueHolds == Spec => []ScreenIsTrue
<1>1. Inv => ScreenIsTrue
  BY DEF Inv, ScreenIsTrue, G!IInv, N!IInv, D!IInv, R!IInv, S!IInv, E!IInv
<1> QED BY <1>1, InvHolds, PTL

-----------------------------------------------------------------------------
(* The spinners.  The invariants say that the handler a flag waits for is  *)

(* one by saying that any two are the same; the property counts them.      *)

\* The components' Cardinality is the one the library's theorems are about.
LEMMA SameCount ==
  ASSUME NEW U1
  PROVE  /\ D!Cardinality(U1) = Cardinality(U1)
         /\ P!Cardinality(U1) = Cardinality(U1)
         /\ T!Cardinality(U1) = Cardinality(U1)
BY Zenon DEF D!Cardinality, P!Cardinality, T!Cardinality, Cardinality

\* A flag that is up exactly when a set has a member, and a set whose members are all the
\* same: the set has the one member the flag stands for, or none.
LEMMA OneOrNone ==
  ASSUME NEW U1, NEW b \in BOOLEAN, b <=> U1 # {}, \A c, d \in U1 : c = d
  PROVE  /\ D!Cardinality(U1) = (IF b THEN 1 ELSE 0)
         /\ P!Cardinality(U1) = (IF b THEN 1 ELSE 0)
         /\ T!Cardinality(U1) = (IF b THEN 1 ELSE 0)
<1>1. CASE U1 = {}
  <2>1. Cardinality(U1) = 0
    BY <1>1, FS_EmptySet
  <2> QED BY <1>1, <2>1, SameCount
<1>2. CASE U1 # {}
  <2>1. PICK c \in U1 : U1 = {c}
    BY <1>2
  <2>2. Cardinality(U1) = 1
    BY <2>1, FS_Singleton
  <2> QED BY <1>2, <2>2, SameCount
<1> QED BY <1>1, <1>2

\* What a handler of the friend lists, the group windows or the mobile contacts disabled
\* waits for a call of that handler, and what the dashboard, the profile page and the feed
\* disabled waits for exactly one; the spinners of these three and of the profile window
\* turn for a load.  The firmware leaves a silent connection, and its heartbeat goes on,
\* whatever the clock does.
THEOREM ProgressIsRealHolds == Spec => []ProgressIsReal
<1>d. ASSUME D!IInv
      PROVE  D!ProgressIsReal
  <2> DEFINE Mine(op) == {c \in D!Slots : D!Answered(c, {op})}
  <2>1. v3 => Mine("load") # {}
    BY <1>d DEF D!IInv
  <2>2. ASSUME NEW f \in D!Forms
        PROVE  D!Cardinality(Mine(f)) = (IF v4[f].busy THEN 1 ELSE 0)
    <3>1. v4[f].busy \in BOOLEAN
      BY <1>d DEF D!IInv, D!TypeOK
    <3>2. v4[f].busy <=> Mine(f) # {}
      BY <1>d DEF D!IInv
    <3>3. \A c, d \in Mine(f) : c = d
      BY <1>d DEF D!IInv
    <3> HIDE DEF Mine
    <3> QED BY <3>1, <3>2, <3>3, OneOrNone
  <2> QED BY <2>1, <2>2, Zenon DEF D!ProgressIsReal
<1>p. ASSUME P!IInv
      PROVE  P!ProgressIsReal
  <2> DEFINE Under(op) == {c \in P!Slots : v7[c].op = op}
  <2>1. \A op \in {"save", "post"} : \A c, d \in Under(op) : c = d
    BY <1>p DEF P!IInv
  <2>2. /\ ("saving" \in v6) \in BOOLEAN /\ ("saving" \in v6 <=> Under("save") # {})
        /\ ("publishing" \in v6) \in BOOLEAN /\ ("publishing" \in v6 <=> Under("post") # {})
    BY <1>p DEF P!IInv
  <2>3. "loading" \in v6 => \E c \in P!Slots : v7[c].step = "load"
    BY <1>p DEF P!IInv
  <2> HIDE DEF Under
  <2>4. P!Cardinality(Under("save")) = (IF "saving" \in v6 THEN 1 ELSE 0)
    BY <2>1, <2>2, OneOrNone
  <2>5. P!Cardinality(Under("post")) = (IF "publishing" \in v6 THEN 1 ELSE 0)
    BY <2>1, <2>2, OneOrNone
  <2> QED BY <2>3, <2>4, <2>5, Zenon DEF P!ProgressIsReal, Under
<1>t. ASSUME T!IInv
      PROVE  T!ProgressIsReal
  <2> DEFINE Under(ops, steps) == {c \in T!Slots : v5[c].live /\ v5[c].op \in ops /\ v5[c].step \in steps}
             Posting == Under({"post"}, {"create", "mine", "theirs"})
             Uploading == Under({"image"}, {"upload"})
  <2>1. v3.loading \/ v3.refreshing => Under({"feed", "post"}, {"mine", "theirs"}) # {}
    BY <1>t DEF T!IInv
  <2>2. v4.publishing \in BOOLEAN /\ v4.uploading \in BOOLEAN
    BY <1>t DEF T!IInv, T!TypeOK
  <2>3. v4.publishing <=> Posting # {}
    BY <1>t DEF T!IInv
  <2>4. v4.uploading <=> Uploading # {}
    BY <1>t DEF T!IInv
  <2>5. (\A c, d \in Posting : c = d) /\ (\A c, d \in Uploading : c = d)
    BY <1>t DEF T!IInv
  <2> HIDE DEF Posting, Uploading
  <2>6. T!Cardinality(Posting) = (IF v4.publishing THEN 1 ELSE 0)
    BY <2>2, <2>3, <2>5, OneOrNone
  <2>7. T!Cardinality(Uploading) = (IF v4.uploading THEN 1 ELSE 0)
    BY <2>2, <2>4, <2>5, OneOrNone
  <2> QED BY <2>1, <2>6, <2>7, Zenon DEF T!ProgressIsReal, Posting, Uploading
<1>1. Inv => ProgressIsReal
  BY <1>d, <1>p, <1>t, LinkAlive DEF Inv, ProgressIsReal, C!IInv, G!IInv, X!IInv, U!IInv
<1> QED BY <1>1, InvHolds, PTL

-----------------------------------------------------------------------------
(* What an answer does to the page.                                        *)

\* The dialog closes on a deletion that came back only in the handler that leaves the chat.
LEMMA RemovedFriendIsLeft ==
  ASSUME C!IInv, [C!Next]_(C!vars)
  PROVE  C!RemovedIsLeft
<1> SUFFICES ASSUME NEW c \in C!Slots, v2[c].op = "delete", v3.dialog = "busy", v3'.dialog = "none",
                    v2[c].got = "ok"
             PROVE  v4' # "peer"
  BY DEF C!RemovedIsLeft, C!Came
<1>1. \A d \in C!Slots : v2[d].op = "delete" => d = c
  BY DEF C!IInv
<1>2. ASSUME NEW d \in C!Slots, C!Deleted(d)
      PROVE  v4' # "peer"
  BY <1>1, <1>2 DEF C!Deleted, C!Came
<1>3. v3' = v3 => FALSE
  OBVIOUS
<1>4. v3 \in [friend : BOOLEAN, request : BOOLEAN, answering : BOOLEAN, dialog : {"none", "ask", "busy"},
              tab : C!Tabs]
  BY DEF C!IInv, C!TypeOK
<1>5. ASSUME NEW d \in C!Slots,
             C!PickTab(d) \/ C!Listed(d) \/ C!Answer(d) \/ C!AnswerRefused(d) \/ C!AnswerListed(d)
      PROVE  v3'.dialog = v3.dialog
  BY <1>4, <1>5 DEF C!PickTab, C!Listed, C!Answer, C!AnswerRefused, C!AnswerListed, C!ShowFriends, C!ShowRequests
<1>6. ASSUME NEW d \in C!Slots, C!ConfirmDelete(d)
      PROVE  FALSE
  BY <1>6 DEF C!ConfirmDelete, C!DialogOffered
<1>7. ~C!AskDelete /\ ~C!CancelDelete
  BY <1>4 DEF C!AskDelete, C!CancelDelete, C!DialogOffered, C!FriendShown, C!Covered
<1>8. ASSUME NEW d \in C!Slots,
             C!Serve(d) \/ C!CallFails(d) \/ C!Fetch(d) \/ C!Refresh(d) \/ C!SubmitForm(d)
               \/ C!AnswerTaken(d) \/ C!FormAnswered(d)
      PROVE  v3' = v3
  BY <1>8 DEF C!Serve, C!CallFails, C!Fetch, C!Refresh, C!SubmitForm, C!AnswerTaken, C!FormAnswered
<1>9. ASSUME C!PeerActs \/ (\E k \in {"hall", "peer"} : C!OpenChat(k)) \/ C!ToggleForm \/ C!TypeName
               \/ C!FormTimer \/ UNCHANGED C!vars
      PROVE  v3' = v3
  BY <1>9 DEF C!PeerActs, C!OpenChat, C!ToggleForm, C!TypeName, C!FormTimer, C!vars
<1> QED BY <1>2, <1>3, <1>5, <1>6, <1>7, <1>8, <1>9 DEF C!Next, C!Return, C!Begin

\* The handler that left a group ends in the hall, with no group under management.
LEMMA LeftGroupIsClosed ==
  ASSUME G!IInv, [G!Next]_(G!vars)
  PROVE  G!LeavingEndsInHall
<1> SUFFICES ASSUME NEW c \in G!Slots, v3[c].op = "list-left", v3'[c].op = "none"
             PROVE  v5' = "hall" /\ v6'.gid = G!Nobody
  BY DEF G!LeavingEndsInHall
<1>t. v3 = [d \in G!Slots |-> v3[d]]
  BY DEF G!IInv, G!TypeOK
<1>v. v6 \in [gid : Groups \cup {G!Nobody}, details : Groups \cup {G!Nobody},
              members : (Groups \cup {G!Nobody}) \X {"out", "in", "muted"}, busy : BOOLEAN]
  BY DEF G!IInv, G!TypeOK
\* the handler that came to its end is the one that left
<1>f. ASSUME NEW d \in G!Slots, NEW r, v3' = [v3 EXCEPT ![d] = r]
      PROVE  d = c
  BY <1>f, <1>t
<1>s. ASSUME NEW d \in G!Slots, NEW o, NEW g, G!Start(d, o, g)
      PROVE  FALSE
  <2>1. v3[d].op = "none"
    BY <1>s DEF G!Start, G!Free
  <2> QED BY <1>f, <1>s, <2>1 DEF G!Start
<1>h. ASSUME NEW d \in G!Slots, NEW o \in {"load+", "load", "list-left", "list-made"}, G!Chain(d, o)
      PROVE  FALSE
  <2>1. d = c
    BY <1>f, <1>h DEF G!Chain
  <2>2. v3'[c] = [G!Free EXCEPT !.op = o, !.gid = v3[c].gid, !.at = "sent"]
    BY <1>h, <1>t, <2>1 DEF G!Chain
  <2>3. v3'[c].op = o
    BY <2>2 DEF G!Free
  <2> QED BY <2>3
<1>e. ASSUME NEW d \in G!Slots, G!Finish(d)
      PROVE  d = c
  BY <1>e, <1>f DEF G!Finish
<1>k. v3' # v3
  OBVIOUS
<1>1. ASSUME NEW d \in G!Slots, G!Left(d)
      PROVE  v5' = "hall" /\ v6'.gid = G!Nobody
  <2>1. G!Finish(d)
    BY <1>1, <1>h DEF G!Left
  <2>2. v3[d].op = "list-left"
    BY <1>e, <2>1
  <2>3. v5' = "hall" /\ v6' = [v6 EXCEPT !.gid = G!Nobody]
    BY <1>1, <1>h, <2>2 DEF G!Left, G!Came, G!Failed
  <2> QED BY <1>v, <2>3
<1>2. ASSUME NEW d \in G!Slots, G!Listed(d) \/ G!Loaded(d) \/ G!NotLoaded(d)
      PROVE  FALSE
  <2>1. G!Finish(d) /\ v3[d].op # "list-left"
    BY <1>2 DEF G!Listed, G!Loaded, G!NotLoaded, G!Came, G!Failed, G!Loads
  <2> QED BY <1>e, <2>1
<1>3. ASSUME NEW d \in G!Slots, G!Changed(d) \/ G!Created(d) \/ G!Invited(d)
      PROVE  FALSE
  <2>1. v3[d].op # "list-left" /\ (G!Finish(d) \/ G!Chain(d, "load") \/ G!Chain(d, "list-made") \/ G!Chain(d, "load+"))
    BY <1>3 DEF G!Changed, G!Created, G!Invited, G!Came, G!Failed
  <2> QED BY <1>e, <1>h, <2>1
<1>4. ASSUME NEW d \in G!Slots,
             G!FetchGroups(d) \/ G!OpenManager(d) \/ G!Invite(d) \/ G!Kick(d) \/ G!Mute(d) \/ G!Leave(d) \/ G!Submit(d)
      PROVE  FALSE
  BY <1>4, <1>s DEF G!FetchGroups, G!OpenManager, G!Invite, G!Kick, G!Mute, G!Leave, G!Submit
\* the server and the network leave its operation alone
<1>5. ASSUME NEW d \in G!Slots, G!Serve(d) \/ G!ServeDetails(d) \/ G!ServeMembers(d)
      PROVE  FALSE
  <2>1. v3[d] = [op |-> v3[d].op, gid |-> v3[d].gid, at |-> v3[d].at, details |-> v3[d].details,
                 members |-> v3[d].members]
    BY DEF G!IInv, G!TypeOK
  <2>2. \/ v3' = [v3 EXCEPT ![d] = [v3[d] EXCEPT !.at = "back"]]
        \/ v3' = [v3 EXCEPT ![d] = [v3[d] EXCEPT !.at = "back", !.members = v1]]
        \/ v3' = [v3 EXCEPT ![d] = [v3[d] EXCEPT !.details = v3[d].gid]]
        \/ v3' = [v3 EXCEPT ![d] = [v3[d] EXCEPT !.members = v2[v3[d].gid]]]
    BY <1>5 DEF G!Serve, G!ServeDetails, G!ServeMembers
  <2>3. d = c
    BY <1>f, <2>2
  <2>4. v3'[c].op = v3[c].op
    BY <1>t, <2>1, <2>2, <2>3
  <2> QED BY <2>4
<1>6. ASSUME NEW d \in G!Slots, G!CallFails(d)
      PROVE  FALSE
  <2>1. v3' = [v3 EXCEPT ![d] = [G!Free EXCEPT !.op = v3[d].op, !.gid = v3[d].gid, !.at = "failed"]]
    BY <1>6 DEF G!CallFails
  <2>2. [G!Free EXCEPT !.op = v3[d].op, !.gid = v3[d].gid, !.at = "failed"].op = v3[d].op
    BY DEF G!Free
  <2>3. d = c
    BY <1>f, <2>1
  <2> QED BY <1>t, <2>1, <2>2, <2>3
<1>7. ASSUME G!OpenGroup \/ G!CloseManager \/ G!OpenForm \/ G!CloseForm \/ G!FormTimer \/ UNCHANGED G!vars
      PROVE  FALSE
  <2>1. v3' = v3
    BY <1>7 DEF G!OpenGroup, G!CloseManager, G!OpenForm, G!CloseForm, G!FormTimer, G!vars
  <2> QED BY <2>1, <1>k
<1> QED BY <1>1, <1>2, <1>3, <1>4, <1>5, <1>6, <1>7 DEF G!Next, G!Return, G!Begin

\* A handler of the profile page that ends in a failure leaves the draft as it is.
LEMMA FailureCostsNoDraft ==
  ASSUME P!IInv, [P!Next]_(P!vars)
  PROVE  P!FailureKeepsDraft
<1> SUFFICES ASSUME NEW c \in P!Slots, v7[c].at = "failed", v7'[c] = P!Free
             PROVE  v4' = v4
  BY DEF P!FailureKeepsDraft
<1>1. v7[c] # P!Free
  BY DEF P!Free
<1>2. v7 = [d \in P!Slots |-> v7[d]]
  BY DEF P!IInv, P!TypeOK
<1>3. ASSUME P!TypePost \/ P!PickKind \/ P!TypeBv \/ P!ToggleEdit
      PROVE  FALSE
  BY <1>1, <1>3 DEF P!TypePost, P!PickKind, P!TypeBv, P!ToggleEdit
\* only the call c has come to its end
<1>4. ASSUME NEW d \in P!Slots, P!ImageUploaded(d) \/ P!Published(d)
      PROVE  FALSE
  <2>1. v7[d].at = "ok"
    BY <1>4 DEF P!ImageUploaded, P!Published, P!Came
  <2>2. d # c
    BY <2>1
  <2>3. v7'[c] = v7[c]
    BY <1>2, <1>4, <2>2 DEF P!ImageUploaded, P!Published, P!Finish, P!Load
  <2> QED BY <1>1, <2>3
<1>5. ASSUME NEW d \in P!Slots,
             \/ P!Serve(d) \/ P!CallFails(d) \/ P!LoadEnds(d) \/ P!HandlerFails(d) \/ P!PickAvatar(d)
             \/ P!AvatarUploaded(d) \/ P!AvatarSet(d) \/ P!Save(d) \/ P!Saved(d) \/ P!DeletePost(d)
             \/ P!PostDeleted(d) \/ P!PickImage(d) \/ P!Publish(d)
      PROVE  v4' = v4
  BY <1>5 DEF P!Serve, P!CallFails, P!LoadEnds, P!HandlerFails, P!PickAvatar, P!AvatarUploaded, P!AvatarSet,
              P!Save, P!Saved, P!DeletePost, P!PostDeleted, P!PickImage, P!Publish, P!page
<1>6. CASE UNCHANGED P!vars
  BY <1>6 DEF P!vars
<1> QED BY <1>3, <1>4, <1>5, <1>6 DEF P!Next

\* The publish button of the profile page is freed by the load that lists the post.
LEMMA PublishedPostIsListed ==
  ASSUME P!IInv, [P!Next]_(P!vars)
  PROVE  P!PublishedIsListed
<1> SUFFICES ASSUME NEW c \in P!Slots, v7[c].op = "post", v7[c].at # "failed",
                    "publishing" \in v6, "publishing" \notin v6'
             PROVE  v7[c].post \cap v1 \subseteq v3'
  BY DEF P!PublishedIsListed
<1>1. \A d \in P!Slots : v7[d].op = "post" => d = c
  BY DEF P!IInv
<1>2. v7[c].step = "load" /\ v7[c].at = "ok" => v7[c].post \cap v1 \subseteq v7[c].got
  BY DEF P!IInv
<1>3. ASSUME NEW d \in P!Slots, P!LoadEnds(d)
      PROVE  v7[c].post \cap v1 \subseteq v3'
  <2>1. v7[d].op = "post"
    BY <1>3 DEF P!LoadEnds, P!Leaves
  <2>2. d = c
    BY <1>1, <2>1
  <2> QED BY <1>2, <1>3, <2>2 DEF P!LoadEnds
<1>4. ASSUME NEW d \in P!Slots, P!HandlerFails(d)
      PROVE  FALSE
  <2>1. v7[d].op = "post" /\ v7[d].at = "failed"
    BY <1>4 DEF P!HandlerFails, P!Leaves
  <2> QED BY <1>1, <2>1
<1>5. ASSUME NEW d \in P!Slots,
             \/ P!Serve(d) \/ P!CallFails(d) \/ P!PickAvatar(d) \/ P!AvatarUploaded(d)
             \/ P!DeletePost(d) \/ P!PickImage(d) \/ P!ImageUploaded(d)
      PROVE  v6' = v6
  BY <1>5 DEF P!Serve, P!CallFails, P!PickAvatar, P!AvatarUploaded, P!DeletePost, P!PickImage,
              P!ImageUploaded, P!page
<1>6. ASSUME NEW d \in P!Slots,
             P!AvatarSet(d) \/ P!Save(d) \/ P!Saved(d) \/ P!PostDeleted(d) \/ P!Publish(d) \/ P!Published(d)
      PROVE  v6 \subseteq v6'
  BY <1>6 DEF P!AvatarSet, P!Save, P!Saved, P!PostDeleted, P!Publish, P!Published, P!Load
<1>7. ASSUME P!TypePost \/ P!PickKind \/ P!TypeBv \/ P!ToggleEdit \/ UNCHANGED P!vars
      PROVE  v6' = v6
  BY <1>7 DEF P!TypePost, P!PickKind, P!TypeBv, P!ToggleEdit, P!vars
<1> QED BY <1>3, <1>4, <1>5, <1>6, <1>7 DEF P!Next

\* The publish button of the feed is freed by the load that brings the post.
LEMMA PublishedPostIsInFeed ==
  ASSUME T!IInv, [T!Next]_(T!vars)
  PROVE  T!PublishedIsListed
<1> SUFFICES ASSUME NEW c \in T!Slots, v5[c].op = "post", v5[c].live, T!Gathered(c),
                    ~(v5[c].step = "mine" /\ v5[c].at = "failed"), v4.publishing, ~v4'.publishing, v3'.in
             PROVE  v5[c].post \subseteq v3'.posts
  BY DEF T!PublishedIsListed
<1>1. \A d \in T!Slots : v5[d].op = "post" /\ v5[d].live => d = c
  BY DEF T!IInv
<1>2. v5[c].post \subseteq v5[c].got
  BY DEF T!IInv, T!Gathered, T!Came
<1>t. v3 \in [in : BOOLEAN, posts : SUBSET (Posts \cup {Theirs}), loading : BOOLEAN, refreshing : BOOLEAN]
  BY DEF T!IInv, T!TypeOK
<1>u. v4 \in [app : BOOLEAN, some : BOOLEAN, uploading : BOOLEAN, publishing : BOOLEAN]
  BY DEF T!IInv, T!TypeOK
<1>3. ASSUME NEW d \in T!Slots, T!FeedComes(d)
      PROVE  v5[c].post \subseteq v3'.posts
  <2>1. v5[d].op = "post" /\ v5[d].live
    BY <1>3 DEF T!FeedComes
  <2>2. d = c
    BY <1>1, <2>1
  <2>3. v3' = [v3 EXCEPT !.loading = FALSE, !.refreshing = FALSE, !.posts = v5[c].got]
    BY <1>3, <2>2 DEF T!FeedComes
  <2> QED BY <1>2, <1>t, <2>3
<1>4. ASSUME NEW d \in T!Slots, T!NotPublished(d)
      PROVE  FALSE
  <2>1. v5[d].op = "post" /\ v5[d].live /\ v5[d].step = "create"
    BY <1>4 DEF T!NotPublished, T!Came
  <2>2. d = c
    BY <1>1, <2>1
  <2> QED BY <2>1, <2>2 DEF T!Gathered
<1>5. ASSUME T!Unmount
      PROVE  FALSE
  BY <1>5 DEF T!Unmount, T!Unmounted
<1>6. ASSUME NEW d \in T!Slots,
             \/ T!Mount(d) \/ T!FriendsChange(d) \/ T!Refresh(d) \/ T!Serve(d) \/ T!CallFails(d) \/ T!AskFriend(d)
      PROVE  v4' = v4
  BY <1>6 DEF T!Mount, T!FriendsChange, T!Refresh, T!Serve, T!CallFails, T!AskFriend
<1>7. ASSUME T!FriendPosts \/ UNCHANGED T!vars
      PROVE  v4' = v4
  BY <1>7 DEF T!FriendPosts, T!vars
<1>8. ASSUME T!OpenByIsland \/ T!CloseComposer \/ T!Draft
      PROVE  v4'.publishing = v4.publishing
  BY <1>8, <1>u DEF T!OpenByIsland, T!CloseComposer, T!Draft
<1>9. ASSUME NEW d \in T!Slots, T!PickImage(d) \/ T!ImageComes(d) \/ T!Published(d)
      PROVE  v4'.publishing = v4.publishing
  BY <1>9, <1>u DEF T!PickImage, T!ImageComes, T!Published
<1>10. ASSUME NEW d \in T!Slots, T!Publish(d)
       PROVE  FALSE
  BY <1>10 DEF T!Publish, T!PublishOffered
<1> QED BY <1>3, <1>4, <1>5, <1>6, <1>7, <1>8, <1>9, <1>10 DEF T!Next

\* Chat and friend request go to the user the window was last opened for.
LEMMA ButtonsActOnAsked ==
  ASSUME [U!Next]_(U!vars)
  PROVE  U!ActsOnAsked
<1>1. ASSUME U!StartChat
      PROVE  U!ActsOnAsked
  BY <1>1 DEF U!StartChat, U!ChatOffered, U!ActsOnAsked
<1>2. ASSUME U!AddFriend
      PROVE  U!ActsOnAsked
  BY <1>2 DEF U!AddFriend, U!ActsOnAsked
<1>3. ASSUME U!GoHome
      PROVE  U!ActsOnAsked
  BY <1>3 DEF U!GoHome, U!ActsOnAsked
<1>4. ASSUME NEW l \in U!Slots, U!Loaded(l) \/ U!NotLoaded(l) \/ \E u \in People : U!Ask(l, u)
      PROVE  UNCHANGED <<v6, v7>>
  BY <1>4 DEF U!Loaded, U!NotLoaded, U!Ask
<1>5. ASSUME U!Close \/ U!Zoom \/ U!Unzoom \/ (\E u \in People : U!FriendsChange(u)) \/ UNCHANGED U!vars
      PROVE  UNCHANGED <<v6, v7>>
  BY <1>5 DEF U!Close, U!Zoom, U!Unzoom, U!FriendsChange, U!vars
<1>6. ASSUME UNCHANGED <<v6, v7>>
      PROVE  U!ActsOnAsked
  BY <1>6 DEF U!ActsOnAsked
<1> QED BY <1>1, <1>2, <1>3, <1>4, <1>5, <1>6 DEF U!Next

\* A recorder whose sound was sent is over: the button, the minute and its repeats stop it
\* no more.
LEMMA RecordingGoesOutOnce ==
  ASSUME R!IInv, [R!Next]_(R!vars)
  PROVE  R!SentOnce
<1>1. v9 \in [R!Slots -> 0..2] /\ \A r \in R!Slots : v9[r] # 0 => v2[r].at = "off"
  BY DEF R!IInv, R!TypeOK
<1>2. ASSUME NEW r \in R!Slots, R!Uploaded(r)
      PROVE  R!SentOnce
  <2>1. v9[r] = 0 /\ \E n \in {0, 1} : v9' = [v9 EXCEPT ![r] = IF @ < 2 THEN @ + n ELSE @]
    BY <1>1, <1>2 DEF R!Uploaded
  <2>2. \A s \in R!Slots : s # r => v9'[s] = v9[s]
    BY <1>1, <2>1
  <2> QED BY <2>1, <2>2 DEF R!SentOnce
<1>3. ASSUME \/ R!Open \/ R!Cancel \/ R!StopAndSend \/ UNCHANGED R!vars
             \/ \E r \in R!Slots : R!Granted(r) \/ R!Denied(r)
      PROVE  v9' = v9
  BY <1>3 DEF R!Open, R!Cancel, R!StopAndSend, R!Granted, R!Denied, R!vars
<1>4. ASSUME v9' = v9
      PROVE  R!SentOnce
  BY <1>4 DEF R!SentOnce
<1> QED BY <1>2, <1>3, <1>4 DEF R!Next, R!SendButton, R!MinuteOver

\* A removed friend's and a left group's conversation is left, a failed call costs no
\* draft, a published post is listed when its form is free again, the buttons of a profile
\* act on the user it was opened for, and no recording goes out a second time.
THEOREM AnswersAreMindedHolds == Spec => AnswersAreMinded
<1>1. Inv /\ [Next]_vars =>
        [/\ part = "contacts" => C!RemovedIsLeft
         /\ part = "group" => G!LeavingEndsInHall
         /\ part = "profile" => P!FailureKeepsDraft /\ P!PublishedIsListed
         /\ part = "tidal" => T!PublishedIsListed
         /\ part = "visit" => U!ActsOnAsked
         /\ part = "voice" => R!SentOnce]_vars
  <2> SUFFICES ASSUME Inv, [Next]_vars
               PROVE  /\ part = "contacts" => C!RemovedIsLeft
                      /\ part = "group" => G!LeavingEndsInHall
                      /\ part = "profile" => P!FailureKeepsDraft /\ P!PublishedIsListed
                      /\ part = "tidal" => T!PublishedIsListed
                      /\ part = "visit" => U!ActsOnAsked
                      /\ part = "voice" => R!SentOnce
    OBVIOUS
  <2>1. part = "contacts" => C!IInv /\ [C!Next]_(C!vars)
    BY DEF Inv, Next, vars, C!vars
  <2>2. part = "group" => G!IInv /\ [G!Next]_(G!vars)
    BY DEF Inv, Next, vars, G!vars
  <2>3. part = "profile" => P!IInv /\ [P!Next]_(P!vars)
    BY DEF Inv, Next, vars, P!vars
  <2>4. part = "tidal" => T!IInv /\ [T!Next]_(T!vars)
    BY DEF Inv, Next, vars, T!vars
  <2>5. part = "visit" => [U!Next]_(U!vars)
    BY DEF Next, vars, U!vars
  <2>6. part = "voice" => R!IInv /\ [R!Next]_(R!vars)
    BY DEF Inv, Next, vars, R!vars
  <2> QED BY <2>1, <2>2, <2>3, <2>4, <2>5, <2>6, RemovedFriendIsLeft, LeftGroupIsClosed, FailureCostsNoDraft,
             PublishedPostIsListed, PublishedPostIsInFeed, ButtonsActOnAsked, RecordingGoesOutOnce
<1> QED BY <1>1, InvHolds, PTL DEF Spec, AnswersAreMinded

-----------------------------------------------------------------------------
(* MCSocial: the friendship of a pair, or the membership of a group, under *)
(* the same side.                                                          *)

\* The pair's rows, the router's verdict and the calls keep their types.
LEMMA FriendshipStep ==
  ASSUME F!TypeOK, [F!Next]_(F!vars)
  PROVE  F!TypeOK'
<1> DEFINE CallRec == [op : {"none", "apply", "accept", "reject", "delete"}, who : F!Both,
                       at : {"free", "sent", "write", "drop"}]
           CallSet == [F!Slots -> CallRec]
           Rows == [st : {"none", "pending", "accepted", "rejected", "deleted"}, by : SUBSET F!Both]
           Verdicts == {"none", "allow", "deny"}
           Gates == [at : {"idle", "add"}, seen : {"allow", "deny"}]
<1>t. row \in Rows /\ pairCache \in Verdicts /\ pairGate \in Gates /\ pairCall \in CallSet
  BY DEF F!TypeOK
<1>n. F!NoFrame \in Gates
  BY DEF F!NoFrame
<1>a. ASSUME NEW c \in F!Slots, NEW at \in {"write", "drop"}, F!Advance(c, at)
      PROVE  pairCall' \in CallSet
  BY <1>a, <1>t DEF F!Advance
<1>f. ASSUME NEW c \in F!Slots, F!Finish(c)
      PROVE  pairCall' \in CallSet
  <2>1. F!Free \in CallRec
    BY DEF F!Free, F!Both
  <2> QED BY <1>f, <1>t, <2>1 DEF F!Finish
<1>w. ASSUME NEW c \in F!Slots
      PROVE  pairCall[c].who \in F!Both
  BY <1>t
<1> SUFFICES row' \in Rows /\ pairCache' \in Verdicts /\ pairGate' \in Gates /\ pairCall' \in CallSet
  BY DEF F!TypeOK, F!Both, F!Slots
<1> HIDE DEF CallSet
<1>1. ASSUME NEW c \in F!Slots, F!Call(c)
      PROVE  row' = row /\ pairCache' = pairCache /\ pairGate' = pairGate /\ pairCall' \in CallSet
  BY <1>1, <1>t DEF F!Call, CallSet
<1>2. ASSUME NEW c \in F!Slots, F!Refuse(c)
      PROVE  row' = row /\ pairCache' = pairCache /\ pairGate' = pairGate /\ pairCall' \in CallSet
  BY <1>2, <1>f DEF F!Refuse
<1>3. ASSUME NEW c \in F!Slots, F!ApplyCheck(c)
      PROVE  row' = row /\ pairCache' = pairCache /\ pairGate' = pairGate /\ pairCall' \in CallSet
  BY <1>3, <1>2, <1>a DEF F!ApplyCheck
<1>4. ASSUME NEW c \in F!Slots, F!ApplyWrite(c)
      PROVE  row' \in Rows /\ pairCache' = pairCache /\ pairGate' = pairGate /\ pairCall' \in CallSet
  BY <1>4, <1>a, <1>w DEF F!ApplyWrite
<1>5. ASSUME NEW c \in F!Slots, F!Respond(c)
      PROVE  row' \in Rows /\ pairCache' = pairCache /\ pairGate' = pairGate /\ pairCall' \in CallSet
  BY <1>5, <1>2, <1>a, <1>t DEF F!Respond
<1>6. ASSUME NEW c \in F!Slots, F!Delete(c)
      PROVE  row' \in Rows /\ pairCache' = pairCache /\ pairGate' = pairGate /\ pairCall' \in CallSet
  BY <1>6, <1>2, <1>a, <1>t DEF F!Delete
<1>7. ASSUME NEW c \in F!Slots, F!Drop(c)
      PROVE  row' = row /\ pairCache' = "none" /\ pairGate' = pairGate /\ pairCall' \in CallSet
  BY <1>7, <1>f DEF F!Drop
<1>8. CASE F!Expire
  BY <1>8, <1>t DEF F!Expire
<1>9. CASE F!GateReads
  BY <1>9, <1>t DEF F!GateReads
<1>10. CASE F!GateAdds \/ F!SignalingDenies
  BY <1>10, <1>t, <1>n DEF F!GateAdds, F!SignalingDenies
<1>11. CASE UNCHANGED F!vars
  BY <1>11, <1>t DEF F!vars
<1> HIDE DEF Rows, Verdicts, Gates
<1>12. "none" \in Verdicts
  BY DEF Verdicts
<1> QED
  BY <1>t, <1>1, <1>3, <1>4, <1>5, <1>6, <1>7, <1>8, <1>9, <1>10, <1>11, <1>12
  DEF F!Next, F!Serve

\* The group's rows, the router's verdict on one user and the calls keep their types.
LEMMA MembershipStep ==
  ASSUME M!TypeOK, [M!Next]_(M!vars)
  PROVE  M!TypeOK'
<1> DEFINE CallRec == [op : {"none", "invite", "join", "leave", "kick", "transfer", "admin", "member", "dismiss"},
                       by : Users, on : Users, at : {"free", "write", "drop"}, hit : BOOLEAN]
           CallSet == [M!Slots -> CallRec]
           Roles == [Users -> {"none", "member", "admin", "owner"}]
           Verdicts == {"none", "allow", "deny"}
           Gates == [at : {"idle", "add"}, seen : {"allow", "deny"}]
<1>t. /\ role \in Roles /\ owner \in Users /\ active \in BOOLEAN
      /\ cache \in Verdicts /\ gate \in Gates /\ call \in CallSet
  BY DEF M!TypeOK
<1>n. M!NoFrame \in Gates
  BY DEF M!NoFrame
<1>f. ASSUME NEW c \in M!Slots, M!Finish(c)
      PROVE  call' \in CallSet
  <2>1. M!Free \in CallRec
    BY UsersAssumption DEF M!Free
  <2> QED BY <1>f, <1>t, <2>1 DEF M!Finish
<1>d. ASSUME NEW c \in M!Slots, NEW b, M!ThenDrop(c, b)
      PROVE  call' \in CallSet
  <2>1. CASE call' = [call EXCEPT ![c].at = "drop"]
    BY <2>1, <1>t
  <2> QED BY <1>d, <1>f, <2>1 DEF M!ThenDrop
<1>o. ASSUME NEW c \in M!Slots
      PROVE  call[c].on \in Users
  BY <1>t
<1> SUFFICES /\ role' \in Roles /\ owner' \in Users /\ active' \in BOOLEAN
             /\ cache' \in Verdicts /\ gate' \in Gates /\ call' \in CallSet
  BY DEF M!TypeOK, M!Slots
<1> HIDE DEF CallSet
<1>1. ASSUME NEW c \in M!Slots, M!Check(c)
      PROVE  UNCHANGED <<role, owner, active, cache, gate>> /\ call' \in CallSet
  <2>1. UNCHANGED <<role, owner, active, cache, gate>>
    BY <1>1 DEF M!Check, M!group
  <2>2. PICK op \in {"invite", "join", "leave", "kick", "transfer", "admin", "member", "dismiss"},
             by \in Users, on \in Users :
          /\ call[c] = M!Free /\ \A d \in M!Slots : call[d] = M!Free => c <= d
          /\ M!May(op, by, on)
          /\ call' = [call EXCEPT ![c] = [op |-> op, by |-> IF op = "transfer" THEN by ELSE on, on |-> on,
                                          at |-> "write", hit |-> op = "dismiss" /\ M!Member(Watched)]]
          /\ UNCHANGED <<M!group, cache, gate>>
    BY <1>1, Zenon DEF M!Check
  <2> DEFINE b == op = "dismiss" /\ M!Member(Watched)
             u == IF op = "transfer" THEN by ELSE on
             r == [op |-> op, by |-> u, on |-> on, at |-> "write", hit |-> b]
  <2>3. u \in Users /\ b \in BOOLEAN
    OBVIOUS
  <2>4. call' = [call EXCEPT ![c] = r]
    BY <2>2
  <2> HIDE DEF b, u
  <2>5. r \in CallRec
    BY <2>3
  <2> HIDE DEF CallRec, r
  <2>6. call' \in CallSet
    BY <1>t, <2>4, <2>5 DEF CallSet
  <2> QED BY <2>1, <2>6
<1>2. ASSUME NEW c \in M!Slots, M!AddMember(c)
      PROVE  role' \in Roles /\ UNCHANGED <<owner, active, cache, gate>> /\ call' \in CallSet
  BY <1>2, <1>t, <1>f, <1>d, <1>o DEF M!AddMember, M!group
<1>3. ASSUME NEW c \in M!Slots, M!Remove(c)
      PROVE  role' \in Roles /\ UNCHANGED <<owner, active, cache, gate>> /\ call' \in CallSet
  BY <1>3, <1>t, <1>d, <1>o DEF M!Remove
<1>4. ASSUME NEW c \in M!Slots, M!Transfer(c)
      PROVE  role' \in Roles /\ owner' \in Users /\ UNCHANGED <<active, cache, gate>> /\ call' \in CallSet
  BY <1>4, <1>t, <1>f, <1>o DEF M!Transfer
<1>5. ASSUME NEW c \in M!Slots, M!SetRole(c)
      PROVE  role' \in Roles /\ UNCHANGED <<owner, active, cache, gate>> /\ call' \in CallSet
  <2>1. call[c].op \in {"admin", "member"}
    BY <1>5 DEF M!SetRole, M!Writes
  <2> QED BY <1>5, <1>t, <1>f, <2>1 DEF M!SetRole
<1>6. ASSUME NEW c \in M!Slots, M!Dismiss(c)
      PROVE  role' \in Roles /\ active' = FALSE /\ UNCHANGED <<owner, cache, gate>> /\ call' \in CallSet
  BY <1>6, <1>d DEF M!Dismiss
<1>7. ASSUME NEW c \in M!Slots, M!Drop(c)
      PROVE  UNCHANGED <<role, owner, active, gate>> /\ cache' = "none" /\ call' \in CallSet
  BY <1>7, <1>f DEF M!Drop, M!group
<1>8. CASE M!Expire
  BY <1>8, <1>t DEF M!Expire, M!group
<1>9. CASE M!GateReads
  BY <1>9, <1>t DEF M!GateReads, M!group
<1>10. CASE M!GateAdds
  BY <1>10, <1>t, <1>n DEF M!GateAdds, M!group
<1>11. CASE UNCHANGED M!vars
  BY <1>11, <1>t DEF M!vars
<1>12. "none" \in Verdicts /\ FALSE \in BOOLEAN
  OBVIOUS
<1> HIDE DEF Roles, Verdicts, Gates
<1> QED
  BY <1>t, <1>1, <1>2, <1>3, <1>4, <1>5, <1>6, <1>7, <1>8, <1>9, <1>10, <1>11, <1>12
  DEF M!Next, M!Write

\* Both components keep their types, whatever the order of calls, frames and lapses.
THEOREM SocialTypeCorrect == SocialSpec => []SocialTypeOK
<1>1. SocialInit => SocialTypeOK
  <2> SUFFICES ASSUME F!Init, M!Init
               PROVE  F!TypeOK /\ M!TypeOK
    BY DEF SocialInit, SocialTypeOK
  <2>1. F!TypeOK
    <3>1. F!Free \in [op : {"none", "apply", "accept", "reject", "delete"}, who : F!Both,
                             at : {"free", "sent", "write", "drop"}]
      BY DEF F!Free, F!Both
    <3> QED BY <3>1 DEF F!Init, F!TypeOK, F!NoFrame
  <2>2. M!TypeOK
    <3>1. M!Free \in [op : {"none", "invite", "join", "leave", "kick", "transfer", "admin", "member", "dismiss"},
                             by : Users, on : Users, at : {"free", "write", "drop"}, hit : BOOLEAN]
      BY UsersAssumption DEF M!Free
    <3> QED BY <3>1, UsersAssumption DEF M!Init, M!TypeOK, M!NoFrame
  <2> QED BY <2>1, <2>2
<1>2. SocialTypeOK /\ [SocialNext]_(svars) => SocialTypeOK'
  <2> SUFFICES ASSUME F!TypeOK, M!TypeOK, [SocialNext]_(svars)
               PROVE  F!TypeOK' /\ M!TypeOK'
    BY DEF SocialTypeOK
  <2>1. [F!Next]_(F!vars)
    BY DEF SocialNext, svars, fvars, F!vars
  <2>2. [M!Next]_(M!vars)
    BY DEF SocialNext, svars, mvars, M!vars
  <2> QED BY <2>1, <2>2, FriendshipStep, MembershipStep
<1> QED BY <1>1, <1>2, PTL DEF SocialSpec

\* A group with no new member, or with one more when there was room, is within its limit.
LEMMA StaysWithin ==
  ASSUME NEW Old \in SUBSET Users, NEW More \in SUBSET Users, Cardinality(Old) <= MaxMembers,
         \/ More \subseteq Old
         \/ Cardinality(Old) < MaxMembers /\ \E u \in Users : More \subseteq Old \cup {u}
  PROVE  Cardinality(More) <= MaxMembers
<1>1. IsFiniteSet(Old) /\ Cardinality(Old) \in Nat
  BY UsersAssumption, FS_Subset, FS_CardinalityType
<1>2. CASE More \subseteq Old
  <2>1. Cardinality(More) <= Cardinality(Old) /\ Cardinality(More) \in Nat
    BY <1>1, <1>2, FS_Subset, FS_CardinalityType
  <2> QED BY <1>1, <2>1, RoomAssumption
<1>3. ASSUME Cardinality(Old) < MaxMembers, NEW u \in Users, More \subseteq Old \cup {u}
      PROVE  Cardinality(More) <= MaxMembers
  <2>1. IsFiniteSet(Old \cup {u}) /\ Cardinality(Old \cup {u}) <= Cardinality(Old) + 1
    <3>1. IsFiniteSet(Old \cup {u})
      BY <1>1, FS_AddElement, Zenon
    <3>2. Cardinality(Old \cup {u}) = IF u \in Old THEN Cardinality(Old) ELSE Cardinality(Old) + 1
      BY <1>1, FS_AddElement, Zenon
    <3> QED BY <1>1, <3>1, <3>2
  <2>2. Cardinality(Old \cup {u}) \in Nat /\ Cardinality(More) \in Nat
    BY <1>3, <2>1, FS_Subset, FS_CardinalityType
  <2>3. Cardinality(More) <= Cardinality(Old \cup {u})
    BY <1>3, <2>1, FS_Subset
  <2> QED BY <1>1, <1>3, <2>1, <2>2, <2>3, RoomAssumption
<1> QED BY <1>2, <1>3

\* Membership's Cardinality is that of the library.
LEMMA MembersCard ==
  ASSUME NEW U1
  PROVE  M!Cardinality(U1) = Cardinality(U1)
BY Zenon DEF M!Cardinality, Cardinality

\* Whatever was checked before, no transaction takes the group past its limit: the one
\* that adds a member counts again, the others add nobody.
LEMMA WithinLimitStep ==
  ASSUME M!TypeOK, M!WithinLimit, [M!Next]_(M!vars)
  PROVE  M!WithinLimit'
<1> DEFINE Roles == [Users -> {"none", "member", "admin", "owner"}]
           Added == \E u \in Users : M!Members' \subseteq M!Members \cup {u}
<1>t. role \in Roles
  BY DEF M!TypeOK
<1>o. ASSUME NEW c \in M!Slots
      PROVE  call[c].on \in Users
  BY <1>o DEF M!TypeOK
<1> SUFFICES \/ M!Members' \subseteq M!Members
             \/ Cardinality(M!Members) < MaxMembers /\ Added
  <2>1. M!Members \in SUBSET Users /\ M!Members' \in SUBSET Users
    BY DEF M!Members
  <2>2. Cardinality(M!Members) <= MaxMembers
    BY MembersCard DEF M!WithinLimit
  <2>3. Cardinality(M!Members') <= MaxMembers
    BY <2>1, <2>2, StaysWithin
  <2> QED BY MembersCard, <2>3 DEF M!WithinLimit
<1>1. ASSUME NEW c \in M!Slots, M!AddMember(c)
      PROVE  \/ M!Members' \subseteq M!Members
             \/ Cardinality(M!Members) < MaxMembers /\ Added
  <2>1. CASE UNCHANGED M!group
    BY <2>1 DEF M!group, M!Members, M!Member
  <2>2. CASE ~(M!Cardinality(M!Members) >= MaxMembers) /\ role' = [role EXCEPT ![call[c].on] = "member"]
    <3>1. Cardinality(M!Members) < MaxMembers
      <4>1. Cardinality(M!Members) \in Nat
        BY UsersAssumption, FS_Subset, FS_CardinalityType DEF M!Members
      <4> QED BY MembersCard, <2>2, <4>1, RoomAssumption
    <3>2. M!Members' \subseteq M!Members \cup {call[c].on}
      BY <1>t, <2>2 DEF M!Members, M!Member
    <3> QED BY <1>o, <3>1, <3>2
  <2> QED BY <1>1, <2>1, <2>2 DEF M!AddMember
<1>2. ASSUME NEW c \in M!Slots, M!Remove(c)
      PROVE  M!Members' \subseteq M!Members
  BY <1>t, <1>2 DEF M!Remove, M!Members, M!Member
<1>3. ASSUME NEW c \in M!Slots, M!Transfer(c)
      PROVE  M!Members' \subseteq M!Members
  BY <1>3 DEF M!Transfer, M!Members, M!Member
<1>4. ASSUME NEW c \in M!Slots, M!SetRole(c)
      PROVE  M!Members' \subseteq M!Members
  BY <1>t, <1>4 DEF M!SetRole, M!Members, M!Member
<1>5. ASSUME NEW c \in M!Slots, M!Dismiss(c)
      PROVE  M!Members' \subseteq M!Members
  BY <1>5 DEF M!Dismiss, M!Members, M!Member
<1>6. ASSUME NEW c \in M!Slots, M!Check(c) \/ M!Drop(c)
      PROVE  role' = role
  BY <1>6 DEF M!Check, M!Drop, M!group
<1>7. CASE M!Expire \/ M!GateReads \/ M!GateAdds \/ UNCHANGED M!vars
  BY <1>7 DEF M!Expire, M!GateReads, M!GateAdds, M!group, M!vars, M!Members, M!Member
<1>8. ASSUME role' = role
      PROVE  M!Members' \subseteq M!Members
  BY <1>8 DEF M!Members, M!Member
<1> QED BY <1>1, <1>2, <1>3, <1>4, <1>5, <1>6, <1>7, <1>8 DEF M!Next, M!Write

\* A group never has more members than MaxMembers, however many invitations and joins
\* passed their checks at once.
THEOREM GroupFitsHolds == SocialSpec => []GroupFits
<1>1. SocialInit => GroupFits
  <2> SUFFICES ASSUME M!Init
               PROVE  M!WithinLimit
    BY DEF SocialInit, GroupFits
  <2>1. M!Members = {Founder}
    BY UsersAssumption DEF M!Init, M!Members, M!Member
  <2> QED BY <2>1, MembersCard, FS_Singleton, RoomAssumption DEF M!WithinLimit
<1>2. SocialTypeOK /\ GroupFits /\ [SocialNext]_svars => GroupFits'
  <2>1. [SocialNext]_svars => [M!Next]_(M!vars)
    BY DEF SocialNext, svars, mvars, M!vars
  <2> QED BY <2>1, WithinLimitStep DEF SocialTypeOK, GroupFits
<1> QED BY <1>1, <1>2, SocialTypeCorrect, PTL DEF SocialSpec

-----------------------------------------------------------------------------
(* Promises of the friend and the group service that TLC refutes for two   *)
(* calls at once: ApplyNeverRevivesLive, DismissedIsEmpty and              *)
(* OwnerNeverLeaves.  They hold when calls come one at a time, for any     *)
(* group: that checks precede transactions is all that is wrong.           *)

Pair == INSTANCE Friendship WITH Calls <- 1, cache <- pairCache, gate <- pairGate, call <- pairCall
Group == INSTANCE Membership WITH Calls <- 1

PairCalls == [Pair!Slots -> [op : {"none", "apply", "accept", "reject", "delete"}, who : Pair!Both,
                             at : {"free", "sent", "write", "drop"}]]

\* An application that is to be written was checked against the pair as it is.
PairInv ==
  /\ pairCall \in PairCalls
  /\ \A c \in Pair!Slots : pairCall[c].at = "write" => row.st \notin {"pending", "accepted"}

\* With one call at a time, Apply never writes over a pending or accepted pair.
THEOREM AloneApplyIsSound == Pair!Spec => Pair!ApplyNeverRevivesLive
<1>1. Pair!Init => PairInv
  <2>1. Pair!Free \in [op : {"none", "apply", "accept", "reject", "delete"}, who : Pair!Both,
                       at : {"free", "sent", "write", "drop"}] /\ Pair!Free.at = "free"
    BY DEF Pair!Free, Pair!Both
  <2> QED BY <2>1 DEF Pair!Init, PairInv, PairCalls
<1>2. ASSUME PairInv, [Pair!Next]_(Pair!vars)
      PROVE  PairInv'
  <2> DEFINE CallRec == [op : {"none", "apply", "accept", "reject", "delete"}, who : Pair!Both,
                         at : {"free", "sent", "write", "drop"}]
             Now(a) == pairCall' \in PairCalls /\ \A c \in Pair!Slots : pairCall'[c].at = a
  <2>t. pairCall \in [Pair!Slots -> CallRec] /\ Pair!Slots = {1}
    BY <1>2 DEF PairInv, PairCalls, Pair!Slots
  <2>a. ASSUME NEW c \in Pair!Slots, NEW a \in {"write", "drop"}, Pair!Advance(c, a)
        PROVE  Now(a)
    BY <2>a, <2>t DEF Pair!Advance, PairCalls
  <2>f. ASSUME NEW c \in Pair!Slots, Pair!Finish(c)
        PROVE  Now("free")
    <3>1. Pair!Free \in CallRec /\ Pair!Free.at = "free"
      BY DEF Pair!Free, Pair!Both
    <3>2. PairCalls = [Pair!Slots -> CallRec]
      BY DEF PairCalls
    <3> HIDE DEF CallRec
    <3> QED BY <2>f, <2>t, <3>1, <3>2 DEF Pair!Finish
  <2>q. ASSUME NEW a \in {"free", "sent", "drop"}, Now(a)
        PROVE  PairInv'
    BY <2>q DEF PairInv, PairCalls, Pair!Slots, Pair!Both
  <2> HIDE DEF Now
  <2>1. ASSUME NEW c \in Pair!Slots, Pair!Call(c)
        PROVE  Now("sent")
    <3>1. PICK op \in {"apply", "accept", "reject", "delete"}, u \in Pair!Both :
            pairCall' = [pairCall EXCEPT ![c] = [op |-> op, who |-> u, at |-> "sent"]]
      BY <2>1 DEF Pair!Call
    <3> QED BY <2>t, <3>1 DEF Now, PairCalls
  <2>2. ASSUME NEW c \in Pair!Slots, Pair!ApplyCheck(c)
        PROVE  PairInv'
    <3>1. CASE Pair!Refuse(c)
      BY <3>1, <2>f, <2>q DEF Pair!Refuse
    <3>2. CASE Pair!Advance(c, "write") /\ row' = row /\ row.st \notin {"pending", "accepted"}
      BY <3>2, <2>a DEF Now, PairInv, PairCalls, Pair!Slots, Pair!Both
    <3> QED BY <2>2, <3>1, <3>2 DEF Pair!ApplyCheck
  <2>3. ASSUME NEW c \in Pair!Slots,
               Pair!ApplyWrite(c) \/ Pair!Respond(c) \/ Pair!Delete(c) \/ Pair!Drop(c)
        PROVE  Now("drop") \/ Now("free")
    BY <2>3, <2>a, <2>f DEF Pair!ApplyWrite, Pair!Respond, Pair!Delete, Pair!Drop, Pair!Refuse
  <2>4. CASE Pair!Expire \/ Pair!GateReads \/ Pair!GateAdds \/ Pair!SignalingDenies \/ UNCHANGED Pair!vars
    <3>1. row' = row /\ pairCall' = pairCall
      BY <2>4 DEF Pair!Expire, Pair!GateReads, Pair!GateAdds, Pair!SignalingDenies, Pair!vars
    <3> QED BY <1>2, <3>1 DEF PairInv, PairCalls, Pair!Slots, Pair!Both
  <2> QED BY <1>2, <2>q, <2>1, <2>2, <2>3, <2>4 DEF Pair!Next, Pair!Serve
<1>3. ASSUME PairInv
      PROVE  \A c \in Pair!Slots : Pair!ApplyWrite(c) => row.st \notin {"pending", "accepted"}
  BY <1>3 DEF PairInv, Pair!ApplyWrite
<1> QED BY <1>1, <1>2, <1>3, PTL DEF Pair!Spec, Pair!ApplyNeverRevivesLive

\* While the group exists, its owner is the one member with the owner's role.
OneOwner == active => owner \in Users /\ \A u \in Users : role[u] = "owner" <=> u = owner

\* A call about to write was checked against the rows as they are.
Checked(c) ==
  call[c].at = "write" =>
    /\ active
    /\ call[c].op \in {"leave", "kick", "admin", "member", "transfer"} => Group!Member(call[c].on)
    /\ call[c].op \in {"leave", "kick", "admin", "member"} => call[c].on # owner
    /\ call[c].op = "invite" => ~Group!Member(call[c].on)
    /\ call[c].op = "transfer" => call[c].by = owner

GroupInv ==
  /\ role \in [Users -> {"none", "member", "admin", "owner"}] /\ active \in BOOLEAN
  /\ call \in [Group!Slots -> [op : {"none", "invite", "join", "leave", "kick", "transfer", "admin",
                                     "member", "dismiss"},
                               by : Users, on : Users, at : {"free", "write", "drop"}, hit : BOOLEAN]]
  /\ OneOwner /\ Group!DismissedIsEmpty
  /\ \A c \in Group!Slots : Checked(c)

\* A step of the group or of the router's check of one of its members keeps all that.
LEMMA GroupInvStep ==
  ASSUME Founder \in Users, GroupInv, [Group!Next]_(Group!vars)
  PROVE  GroupInv'
<1> DEFINE Ops == {"invite", "join", "leave", "kick", "transfer", "admin", "member", "dismiss"}
           CallRec == [op : {"none", "invite", "join", "leave", "kick", "transfer", "admin", "member", "dismiss"},
                       by : Users, on : Users, at : {"free", "write", "drop"}, hit : BOOLEAN]
           CallSet == [Group!Slots -> CallRec]
           Roles == [Users -> {"none", "member", "admin", "owner"}]
           \* the call is over, or only drops verdicts
           Over == call' \in CallSet /\ \A c \in Group!Slots : call'[c].at # "write"
<1>t. role \in Roles /\ active \in BOOLEAN /\ call \in CallSet /\ Group!Slots = {1}
  BY DEF GroupInv, Group!Slots
<1>o. /\ active => owner \in Users /\ \A u \in Users : role[u] = "owner" <=> u = owner
      /\ ~active => \A u \in Users : role[u] = "none"
      /\ \A c \in Group!Slots : Checked(c)
  BY DEF GroupInv, OneOwner, Group!DismissedIsEmpty, Group!Members, Group!Member
<1>f. ASSUME NEW c \in Group!Slots, Group!Finish(c)
      PROVE  Over
  <2>1. Group!Free \in CallRec /\ Group!Free.at = "free"
    BY DEF Group!Free
  <2> HIDE DEF CallRec
  <2> QED BY <1>f, <1>t, <2>1 DEF Group!Finish
<1>d. ASSUME NEW c \in Group!Slots, NEW b, Group!ThenDrop(c, b)
      PROVE  Over
  <2>1. CASE call' = [call EXCEPT ![c].at = "drop"]
    BY <2>1, <1>t
  <2> QED BY <1>d, <1>f, <2>1 DEF Group!ThenDrop
<1>c. ASSUME NEW c \in Group!Slots
      PROVE  call[c] \in CallRec /\ call[c].on \in Users
  BY <1>t
\* what each step leaves to show
<1>g. ASSUME Over, role' \in Roles, active' \in BOOLEAN,
             active' => owner' \in Users /\ \A u \in Users : role'[u] = "owner" <=> u = owner',
             ~active' => \A u \in Users : role'[u] = "none"
      PROVE  GroupInv'
  BY <1>g DEF GroupInv, OneOwner, Checked, Group!DismissedIsEmpty, Group!Members, Group!Member, Group!Slots
<1> HIDE DEF CallRec, CallSet, Roles, Over
<1>1. ASSUME NEW c \in Group!Slots, Group!Check(c)
      PROVE  GroupInv'
  <2>1. PICK op \in Ops, by \in Users, on \in Users :
          /\ call[c] = Group!Free /\ \A d \in Group!Slots : call[d] = Group!Free => c <= d
          /\ Group!May(op, by, on)
          /\ call' = [call EXCEPT ![c] = [op |-> op, by |-> IF op = "transfer" THEN by ELSE on, on |-> on,
                                          at |-> "write", hit |-> op = "dismiss" /\ Group!Member(Watched)]]
          /\ UNCHANGED <<Group!group, cache, gate>>
    BY <1>1, Zenon DEF Group!Check
  <2> DEFINE b == op = "dismiss" /\ Group!Member(Watched)
             u == IF op = "transfer" THEN by ELSE on
             r == [op |-> op, by |-> u, on |-> on, at |-> "write", hit |-> b]
  <2>2. u \in Users /\ b \in BOOLEAN /\ (op = "transfer" => u = by)
    OBVIOUS
  <2>3. call' = [call EXCEPT ![c] = r] /\ UNCHANGED <<role, owner, active>>
    BY <2>1 DEF Group!group
  <2> HIDE DEF b, u
  <2>4. r \in CallRec /\ r.op = op /\ r.on = on /\ r.by = u
    BY <2>2 DEF CallRec
  <2> HIDE DEF r
  <2>5. call' \in CallSet /\ call'[1].op = op /\ call'[1].on = on /\ call'[1].by = u
    BY <1>t, <2>3, <2>4 DEF CallSet
  <2>6. active /\ owner \in Users
    BY <1>o, <2>1 DEF Group!May, Group!MayInvite, Group!MayJoin, Group!MayLeave, Group!MayKick,
                      Group!MaySetRole, Group!MayDismiss
  <2>7. /\ op \in {"leave", "kick", "admin", "member", "transfer"} => Group!Member(on)
        /\ op \in {"leave", "kick", "admin", "member"} => on # owner
        /\ op = "invite" => ~Group!Member(on)
        /\ op = "transfer" => u = owner
    BY <1>o, <2>1, <2>2, <2>6 DEF Group!May, Group!MayInvite, Group!MayJoin, Group!MayLeave, Group!MayKick,
                                  Group!MaySetRole, Group!MayDismiss
  <2>8. \A v \in Users : Group!Member(v)' = Group!Member(v)
    BY <2>3 DEF Group!Member
  <2>9. \A d \in Group!Slots : Checked(d)'
    BY <1>t, <2>3, <2>5, <2>6, <2>7 DEF Checked, Group!Member
  <2>10. role' \in Roles /\ active' \in BOOLEAN /\ OneOwner' /\ Group!DismissedIsEmpty'
    BY <1>t, <2>3 DEF GroupInv, OneOwner, Group!DismissedIsEmpty, Group!Members, Group!Member
  <2> QED BY <2>5, <2>9, <2>10 DEF GroupInv, CallSet, CallRec, Roles, Group!Slots
<1>2. ASSUME NEW c \in Group!Slots, Group!AddMember(c)
      PROVE  GroupInv'
  <2>1. /\ Over /\ UNCHANGED <<owner, active>> /\ active
        /\ role' = role \/ (~Group!Member(call[c].on) /\ role' = [role EXCEPT ![call[c].on] = "member"])
    BY <1>2, <1>d, <1>f, <1>o DEF Group!AddMember, Group!group, Group!Writes, Checked
  <2>2. Group!Member(owner) /\ owner \in Users
    BY <1>o, <2>1 DEF Group!Member
  <2> QED BY <1>c, <1>g, <1>o, <1>t, <2>1, <2>2 DEF Roles
<1>3. ASSUME NEW c \in Group!Slots, Group!Remove(c)
      PROVE  GroupInv'
  <2>1. /\ Over /\ UNCHANGED <<owner, active>> /\ active
        /\ call[c].on # owner /\ role' = [role EXCEPT ![call[c].on] = "none"]
    BY <1>3, <1>d, <1>o DEF Group!Remove, Group!Writes, Checked
  <2> QED BY <1>c, <1>g, <1>o, <1>t, <2>1 DEF Roles
<1>4. ASSUME NEW c \in Group!Slots, Group!Transfer(c)
      PROVE  GroupInv'
  <2>1. /\ Over /\ owner' = call[c].on /\ active' = active /\ active
        /\ Group!Member(call[c].on) /\ call[c].by = owner
    BY <1>4, <1>f, <1>o DEF Group!Transfer, Group!Writes, Checked
  <2>2. role' = [u \in Users |-> IF ~Group!Member(u) THEN "none"
                                 ELSE IF u = call[c].on THEN "owner"
                                 ELSE IF u = call[c].by THEN "admin" ELSE role[u]]
    BY <1>4 DEF Group!Transfer
  <2>3. role' \in Roles
    BY <1>t, <2>2 DEF Roles
  <2>4. \A u \in Users : role'[u] = "owner" <=> u = owner'
    BY <1>c, <1>o, <2>1, <2>2
  <2> QED BY <1>c, <1>g, <2>1, <2>3, <2>4
<1>5. ASSUME NEW c \in Group!Slots, Group!SetRole(c)
      PROVE  GroupInv'
  <2>1. /\ Over /\ UNCHANGED <<owner, active>> /\ active /\ call[c].on # owner
        /\ call[c].op \in {"admin", "member"} /\ role' = [role EXCEPT ![call[c].on] = call[c].op]
    BY <1>5, <1>f, <1>o DEF Group!SetRole, Group!Writes, Checked
  <2> QED BY <1>c, <1>g, <1>o, <1>t, <2>1 DEF Roles
<1>6. ASSUME NEW c \in Group!Slots, Group!Dismiss(c)
      PROVE  GroupInv'
  BY <1>6, <1>d, <1>g DEF Group!Dismiss, Roles
<1>7. ASSUME NEW c \in Group!Slots, Group!Drop(c)
      PROVE  GroupInv'
  <2>1. Over /\ UNCHANGED <<role, owner, active>>
    BY <1>7, <1>f DEF Group!Drop, Group!group
  <2> QED BY <1>g, <1>o, <1>t, <2>1
<1>8. CASE Group!Expire \/ Group!GateReads \/ Group!GateAdds \/ UNCHANGED Group!vars
  <2>1. UNCHANGED <<role, owner, active, call>>
    BY <1>8 DEF Group!Expire, Group!GateReads, Group!GateAdds, Group!group, Group!vars
  <2> QED BY <2>1 DEF GroupInv, OneOwner, Checked, Group!DismissedIsEmpty, Group!Members, Group!Member, Group!Slots
<1> QED BY <1>1, <1>2, <1>3, <1>4, <1>5, <1>6, <1>7, <1>8 DEF Group!Next, Group!Write

\* With one call at a time a group that exists has one owner, who is its member, a
\* dismissed one has no members, and nobody leaves as its owner.
THEOREM AloneGroupIsSound ==
  ASSUME Founder \in Users
  PROVE  Group!Spec => [](OneOwner /\ Group!DismissedIsEmpty) /\ Group!OwnerNeverLeaves
<1>1. Group!Init => GroupInv
  <2> SUFFICES ASSUME Group!Init PROVE GroupInv
    OBVIOUS
  <2>1. Group!Free \in [op : {"none", "invite", "join", "leave", "kick", "transfer", "admin", "member", "dismiss"},
                        by : Users, on : Users, at : {"free", "write", "drop"}, hit : BOOLEAN]
        /\ Group!Free.at = "free"
    BY DEF Group!Free
  <2>2. OneOwner /\ Group!DismissedIsEmpty /\ role \in [Users -> {"none", "member", "admin", "owner"}]
    BY DEF Group!Init, OneOwner, Group!DismissedIsEmpty
  <2>3. \A c \in Group!Slots : Checked(c)
    BY <2>1 DEF Group!Init, Checked
  <2> QED BY <2>1, <2>2, <2>3 DEF Group!Init, GroupInv
<1>2. GroupInv /\ [Group!Next]_(Group!vars) => GroupInv'
  BY GroupInvStep
<1>3. ASSUME GroupInv
      PROVE  \A c \in Group!Slots : Group!Remove(c) /\ call[c].op = "leave" => role[call[c].on] # "owner"
  <2> SUFFICES ASSUME NEW c \in Group!Slots, Group!Remove(c)
               PROVE  role[call[c].on] # "owner"
    OBVIOUS
  <2>1. active /\ call[c].on # owner /\ call[c].on \in Users
    BY <1>3 DEF GroupInv, Checked, Group!Remove, Group!Writes
  <2> QED BY <1>3, <2>1 DEF GroupInv, OneOwner
<1> QED BY <1>1, <1>2, <1>3, PTL DEF Group!Spec, Group!OwnerNeverLeaves, GroupInv
-----------------------------------------------------------------------------
(* The recorder: what lets a cancelled recording go out.                   *)

\* The user cancels only when the browser is not asking him for the microphone.
CalmCancel == R!Cancel => \A r \in R!Slots : v2[r].at # "asking"

Active == {"asking", "on", "upload"}

\* One recorder at a time is asked for, on or uploading: the last one, under the open
\* modal.  Only Send sets a hook, and it stops the recorder at once.
CalmInv ==
  /\ \A r, s \in R!Slots : v2[r].at \in Active /\ v2[s].at \in Active => r = s
  /\ \A r \in R!Slots : /\ v2[r].at \in Active => v1
                        /\ v2[r].at = "upload" => v7
                        /\ v2[r].at \in {"on", "upload"} => r = v3
                        /\ v2[r].at \in {"new", "asking", "on"} => ~v2[r].hook
  /\ v3 # 0 => v2[v3].at \notin {"new", "asking"}
  /\ \A r \in v8 : v2[r].at = "off" /\ v9[r] = 0

\* What stop() of the current recorder does to the others, and to itself.
LEMMA StoppedRecs ==
  ASSUME NEW rs \in [R!Slots -> [at : {"new", "asking", "on", "upload", "off"}, hook : BOOLEAN]],
         v3 \in R!Slots \cup {0}
  PROVE  \A r \in R!Slots :
           /\ R!Stopped(rs)[r].hook = rs[r].hook
           /\ IF r = v3 /\ rs[r].at = "on"
              THEN R!Stopped(rs)[r].at = IF rs[r].hook THEN "upload" ELSE "off"
              ELSE R!Stopped(rs)[r].at = rs[r].at
<1>1. 0 \notin R!Slots
  BY BoundsAssumption DEF R!Slots
<1> QED BY <1>1 DEF R!Stopped, R!None

LEMMA CalmStep ==
  ASSUME R!IInv, CalmInv, [R!Next /\ CalmCancel]_(R!vars)
  PROVE  CalmInv'
<1> DEFINE Recs == [R!Slots -> [at : {"new", "asking", "on", "upload", "off"}, hook : BOOLEAN]]
<1>t. /\ v1 \in BOOLEAN /\ v3 \in R!Slots \cup {0} /\ v2 \in Recs /\ v7 \in BOOLEAN
      /\ v8 \subseteq R!Slots /\ v9 \in [R!Slots -> 0..2] /\ R!Slots \subseteq Nat \ {0}
      /\ \A r \in R!Slots : v9[r] # 0 => v2[r].at = "off"
  BY BoundsAssumption DEF R!IInv, R!TypeOK, R!None, R!Slots
<1>s. ASSUME NEW rs \in Recs, NEW r \in R!Slots
      PROVE  /\ R!Stopped(rs)[r].hook = rs[r].hook
             /\ r = v3 /\ rs[r].at = "on" => R!Stopped(rs)[r].at = IF rs[r].hook THEN "upload" ELSE "off"
             /\ ~(r = v3 /\ rs[r].at = "on") => R!Stopped(rs)[r].at = rs[r].at
  BY <1>t, StoppedRecs
<1>n. ASSUME NEW rs \in Recs PROVE R!Stopped(rs) \in Recs
  BY <1>t DEF R!Stopped, R!None
<1> HIDE DEF Recs
<1>1. CASE R!Open
  <2>1. PICK r \in R!New : v2' = [R!Stopped(v2) EXCEPT ![r].at = "asking"]
    <3>1. R!New # {} /\ R!New \subseteq Nat
      BY <1>1, <1>t DEF R!Open, R!New
    <3>2. \E r \in R!New : \A s \in R!New : r <= s
      BY <3>1, Least
    <3> QED BY <1>1, <3>2 DEF R!Open
  <2>2. ~v1 /\ v1' = TRUE /\ UNCHANGED <<v3, v7, v8, v9>>
    BY <1>1 DEF R!Open
  <2>3. r \in R!Slots /\ v2[r].at = "new"
    BY DEF R!New
  <2>5. \A s \in R!Slots : v2[s].at \notin Active
    BY <2>2 DEF CalmInv
  <2>7. /\ \A s \in R!Slots : v2'[s].hook = R!Stopped(v2)[s].hook
        /\ \A s \in R!Slots : s # r => v2'[s].at = R!Stopped(v2)[s].at
        /\ v2'[r].at = "asking"
    BY <1>n, <1>t, <2>1, <2>3 DEF Recs
  <2>4. \A s \in R!Slots : /\ v2'[s].hook = v2[s].hook
                           /\ s # r => v2'[s].at = v2[s].at
                           /\ v2'[r].at = "asking"
    BY <1>s, <1>t, <2>5, <2>7 DEF Active
  <2>6. r # v3 /\ r \notin v8
    BY <1>t, <2>3 DEF CalmInv
  <2> QED BY <1>t, <2>2, <2>3, <2>4, <2>5, <2>6 DEF CalmInv, Active
<1>2. ASSUME NEW r \in R!Slots, R!Granted(r)
      PROVE  CalmInv'
  <2>1. /\ v2[r].at = "asking" /\ v2' = [v2 EXCEPT ![r].at = "on"] /\ v3' = r
        /\ UNCHANGED <<v1, v7, v8, v9>>
    BY <1>2 DEF R!Granted
  <2>2. \A s \in R!Slots : /\ v2'[s].hook = v2[s].hook
                           /\ s # r => v2'[s].at = v2[s].at
                           /\ v2'[r].at = "on"
    BY <1>t, <2>1 DEF Recs
  <2>3. r \notin v8 /\ \A s \in R!Slots : s # r => v2[s].at \notin Active
    BY <2>1 DEF CalmInv, Active
  <2> QED BY <1>t, <2>1, <2>2, <2>3 DEF CalmInv, Active
\* The one active recorder ends, so does the modal.
<1>e. ASSUME NEW r \in R!Slots, v2[r].at \in Active, v2' = [R!Stopped(v2) EXCEPT ![r].at = "off"],
             UNCHANGED <<v3, v8>>, v7' \in BOOLEAN, \A s \in R!Slots : s # r => v9'[s] = v9[s]
      PROVE  CalmInv'
  <2>1. /\ \A s \in R!Slots : v2'[s].hook = v2[s].hook
        /\ \A s \in R!Slots : s # r => v2'[s].at = R!Stopped(v2)[s].at
        /\ v2'[r].at = "off"
    BY <1>e, <1>n, <1>s, <1>t DEF Recs
  <2>2. \A s \in R!Slots : s # r => v2[s].at \notin Active
    BY <1>e DEF CalmInv
  <2>3. \A s \in R!Slots : s # r => v2'[s].at = v2[s].at
    BY <1>s, <1>t, <2>1, <2>2 DEF Active
  <2>4. r \notin v8
    BY <1>e DEF CalmInv, Active
  <2> QED BY <1>e, <1>t, <2>1, <2>2, <2>3, <2>4 DEF CalmInv, Active
<1>3. ASSUME NEW r \in R!Slots, R!Denied(r)
      PROVE  CalmInv'
  <2>1. v2[r].at = "asking" /\ v1
    BY <1>3 DEF R!Denied, CalmInv, Active
  <2>2. v2' = [R!Stopped(v2) EXCEPT ![r].at = "off"] /\ UNCHANGED <<v3, v7, v8, v9>>
    BY <1>3, <2>1 DEF R!Denied
  <2> QED BY <1>e, <1>t, <2>1, <2>2 DEF Active
<1>4. CASE R!Cancel /\ CalmCancel
  <2>1. /\ v2' = R!Stopped(v2) /\ ~v7 /\ UNCHANGED <<v3, v7, v9>>
        /\ v8' = v8 \cup {r \in R!Slots : v2[r].at \in {"asking", "on"}}
    BY <1>4 DEF R!Cancel, R!Cleanup, R!CancelOffered
  <2>2. \A r \in R!Slots : v2[r].at # "asking" /\ v2[r].at # "upload"
    BY <1>4, <2>1 DEF CalmCancel, CalmInv
  <2>3. \A r \in R!Slots : /\ v2'[r].hook = v2[r].hook
                           /\ v2[r].at = "on" => v2'[r].at = "off"
                           /\ v2[r].at # "on" => v2'[r].at = v2[r].at
    BY <1>s, <1>t, <2>1 DEF CalmInv
  <2>4. \A r \in R!Slots : v2'[r].at \notin Active
    BY <1>t, <2>2, <2>3 DEF Active, Recs
  <2>5. \A r \in v8' : v2'[r].at = "off" /\ v9[r] = 0
    BY <1>t, <2>1, <2>2, <2>3 DEF CalmInv
  <2> QED BY <1>t, <2>1, <2>2, <2>3, <2>4, <2>5 DEF CalmInv, Active
<1>5. CASE R!StopAndSend
  <2> DEFINE rs == [v2 EXCEPT ![v3].hook = TRUE]
  <2>1. /\ v3 \in R!Slots /\ v7' = TRUE /\ v2' = R!Stopped(rs)
        /\ UNCHANGED <<v1, v3, v8, v9>>
    BY <1>5, <1>t DEF R!StopAndSend, R!None
  <2>2. /\ rs \in Recs /\ \A s \in R!Slots : rs[s].at = v2[s].at
        /\ rs[v3].hook = TRUE
        /\ \A s \in R!Slots : s # v3 => rs[s].hook = v2[s].hook
    BY <1>t, <2>1 DEF Recs
  <2> HIDE DEF rs
  <2>3. \A s \in R!Slots : /\ s # v3 => v2'[s].at = v2[s].at /\ v2'[s].hook = v2[s].hook
                           /\ v2[v3].at = "on" => v2'[v3].at = "upload"
                           /\ v2[v3].at # "on" => v2'[v3].at = v2[v3].at
    BY <1>s, <2>1, <2>2
  <2>4. \A s \in R!Slots : v2'[s].at \in Active => v2[s].at \in Active
    BY <2>1, <2>3 DEF Active
  <2>5. \A s \in v8 : v2'[s].at = "off"
    BY <1>t, <2>1, <2>3 DEF CalmInv
  <2> QED BY <1>t, <2>1, <2>3, <2>4, <2>5 DEF CalmInv, Active
<1>6. ASSUME NEW r \in R!Slots, R!Uploaded(r)
      PROVE  CalmInv'
  <2>1. /\ v2[r].at = "upload" /\ v2' = [R!Stopped(v2) EXCEPT ![r].at = "off"]
        /\ v7' \in BOOLEAN /\ UNCHANGED <<v3, v8>>
    BY <1>6 DEF R!Uploaded
  <2>2. \A s \in R!Slots : s # r => v9'[s] = v9[s]
    BY <1>6, <1>t DEF R!Uploaded
  <2> QED BY <1>e, <2>1, <2>2 DEF Active
<1>7. CASE UNCHANGED R!vars
  BY <1>7 DEF R!vars, CalmInv
<1> QED BY <1>1, <1>2, <1>3, <1>4, <1>5, <1>6, <1>7 DEF R!Next, R!SendButton, R!MinuteOver

(* 'Cancel recording': what the user cancelled is never sent, however the  *)
(* button, the minute timers and the uploads race, as long as he never     *)
(* cancels while the browser still asks for the microphone.  A recorder    *)
(* granted behind the closed modal is all that makes CancelledIsNeverSent  *)
(* fail.                                                                   *)
THEOREM CalmCancelIsFinal ==
  R!Spec /\ [][CalmCancel]_(R!vars) => []R!CancelledIsNeverSent
<1>1. R!Init => R!IInv /\ CalmInv
  <2>1. R!Init => CalmInv
    BY DEF R!Init, R!None, CalmInv, Active
  <2> QED BY <2>1, VoiceInit
<1>2. R!IInv /\ [R!Next]_(R!vars) => R!IInv'
  BY VoiceStep
<1>3. R!IInv /\ CalmInv /\ [R!Next]_(R!vars) /\ [CalmCancel]_(R!vars) => CalmInv'
  BY CalmStep
<1>4. CalmInv => R!CancelledIsNeverSent
  BY DEF CalmInv, R!CancelledIsNeverSent
<1> QED BY <1>1, <1>2, <1>3, <1>4, PTL DEF R!Spec

\* The user sends only when the browser is not asking him for the microphone.
CalmSend == R!SendButton => \A r \in R!Slots : v2[r].at # "asking"

\* The open modal has its recorder, an interval that runs is the one the refs hold and its
\* recorder is not over, and the spinner has an upload.
SpinInv ==
  /\ \A r \in v4 : r = v3 /\ v6.timer /\ v2[r].at \in {"on", "upload"}
  /\ v1 => \E r \in R!Slots : v2[r].at \in Active
  /\ R!SpinnerIsReal

LEMMA SpinStep ==
  ASSUME R!IInv, CalmInv, SpinInv, [R!Next /\ CalmCancel /\ CalmSend]_(R!vars)
  PROVE  SpinInv'
<1> DEFINE Recs == [R!Slots -> [at : {"new", "asking", "on", "upload", "off"}, hook : BOOLEAN]]
<1>t. /\ v1 \in BOOLEAN /\ v3 \in R!Slots \cup {0} /\ v4 \subseteq R!Slots /\ v2 \in Recs
      /\ v7 \in BOOLEAN /\ 0 \notin R!Slots
  BY BoundsAssumption DEF R!IInv, R!TypeOK, R!None, R!Slots
<1>s. ASSUME NEW rs \in Recs, NEW r \in R!Slots
      PROVE  /\ r = v3 /\ rs[r].at = "on" => R!Stopped(rs)[r].at = IF rs[r].hook THEN "upload" ELSE "off"
             /\ ~(r = v3 /\ rs[r].at = "on") => R!Stopped(rs)[r].at = rs[r].at
  BY <1>t, StoppedRecs
<1>n. R!Stopped(v2) \in Recs
  BY <1>t DEF R!Stopped, R!None
\* cleanupAudio leaves no interval
<1>r. R!Release => v4' = {}
  BY <1>t DEF R!Release, SpinInv
<1> HIDE DEF Recs
<1>1. CASE R!Open
  <2>1. PICK r \in R!New : v2' = [R!Stopped(v2) EXCEPT ![r].at = "asking"]
    <3>1. R!New # {} /\ R!New \subseteq Nat
      BY <1>1 DEF R!Open, R!New, R!Slots
    <3>2. \E r \in R!New : \A s \in R!New : r <= s
      BY <3>1, Least
    <3> QED BY <1>1, <3>2 DEF R!Open
  <2>2. v4' = {} /\ v7' = v7 /\ ~v1
    BY <1>1, <1>r DEF R!Open
  <2>3. r \in R!Slots /\ v2'[r].at = "asking"
    BY <1>n, <2>1 DEF R!New, Recs
  <2>4. ~v7
    BY <2>2 DEF SpinInv, R!SpinnerIsReal, CalmInv, Active
  <2> QED BY <2>2, <2>3, <2>4 DEF SpinInv, R!SpinnerIsReal, Active
<1>2. ASSUME NEW r \in R!Slots, R!Granted(r)
      PROVE  SpinInv'
  <2>1. /\ v2[r].at = "asking" /\ v2' = [v2 EXCEPT ![r].at = "on"] /\ v3' = r
        /\ v4' = v4 \cup {r} /\ v6' = [stream |-> TRUE, timer |-> TRUE] /\ UNCHANGED <<v1, v7>>
    BY <1>2 DEF R!Granted
  <2>2. v4 = {} /\ ~v7
    BY <1>t, <2>1 DEF SpinInv, R!SpinnerIsReal, CalmInv, Active
  <2>3. v2'[r].at = "on"
    BY <1>t, <2>1 DEF Recs
  <2> QED BY <2>1, <2>2, <2>3 DEF SpinInv, R!SpinnerIsReal, Active
<1>3. ASSUME NEW r \in R!Slots, R!Denied(r)
      PROVE  SpinInv'
  <2>1. v2[r].at = "asking" /\ v1 /\ ~v7
    BY <1>3 DEF R!Denied, SpinInv, R!SpinnerIsReal, CalmInv, Active
  <2>2. v4' = {} /\ v1' = FALSE /\ v7' = v7
    BY <1>3, <1>r, <2>1 DEF R!Denied
  <2> QED BY <2>1, <2>2 DEF SpinInv, R!SpinnerIsReal
<1>4. CASE R!Cancel
  <2>1. v4' = {} /\ v1' = FALSE /\ v7' = v7 /\ ~v7
    BY <1>4, <1>r DEF R!Cancel, R!Cleanup, R!CancelOffered
  <2> QED BY <2>1 DEF SpinInv, R!SpinnerIsReal
\* who sends has a recorder that is on or uploading, and it is the current one
<1>5. ASSUME R!StopAndSend, v3 \in R!Slots, v2[v3].at \in {"on", "upload"}
      PROVE  SpinInv'
  <2> DEFINE rs == [v2 EXCEPT ![v3].hook = TRUE]
  <2>1. v7' = TRUE /\ v2' = R!Stopped(rs) /\ UNCHANGED <<v1, v3, v4, v6>>
    BY <1>5 DEF R!StopAndSend
  <2>2. rs \in Recs /\ (\A s \in R!Slots : rs[s].at = v2[s].at) /\ rs[v3].hook = TRUE
    BY <1>5, <1>t DEF Recs
  <2> HIDE DEF rs
  <2>3. v2'[v3].at = "upload"
    BY <1>5, <1>s, <2>1, <2>2
  <2> QED BY <1>5, <2>1, <2>3 DEF SpinInv, R!SpinnerIsReal, Active
<1>6. CASE R!SendButton /\ CalmSend
  <2>1. R!StopAndSend /\ v1 /\ ~v7
    BY <1>6 DEF R!SendButton, R!SendOffered
  <2>2. PICK r \in R!Slots : v2[r].at \in {"on", "upload"}
    BY <1>6, <2>1 DEF SpinInv, CalmSend, Active
  <2>3. r = v3
    BY <2>2 DEF CalmInv
  <2> QED BY <1>5, <2>1, <2>2, <2>3
<1>7. CASE R!MinuteOver
  <2>1. R!StopAndSend /\ v3 \in R!Slots /\ v2[v3].at \in {"on", "upload"}
    BY <1>7, <1>t DEF R!MinuteOver, SpinInv
  <2> QED BY <1>5, <2>1
<1>8. ASSUME NEW r \in R!Slots, R!Uploaded(r)
      PROVE  SpinInv'
  <2>1. v4' = {} /\ v1' = FALSE /\ v7' = FALSE
    BY <1>8, <1>r DEF R!Uploaded
  <2> QED BY <2>1 DEF SpinInv, R!SpinnerIsReal
<1>9. CASE UNCHANGED R!vars
  BY <1>9 DEF R!vars, SpinInv, R!SpinnerIsReal
<1> QED BY <1>1, <1>2, <1>3, <1>4, <1>6, <1>7, <1>8, <1>9 DEF R!Next

(* The spinner, which disables both buttons, turns only while a sound is   *)
(* uploaded and sent, as long as the user presses neither button while the *)
(* browser still asks for the microphone: Send then acts on the recorder   *)
(* of an earlier opening, whose onstop never comes.                        *)
THEOREM CalmSpinnerIsReal ==
  R!Spec /\ [][CalmCancel /\ CalmSend]_(R!vars) => []R!SpinnerIsReal
<1>1. R!Init => R!IInv /\ CalmInv /\ SpinInv
  <2>1. R!Init => CalmInv /\ SpinInv
    BY DEF R!Init, R!None, CalmInv, SpinInv, R!SpinnerIsReal, Active
  <2> QED BY <2>1, VoiceInit
<1>2. R!IInv /\ [R!Next]_(R!vars) => R!IInv'
  BY VoiceStep
<1>3. R!IInv /\ CalmInv /\ [R!Next]_(R!vars) /\ [CalmCancel /\ CalmSend]_(R!vars) => CalmInv'
  BY CalmStep
<1>4. R!IInv /\ CalmInv /\ SpinInv /\ [R!Next]_(R!vars) /\ [CalmCancel /\ CalmSend]_(R!vars) => SpinInv'
  BY SpinStep
<1>5. SpinInv => R!SpinnerIsReal
  BY DEF SpinInv
<1> QED BY <1>1, <1>2, <1>3, <1>4, <1>5, PTL DEF R!Spec

-----------------------------------------------------------------------------
(* The mobile contacts: one application answered at a time.                *)

\* The user answers an application only when no answer is under way.
Patient == \A c \in X!Slots, p \in People : X!Respond(c, p) => v4 = X!None

\* Every chain answers the application the view remembers, and there is one.
PatientInv ==
  \A c, d \in X!Slots : v5[c].of # X!None => v5[c].of = v4 /\ (v5[d].of # X!None => c = d)

LEMMA PatientStep ==
  ASSUME X!IInv, PatientInv, [X!Next /\ Patient]_(X!vars)
  PROVE  PatientInv'
<1> DEFINE Chains == [X!Slots -> [of : People \cup {X!None}, step : {"free", "accept", "reject", "pending", "friends"},
                                  at : {"free", "sent", "back", "failed"}, got : SUBSET People]]
<1>t. v5 \in Chains
  BY DEF X!IInv, X!TypeOK
\* a call of the chain, or its answer
<1>k. ASSUME NEW c \in X!Slots, \A d \in X!Slots : v5'[d].of = v5[d].of, v4' = v4
      PROVE  PatientInv'
  BY <1>k DEF PatientInv
\* the end of one
<1>e. ASSUME NEW c \in X!Slots, X!Ends(c)
      PROVE  PatientInv'
  <2>1. \A d \in X!Slots : v5'[d].of = IF d = c THEN X!None ELSE v5[d].of
    BY <1>e, <1>t DEF X!Ends, X!Free
  <2>2. CASE v5[c].of = X!None
    BY <1>e, <2>1, <2>2 DEF X!Ends, PatientInv
  <2>3. CASE v5[c].of # X!None
    BY <2>1, <2>3 DEF PatientInv
  <2> QED BY <2>2, <2>3
<1>n. ASSUME NEW c \in X!Slots, NEW step \in {"pending", "friends"}, X!Then(c, step)
      PROVE  PatientInv'
  <2>1. \A d \in X!Slots : v5'[d].of = v5[d].of
    BY <1>n, <1>t DEF X!Then
  <2> QED BY <1>k, <1>n, <2>1 DEF X!Then
<1>1. ASSUME NEW c \in X!Slots, X!Fetch(c)
      PROVE  PatientInv'
  <2>1. v5[c] = X!Free /\ v4' = v4
    BY <1>1 DEF X!Fetch, X!Start
  <2>2. \A d \in X!Slots : v5'[d].of = v5[d].of
    BY <1>1, <1>t, <2>1 DEF X!Fetch, X!Start, X!Free
  <2> QED BY <1>k, <2>1, <2>2
<1>2. ASSUME NEW c \in X!Slots, NEW p \in People, X!Respond(c, p), Patient
      PROVE  PatientInv'
  <2>1. v4' = p /\ v4 = X!None
    BY <1>2 DEF X!Respond, Patient
  <2>2. \A d \in X!Slots : v5[d].of = X!None
    BY <2>1 DEF PatientInv
  <2>3. \A d \in X!Slots : v5'[d].of = IF d = c THEN p ELSE v5[d].of
    BY <1>2, <1>t DEF X!Respond, X!Start
  <2> QED BY <2>1, <2>2, <2>3 DEF PatientInv
<1>3. ASSUME NEW c \in X!Slots, X!Serve(c) \/ X!CallFails(c)
      PROVE  PatientInv'
  <2>1. v4' = v4 /\ \A d \in X!Slots : v5'[d].of = v5[d].of
    BY <1>3, <1>t DEF X!Serve, X!CallFails
  <2> QED BY <1>k, <2>1
<1>4. ASSUME NEW c \in X!Slots, X!Answered(c) \/ X!PendingComes(c) \/ X!FriendsCome(c)
      PROVE  PatientInv'
  BY <1>e, <1>n, <1>4 DEF X!Answered, X!PendingComes, X!FriendsCome
<1>5. CASE UNCHANGED X!vars
  BY <1>5 DEF X!vars, PatientInv
<1> QED BY <1>1, <1>2, <1>3, <1>4, <1>5 DEF X!Next

(* An application has one chain of calls at a time, however calls fail, as *)
(* long as the user answers none while another answer is under way: the    *)
(* view remembers one application only.                                    *)
THEOREM PatientAnswersOnce ==
  X!Spec /\ [][Patient]_(X!vars) => []X!OneChainEach
<1>1. X!Init => X!IInv /\ PatientInv
  BY DEF X!Init, X!IInv, X!TypeOK, X!ProgressIsReal, X!Free, X!None, PatientInv
<1>2. X!IInv /\ [X!Next]_(X!vars) => X!IInv'
  BY GalaxyStep
<1>3. X!IInv /\ PatientInv /\ [X!Next]_(X!vars) /\ [Patient]_(X!vars) => PatientInv'
  BY PatientStep
<1>4. PatientInv => X!OneChainEach
  BY DEF PatientInv, X!OneChainEach
<1> QED BY <1>1, <1>2, <1>3, <1>4, PTL DEF X!Spec

-----------------------------------------------------------------------------
(* The desktop shell: whose server a window loads from.                    *)

\* A window always loads the fixed port, which is its own server's only if its process
\* was the one that got it.
WindowMeetsOwner ==
  \A p \in Procs : v4[p] # E!None => v4[p] = E!Fixed /\ (v4[p] = v3[p] <=> v1 = p)

(* main.cjs promises the window of a process whose port is taken "a free   *)
(* one": for any number of processes the window loads the fixed port all   *)
(* the same, so WindowLoadsOwnServer holds of the process that owns the    *)
(* fixed port and of no other.                                             *)
THEOREM WindowOfTheOwner == E!Spec => []WindowMeetsOwner
<1> DEFINE Windows == \A p \in Procs : v4[p] \in {E!None, E!Fixed}
<1>1. E!Init => E!IInv /\ Windows
  BY ProcsAssumption DEF E!Init, E!IInv, E!TypeOK, E!WindowHasServer, E!Fixed, E!None, E!Stranger
<1>2. E!IInv /\ [E!Next]_(E!vars) => E!IInv'
  BY DesktopStep
<1>3. ASSUME E!IInv, Windows, [E!Next]_(E!vars)
      PROVE  Windows'
  <2>1. v4 \in [Procs -> {E!None, E!Fixed, E!Random}]
    BY <1>3 DEF E!IInv, E!TypeOK
  <2>2. ASSUME NEW p \in Procs, v4' = [v4 EXCEPT ![p] = IF @ = E!None THEN E!Fixed ELSE @] \/ v4' = [v4 EXCEPT ![p] = E!None]
        PROVE  Windows'
    BY <1>3, <2>1, <2>2
  <2>3. ASSUME NEW p \in Procs, E!Bound(p) \/ E!BoundElsewhere(p) \/ E!Close(p)
        PROVE  Windows'
    BY <2>2, <2>3 DEF E!Bound, E!BoundElsewhere, E!Close, E!Resolve
  <2>4. ASSUME NEW p \in Procs, E!Launch(p) \/ E!InUse(p) \/ E!Request(p)
        PROVE  Windows'
    BY <1>3, <2>4 DEF E!Launch, E!InUse, E!Request
  <2>5. CASE E!StrangerMoves \/ UNCHANGED E!vars
    BY <1>3, <2>5 DEF E!StrangerMoves, E!vars
  <2> QED BY <1>3, <2>3, <2>4, <2>5 DEF E!Next
<1>4. E!IInv /\ Windows => WindowMeetsOwner
  BY DEF E!IInv, E!WindowHasServer, WindowMeetsOwner
<1> QED BY <1>1, <1>2, <1>3, <1>4, PTL DEF E!Spec

\* The firmware ends a session that is heard from only if the PONG was stamped after the
\* task had read its clock: a PONG at least as old as that is really too old.
SilenceIsReal ==
  [][L!Judge /\ v2'.at = "stop" /\ v5 = "stamped" /\ v9.pong >= v2.spent => v9.pong > Timeout]_(L!vars)

(* '90 s pong timeout', across every wrap of the clock: the unsigned       *)
(* difference is wrong only for a PONG that overtakes the clock the task   *)
(* has read, which is all that makes LeftForSilence fail.                  *)
THEOREM SilenceIsRealHolds == L!Spec => SilenceIsReal
<1>1. L!Spec => []L!IInv
  BY LinkInit, LinkStep, PTL DEF L!Spec
<1>2. ASSUME L!IInv, L!Judge, v2'.at = "stop", v5 = "stamped", v9.pong >= v2.spent
      PROVE  v9.pong > Timeout
  <2>1. /\ Timeout \in Nat /\ Wrap \in Nat /\ v1 \in L!Clock /\ v2.now \in L!Clock
        /\ v2.spent \in Nat /\ v6.pong \in L!Clock /\ v9.pong \in Nat /\ v2.at = "judge"
    BY <1>2, ClockAssumption DEF L!IInv, L!TypeOK, L!Judge
  <2>2. L!Minus(v1, v2.now) = v2.spent /\ L!Minus(v1, v6.pong) = v9.pong
    BY <1>2, <2>1 DEF L!IInv, L!Awake
  <2>3. L!Minus(v2.now, v6.pong) > Timeout
    BY <1>2 DEF L!Judge, L!At
  \* what the task computed is the PONG's age when it read the clock
  <2>4. L!Minus(v2.now, v6.pong) = v9.pong - v2.spent
    BY <1>2, <2>1, <2>2 DEF L!Minus, L!Clock
  <2> QED BY <2>1, <2>3, <2>4
<1>3. L!IInv => [L!Judge /\ v2'.at = "stop" /\ v5 = "stamped" /\ v9.pong >= v2.spent => v9.pong > Timeout]_(L!vars)
  BY <1>2
<1> QED BY <1>1, <1>3, PTL DEF SilenceIsReal, L!Spec
=============================================================================
