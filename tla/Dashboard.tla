------------------------------ MODULE Dashboard ------------------------------
(***************************************************************************)
(* AdminDashboardModal: statistics polled while it is open, and two forms, *)
(* the broadcast and the ban, each with its busy flag and a success line   *)
(* that a timer takes away.  App keeps the flag that it is open, so it is  *)
(* mounted again, with its state lost, when somebody logs in.              *)
(***************************************************************************)
EXTENDS Naturals, FiniteSets

CONSTANTS Calls,     \* HTTP calls that may be under way at once (bound)
          Timers     \* success timers of a form that may be pending (bound)

VARIABLES page,    \* logged in, open
          poll,    \* the 5 s interval runs
          loading, \* the spinner of the refresh button
          form,    \* the two forms
          call     \* calls: operation, step, and whether this mount made them

vars == <<page, poll, loading, form, call>>

Forms == {"broadcast", "ban"}
Slots == 1..Calls
Free == [op |-> "none", at |-> "free", mine |-> FALSE]
EmptyForm == [text |-> FALSE, busy |-> FALSE, done |-> FALSE, timers |-> 0]

Shown == page.in /\ page.open
SubmitOffered(f) == Shown /\ form[f].text /\ ~form[f].busy
InputOffered(f) == Shown /\ ~form[f].busy

Idle(c) == call[c] = Free /\ \A d \in Slots : call[d] = Free => c <= d
Sent(op) == [op |-> op, at |-> "sent", mine |-> TRUE]
Start(c, op) == Idle(c) /\ call' = [call EXCEPT ![c] = Sent(op)]
Finish(c) == call' = [call EXCEPT ![c] = Free]

-----------------------------------------------------------------------------
Init ==
  /\ page = [in |-> TRUE, open |-> FALSE] /\ poll = FALSE /\ loading = FALSE
  /\ form = [f \in Forms |-> EmptyForm] /\ call = [c \in Slots |-> Free]

\* the effect of opening: a load with the spinner, and the interval
Open(c) ==
  /\ page.in /\ ~page.open
  /\ page' = [page EXCEPT !.open = TRUE] /\ poll' = TRUE
  /\ Start(c, "load") /\ loading' = TRUE
  /\ UNCHANGED form

\* the state stays, the interval goes
Close ==
  /\ Shown
  /\ page' = [page EXCEPT !.open = FALSE] /\ poll' = FALSE
  /\ UNCHANGED <<loading, form, call>>

\* getStats, by the interval
Tick(c) == poll /\ Start(c, "poll") /\ UNCHANGED <<page, poll, loading, form>>

RefreshButton(c) ==
  /\ Shown
  /\ Start(c, "load") /\ loading' = TRUE
  /\ UNCHANGED <<page, poll, form>>

\* the session ends: the component goes, its calls come back to nobody
Unmount ==
  /\ page.in
  /\ page' = [page EXCEPT !.in = FALSE] /\ poll' = FALSE /\ loading' = FALSE
  /\ form' = [f \in Forms |-> EmptyForm]
  /\ call' = [c \in Slots |-> [call[c] EXCEPT !.mine = FALSE]]

\* the next login finds it open or closed as App kept it
Mount(c) ==
  /\ ~page.in
  /\ page' = [page EXCEPT !.in = TRUE] /\ poll' = page.open /\ loading' = page.open
  /\ IF page.open THEN Start(c, "load") ELSE UNCHANGED call
  /\ UNCHANGED form

-----------------------------------------------------------------------------
(* The answers.                                                            *)

Answered(c, ops) == call[c].op \in ops /\ call[c].at = "sent" /\ call[c].mine

\* a load ends the spinner, with or without statistics; a poll has none
StatsCome(c) ==
  /\ Answered(c, {"load", "poll"})
  /\ loading' = (loading /\ call[c].op # "load")
  /\ Finish(c)
  /\ UNCHANGED <<page, poll, form>>

Orphaned(c) ==
  /\ call[c] # Free /\ ~call[c].mine
  /\ Finish(c)
  /\ UNCHANGED <<page, poll, loading, form>>

TypeText(f) ==
  /\ InputOffered(f) /\ ~form[f].text
  /\ form' = [form EXCEPT ![f].text = TRUE]
  /\ UNCHANGED <<page, poll, loading, call>>

\* handleBroadcast, handleBanUser after its confirmation
Submit(c, f) ==
  /\ SubmitOffered(f)
  /\ Start(c, f)
  /\ form' = [form EXCEPT ![f].busy = TRUE]
  /\ UNCHANGED <<page, poll, loading>>

Thanked(f) == [form[f] EXCEPT !.text = FALSE, !.busy = FALSE, !.done = TRUE, !.timers = @ + 1]

\* success, a line for 2.5 s, and fresh statistics without the spinner
Done(c, f) ==
  /\ Answered(c, {f}) /\ form[f].timers < Timers
  /\ form' = [form EXCEPT ![f] = Thanked(f)]
  /\ call' = [call EXCEPT ![c] = Sent("poll")]
  /\ UNCHANGED <<page, poll, loading>>

\* an alert, and the text stays; the server may have acted all the same
Failed(c, f) ==
  /\ Answered(c, {f})
  /\ form' = [form EXCEPT ![f].busy = FALSE]
  /\ Finish(c)
  /\ UNCHANGED <<page, poll, loading>>

ThanksTimer(f) ==
  /\ form[f].timers > 0
  /\ form' = [form EXCEPT ![f].done = FALSE, ![f].timers = @ - 1]
  /\ UNCHANGED <<page, poll, loading, call>>

-----------------------------------------------------------------------------
Next ==
  \/ Close \/ Unmount
  \/ \E c \in Slots : \/ Open(c) \/ Tick(c) \/ RefreshButton(c) \/ Mount(c)
                      \/ StatsCome(c) \/ Orphaned(c)
                      \/ \E f \in Forms : Submit(c, f) \/ Done(c, f) \/ Failed(c, f)
  \/ \E f \in Forms : TypeText(f) \/ ThanksTimer(f)

Spec == Init /\ [][Next]_vars

-----------------------------------------------------------------------------
TypeOK ==
  /\ page \in [in : BOOLEAN, open : BOOLEAN] /\ poll \in BOOLEAN /\ loading \in BOOLEAN
  /\ form \in [Forms -> [text : BOOLEAN, busy : BOOLEAN, done : BOOLEAN, timers : 0..Timers]]
  /\ call \in [Slots -> [op : {"none", "load", "poll"} \cup Forms, at : {"free", "sent"}, mine : BOOLEAN]]

\* Whatever is disabled or spins waits for a call of this mount, and a form has one
\* call at most: no double click and no logout leaves it disabled or sends it twice.
ProgressIsReal ==
  LET mine(op) == {c \in Slots : Answered(c, {op})} IN
  /\ loading => mine("load") # {}
  /\ \A f \in Forms : Cardinality(mine(f)) = (IF form[f].busy THEN 1 ELSE 0)

\* A success line is always taken away.
SuccessFades == \A f \in Forms : form[f].done => form[f].timers > 0

\* Inductive: the call that a busy form waits for is one, and a form that is free has none.
IInv ==
  /\ TypeOK /\ SuccessFades
  /\ loading => \E c \in Slots : Answered(c, {"load"})
  /\ \A f \in Forms :
       /\ form[f].busy <=> \E c \in Slots : Answered(c, {f})
       /\ \A c, d \in Slots : Answered(c, {f}) /\ Answered(d, {f}) => c = d
=============================================================================
