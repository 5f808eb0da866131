---------------------------- MODULE MessageStore ----------------------------
(***************************************************************************)
(* What the batch writer promises: every accepted write is answered at     *)
(* most once; a success or duplicate answer names a row that is durable    *)
(* at that moment, an error answer means the row was not written; no two   *)
(* rows of a conversation share a stanza.  BatchWriter.tla is shown to     *)
(* implement this specification.  A write is named by its seq.             *)
(***************************************************************************)
EXTENDS Naturals

CONSTANTS
  Calls,        \* the writes, named by the seq of their message
  SameStanza(_, _)   \* two writes carry the same indexed stanza

VARIABLES
  rows,         \* the writes whose row is durable
  phase,        \* [Calls -> {"new", "pending", "over"}]
  answer        \* [Calls -> Answers]

storeVars == <<rows, phase, answer>>

NoAnswer == [kind |-> "none", seq |-> 0]
Failed   == [kind |-> "err", seq |-> 0]
Stored(c) == [kind |-> "ok", seq |-> c]
Replayed(c) == [kind |-> "dup", seq |-> c]

Init == /\ rows = {}
        /\ phase = [c \in Calls |-> "new"]
        /\ answer = [c \in Calls |-> NoAnswer]

Submit(c) == /\ phase[c] = "new"
             /\ phase' = [phase EXCEPT ![c] = "pending"]
             /\ UNCHANGED <<rows, answer>>

Refuse(c) == /\ phase[c] = "new"
             /\ phase' = [phase EXCEPT ![c] = "over"]
             /\ answer' = [answer EXCEPT ![c] = Failed]
             /\ UNCHANGED rows

\* A transaction makes some pending writes durable, all at once.
Commit == \E S \in SUBSET {c \in Calls : phase[c] = "pending"} :
            /\ rows' = rows \cup S
            /\ \A c, d \in rows' : SameStanza(c, d) => c = d
            /\ UNCHANGED <<phase, answer>>

Answer(c) ==
  /\ phase[c] = "pending"
  /\ phase' = [phase EXCEPT ![c] = "over"]
  /\ \/ c \in rows /\ answer' = [answer EXCEPT ![c] = Stored(c)]
     \/ \E d \in rows : /\ SameStanza(c, d)
                        /\ c \notin rows
                        /\ answer' = [answer EXCEPT ![c] = Replayed(d)]
     \/ c \notin rows /\ answer' = [answer EXCEPT ![c] = Failed]
  /\ UNCHANGED rows

\* Nobody waits for the answer of an asynchronous write.
Forget(c) == /\ phase[c] = "pending"
             /\ phase' = [phase EXCEPT ![c] = "over"]
             /\ UNCHANGED <<rows, answer>>

\* The process dies: answers not given yet are never given, rows stay.
Crash == /\ phase' = [c \in Calls |-> IF phase[c] = "pending" THEN "over" ELSE phase[c]]
         /\ UNCHANGED <<rows, answer>>

Next == \/ \E c \in Calls : Submit(c) \/ Refuse(c) \/ Answer(c) \/ Forget(c)
        \/ Commit
        \/ Crash

Spec == Init /\ [][Next]_storeVars
=============================================================================
