---------------------------- MODULE SeqService ----------------------------
(***************************************************************************)
(* What a conversation's sequence allocator promises to its callers: a     *)
(* counter that hands every number out at most once, in increasing order,  *)
(* without holes while the server stays up.  Only a restart may skip       *)
(* numbers (the unused tail of the reserved block), and it never goes      *)
(* back.  Allocator.tla is shown to implement this specification.          *)
(***************************************************************************)
EXTENDS Naturals

CONSTANT Callers     \* the goroutines that call Allocate

VARIABLES
  last,     \* the last number handed out, over all incarnations of the server
  fresh,    \* nothing was handed out since the counter was (re)loaded
  phase,    \* [Callers -> {"idle", "waiting", "holding"}]
  held      \* [Callers -> Nat]: the number a holding caller was given, else 0

svcVars == <<last, fresh, phase, held>>

Init == /\ last = 0
        /\ fresh = TRUE
        /\ phase = [c \in Callers |-> "idle"]
        /\ held = [c \in Callers |-> 0]

Call(c) == /\ phase[c] = "idle"
           /\ phase' = [phase EXCEPT ![c] = "waiting"]
           /\ UNCHANGED <<last, fresh, held>>

\* The number follows the last one; only the first of an incarnation may skip.
Hand(c) == /\ phase[c] = "waiting"
           /\ last' > last
           /\ last' \in Nat
           /\ ~fresh => last' = last + 1
           /\ fresh' = FALSE
           /\ phase' = [phase EXCEPT ![c] = "holding"]
           /\ held' = [held EXCEPT ![c] = last']

Refuse(c) == /\ phase[c] = "waiting"
             /\ phase' = [phase EXCEPT ![c] = "idle"]
             /\ UNCHANGED <<last, fresh, held>>

Release(c) == /\ phase[c] = "holding"
              /\ phase' = [phase EXCEPT ![c] = "idle"]
              /\ held' = [held EXCEPT ![c] = 0]
              /\ UNCHANGED <<last, fresh>>

\* The counter was loaded and nothing had been lost: no number is skipped.
Resume == /\ fresh
          /\ fresh' = FALSE
          /\ UNCHANGED <<last, phase, held>>

Restart == /\ last' = last
           /\ fresh' = TRUE
           /\ phase' = [c \in Callers |-> "idle"]
           /\ held' = [c \in Callers |-> 0]

Next == \/ \E c \in Callers : Call(c) \/ Hand(c) \/ Refuse(c) \/ Release(c)
        \/ Resume
        \/ Restart

Spec == Init /\ [][Next]_svcVars
=============================================================================
