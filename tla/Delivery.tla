------------------------------ MODULE Delivery ------------------------------
(***************************************************************************)
(* What the central relay promises the users of one conversation: a        *)
(* message that carries a stanza is stored under one sequence number; its  *)
(* sender is only ever told a number the message is stored under; its      *)
(* receivers are shown it after that, at most once.  Nothing stored, told  *)
(* or shown is taken back, whatever is resent, times out or crashes.       *)
(* Relay.tla is shown to implement this specification.                     *)
(***************************************************************************)
EXTENDS Naturals

CONSTANTS
  Frames,        \* the messages clients send
  StanzaOf,      \* [Frames -> stanza ids]
  NoStanza       \* the empty stanza id, by which no message is recognised

VARIABLES
  rows,      \* stored messages: a set of [seq, frame]
  told,      \* numbers told to senders: a set of [seq, frame]
  shown      \* messages shown to receivers: a set of [seq, frame]

deliveryVars == <<rows, told, shown>>

Keyable(f) == StanzaOf[f] # NoStanza

\* Two messages the store takes for one.
SameMessage(f, g) == Keyable(f) /\ StanzaOf[f] = StanzaOf[g]

Init == rows = {} /\ told = {} /\ shown = {}

\* A message becomes durable under a number no other row has.
Store == \E m \in rows' :
           /\ m \in [seq : Nat \ {0}, frame : Frames]
           /\ \A r \in rows : r.seq # m.seq /\ ~SameMessage(m.frame, r.frame)
           /\ rows' = rows \cup {m}
           /\ UNCHANGED <<told, shown>>

\* A sender learns the number of its message; a resend learns it again.
Acknowledge == \E r \in rows, f \in Frames :
                 /\ StanzaOf[r.frame] = StanzaOf[f]
                 /\ told' = told \cup {[seq |-> r.seq, frame |-> f]}
                 /\ UNCHANGED <<rows, shown>>

\* Receivers see a message its sender was told about, and never saw before.
Show == \E r \in rows \cap told :
          /\ \A p \in shown : p.seq # r.seq /\ ~SameMessage(r.frame, p.frame)
          /\ shown' = shown \cup {r}
          /\ UNCHANGED <<rows, told>>

Next == Store \/ Acknowledge \/ Show

Spec == Init /\ [][Next]_deliveryVars
=============================================================================
