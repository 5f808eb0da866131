------------------------------- MODULE MCRelay -------------------------------
(* Relay for TLC: two messages with a stanza, one without.                  *)
EXTENDS Relay, TLC

CONSTANTS c1, c2, m1, m2, m3

MCConns == {c1, c2}
MCFrames == {m1, m2, m3}
MCStanzaOf == (m1 :> "a") @@ (m2 :> "b") @@ (m3 :> "")
ConnSymmetry == Permutations(MCConns)

\* One message only.
OneFrame == {m1}
=============================================================================
