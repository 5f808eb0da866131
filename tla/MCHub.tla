-------------------------------- MODULE MCHub --------------------------------
(* Hub for TLC: a connection, its reconnect under the same login session,   *)
(* and a connection of another session (the user's second device).          *)
EXTENDS Hub, TLC

CONSTANTS c1, c2, c3, s1, s2

MCClients == {c1, c2, c3}
MCSessions == {s1, s2}
MCSessionOf == (c1 :> s1) @@ (c2 :> s1) @@ (c3 :> s2)
MCSymmetry == Permutations({c1, c2})
=============================================================================
