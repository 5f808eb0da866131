-------------------------------- MODULE MCChat --------------------------------
(* Finite instance of Chat.                                                *)
EXTENDS Chat
CONSTANTS m1, p1
MCMyIds == {m1}
MCPeerIds == {p1}
MCLoads == {1, 2}
=============================================================================
