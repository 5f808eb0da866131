-------------------------------- MODULE MCCall --------------------------------
(* Finite instance of Call.                                                *)
EXTENDS Call
CONSTANTS web, phone
MCPeers == {web, phone}
=============================================================================
