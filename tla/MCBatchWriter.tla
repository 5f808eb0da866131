---------------------------- MODULE MCBatchWriter ----------------------------
(* Four writes: a message, its replay, one without a stanza and one whose   *)
(* stanza is made of spaces.                                                *)
EXTENDS BatchWriter

MCCalls == 1 .. 4
MCAsync == {3}
MCStanzaOf == <<"a", "a", "", " ">>
=============================================================================
