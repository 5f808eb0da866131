------------------------------ MODULE MCSession ------------------------------
(* Finite instance of Session.                                             *)
EXTENDS Session, TLC
CONSTANTS k1, k2
MCCalls == 1..2
MCSocks == {k1, k2}
MCSymmetry == Permutations(MCSocks)
=============================================================================
