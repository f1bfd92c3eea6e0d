-------------------------- MODULE MCSaveTransaction --------------------------
(* Small instances of SaveTransaction.                                       *)
EXTENDS SaveTransaction, TLC

SaveSymmetry == Permutations(Saves)
=============================================================================
