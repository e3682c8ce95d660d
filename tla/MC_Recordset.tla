---------------------------- MODULE MC_Recordset ----------------------------
(* Model-checking instance of Recordset: recordset ids are interchangeable. *)
EXTENDS Recordset, TLC

MCSymmetry == Permutations(RsIds)
=============================================================================
