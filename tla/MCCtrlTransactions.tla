------------------------ MODULE MCCtrlTransactions ------------------------
(***************************************************************************)
(* Instances of CtrlTransactions for TLC.                                  *)
(***************************************************************************)
EXTENDS CtrlTransactions, TLC

Symmetry == Permutations(Callers)
=============================================================================
