---------------------------- MODULE MCErrorBlock ----------------------------
(***************************************************************************)
(* Instances of ErrorBlock for TLC.                                        *)
(***************************************************************************)
EXTENDS ErrorBlock, TLC

Symmetry == Permutations(Callers)
=============================================================================
