----------------------------- MODULE MCCounters -----------------------------
(***************************************************************************)
(* Instances of Counters for TLC.                                          *)
(***************************************************************************)
EXTENDS Counters, TLC

Symmetry == Permutations(Readers)
=============================================================================
