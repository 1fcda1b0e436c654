---------------------------- MODULE MCTraceRing ----------------------------
(***************************************************************************)
(* Instances of TraceRing for TLC.                                         *)
(***************************************************************************)
EXTENDS TraceRing, TLC

Symmetry == Permutations(Readers)
=============================================================================
