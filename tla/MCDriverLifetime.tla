-------------------------- MODULE MCDriverLifetime --------------------------
(***************************************************************************)
(* Instances of DriverLifetime for TLC.                                    *)
(***************************************************************************)
EXTENDS DriverLifetime, TLC

Symmetry == Permutations(Apps)
=============================================================================
