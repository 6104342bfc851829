---------------------------- MODULE MCSystemTask ----------------------------
(***************************************************************************)
(* SystemTask on small instances.  Runner ids are interchangeable.         *)
(***************************************************************************)
EXTENDS SystemTask, TLC

Symmetry == Permutations(Runners)
=============================================================================
