---------------------------- MODULE MCChronoCache ----------------------------
(* Instances of ChronoCache for TLC. *)
EXTENDS ChronoCache, TLC

Symmetry == Permutations(Values)
=============================================================================
