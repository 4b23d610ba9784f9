------------------------------ MODULE MCRegistry ------------------------------
(* Symmetry for the TLC runs of Registry. *)
EXTENDS Registry, TLC

Interchangeable == Permutations(Nodes) \cup Permutations(Instances)
=============================================================================
