------------------------- MODULE MCObjectLifecycle -------------------------
(* Instances of ObjectLifecycle for TLC: model values for files and        *)
(* objects, both symmetric, and the sets of operations of each run.        *)
EXTENDS ObjectLifecycle, TLC

Symmetry == Permutations(File) \cup Permutations(Object)
============================================================================
