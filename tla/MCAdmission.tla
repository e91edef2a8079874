---------------------------- MODULE MCAdmission ----------------------------
(* Instances of Admission for TLC. Owners and items are symmetric.         *)
EXTENDS Admission, TLC

ItemSymmetry == Permutations(Owner) \cup Permutations(Item)
============================================================================
