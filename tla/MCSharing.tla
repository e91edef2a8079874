----------------------------- MODULE MCSharing -----------------------------
(* Instances of Sharing for TLC. Visitors are symmetric.                   *)
EXTENDS Sharing, TLC

VisitorSymmetry == Permutations(Visitor)
============================================================================
