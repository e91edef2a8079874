-------------------------- MODULE MCUploadSession --------------------------
(* Instances of UploadSession for TLC: model values for uploads, parts and *)
(* contents; the set of contents is symmetric (no definition tells one     *)
(* from another).                                                          *)
EXTENDS UploadSession, TLC

ContentSymmetry == Permutations(Content)
============================================================================
