--------------------------- MODULE MCUploadEngine ---------------------------
(* Instances of UploadEngine for TLC: up to three files. No symmetry, for  *)
(* they are numbered in the order they are added.                          *)
EXTENDS UploadEngine
=============================================================================
