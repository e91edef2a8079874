--------------------------- MODULE MCFileVersions ---------------------------
(* Instances of FileVersions for TLC. Devices are symmetric.               *)
EXTENDS FileVersions, TLC

DeviceSymmetry == Permutations(Device)
=============================================================================
