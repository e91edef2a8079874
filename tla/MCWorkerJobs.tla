---------------------------- MODULE MCWorkerJobs ----------------------------
(* Instances of WorkerJobs for TLC: two processes, a scheduled cleanup and  *)
(* a backup an administrator asks for.                                      *)
EXTENDS WorkerJobs
=============================================================================
