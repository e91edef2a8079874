----------------------- MODULE ObjectLifecycle_proofs -----------------------
(***************************************************************************)
(* Proofs about ObjectLifecycle, for any number of files and objects.      *)
(***************************************************************************)
EXTENDS ObjectLifecycle, TLAPS

LEMMA TypeInit == Init => TypeOK
<1> SUFFICES ASSUME Init PROVE TypeOK
  OBVIOUS
<1>1. ref \in [File -> Object \cup {None}]
  BY DEF Init
<1>2. fstate \in [File -> Gone \cup Completed \cup {"DELETED"}]
  BY DEF Init, Gone, Completed, Completion
<1>3. scan \in [Object -> Status] /\ infected \in [Object -> BOOLEAN]
  <2>1. CASE "scan" \in Ops
    BY <2>1 DEF Init, Status
  <2>2. CASE "scan" \notin Ops
    <3>1. scan = [o \in Object |-> "NONE"]
      BY <2>2 DEF Init
    <3>2. infected \in [Object -> {FALSE}]
      BY <2>2 DEF Init
    <3>3. infected \in [Object -> BOOLEAN]
      BY <3>2
    <3> QED BY <3>1, <3>3 DEF Status
  <2> QED BY <2>1, <2>2
<1>4. /\ due \in [File -> SUBSET Passes]
      /\ ostate \in [Object -> {"AVAILABLE", "QUARANTINED", "BLOCKED", "PURGED"}]
      /\ bytes \in [Object -> BOOLEAN] /\ job \in [Object -> Status]
      /\ lapses \subseteq (Object \cup {None}) \X LapseKinds
  BY DEF Init, Completion, Status
<1>5. attempts \in [Object -> 0..MaxAttempts]
  BY LifecycleConstants DEF Init
<1>6. bulk = NoBulk /\ worker = Idle
  BY DEF Init
<1> QED
  BY <1>1, <1>2, <1>3, <1>4, <1>5, <1>6 DEF TypeOK, Idle

LEMMA TypeNext == TypeOK /\ [Next]_vars => TypeOK'
<1> SUFFICES ASSUME TypeOK, [Next]_vars PROVE TypeOK'
  OBVIOUS
<1> USE LifecycleConstants
    DEF TypeOK, fileVars, objectVars, jobVars, scanVars, NoBulk, Idle, OwnerOps, Passes, Gone,
        Completed, Status
<1>1. ASSUME NEW op \in OwnerOps, NEW f \in File, BulkRead(op, f)
       PROVE  TypeOK'
  BY <1>1 DEF BulkRead, UserLocked
<1>2. CASE RestoreCheck
  BY <1>2 DEF RestoreCheck
<1>3. CASE BulkRollback
  BY <1>3 DEF BulkRollback
<1>4. ASSUME NEW f \in File, BulkDelete(f)
       PROVE  TypeOK'
  BY <1>4 DEF BulkDelete
<1>5. ASSUME NEW f \in File, BulkRestore(f)
       PROVE  TypeOK'
  BY <1>5 DEF BulkRestore
<1>6. ASSUME NEW f \in File, BulkPurge(f)
       PROVE  TypeOK'
  <2>1. lapses' \subseteq (Object \cup {None}) \X LapseKinds
    BY <1>6 DEF BulkPurge, Ignored, LapseKinds
  <2>2. job' \in [Object -> Status]
    BY <1>6 DEF BulkPurge, Enqueued
  <2>3. fstate' \in [File -> Gone \cup Completed \cup {"DELETED"}] /\ bulk' = NoBulk
    BY <1>6 DEF BulkPurge
  <2>4. UNCHANGED <<ref, due, objectVars, attempts, worker, scanVars>>
    BY <1>6 DEF BulkPurge
  <2> QED BY <2>1, <2>2, <2>3, <2>4
<1>7. ASSUME NEW f \in File, NEW g \in File, BulkCopy(f, g)
       PROVE  TypeOK'
  BY <1>7 DEF BulkCopy, RowLocked
<1>8. ASSUME NEW f \in File, NEW why \in Passes, Renew(f, why)
       PROVE  TypeOK'
  BY <1>8 DEF Renew
<1>31. ASSUME NEW files \in SUBSET File, FolderBack(files)
       PROVE  TypeOK'
  BY <1>31 DEF FolderBack
<1>9. ASSUME NEW f \in File, NEW why \in Passes, Lapse(f, why)
       PROVE  TypeOK'
  BY <1>9 DEF Lapse
<1>10. ASSUME NEW f \in File, NEW s \in {"AVAILABLE", "BLOCKED", "DELETED", "EXPIRED"}, Moderate(f, s)
       PROVE  TypeOK'
  <2>1. /\ fstate' \in [File -> Gone \cup Completed \cup {"DELETED"}]
        /\ due' \in [File -> SUBSET Passes]
    BY <1>10 DEF Moderate
  <2>2. ostate' \in [Object -> {"AVAILABLE", "QUARANTINED", "BLOCKED", "PURGED"}]
    BY <1>10 DEF Moderate
  <2>3. job' \in [Object -> Status]
    BY <1>10 DEF Moderate, Enqueued
  <2>4. UNCHANGED <<ref, bytes, attempts, bulk, worker, scan, infected>>
    BY <1>10 DEF Moderate
  <2>5. lapses' \subseteq (Object \cup {None}) \X LapseKinds
    BY <1>10 DEF Moderate, Ignored, LapseKinds
  <2> QED BY <2>1, <2>2, <2>3, <2>4, <2>5
<1>11. ASSUME NEW why \in Passes, List(why)
       PROVE  TypeOK'
  <2>1. Listed(why) \subseteq File
    BY DEF Listed
  <2> QED BY <1>11, <2>1 DEF List
<1>12. CASE FolderEnqueue
  BY <1>12 DEF FolderEnqueue, Enqueued
<1>13. ASSUME NEW f \in File, ExpireOne(f)
       PROVE  TypeOK'
  BY <1>13 DEF ExpireOne, Enqueued, Rest
<1>14. ASSUME NEW f \in File, TrashOne(f)
       PROVE  TypeOK'
  BY <1>14 DEF TrashOne, Enqueued, Rest
<1>15. ASSUME NEW f \in File, FolderOne(f)
       PROVE  TypeOK'
  BY <1>15 DEF FolderOne
<1>16. ASSUME NEW o \in Object, Claim(o)
       PROVE  TypeOK'
  BY <1>16 DEF Claim, Goto, Stranded, LapseKinds
<1>17. ASSUME NEW o \in Object, PurgeCheck(o)
       PROVE  TypeOK'
  BY <1>17 DEF PurgeCheck, At, Goto
<1>18. ASSUME NEW o \in Object, PurgeRemove(o)
       PROVE  TypeOK'
  BY <1>18 DEF PurgeRemove, At, Goto
<1>19. ASSUME NEW o \in Object, PurgeCommit(o)
       PROVE  TypeOK'
  BY <1>19 DEF PurgeCommit, At, Goto
<1>20. ASSUME NEW o \in Object, JobDone(o)
       PROVE  TypeOK'
  BY <1>20 DEF JobDone, At
<1>21. ASSUME NEW o \in Object, JobFails(o)
       PROVE  TypeOK'
  BY <1>21 DEF JobFails, At, Stranded, LapseKinds
<1>22. ASSUME NEW o \in Object, Retry(o)
       PROVE  TypeOK'
  BY <1>22 DEF Retry
<1>23. ASSUME NEW o \in Object, Reconcile(o)
       PROVE  TypeOK'
  BY <1>23 DEF Reconcile
<1>24. CASE WorkerCrash
  <2>1. lapses' \subseteq lapses \cup ((Object \cup {None}) \X LapseKinds)
    BY <1>24 DEF WorkerCrash, LapseKinds
  <2>2. job' \in [Object -> Status] /\ scan' \in [Object -> Status]
    BY <1>24 DEF WorkerCrash, Restarted
  <2>3. worker' = Idle /\ UNCHANGED <<fileVars, objectVars, attempts, bulk, infected>>
    BY <1>24 DEF WorkerCrash
  <2> QED BY <2>1, <2>2, <2>3
<1>25. CASE UNCHANGED vars
  BY <1>25 DEF vars
<1>26. ASSUME NEW o \in Object, ScanClaim(o)
       PROVE  TypeOK'
  BY <1>26 DEF ScanClaim, At, Goto
<1>27. ASSUME NEW o \in Object, Verdict(o)
       PROVE  TypeOK'
  BY <1>27 DEF Verdict, At, Goto
<1>28. ASSUME NEW o \in Object, ScanPurged(o)
       PROVE  TypeOK'
  BY <1>28 DEF ScanPurged, At, Goto
<1>29. ASSUME NEW o \in Object, ScanDone(o)
       PROVE  TypeOK'
  BY <1>29 DEF ScanDone, At
<1>30. ASSUME NEW o \in Object, ScanFails(o)
       PROVE  TypeOK'
  BY <1>30 DEF ScanFails, At
<1> HIDE DEF TypeOK, NoBulk, Idle, OwnerOps, Passes, Gone, Completed, Status
<1> QED
  BY <1>1, <1>2, <1>3, <1>4, <1>5, <1>6, <1>7, <1>8, <1>9, <1>10, <1>11, <1>12, <1>13,
     <1>14, <1>15, <1>16, <1>17, <1>18, <1>19, <1>20, <1>21, <1>22, <1>23, <1>24, <1>25,
     <1>26, <1>27, <1>28, <1>29, <1>30, <1>31
  DEF Next, PassStep, Purging, Scanning

\* Every row, job and step of the worker has its declared values, for any
\* files and objects.
THEOREM TypeCorrect == Spec => []TypeOK
BY TypeInit, TypeNext, PTL DEF Spec

----------------------------------------------------------------------------
(***************************************************************************)
(* Metadata follows the store.                                             *)
(***************************************************************************)

\* The job goes on to the metadata only once the store has removed the object.
RemovedFirst == \A o \in Object : ostate[o] = "PURGED" \/ At("removed", o) => ~bytes[o]

PurgedInv == TypeOK /\ RemovedFirst

LEMMA RemovedFirstNext == PurgedInv /\ [Next]_vars => RemovedFirst'
<1> SUFFICES ASSUME PurgedInv, [Next]_vars PROVE RemovedFirst'
  OBVIOUS
<1>0. /\ bytes \in [Object -> BOOLEAN]
      /\ ostate \in [Object -> {"AVAILABLE", "QUARANTINED", "BLOCKED", "PURGED"}]
      /\ RemovedFirst
  BY DEF PurgedInv, TypeOK
<1> USE <1>0 DEF RemovedFirst, At, Goto, Idle, Passes, fileVars, objectVars, jobVars, scanVars
<1>1. ASSUME NEW op \in OwnerOps, NEW f \in File, BulkRead(op, f)
       PROVE  RemovedFirst'
  BY <1>1 DEF BulkRead
<1>2. CASE RestoreCheck
  BY <1>2 DEF RestoreCheck
<1>3. CASE BulkRollback
  BY <1>3 DEF BulkRollback
<1>4. ASSUME NEW f \in File, BulkDelete(f)
       PROVE  RemovedFirst'
  BY <1>4 DEF BulkDelete
<1>5. ASSUME NEW f \in File, BulkRestore(f)
       PROVE  RemovedFirst'
  BY <1>5 DEF BulkRestore
<1>6. ASSUME NEW f \in File, BulkPurge(f)
       PROVE  RemovedFirst'
  BY <1>6 DEF BulkPurge
<1>7. ASSUME NEW f \in File, NEW g \in File, BulkCopy(f, g)
       PROVE  RemovedFirst'
  BY <1>7 DEF BulkCopy
<1>8. ASSUME NEW f \in File, NEW why \in Passes, Renew(f, why)
       PROVE  RemovedFirst'
  BY <1>8 DEF Renew
<1>31. ASSUME NEW files \in SUBSET File, FolderBack(files)
       PROVE  RemovedFirst'
  BY <1>31 DEF FolderBack
<1>9. ASSUME NEW f \in File, NEW why \in Passes, Lapse(f, why)
       PROVE  RemovedFirst'
  BY <1>9 DEF Lapse
<1>10. ASSUME NEW f \in File, NEW s \in {"AVAILABLE", "BLOCKED", "DELETED", "EXPIRED"}, Moderate(f, s)
       PROVE  RemovedFirst'
  BY <1>10 DEF Moderate
<1>11. ASSUME NEW why \in Passes, List(why)
       PROVE  RemovedFirst'
  BY <1>11 DEF List
<1>12. CASE FolderEnqueue
  BY <1>12 DEF FolderEnqueue
<1>13. ASSUME NEW f \in File, ExpireOne(f)
       PROVE  RemovedFirst'
  BY <1>13 DEF ExpireOne, Rest
<1>14. ASSUME NEW f \in File, TrashOne(f)
       PROVE  RemovedFirst'
  BY <1>14 DEF TrashOne, Rest
<1>15. ASSUME NEW f \in File, FolderOne(f)
       PROVE  RemovedFirst'
  BY <1>15 DEF FolderOne
<1>16. ASSUME NEW o \in Object, Claim(o)
       PROVE  RemovedFirst'
  BY <1>16 DEF Claim
<1>17. ASSUME NEW o \in Object, PurgeCheck(o)
       PROVE  RemovedFirst'
  BY <1>17 DEF PurgeCheck
<1>18. ASSUME NEW o \in Object, PurgeRemove(o)
       PROVE  RemovedFirst'
  BY <1>18 DEF PurgeRemove
<1>19. ASSUME NEW o \in Object, PurgeCommit(o)
       PROVE  RemovedFirst'
  BY <1>19 DEF PurgeCommit
<1>20. ASSUME NEW o \in Object, JobDone(o)
       PROVE  RemovedFirst'
  BY <1>20 DEF JobDone
<1>21. ASSUME NEW o \in Object, JobFails(o)
       PROVE  RemovedFirst'
  BY <1>21 DEF JobFails
<1>22. ASSUME NEW o \in Object, Retry(o)
       PROVE  RemovedFirst'
  BY <1>22 DEF Retry
<1>23. ASSUME NEW o \in Object, Reconcile(o)
       PROVE  RemovedFirst'
  BY <1>23 DEF Reconcile
<1>24. CASE WorkerCrash
  BY <1>24 DEF WorkerCrash
<1>25. CASE UNCHANGED vars
  BY <1>25 DEF vars
<1>26. ASSUME NEW o \in Object, ScanClaim(o)
       PROVE  RemovedFirst'
  BY <1>26 DEF ScanClaim, At, Goto
<1>27. ASSUME NEW o \in Object, Verdict(o)
       PROVE  RemovedFirst'
  BY <1>27 DEF Verdict, At, Goto
<1>28. ASSUME NEW o \in Object, ScanPurged(o)
       PROVE  RemovedFirst'
  BY <1>28 DEF ScanPurged, At, Goto
<1>29. ASSUME NEW o \in Object, ScanDone(o)
       PROVE  RemovedFirst'
  BY <1>29 DEF ScanDone, At
<1>30. ASSUME NEW o \in Object, ScanFails(o)
       PROVE  RemovedFirst'
  BY <1>30 DEF ScanFails, At
<1> QED
  BY <1>1, <1>2, <1>3, <1>4, <1>5, <1>6, <1>7, <1>8, <1>9, <1>10, <1>11, <1>12, <1>13,
     <1>14, <1>15, <1>16, <1>17, <1>18, <1>19, <1>20, <1>21, <1>22, <1>23, <1>24, <1>25,
     <1>26, <1>27, <1>28, <1>29, <1>30, <1>31
  DEF Next, PassStep, Purging, Scanning

LEMMA PurgedInit == Init => PurgedInv
<1> SUFFICES ASSUME Init PROVE RemovedFirst
  BY TypeInit DEF PurgedInv
<1>1. (\A o \in Object : ostate[o] # "PURGED") /\ worker = Idle
  BY DEF Init, Completion
<1> QED BY <1>1 DEF RemovedFirst, At, Idle

\* An object whose metadata say PURGED has left the store, whatever the job's
\* crashes and failures and the moderator did (worker/src/index.ts:26).
THEOREM PurgedIsRemovedHolds == Spec => []PurgedIsRemoved
<1>1. Init => PurgedInv
  BY PurgedInit
<1>2. PurgedInv /\ [Next]_vars => PurgedInv'
  BY TypeNext, RemovedFirstNext DEF PurgedInv
<1>3. PurgedInv => PurgedIsRemoved
  BY DEF PurgedInv, RemovedFirst, PurgedIsRemoved
<1> QED
  BY <1>1, <1>2, <1>3, PTL DEF Spec

----------------------------------------------------------------------------
(***************************************************************************)
(* What the purge job's row lock is good for: without the owner's stale    *)
(* deletes and restores, no reference appears between the job's look and   *)
(* its removal.                                                            *)
(***************************************************************************)

NoStaleWrites == Ops \cap {"delete", "restore"} = {}

\* The object under removal has no reference.
RemovalSafe == worker.step = "removing" => Unreferenced(worker.obj)

ReferenceInv == TypeOK /\ bulk.op \notin {"delete", "restore"} /\ RemovalSafe

LEMMA ReferenceNext == NoStaleWrites /\ ReferenceInv /\ [Next]_vars => ReferenceInv'
<1> SUFFICES ASSUME NoStaleWrites, ReferenceInv, [Next]_vars
             PROVE  bulk'.op \notin {"delete", "restore"} /\ RemovalSafe'
  BY TypeNext DEF ReferenceInv
<1>0. /\ fstate \in [File -> Gone \cup Completed \cup {"DELETED"}]
      /\ ref \in [File -> Object \cup {None}]
      /\ bulk.op \notin {"delete", "restore"} /\ RemovalSafe
      /\ bulk \in {NoBulk} \cup [op : OwnerOps, step : {"read", "checked"}, file : File]
  BY DEF ReferenceInv, TypeOK
<1> USE <1>0 DEF NoStaleWrites, RemovalSafe, Unreferenced, Refers, Live, Gone, Idle, NoBulk,
                 At, Goto, OwnerOps, Passes, Completed, fileVars, objectVars, jobVars, scanVars
<1>1. ASSUME NEW op \in OwnerOps, NEW f \in File, BulkRead(op, f)
       PROVE  bulk'.op \notin {"delete", "restore"} /\ RemovalSafe'
  BY <1>1 DEF BulkRead
<1>2. CASE RestoreCheck
  BY <1>2 DEF RestoreCheck
<1>3. CASE BulkRollback
  BY <1>3 DEF BulkRollback
<1>4. ASSUME NEW f \in File, BulkDelete(f)
       PROVE  bulk'.op \notin {"delete", "restore"} /\ RemovalSafe'
  BY <1>4 DEF BulkDelete
<1>5. ASSUME NEW f \in File, BulkRestore(f)
       PROVE  bulk'.op \notin {"delete", "restore"} /\ RemovalSafe'
  BY <1>5 DEF BulkRestore
<1>6. ASSUME NEW f \in File, BulkPurge(f)
       PROVE  bulk'.op \notin {"delete", "restore"} /\ RemovalSafe'
  BY <1>6 DEF BulkPurge
<1>7. ASSUME NEW f \in File, NEW g \in File, BulkCopy(f, g)
       PROVE  bulk'.op \notin {"delete", "restore"} /\ RemovalSafe'
  BY <1>7 DEF BulkCopy, RowLocked
<1>8. ASSUME NEW f \in File, NEW why \in Passes, Renew(f, why)
       PROVE  bulk'.op \notin {"delete", "restore"} /\ RemovalSafe'
  BY <1>8 DEF Renew
<1>31. ASSUME NEW files \in SUBSET File, FolderBack(files)
       PROVE  bulk'.op \notin {"delete", "restore"} /\ RemovalSafe'
  BY <1>31 DEF FolderBack
<1>9. ASSUME NEW f \in File, NEW why \in Passes, Lapse(f, why)
       PROVE  bulk'.op \notin {"delete", "restore"} /\ RemovalSafe'
  BY <1>9 DEF Lapse
<1>10. ASSUME NEW f \in File, NEW s \in {"AVAILABLE", "BLOCKED", "DELETED", "EXPIRED"}, Moderate(f, s)
       PROVE  bulk'.op \notin {"delete", "restore"} /\ RemovalSafe'
  BY <1>10 DEF Moderate, RowLocked
<1>11. ASSUME NEW why \in Passes, List(why)
       PROVE  bulk'.op \notin {"delete", "restore"} /\ RemovalSafe'
  BY <1>11 DEF List
<1>12. CASE FolderEnqueue
  BY <1>12 DEF FolderEnqueue
<1>13. ASSUME NEW f \in File, ExpireOne(f)
       PROVE  bulk'.op \notin {"delete", "restore"} /\ RemovalSafe'
  BY <1>13 DEF ExpireOne, Rest
<1>14. ASSUME NEW f \in File, TrashOne(f)
       PROVE  bulk'.op \notin {"delete", "restore"} /\ RemovalSafe'
  BY <1>14 DEF TrashOne, Rest
<1>15. ASSUME NEW f \in File, FolderOne(f)
       PROVE  bulk'.op \notin {"delete", "restore"} /\ RemovalSafe'
  BY <1>15 DEF FolderOne
<1>16. ASSUME NEW o \in Object, Claim(o)
       PROVE  bulk'.op \notin {"delete", "restore"} /\ RemovalSafe'
  BY <1>16 DEF Claim
<1>17. ASSUME NEW o \in Object, PurgeCheck(o)
       PROVE  bulk'.op \notin {"delete", "restore"} /\ RemovalSafe'
  BY <1>17 DEF PurgeCheck, Purgeable
<1>18. ASSUME NEW o \in Object, PurgeRemove(o)
       PROVE  bulk'.op \notin {"delete", "restore"} /\ RemovalSafe'
  BY <1>18 DEF PurgeRemove
<1>19. ASSUME NEW o \in Object, PurgeCommit(o)
       PROVE  bulk'.op \notin {"delete", "restore"} /\ RemovalSafe'
  BY <1>19 DEF PurgeCommit
<1>20. ASSUME NEW o \in Object, JobDone(o)
       PROVE  bulk'.op \notin {"delete", "restore"} /\ RemovalSafe'
  BY <1>20 DEF JobDone
<1>21. ASSUME NEW o \in Object, JobFails(o)
       PROVE  bulk'.op \notin {"delete", "restore"} /\ RemovalSafe'
  BY <1>21 DEF JobFails
<1>22. ASSUME NEW o \in Object, Retry(o)
       PROVE  bulk'.op \notin {"delete", "restore"} /\ RemovalSafe'
  BY <1>22 DEF Retry
<1>23. ASSUME NEW o \in Object, Reconcile(o)
       PROVE  bulk'.op \notin {"delete", "restore"} /\ RemovalSafe'
  BY <1>23 DEF Reconcile
<1>24. CASE WorkerCrash
  BY <1>24 DEF WorkerCrash
<1>25. CASE UNCHANGED vars
  BY <1>25 DEF vars
<1>26. ASSUME NEW o \in Object, ScanClaim(o)
       PROVE  bulk'.op \notin {"delete", "restore"} /\ RemovalSafe'
  BY <1>26 DEF ScanClaim, At, Goto
<1>27. ASSUME NEW o \in Object, Verdict(o)
       PROVE  bulk'.op \notin {"delete", "restore"} /\ RemovalSafe'
  BY <1>27 DEF Verdict, At, Goto
<1>28. ASSUME NEW o \in Object, ScanPurged(o)
       PROVE  bulk'.op \notin {"delete", "restore"} /\ RemovalSafe'
  BY <1>28 DEF ScanPurged, At, Goto
<1>29. ASSUME NEW o \in Object, ScanDone(o)
       PROVE  bulk'.op \notin {"delete", "restore"} /\ RemovalSafe'
  BY <1>29 DEF ScanDone, At
<1>30. ASSUME NEW o \in Object, ScanFails(o)
       PROVE  bulk'.op \notin {"delete", "restore"} /\ RemovalSafe'
  BY <1>30 DEF ScanFails, At
<1> QED
  BY <1>1, <1>2, <1>3, <1>4, <1>5, <1>6, <1>7, <1>8, <1>9, <1>10, <1>11, <1>12, <1>13,
     <1>14, <1>15, <1>16, <1>17, <1>18, <1>19, <1>20, <1>21, <1>22, <1>23, <1>24, <1>25,
     <1>26, <1>27, <1>28, <1>29, <1>30, <1>31
  DEF Next, PassStep, Purging, Scanning

LEMMA ReferenceInit == Init => ReferenceInv
<1> SUFFICES ASSUME Init PROVE bulk.op \notin {"delete", "restore"} /\ RemovalSafe
  BY TypeInit DEF ReferenceInv
<1>1. bulk = NoBulk /\ worker = Idle
  BY DEF Init
<1> QED BY <1>1 DEF RemovalSafe, Idle, NoBulk

LEMMA OnlyPurgeRemoves ==
  ASSUME [Next]_vars
  PROVE  bytes' = bytes \/ \E p \in Object : PurgeRemove(p)
<1> USE DEF objectVars
<1>1. ASSUME NEW op \in OwnerOps, NEW f \in File, BulkRead(op, f)
       PROVE  bytes' = bytes
  BY <1>1 DEF BulkRead
<1>2. CASE RestoreCheck
  BY <1>2 DEF RestoreCheck
<1>3. CASE BulkRollback
  BY <1>3 DEF BulkRollback
<1>4. ASSUME NEW f \in File, BulkDelete(f)
       PROVE  bytes' = bytes
  BY <1>4 DEF BulkDelete
<1>5. ASSUME NEW f \in File, BulkRestore(f)
       PROVE  bytes' = bytes
  BY <1>5 DEF BulkRestore
<1>6. ASSUME NEW f \in File, BulkPurge(f)
       PROVE  bytes' = bytes
  BY <1>6 DEF BulkPurge
<1>7. ASSUME NEW f \in File, NEW g \in File, BulkCopy(f, g)
       PROVE  bytes' = bytes
  BY <1>7 DEF BulkCopy
<1>8. ASSUME NEW f \in File, NEW why \in Passes, Renew(f, why)
       PROVE  bytes' = bytes
  BY <1>8 DEF Renew
<1>31. ASSUME NEW files \in SUBSET File, FolderBack(files)
       PROVE  bytes' = bytes
  BY <1>31 DEF FolderBack
<1>9. ASSUME NEW f \in File, NEW why \in Passes, Lapse(f, why)
       PROVE  bytes' = bytes
  BY <1>9 DEF Lapse
<1>10. ASSUME NEW f \in File, NEW s \in {"AVAILABLE", "BLOCKED", "DELETED", "EXPIRED"}, Moderate(f, s)
       PROVE  bytes' = bytes
  BY <1>10 DEF Moderate
<1>11. ASSUME NEW why \in Passes, List(why)
       PROVE  bytes' = bytes
  BY <1>11 DEF List
<1>12. CASE FolderEnqueue
  BY <1>12 DEF FolderEnqueue
<1>13. ASSUME NEW f \in File, ExpireOne(f)
       PROVE  bytes' = bytes
  BY <1>13 DEF ExpireOne
<1>14. ASSUME NEW f \in File, TrashOne(f)
       PROVE  bytes' = bytes
  BY <1>14 DEF TrashOne
<1>15. ASSUME NEW f \in File, FolderOne(f)
       PROVE  bytes' = bytes
  BY <1>15 DEF FolderOne
<1>16. ASSUME NEW o \in Object, Claim(o)
       PROVE  bytes' = bytes
  BY <1>16 DEF Claim
<1>17. ASSUME NEW o \in Object, PurgeCheck(o)
       PROVE  bytes' = bytes
  BY <1>17 DEF PurgeCheck
<1>18. ASSUME NEW o \in Object, PurgeRemove(o)
       PROVE  \E p \in Object : PurgeRemove(p)
  BY <1>18
<1>19. ASSUME NEW o \in Object, PurgeCommit(o)
       PROVE  bytes' = bytes
  BY <1>19 DEF PurgeCommit
<1>20. ASSUME NEW o \in Object, JobDone(o)
       PROVE  bytes' = bytes
  BY <1>20 DEF JobDone
<1>21. ASSUME NEW o \in Object, JobFails(o)
       PROVE  bytes' = bytes
  BY <1>21 DEF JobFails
<1>22. ASSUME NEW o \in Object, Retry(o)
       PROVE  bytes' = bytes
  BY <1>22 DEF Retry
<1>23. ASSUME NEW o \in Object, Reconcile(o)
       PROVE  bytes' = bytes
  BY <1>23 DEF Reconcile
<1>24. CASE WorkerCrash
  BY <1>24 DEF WorkerCrash
<1>25. CASE UNCHANGED vars
  BY <1>25 DEF vars
<1>26. ASSUME NEW o \in Object, ScanClaim(o)
       PROVE  bytes' = bytes
  BY <1>26 DEF ScanClaim, At, Goto
<1>27. ASSUME NEW o \in Object, Verdict(o)
       PROVE  bytes' = bytes
  BY <1>27 DEF Verdict, At, Goto
<1>28. ASSUME NEW o \in Object, ScanPurged(o)
       PROVE  bytes' = bytes
  BY <1>28 DEF ScanPurged, At, Goto
<1>29. ASSUME NEW o \in Object, ScanDone(o)
       PROVE  bytes' = bytes
  BY <1>29 DEF ScanDone, At
<1>30. ASSUME NEW o \in Object, ScanFails(o)
       PROVE  bytes' = bytes
  BY <1>30 DEF ScanFails, At
<1> QED
  BY <1>1, <1>2, <1>3, <1>4, <1>5, <1>6, <1>7, <1>8, <1>9, <1>10, <1>11, <1>12, <1>13,
     <1>14, <1>15, <1>16, <1>17, <1>18, <1>19, <1>20, <1>21, <1>22, <1>23, <1>24, <1>25,
     <1>26, <1>27, <1>28, <1>29, <1>30, <1>31
  DEF Next, PassStep, Purging, Scanning

\* A job that is safe in removing its object removes nothing else.
LEMMA LosesUnreferenced ==
  ASSUME TypeOK, RemovalSafe, [Next]_vars
  PROVE  \A o \in Object : bytes[o] /\ ~bytes'[o] => Unreferenced(o)
<1>1. CASE bytes' = bytes
  BY <1>1
<1>2. ASSUME NEW p \in Object, PurgeRemove(p), NEW o \in Object, bytes[o], ~bytes'[o]
      PROVE  Unreferenced(o)
  BY <1>2 DEF TypeOK, RemovalSafe, PurgeRemove, At
<1> QED BY <1>1, <1>2, OnlyPurgeRemoves

\* The store loses an object only while no file refers to it, for any files
\* and objects, copies, retention passes, moderators, failures and crashes,
\* as long as no delete or restore writes on the strength of an old read
\* (files.ts:49-50, worker/src/index.ts:26).
THEOREM OnlyUnreferencedRemovedHolds ==
  NoStaleWrites /\ Spec => OnlyUnreferencedRemoved
<1> DEFINE Lost == \A o \in Object : bytes[o] /\ ~bytes'[o] => Unreferenced(o)
<1>1. ASSUME ReferenceInv, [Next]_vars PROVE Lost
  BY <1>1, LosesUnreferenced DEF ReferenceInv
<1>2. CASE NoStaleWrites
  <2>1. ReferenceInv /\ [Next]_vars => ReferenceInv'
    BY <1>2, ReferenceNext
  <2>2. ReferenceInv /\ [Next]_vars => [Lost]_vars
    BY <1>1
  <2> HIDE DEF Lost
  <2>3. Spec => [][Lost]_vars
    BY ReferenceInit, <2>1, <2>2, PTL DEF Spec
  <2> QED BY <2>3 DEF Lost, OnlyUnreferencedRemoved
<1>3. CASE ~NoStaleWrites
  BY <1>3, PTL
<1> QED BY <1>2, <1>3

----------------------------------------------------------------------------
(***************************************************************************)
(* What the owner's row lock is good for: with no retention passes and no  *)
(* moderator, bulk operations are alone with the purge job.                *)
(***************************************************************************)

OwnerAlone == Ops \cap (Passes \cup {"moderate"}) = {}

\* No retention is over, so no pass has anything to do.
NothingDue == (\A f \in File : due[f] = {}) /\ worker.step \notin Passes \cup {"unlinked"}

\* What a bulk operation read of its file is still true.
ReadIsTrue == bulk # NoBulk => fstate[bulk.file] \in Accepts(bulk.op)

\* A file that is referred to has an object and its bytes.
LiveIsStored == \A f \in File : Live(f) => ref[f] \in Object /\ bytes[ref[f]]

OwnerInv == TypeOK /\ NothingDue /\ ReadIsTrue /\ RemovalSafe /\ LiveIsStored

LEMMA OwnerNext == OwnerAlone /\ OwnerInv /\ [Next]_vars => OwnerInv'
<1> SUFFICES ASSUME OwnerAlone, OwnerInv, [Next]_vars
             PROVE  NothingDue' /\ ReadIsTrue' /\ RemovalSafe' /\ LiveIsStored'
  BY TypeNext DEF OwnerInv
<1>0. /\ fstate \in [File -> Gone \cup Completed \cup {"DELETED"}]
      /\ ref \in [File -> Object \cup {None}]
      /\ due \in [File -> SUBSET Passes]
      /\ bytes \in [Object -> BOOLEAN]
      /\ bulk \in {NoBulk} \cup [op : OwnerOps, step : {"read", "checked"}, file : File]
      /\ NothingDue /\ ReadIsTrue /\ RemovalSafe /\ LiveIsStored
  BY DEF OwnerInv, TypeOK
<1> USE <1>0, LifecycleConstants
    DEF OwnerAlone, NothingDue, ReadIsTrue, RemovalSafe, LiveIsStored, Unreferenced, Refers,
        Live, Gone, Idle, NoBulk, At, Goto, OwnerOps, Passes, Completed, Accepts,
        fileVars, objectVars, jobVars, scanVars
<1>1. ASSUME NEW op \in OwnerOps, NEW f \in File, BulkRead(op, f)
       PROVE  NothingDue' /\ ReadIsTrue' /\ RemovalSafe' /\ LiveIsStored'
  BY <1>1 DEF BulkRead, UserLocked
<1>2. CASE RestoreCheck
  BY <1>2 DEF RestoreCheck
<1>3. CASE BulkRollback
  BY <1>3 DEF BulkRollback
<1>4. ASSUME NEW f \in File, BulkDelete(f)
       PROVE  NothingDue' /\ ReadIsTrue' /\ RemovalSafe' /\ LiveIsStored'
  BY <1>4 DEF BulkDelete
<1>5. ASSUME NEW f \in File, BulkRestore(f)
       PROVE  NothingDue' /\ ReadIsTrue' /\ RemovalSafe' /\ LiveIsStored'
  BY <1>5 DEF BulkRestore
<1>6. ASSUME NEW f \in File, BulkPurge(f)
       PROVE  NothingDue' /\ ReadIsTrue' /\ RemovalSafe' /\ LiveIsStored'
  BY <1>6 DEF BulkPurge
<1>7. ASSUME NEW f \in File, NEW g \in File, BulkCopy(f, g)
       PROVE  NothingDue' /\ ReadIsTrue' /\ RemovalSafe' /\ LiveIsStored'
  BY <1>7 DEF BulkCopy
<1>8. ASSUME NEW f \in File, NEW why \in Passes, Renew(f, why)
       PROVE  NothingDue' /\ ReadIsTrue' /\ RemovalSafe' /\ LiveIsStored'
  BY <1>8 DEF Renew
<1>31. ASSUME NEW files \in SUBSET File, FolderBack(files)
       PROVE  NothingDue' /\ ReadIsTrue' /\ RemovalSafe' /\ LiveIsStored'
  BY <1>31 DEF FolderBack
<1>9. ASSUME NEW f \in File, NEW why \in Passes, Lapse(f, why)
       PROVE  NothingDue' /\ ReadIsTrue' /\ RemovalSafe' /\ LiveIsStored'
  BY <1>9 DEF Lapse
<1>10. ASSUME NEW f \in File, NEW s \in {"AVAILABLE", "BLOCKED", "DELETED", "EXPIRED"}, Moderate(f, s)
       PROVE  NothingDue' /\ ReadIsTrue' /\ RemovalSafe' /\ LiveIsStored'
  BY <1>10 DEF Moderate
<1>11. ASSUME NEW why \in Passes, List(why)
       PROVE  NothingDue' /\ ReadIsTrue' /\ RemovalSafe' /\ LiveIsStored'
  BY <1>11 DEF List, Listed
<1>12. CASE FolderEnqueue
  BY <1>12 DEF FolderEnqueue
<1>13. ASSUME NEW f \in File, ExpireOne(f)
       PROVE  NothingDue' /\ ReadIsTrue' /\ RemovalSafe' /\ LiveIsStored'
  BY <1>13 DEF ExpireOne, Rest
<1>14. ASSUME NEW f \in File, TrashOne(f)
       PROVE  NothingDue' /\ ReadIsTrue' /\ RemovalSafe' /\ LiveIsStored'
  BY <1>14 DEF TrashOne, Rest
<1>15. ASSUME NEW f \in File, FolderOne(f)
       PROVE  NothingDue' /\ ReadIsTrue' /\ RemovalSafe' /\ LiveIsStored'
  BY <1>15 DEF FolderOne
<1>16. ASSUME NEW o \in Object, Claim(o)
       PROVE  NothingDue' /\ ReadIsTrue' /\ RemovalSafe' /\ LiveIsStored'
  BY <1>16 DEF Claim
<1>17. ASSUME NEW o \in Object, PurgeCheck(o)
       PROVE  NothingDue' /\ ReadIsTrue' /\ RemovalSafe' /\ LiveIsStored'
  BY <1>17 DEF PurgeCheck, Purgeable
<1>18. ASSUME NEW o \in Object, PurgeRemove(o)
       PROVE  NothingDue' /\ ReadIsTrue' /\ RemovalSafe' /\ LiveIsStored'
  BY <1>18 DEF PurgeRemove
<1>19. ASSUME NEW o \in Object, PurgeCommit(o)
       PROVE  NothingDue' /\ ReadIsTrue' /\ RemovalSafe' /\ LiveIsStored'
  BY <1>19 DEF PurgeCommit
<1>20. ASSUME NEW o \in Object, JobDone(o)
       PROVE  NothingDue' /\ ReadIsTrue' /\ RemovalSafe' /\ LiveIsStored'
  BY <1>20 DEF JobDone
<1>21. ASSUME NEW o \in Object, JobFails(o)
       PROVE  NothingDue' /\ ReadIsTrue' /\ RemovalSafe' /\ LiveIsStored'
  BY <1>21 DEF JobFails
<1>22. ASSUME NEW o \in Object, Retry(o)
       PROVE  NothingDue' /\ ReadIsTrue' /\ RemovalSafe' /\ LiveIsStored'
  BY <1>22 DEF Retry
<1>23. ASSUME NEW o \in Object, Reconcile(o)
       PROVE  NothingDue' /\ ReadIsTrue' /\ RemovalSafe' /\ LiveIsStored'
  BY <1>23 DEF Reconcile
<1>24. CASE WorkerCrash
  BY <1>24 DEF WorkerCrash
<1>25. CASE UNCHANGED vars
  BY <1>25 DEF vars
<1>26. ASSUME NEW o \in Object, ScanClaim(o)
       PROVE  NothingDue' /\ ReadIsTrue' /\ RemovalSafe' /\ LiveIsStored'
  BY <1>26 DEF ScanClaim, At, Goto
<1>27. ASSUME NEW o \in Object, Verdict(o)
       PROVE  NothingDue' /\ ReadIsTrue' /\ RemovalSafe' /\ LiveIsStored'
  BY <1>27 DEF Verdict, At, Goto
<1>28. ASSUME NEW o \in Object, ScanPurged(o)
       PROVE  NothingDue' /\ ReadIsTrue' /\ RemovalSafe' /\ LiveIsStored'
  BY <1>28 DEF ScanPurged, At, Goto
<1>29. ASSUME NEW o \in Object, ScanDone(o)
       PROVE  NothingDue' /\ ReadIsTrue' /\ RemovalSafe' /\ LiveIsStored'
  BY <1>29 DEF ScanDone, At
<1>30. ASSUME NEW o \in Object, ScanFails(o)
       PROVE  NothingDue' /\ ReadIsTrue' /\ RemovalSafe' /\ LiveIsStored'
  BY <1>30 DEF ScanFails, At
<1> HIDE <1>0 DEF NothingDue, ReadIsTrue, RemovalSafe, LiveIsStored, Unreferenced, Refers,
                  Live, Gone, Idle, NoBulk, At, Goto
<1> QED
  BY <1>1, <1>2, <1>3, <1>4, <1>5, <1>6, <1>7, <1>8, <1>9, <1>10, <1>11, <1>12, <1>13,
     <1>14, <1>15, <1>16, <1>17, <1>18, <1>19, <1>20, <1>21, <1>22, <1>23, <1>24, <1>25,
     <1>26, <1>27, <1>28, <1>29, <1>30, <1>31
  DEF Next, PassStep, Purging, Scanning

LEMMA OwnerInit == Init => OwnerInv
<1> SUFFICES ASSUME Init PROVE NothingDue /\ ReadIsTrue /\ RemovalSafe /\ LiveIsStored
  BY TypeInit DEF OwnerInv
<1>1. LiveIsStored
  <2> SUFFICES ASSUME NEW f \in File, Live(f) PROVE ref[f] \in Object /\ bytes[ref[f]]
    BY DEF LiveIsStored
  <2>1. ref[f] \in Object
    BY DEF Init, Live, Gone
  <2> QED BY <2>1 DEF Init
<1> QED
  BY <1>1 DEF Init, NothingDue, ReadIsTrue, RemovalSafe, Idle, NoBulk, Passes

\* A file that is not purged or expired, in the trash or not, has its
\* object's bytes: the owner's devices, the purge job, its crashes and its
\* failures interleave at will (files.ts:46-58, worker/src/index.ts:26).
THEOREM ReferencedIsStoredHolds == OwnerAlone /\ Spec => []ReferencedIsStored
<1>1. OwnerInv => ReferencedIsStored
  BY DEF OwnerInv, LiveIsStored, ReferencedIsStored
<1>2. CASE OwnerAlone
  <2>1. OwnerInv /\ [Next]_vars => OwnerInv'
    BY <1>2, OwnerNext
  <2> QED BY OwnerInit, <1>1, <2>1, PTL DEF Spec
<1>3. CASE ~OwnerAlone
  BY <1>3, PTL
<1> QED BY <1>2, <1>3
\* With the owner and the purge job alone, the store loses an object only while
\* no file refers to it, deletes and restores on the strength of an old read
\* included (files.ts:49-50, worker/src/index.ts:26).
THEOREM OwnerRemovesOnlyUnreferenced == OwnerAlone /\ Spec => OnlyUnreferencedRemoved
<1> DEFINE Lost == \A o \in Object : bytes[o] /\ ~bytes'[o] => Unreferenced(o)
<1>1. OwnerInv /\ [Next]_vars => [Lost]_vars
  BY LosesUnreferenced DEF OwnerInv
<1>2. CASE OwnerAlone
  <2>1. OwnerInv /\ [Next]_vars => OwnerInv'
    BY <1>2, OwnerNext
  <2> HIDE DEF Lost
  <2>2. Spec => [][Lost]_vars
    BY OwnerInit, <1>1, <2>1, PTL DEF Spec
  <2> QED BY <2>2 DEF Lost, OnlyUnreferencedRemoved
<1>3. CASE ~OwnerAlone
  BY <1>3, PTL
<1> QED BY <1>2, <1>3

----------------------------------------------------------------------------
(***************************************************************************)
(* What the scan is good for: without a moderator, only its verdict makes  *)
(* an object AVAILABLE, and the owner's restore and copy look at that.     *)
(***************************************************************************)

NoModerator == "moderate" \notin Ops

\* A file that has been used has an object; retention passes list such files.
Referred ==
  /\ \A f \in File : fstate[f] # "NONE" => ref[f] \in Object
  /\ \A f \in worker.todo : fstate[f] # "NONE"

\* Neither an object, nor a file, nor what a bulk operation is about to offer
\* is AVAILABLE and infected.
CleanObjects == \A o \in Object : infected[o] => ostate[o] # "AVAILABLE"
CleanBulk ==
  bulk # NoBulk =>
    /\ ref[bulk.file] \in Object
    /\ bulk.op = "copy" \/ bulk.step = "checked" => ~infected[ref[bulk.file]]

Scanned == Referred /\ CleanObjects /\ CleanBulk /\ InfectedIsNotOffered

ScannedInv == TypeOK /\ Scanned

LEMMA ScannedNext == NoModerator /\ ScannedInv /\ [Next]_vars => Scanned'
<1> SUFFICES ASSUME NoModerator, ScannedInv, [Next]_vars PROVE Scanned'
  OBVIOUS
<1>0. /\ fstate \in [File -> Gone \cup Completed \cup {"DELETED"}]
      /\ ref \in [File -> Object \cup {None}]
      /\ ostate \in [Object -> {"AVAILABLE", "QUARANTINED", "BLOCKED", "PURGED"}]
      /\ infected \in [Object -> BOOLEAN]
      /\ bulk \in {NoBulk} \cup [op : OwnerOps, step : {"read", "checked"}, file : File]
      /\ Scanned
  BY DEF ScannedInv, TypeOK
<1> USE <1>0 DEF NoModerator, Scanned, Referred, CleanObjects, CleanBulk, InfectedIsNotOffered,
                 NoBulk, Gone, Completed, OwnerOps, Passes, At, Goto, Idle,
                 fileVars, objectVars, jobVars, scanVars
<1>1. ASSUME NEW op \in OwnerOps, NEW f \in File, BulkRead(op, f)
       PROVE  Scanned'
  BY <1>1 DEF BulkRead, UserLocked, Accepts
<1>2. CASE RestoreCheck
  BY <1>2 DEF RestoreCheck, Restorable
<1>3. CASE BulkRollback
  BY <1>3 DEF BulkRollback
<1>4. ASSUME NEW f \in File, BulkDelete(f)
       PROVE  Scanned'
  BY <1>4 DEF BulkDelete
<1>5. ASSUME NEW f \in File, BulkRestore(f)
       PROVE  Scanned'
  BY <1>5 DEF BulkRestore
<1>6. ASSUME NEW f \in File, BulkPurge(f)
       PROVE  Scanned'
  BY <1>6 DEF BulkPurge
<1>7. ASSUME NEW f \in File, NEW g \in File, BulkCopy(f, g)
       PROVE  Scanned'
  BY <1>7 DEF BulkCopy
<1>8. ASSUME NEW f \in File, NEW why \in Passes, Renew(f, why)
       PROVE  Scanned'
  BY <1>8 DEF Renew
<1>31. ASSUME NEW files \in SUBSET File, FolderBack(files)
       PROVE  Scanned'
  BY <1>31 DEF FolderBack
<1>9. ASSUME NEW f \in File, NEW why \in Passes, Lapse(f, why)
       PROVE  Scanned'
  BY <1>9 DEF Lapse
<1>10. ASSUME NEW f \in File, NEW s \in {"AVAILABLE", "BLOCKED", "DELETED", "EXPIRED"}, Moderate(f, s)
       PROVE  Scanned'
  BY <1>10 DEF Moderate
<1>11. ASSUME NEW why \in Passes, List(why)
       PROVE  Scanned'
  BY <1>11 DEF List, Listed, Live
<1>12. CASE FolderEnqueue
  BY <1>12 DEF FolderEnqueue
<1>13. ASSUME NEW f \in File, ExpireOne(f)
       PROVE  Scanned'
  BY <1>13 DEF ExpireOne, Rest
<1>14. ASSUME NEW f \in File, TrashOne(f)
       PROVE  Scanned'
  BY <1>14 DEF TrashOne, Rest
<1>15. ASSUME NEW f \in File, FolderOne(f)
       PROVE  Scanned'
  BY <1>15 DEF FolderOne
<1>16. ASSUME NEW o \in Object, Claim(o)
       PROVE  Scanned'
  BY <1>16 DEF Claim
<1>17. ASSUME NEW o \in Object, PurgeCheck(o)
       PROVE  Scanned'
  BY <1>17 DEF PurgeCheck
<1>18. ASSUME NEW o \in Object, PurgeRemove(o)
       PROVE  Scanned'
  BY <1>18 DEF PurgeRemove
<1>19. ASSUME NEW o \in Object, PurgeCommit(o)
       PROVE  Scanned'
  BY <1>19 DEF PurgeCommit
<1>20. ASSUME NEW o \in Object, JobDone(o)
       PROVE  Scanned'
  BY <1>20 DEF JobDone
<1>21. ASSUME NEW o \in Object, JobFails(o)
       PROVE  Scanned'
  BY <1>21 DEF JobFails
<1>22. ASSUME NEW o \in Object, Retry(o)
       PROVE  Scanned'
  BY <1>22 DEF Retry
<1>23. ASSUME NEW o \in Object, Reconcile(o)
       PROVE  Scanned'
  BY <1>23 DEF Reconcile
<1>24. CASE WorkerCrash
  BY <1>24 DEF WorkerCrash
<1>25. CASE UNCHANGED vars
  BY <1>25 DEF vars
<1>26. ASSUME NEW o \in Object, ScanClaim(o)
       PROVE  Scanned'
  BY <1>26 DEF ScanClaim
<1>27. ASSUME NEW o \in Object, Verdict(o)
       PROVE  Scanned'
  BY <1>27 DEF Verdict
<1>28. ASSUME NEW o \in Object, ScanPurged(o)
       PROVE  Scanned'
  BY <1>28 DEF ScanPurged
<1>29. ASSUME NEW o \in Object, ScanDone(o)
       PROVE  Scanned'
  BY <1>29 DEF ScanDone
<1>30. ASSUME NEW o \in Object, ScanFails(o)
       PROVE  Scanned'
  BY <1>30 DEF ScanFails
<1> HIDE <1>0 DEF Scanned, Referred, CleanObjects, CleanBulk, InfectedIsNotOffered, NoBulk, Gone,
                  Completed, At, Goto, Idle
<1> QED
  BY <1>1, <1>2, <1>3, <1>4, <1>5, <1>6, <1>7, <1>8, <1>9, <1>10, <1>11, <1>12, <1>13,
     <1>14, <1>15, <1>16, <1>17, <1>18, <1>19, <1>20, <1>21, <1>22, <1>23, <1>24, <1>25,
     <1>26, <1>27, <1>28, <1>29, <1>30, <1>31
  DEF Next, PassStep, Purging, Scanning

LEMMA ScannedInit == Init => Scanned
<1> SUFFICES ASSUME Init PROVE Scanned
  OBVIOUS
<1>1. Referred
  <2> SUFFICES ASSUME NEW f \in File, fstate[f] # "NONE" PROVE ref[f] \in Object
    BY DEF Init, Referred, Idle
  <2> QED BY DEF Init
<1>2. bulk = NoBulk
  BY DEF Init
<1>3. CASE "scan" \in Ops
  <2>1. \A f \in File : fstate[f] # "AVAILABLE"
    BY <1>3 DEF Init, Completion
  <2>2. \A o \in Object : ostate[o] # "AVAILABLE"
    BY <1>3 DEF Init, Completion
  <2> QED BY <1>1, <1>2, <2>1, <2>2 DEF Scanned, CleanObjects, CleanBulk, InfectedIsNotOffered
<1>4. CASE "scan" \notin Ops
  <2>1. infected \in [Object -> {FALSE}]
    BY <1>4 DEF Init
  <2>2. \A o \in Object : ~infected[o]
    BY <2>1
  <2> QED BY <1>1, <1>2, <2>2 DEF Scanned, Referred, CleanObjects, CleanBulk, InfectedIsNotOffered
<1> QED BY <1>3, <1>4

\* No file whose object the scanner refuses is AVAILABLE, for any files and
\* objects, owners, retention passes, failing scans and crashes, as long as no
\* moderator releases one (docs/SECURITY.md:23).
THEOREM InfectedIsNotOfferedHolds == NoModerator /\ Spec => []InfectedIsNotOffered
<1>1. ScannedInv => InfectedIsNotOffered
  BY DEF ScannedInv, Scanned
<1>2. Init => ScannedInv
  BY TypeInit, ScannedInit DEF ScannedInv
<1>3. CASE NoModerator
  <2>1. ScannedInv /\ [Next]_vars => ScannedInv'
    BY <1>3, TypeNext, ScannedNext DEF ScannedInv
  <2> QED BY <1>1, <1>2, <2>1, PTL DEF Spec
<1>4. CASE ~NoModerator
  BY <1>4, PTL
<1> QED BY <1>3, <1>4

----------------------------------------------------------------------------
(***************************************************************************)
(* The queue knows what nobody refers to.  The last reference to an object *)
(* is removed by a step that asks for its purge, and a job ends without    *)
(* removing the object only if it has seen a reference; what is left is a  *)
(* reference that goes between that look and the job's end, and the folder *)
(* pass, whose two transactions a crash may part.                          *)
(***************************************************************************)

\* The row of the job the worker is at says so.
JobIsRunning(o) ==
  At("claimed", o) \/ At("removing", o) \/ At("removed", o) \/ At("finishing", o)
    => job[o] = "RUNNING"

\* OrphanIsAwaited, of one object.
Known(o) ==
  bytes[o] /\ Unreferenced(o) =>
    Awaited(o) \/ <<o, "ignored">> \in lapses \/ <<o, "unlinked">> \in lapses

Followed(o) == JobIsRunning(o) /\ Known(o)

OrphanInv == PurgedInv /\ \A o \in Object : Followed(o)

LEMMA OrphanNext == OrphanInv /\ [Next]_vars => OrphanInv'
<1> SUFFICES ASSUME OrphanInv, [Next]_vars, NEW o \in Object PROVE Followed(o)'
  BY TypeNext, RemovedFirstNext DEF OrphanInv, PurgedInv
<1>0. /\ fstate \in [File -> Gone \cup Completed \cup {"DELETED"}]
      /\ ref \in [File -> Object \cup {None}]
      /\ job \in [Object -> Status]
      /\ bytes \in [Object -> BOOLEAN]
      /\ Followed(o)
      /\ At("removed", o) => ~bytes[o]
  BY DEF OrphanInv, PurgedInv, RemovedFirst, TypeOK
<1> USE <1>0 DEF Followed, JobIsRunning, Known, Awaited, Unreferenced, Refers, Live, Gone,
                 Completed, Status, Idle, NoBulk, At, Goto, Passes, fileVars, objectVars,
                 jobVars, scanVars
<1>1. ASSUME NEW op \in OwnerOps, NEW f \in File, BulkRead(op, f)
       PROVE  Followed(o)'
  BY <1>1 DEF BulkRead
<1>2. CASE RestoreCheck
  BY <1>2 DEF RestoreCheck
<1>3. CASE BulkRollback
  BY <1>3 DEF BulkRollback
<1>4. ASSUME NEW f \in File, BulkDelete(f)
       PROVE  Followed(o)'
  BY <1>4 DEF BulkDelete
<1>5. ASSUME NEW f \in File, BulkRestore(f)
       PROVE  Followed(o)'
  BY <1>5 DEF BulkRestore
<1>6. ASSUME NEW f \in File, BulkPurge(f)
       PROVE  Followed(o)'
  BY <1>6 DEF BulkPurge, Enqueued, Ignored
<1>7. ASSUME NEW f \in File, NEW g \in File, BulkCopy(f, g)
       PROVE  Followed(o)'
  BY <1>7 DEF BulkCopy
<1>8. ASSUME NEW f \in File, NEW why \in Passes, Renew(f, why)
       PROVE  Followed(o)'
  BY <1>8 DEF Renew
<1>9. ASSUME NEW f \in File, NEW why \in Passes, Lapse(f, why)
       PROVE  Followed(o)'
  BY <1>9 DEF Lapse
<1>10. ASSUME NEW files \in SUBSET File, FolderBack(files)
       PROVE  Followed(o)'
  BY <1>10 DEF FolderBack
<1>11. ASSUME NEW f \in File, NEW s \in {"AVAILABLE", "BLOCKED", "DELETED", "EXPIRED"}, Moderate(f, s)
       PROVE  Followed(o)'
  BY <1>11 DEF Moderate, Enqueued, Ignored
<1>12. ASSUME NEW why \in Passes, List(why)
       PROVE  Followed(o)'
  BY <1>12 DEF List
<1>13. CASE FolderEnqueue
  BY <1>13 DEF FolderEnqueue, Enqueued
<1>14. ASSUME NEW f \in File, ExpireOne(f)
       PROVE  Followed(o)'
  BY <1>14 DEF ExpireOne, Enqueued, Rest
<1>15. ASSUME NEW f \in File, TrashOne(f)
       PROVE  Followed(o)'
  BY <1>15 DEF TrashOne, Enqueued, Rest
<1>16. ASSUME NEW f \in File, FolderOne(f)
       PROVE  Followed(o)'
  BY <1>16 DEF FolderOne
<1>17. ASSUME NEW p \in Object, Claim(p)
       PROVE  Followed(o)'
  BY <1>17 DEF Claim, Stranded
<1>18. ASSUME NEW p \in Object, PurgeCheck(p)
       PROVE  Followed(o)'
  BY <1>18 DEF PurgeCheck, Purgeable
<1>19. ASSUME NEW p \in Object, PurgeRemove(p)
       PROVE  Followed(o)'
  BY <1>19 DEF PurgeRemove
<1>20. ASSUME NEW p \in Object, PurgeCommit(p)
       PROVE  Followed(o)'
  BY <1>20 DEF PurgeCommit
<1>21. ASSUME NEW p \in Object, JobDone(p)
       PROVE  Followed(o)'
  BY <1>21 DEF JobDone
<1>22. ASSUME NEW p \in Object, JobFails(p)
       PROVE  Followed(o)'
  BY <1>22 DEF JobFails, Stranded
<1>23. ASSUME NEW p \in Object, Retry(p)
       PROVE  Followed(o)'
  BY <1>23 DEF Retry
<1>24. ASSUME NEW p \in Object, Reconcile(p)
       PROVE  Followed(o)'
  BY <1>24 DEF Reconcile
<1>25. ASSUME NEW p \in Object, ScanClaim(p)
       PROVE  Followed(o)'
  BY <1>25 DEF ScanClaim
<1>26. ASSUME NEW p \in Object, Verdict(p)
       PROVE  Followed(o)'
  BY <1>26 DEF Verdict
<1>27. ASSUME NEW p \in Object, ScanPurged(p)
       PROVE  Followed(o)'
  BY <1>27 DEF ScanPurged
<1>28. ASSUME NEW p \in Object, ScanDone(p)
       PROVE  Followed(o)'
  BY <1>28 DEF ScanDone
<1>29. ASSUME NEW p \in Object, ScanFails(p)
       PROVE  Followed(o)'
  BY <1>29 DEF ScanFails
<1>30. CASE WorkerCrash
  BY <1>30 DEF WorkerCrash, Restarted
<1>31. CASE UNCHANGED vars
  BY <1>31 DEF vars
<1> QED
  BY <1>1, <1>2, <1>3, <1>4, <1>5, <1>6, <1>7, <1>8, <1>9, <1>10, <1>11, <1>12, <1>13,
     <1>14, <1>15, <1>16, <1>17, <1>18, <1>19, <1>20, <1>21, <1>22, <1>23, <1>24,
     <1>25, <1>26, <1>27, <1>28, <1>29, <1>30, <1>31
  DEF Next, PassStep, Purging, Scanning

\* However the owner's requests, the passes, moderators, crashes, failed jobs
\* and lost answers interleave, an object that is stored and not referred to
\* any more is on its way out, or is one of the two named ways in which its
\* purge is lost (files.ts:58, lib.ts:43, worker/src/index.ts:32-37).
THEOREM OrphanIsAwaitedHolds == Spec => []OrphanIsAwaited
<1>1. Init => OrphanInv
  <2> SUFFICES ASSUME Init, NEW o \in Object PROVE Followed(o)
    BY PurgedInit DEF OrphanInv
  <2>1. worker = Idle
    BY DEF Init
  <2>2. PICK home \in [Object -> File] :
          /\ \A p, q \in Object : p # q => home[p] # home[q]
          /\ ref = [f \in File |-> IF \E p \in Object : home[p] = f
                                    THEN CHOOSE p \in Object : home[p] = f ELSE None]
          /\ fstate = [f \in File |-> IF \E p \in Object : home[p] = f
                                       THEN Completion ELSE "NONE"]
    BY DEF Init
  <2>3. (CHOOSE p \in Object : home[p] = home[o]) = o
    BY <2>2
  <2>4. ref[home[o]] = o /\ fstate[home[o]] = Completion
    BY <2>2, <2>3
  <2>5. ~Unreferenced(o)
    BY <2>2, <2>4 DEF Unreferenced, Refers, Live, Gone, Completion
  <2> QED BY <2>1, <2>5 DEF Followed, JobIsRunning, Known, At, Idle
<1>2. OrphanInv => OrphanIsAwaited
  BY DEF OrphanInv, Followed, Known, OrphanIsAwaited
<1> QED
  BY <1>1, <1>2, OrphanNext, PTL DEF Spec
=============================================================================
