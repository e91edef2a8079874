------------------------ MODULE UploadSession_proofs ------------------------
(***************************************************************************)
(* Proofs about UploadSession, for any number of uploads, parts and        *)
(* contents.                                                               *)
(***************************************************************************)
EXTENDS UploadSession, TLAPS

LEMMA TypeInit == Init => TypeOK
BY UploadConstants DEF Init, TypeOK, NoParts, Idle, States, Settled, Closed

LEMMA DropTypes ==
  ASSUME TypeOK, NEW u \in Upload, DropMultipart(u)
  PROVE  /\ mpu' \in [Upload -> {"none", "open", "gone"}]
         /\ parts' \in [Upload -> [Part -> Content \cup {None}]]
<1>1. NoParts \in [Part -> Content \cup {None}]
  BY DEF NoParts
<1>2. CASE session[u] /\ mpu[u] = "open"
  <2>1. mpu' = [mpu EXCEPT ![u] = "gone"] /\ parts' = [parts EXCEPT ![u] = NoParts]
    BY <1>2 DEF DropMultipart
  <2> QED BY <1>1, <2>1 DEF TypeOK
<1>3. CASE ~(session[u] /\ mpu[u] = "open")
  BY <1>3 DEF TypeOK, DropMultipart
<1> QED BY <1>2, <1>3

LEMMA TypeNext == TypeOK /\ [Next]_vars => TypeOK'
<1> SUFFICES ASSUME TypeOK, [Next]_vars PROVE TypeOK'
  OBVIOUS
<1> USE UploadConstants DEF TypeOK, rowVars, storeVars, NoParts, Idle, States, Settled, Closed
<1>1. ASSUME NEW u \in Upload, Admit(u) PROVE TypeOK'
  BY <1>1 DEF Admit
<1>2. ASSUME NEW u \in Upload, Creating(u) PROVE TypeOK'
  <2>1. CASE OpenMultipart(u)
    <3>1. mpu' = mpu \/ mpu' = [mpu EXCEPT ![u] = "open"]
      BY <2>1 DEF OpenMultipart
    <3>2. mpu' \in [Upload -> {"none", "open", "gone"}]
      <4>1. CASE mpu' = mpu BY <4>1
      <4>2. CASE mpu' = [mpu EXCEPT ![u] = "open"] BY <4>2
      <4> QED BY <3>1, <4>1, <4>2
    <3>3. \/ creator' = [creator EXCEPT ![u] = "opened"]
          \/ creator' = [creator EXCEPT ![u] = "failing"]
      BY <2>1 DEF OpenMultipart
    <3>4. creator' \in [Upload -> {"idle", "admitted", "opened", "failing", "done"}]
      <4>1. CASE creator' = [creator EXCEPT ![u] = "opened"] BY <4>1
      <4>2. CASE creator' = [creator EXCEPT ![u] = "failing"] BY <4>2
      <4> QED BY <3>3, <4>1, <4>2
    <3>5. UNCHANGED <<rowVars, urls, parts, blob, holder, rejected, early, worker>>
      BY <2>1 DEF OpenMultipart
    <3> QED BY <3>2, <3>4, <3>5
  <2>2. CASE OpenSession(u)
    <3>1. /\ session' \in [Upload -> BOOLEAN]
          /\ state' \in [Upload -> States]
      BY <2>2 DEF OpenSession
    <3>2. \/ creator' = [creator EXCEPT ![u] = "done"]
          \/ creator' = [creator EXCEPT ![u] = "failing"]
      BY <2>2 DEF OpenSession
    <3>3. creator' \in [Upload -> {"idle", "admitted", "opened", "failing", "done"}]
      <4>1. CASE creator' = [creator EXCEPT ![u] = "done"] BY <4>1
      <4>2. CASE creator' = [creator EXCEPT ![u] = "failing"] BY <4>2
      <4> QED BY <3>2, <4>1, <4>2
    <3>4. UNCHANGED <<error, expired, manifest, object, storeVars, holder, rejected, early, worker>>
      BY <2>2 DEF OpenSession
    <3> QED BY <3>1, <3>3, <3>4
  <2>3. CASE OpenSessionFails(u) BY <2>3 DEF OpenSessionFails
  <2>4. CASE InitFails(u) BY <2>4 DEF InitFails
  <2>5. CASE CreatorCrashes(u) BY <2>5 DEF CreatorCrashes
  <2> QED BY <1>2, <2>1, <2>2, <2>3, <2>4, <2>5 DEF Creating
<1>3. ASSUME NEW u \in Upload, NEW n \in Part, NEW c \in Content, Sign(u, n, c) PROVE TypeOK'
  BY <1>3 DEF Sign
<1>4. ASSUME NEW u \in Upload, NEW n \in Part, NEW c \in Content, Put(u, n, c) PROVE TypeOK'
  BY <1>4 DEF Put
<1>5. ASSUME NEW u \in Upload, Finalize(u) PROVE TypeOK'
  BY <1>5 DEF Finalize, FinalizeLock
<1>6. ASSUME NEW u \in Upload, FinalizeRefused(u) PROVE TypeOK'
  BY <1>6 DEF FinalizeRefused
<1>7. ASSUME NEW u \in Upload, RecordRefusal(u) PROVE TypeOK'
  BY <1>7 DEF RecordRefusal
<1>8. ASSUME NEW u \in Upload, Assemble(u) PROVE TypeOK'
  BY <1>8 DEF Assemble
<1>9. ASSUME NEW u \in Upload, FinalizeCommit(u) PROVE TypeOK'
  BY <1>9 DEF FinalizeCommit
<1>10. ASSUME NEW u \in Upload, Rollback(u) PROVE TypeOK'
  BY <1>10 DEF Rollback
<1>11. ASSUME NEW u \in Upload, Abort(u) PROVE TypeOK'
  <2>1. mpu' \in [Upload -> {"none", "open", "gone"}]
        /\ parts' \in [Upload -> [Part -> Content \cup {None}]]
    BY <1>11, DropTypes DEF Abort
  <2>2. \/ holder' = [holder EXCEPT ![u] = "aborting"] /\ early' = early
        \/ holder' = [holder EXCEPT ![u] = "blind"] /\ early' = [early EXCEPT ![u] = "none"]
    BY <1>11 DEF Abort
  <2>3. /\ holder' \in [Upload -> {"free", "assembling", "assembled", "aborting", "blind", "expiring"}]
        /\ early' \in [Upload -> {"none", "waiting", "blind"}]
    <3>1. CASE holder' = [holder EXCEPT ![u] = "aborting"] /\ early' = early BY <3>1
    <3>2. CASE holder' = [holder EXCEPT ![u] = "blind"] /\ early' = [early EXCEPT ![u] = "none"]
      BY <3>2
    <3> QED BY <2>2, <3>1, <3>2
  <2> QED BY <1>11, <2>1, <2>3 DEF Abort
<1>12. ASSUME NEW u \in Upload, AbortCommit(u) PROVE TypeOK'
  BY <1>12 DEF AbortCommit
<1>13. ASSUME NEW u \in Upload, Lapse(u) PROVE TypeOK'
  BY <1>13 DEF Lapse
<1>14. ASSUME NEW u \in Upload, WorkerList(u) PROVE TypeOK'
  BY <1>14 DEF WorkerList
<1>15. ASSUME NEW u \in Upload, WorkerHead(u) PROVE TypeOK'
  BY <1>15 DEF WorkerHead
<1>16. ASSUME NEW u \in Upload, WorkerFinalize(u) PROVE TypeOK'
  <2>1. \/ holder' = [holder EXCEPT ![u] = "assembled"]
        \/ holder' = [holder EXCEPT ![u] = "assembling"]
        \/ holder' = holder
    BY <1>16 DEF WorkerFinalize, FinalizeLock
  <2>2. worker' = Idle /\ UNCHANGED <<rowVars, storeVars, creator, rejected, early>>
    BY <1>16 DEF WorkerFinalize
  <2>3. holder' \in [Upload -> {"free", "assembling", "assembled", "aborting", "blind", "expiring"}]
    BY <2>1
  <2> QED BY <2>2, <2>3
<1>17. ASSUME NEW u \in Upload, WorkerExpire(u) PROVE TypeOK'
  <2>1. mpu' \in [Upload -> {"none", "open", "gone"}]
        /\ parts' \in [Upload -> [Part -> Content \cup {None}]]
    BY <1>17, DropTypes DEF WorkerExpire
  <2>2. holder' \in {holder, [holder EXCEPT ![u] = "expiring"]}
    BY <1>17 DEF WorkerExpire
  <2>3. worker' = Idle /\ UNCHANGED <<rowVars, urls, blob, creator, rejected, early>>
    BY <1>17 DEF WorkerExpire
  <2>4. holder' \in [Upload -> {"free", "assembling", "assembled", "aborting", "blind", "expiring"}]
    <3>1. CASE holder' = holder BY <3>1
    <3>2. CASE holder' = [holder EXCEPT ![u] = "expiring"] BY <3>2
    <3> QED BY <2>2, <3>1, <3>2
  <2> QED BY <2>1, <2>3, <2>4
<1>18. ASSUME NEW u \in Upload, ExpireCommit(u) PROVE TypeOK'
  BY <1>18 DEF ExpireCommit
<1>19. ASSUME NEW u \in Upload, ReconcileObject(u) PROVE TypeOK'
  BY <1>19 DEF ReconcileObject
<1>20. ASSUME NEW u \in Upload, ReconcileMultipart(u) PROVE TypeOK'
  BY <1>20 DEF ReconcileMultipart
<1>21. ASSUME NEW u \in Upload, ReconcileMissing(u) PROVE TypeOK'
  BY <1>21 DEF ReconcileMissing
<1>22. CASE UNCHANGED vars
  BY <1>22 DEF vars
<1>23. ASSUME NEW u \in Upload, AbortWaits(u) PROVE TypeOK'
  BY <1>23 DEF AbortWaits
<1> QED
  BY <1>1, <1>2, <1>3, <1>4, <1>5, <1>6, <1>7, <1>8, <1>9, <1>10, <1>11, <1>12,
     <1>13, <1>14, <1>15, <1>16, <1>17, <1>18, <1>19, <1>20, <1>21, <1>22, <1>23
  DEF Next, Step

\* Every row and every key of the store has its declared values: no commit
\* ever leaves an upload in FINALIZING (uploads.ts:34, uploads.ts:44).
THEOREM TypeCorrect == Spec => []TypeOK
BY TypeInit, TypeNext, PTL DEF Spec

----------------------------------------------------------------------------
(***************************************************************************)
(* A step is a step of one upload, and leaves the rows and the keys of the *)
(* others alone: the invariants below are stated for one upload and proved *)
(* for the one that takes the step.                                        *)
(***************************************************************************)

Same(v) ==
  /\ state'[v] = state[v] /\ error'[v] = error[v] /\ expired'[v] = expired[v]
  /\ session'[v] = session[v] /\ manifest'[v] = manifest[v] /\ object'[v] = object[v]
  /\ mpu'[v] = mpu[v] /\ urls'[v] = urls[v] /\ parts'[v] = parts[v] /\ blob'[v] = blob[v]
  /\ creator'[v] = creator[v] /\ holder'[v] = holder[v] /\ rejected'[v] = rejected[v]
  /\ early'[v] = early[v]
  /\ worker'.step # "idle" /\ worker'.on = v => worker' = worker

LEMMA Elsewhere ==
  ASSUME TypeOK, NEW u \in Upload, Step(u), NEW v \in Upload, v # u
  PROVE  Same(v)
<1> USE DEF TypeOK, Same, rowVars, storeVars, NoParts, Idle
<1>1. CASE Admit(u)
  BY <1>1 DEF Admit
<1>2. CASE OpenMultipart(u)
  BY <1>2 DEF OpenMultipart
<1>3. CASE OpenSession(u)
  BY <1>3 DEF OpenSession
<1>4. CASE OpenSessionFails(u)
  BY <1>4 DEF OpenSessionFails
<1>5. CASE InitFails(u)
  BY <1>5 DEF InitFails
<1>6. CASE CreatorCrashes(u)
  BY <1>6 DEF CreatorCrashes
<1>7. ASSUME NEW n \in Part, NEW c \in Content, Sign(u, n, c) PROVE Same(v)
  BY <1>7 DEF Sign
<1>8. ASSUME NEW n \in Part, NEW c \in Content, Put(u, n, c) PROVE Same(v)
  BY <1>8 DEF Put
<1>9. CASE Finalize(u)
  BY <1>9 DEF Finalize, FinalizeLock
<1>10. CASE FinalizeRefused(u)
  BY <1>10 DEF FinalizeRefused
<1>11. CASE RecordRefusal(u)
  BY <1>11 DEF RecordRefusal
<1>12. CASE Assemble(u)
  BY <1>12 DEF Assemble
<1>13. CASE FinalizeCommit(u)
  BY <1>13 DEF FinalizeCommit
<1>14. CASE Rollback(u)
  BY <1>14 DEF Rollback
<1>15. CASE Abort(u)
  BY <1>15 DEF Abort, DropMultipart
<1>16. CASE AbortCommit(u)
  BY <1>16 DEF AbortCommit
<1>17. CASE Lapse(u)
  BY <1>17 DEF Lapse
<1>18. CASE WorkerList(u)
  BY <1>18 DEF WorkerList
<1>19. CASE WorkerHead(u)
  BY <1>19 DEF WorkerHead
<1>20. CASE WorkerFinalize(u)
  BY <1>20 DEF WorkerFinalize, FinalizeLock
<1>21. CASE WorkerExpire(u)
  BY <1>21 DEF WorkerExpire, DropMultipart
<1>22. CASE ExpireCommit(u)
  BY <1>22 DEF ExpireCommit
<1>23. CASE ReconcileObject(u)
  BY <1>23 DEF ReconcileObject
<1>24. CASE ReconcileMultipart(u)
  BY <1>24 DEF ReconcileMultipart
<1>25. CASE ReconcileMissing(u)
  BY <1>25 DEF ReconcileMissing
<1>26. CASE AbortWaits(u)
  BY <1>26 DEF AbortWaits
<1> QED
  BY <1>1, <1>2, <1>3, <1>4, <1>5, <1>6, <1>7, <1>8, <1>9, <1>10, <1>11, <1>12, <1>13,
     <1>14, <1>15, <1>16, <1>17, <1>18, <1>19, <1>20, <1>21, <1>22, <1>23, <1>24, <1>25, <1>26
  DEF Step, Creating
----------------------------------------------------------------------------
(***************************************************************************)
(* Integrity.  What reaches the store comes from a signed URL, and a       *)
(* signature never replaces a part's checksum; the assembling handler      *)
(* holds the row's lock from its look at the parts to the assembly.        *)
(***************************************************************************)

\* A presigned URL takes the bytes the manifest has for its part.
UrlsSigned(u) ==
  \A n \in Part, c \in Content : <<n, c>> \in urls[u] => manifest[u][n] = c

\* So does the store.
PartsSigned(u) ==
  \A n \in Part : parts[u][n] # None => parts[u][n] = manifest[u][n]

\* The session row is the creator's last success.
SessionOpened(u) == session[u] => creator[u] \in {"failing", "done"}

\* Until the store has joined them, the parts that were listed are there.
AssemblesAll(u) ==
  holder[u] = "assembling" =>
    session[u] /\ (mpu[u] = "open" => \A n \in Part : parts[u][n] # None)

\* Integrity, of one upload.
BlobSigned(u) ==
  Stored(u) => \A n \in Part : blob[u][n] # None /\ blob[u][n] = manifest[u][n]

Signed(u) ==
  UrlsSigned(u) /\ PartsSigned(u) /\ SessionOpened(u) /\ AssemblesAll(u) /\ BlobSigned(u)

IntegrityInv == TypeOK /\ \A u \in Upload : Signed(u)

LEMMA SignedStep ==
  ASSUME TypeOK, NEW u \in Upload, Signed(u), Step(u)
  PROVE  Signed(u)'
<1>0. /\ manifest \in [Upload -> [Part -> Content \cup {None}]]
      /\ parts \in [Upload -> [Part -> Content \cup {None}]]
      /\ blob \in [Upload -> [Part -> Content \cup {None}]]
      /\ urls \in [Upload -> SUBSET (Part \X Content)]
      /\ session \in [Upload -> BOOLEAN]
      /\ mpu \in [Upload -> {"none", "open", "gone"}]
      /\ creator \in [Upload -> {"idle", "admitted", "opened", "failing", "done"}]
      /\ holder \in [Upload -> {"free", "assembling", "assembled", "aborting", "blind", "expiring"}]
  BY DEF TypeOK
<1> USE <1>0 DEF Signed, UrlsSigned, PartsSigned, SessionOpened, AssemblesAll, BlobSigned,
                 Stored, NoParts, rowVars, storeVars
<1>1. CASE Admit(u)
  BY <1>1 DEF Admit
<1>2. CASE OpenMultipart(u)
  BY <1>2 DEF OpenMultipart
<1>3. CASE OpenSession(u)
  BY <1>3 DEF OpenSession
<1>4. CASE OpenSessionFails(u)
  BY <1>4 DEF OpenSessionFails
<1>5. CASE InitFails(u)
  BY <1>5 DEF InitFails
<1>6. CASE CreatorCrashes(u)
  BY <1>6 DEF CreatorCrashes
<1>7. ASSUME NEW n \in Part, NEW c \in Content, Sign(u, n, c) PROVE Signed(u)'
  <2>1. /\ manifest'[u][n] = c /\ manifest[u][n] \in {None, c}
        /\ \A m \in Part : m # n => manifest'[u][m] = manifest[u][m]
    BY <1>7 DEF Sign, SameFile
  <2>2. urls'[u] = urls[u] \cup {<<n, c>>}
    BY <1>7 DEF Sign
  <2>3. /\ parts' = parts /\ blob' = blob /\ session' = session
        /\ creator' = creator /\ mpu' = mpu /\ holder' = holder
    BY <1>7 DEF Sign
  <2>4. UrlsSigned(u)'
    <3> SUFFICES ASSUME NEW m \in Part, NEW d \in Content, <<m, d>> \in urls'[u]
                 PROVE  manifest'[u][m] = d
      OBVIOUS
    <3>1. <<m, d>> = <<n, c>> \/ manifest[u][m] = d
      BY <2>2
    <3>2. CASE m = n
      BY <3>1, <3>2, <2>1, UploadConstants
    <3> QED BY <3>1, <3>2, <2>1
  <2>5. PartsSigned(u)'
    BY <2>1, <2>3
  <2>6. BlobSigned(u)'
    BY <2>1, <2>3
  <2> QED BY <2>3, <2>4, <2>5, <2>6
<1>8. ASSUME NEW n \in Part, NEW c \in Content, Put(u, n, c) PROVE Signed(u)'
  BY <1>8 DEF Put
<1>9. CASE Finalize(u)
  BY <1>9 DEF Finalize, FinalizeLock, Finalizable, PartsConfirmed, Reconciled,
    PartsAsserted
<1>10. CASE FinalizeRefused(u)
  BY <1>10 DEF FinalizeRefused
<1>11. CASE RecordRefusal(u)
  BY <1>11 DEF RecordRefusal
<1>12. CASE Assemble(u)
  BY <1>12 DEF Assemble
<1>13. CASE FinalizeCommit(u)
  BY <1>13 DEF FinalizeCommit
<1>14. CASE Rollback(u)
  BY <1>14 DEF Rollback
<1>15. CASE Abort(u)
  BY <1>15 DEF Abort, DropMultipart
<1>16. CASE AbortCommit(u)
  BY <1>16 DEF AbortCommit
<1>17. CASE Lapse(u)
  BY <1>17 DEF Lapse
<1>18. CASE WorkerList(u)
  BY <1>18 DEF WorkerList
<1>19. CASE WorkerHead(u)
  BY <1>19 DEF WorkerHead
<1>20. CASE WorkerFinalize(u)
  BY <1>20 DEF WorkerFinalize, FinalizeLock, Finalizable, PartsConfirmed, Reconciled,
    PartsAsserted
<1>21. CASE WorkerExpire(u)
  BY <1>21 DEF WorkerExpire, DropMultipart
<1>22. CASE ExpireCommit(u)
  BY <1>22 DEF ExpireCommit
<1>23. CASE ReconcileObject(u)
  BY <1>23 DEF ReconcileObject
<1>24. CASE ReconcileMultipart(u)
  BY <1>24 DEF ReconcileMultipart
<1>25. CASE ReconcileMissing(u)
  BY <1>25 DEF ReconcileMissing
<1>26. CASE AbortWaits(u)
  BY <1>26 DEF AbortWaits
<1> QED
  BY <1>1, <1>2, <1>3, <1>4, <1>5, <1>6, <1>7, <1>8, <1>9, <1>10, <1>11, <1>12, <1>13,
     <1>14, <1>15, <1>16, <1>17, <1>18, <1>19, <1>20, <1>21, <1>22, <1>23, <1>24, <1>25, <1>26
  DEF Step, Creating

LEMMA SignedElsewhere ==
  ASSUME NEW v \in Upload, Signed(v), Same(v)
  PROVE  Signed(v)'
BY DEF Same, Signed, UrlsSigned, PartsSigned, SessionOpened, AssemblesAll, BlobSigned,
       Stored, NoParts

LEMMA IntegrityInit == Init => IntegrityInv
<1> SUFFICES ASSUME Init PROVE \A u \in Upload : Signed(u)
  BY TypeInit DEF IntegrityInv
<1> QED
  BY UploadConstants
  DEF Init, Signed, UrlsSigned, PartsSigned, SessionOpened, AssemblesAll, BlobSigned,
      Stored, NoParts

LEMMA IntegrityNext == IntegrityInv /\ [Next]_vars => IntegrityInv'
<1> SUFFICES ASSUME IntegrityInv, [Next]_vars, NEW v \in Upload PROVE Signed(v)'
  BY TypeNext DEF IntegrityInv
<1>1. ASSUME NEW u \in Upload, Step(u) PROVE Signed(v)'
  <2>1. CASE v = u
    BY <1>1, <2>1, SignedStep DEF IntegrityInv
  <2>2. CASE v # u
    <3>1. Same(v)
      BY <1>1, <2>2, Elsewhere DEF IntegrityInv
    <3> QED BY <3>1, SignedElsewhere DEF IntegrityInv
  <2> QED BY <2>1, <2>2
<1>2. CASE UNCHANGED vars
  <2>1. Same(v)
    BY <1>2 DEF vars, rowVars, storeVars, Same
  <2> QED BY <2>1, SignedElsewhere DEF IntegrityInv
<1> QED
  BY <1>1, <1>2 DEF Next

LEMMA IntegrityInvariant == Spec => []IntegrityInv
BY IntegrityInit, IntegrityNext, PTL DEF Spec

\* No interleaving of devices, refused or cut-off completions and crashes
\* lets the store keep a mixture of two files under an upload's key: the
\* checksum first signed for a part is the one it is assembled from
\* (uploads.ts:17, uploads.ts:30, uploads.ts:90).
THEOREM IntegrityHolds == Spec => []Integrity
<1>1. IntegrityInv => Integrity
  BY DEF IntegrityInv, Signed, BlobSigned, Integrity
<1> QED
  BY <1>1, IntegrityInvariant, PTL
----------------------------------------------------------------------------
(***************************************************************************)
(* The outcome of an upload, where no upload is aborted before its POST    *)
(* has ended and no answer to a COMMIT is lost.  The row's lock is what    *)
(* the argument rests on: whoever closes or completes an upload looked at  *)
(* its state under the lock it still holds.                                *)
(***************************************************************************)

Orderly == ~EarlyAbort /\ ~LostCommit

\* Until its POST ends, an upload is its creator's alone.
CreatedAlone(u) ==
  creator[u] # "done" => /\ state[u] \in {"NONE", "CREATED"}
                         /\ holder[u] = "free"
                         /\ error[u] = "none"
                         /\ ~expired[u] /\ ~session[u] /\ ~rejected[u]

\* The worker is at work only on uploads whose POST has ended.
ListedIsCreated(u) == worker.step # "idle" /\ worker.on = u => creator[u] = "done"

\* What a handler saw of the row is true for as long as it has the lock.
LockedState(u) ==
  /\ holder[u] \in {"assembling", "assembled"} => state[u] \in {"UPLOADING", "FAILED"}
  /\ holder[u] = "assembled" => Stored(u)
  /\ holder[u] = "aborting" => state[u] \in {"CREATED", "UPLOADING", "FAILED"}
  /\ holder[u] = "expiring" => state[u] # "AVAILABLE"
  /\ holder[u] \in {"aborting", "expiring"} /\ session[u] => mpu[u] # "open"

\* Every abort came after the session row, and so has seen it.
SeesSession(u) == early[u] = "none" /\ holder[u] # "blind"

\* Only closing an upload purges its object.
PurgedIsClosed(u) == object[u] = "PURGED" => state[u] \in Closed

\* Nothing is signed, put or assembled without a session.
BytesNeedSession(u) ==
  urls[u] # {} \/ Stored(u) \/ parts[u] # NoParts => session[u]

\* A creation that failed opened no session.
InitFailedUnopened(u) == error[u] = "INIT_FAILED" => ~session[u]

\* AvailableIsStored, ClosedHoldsNoParts and CompletedIsNoFailure, of one
\* upload.
Offered(u) ==
  state[u] = "AVAILABLE" =>
    Stored(u) /\ object[u] = IF Scanning THEN "QUARANTINED" ELSE "AVAILABLE"
Released(u) == state[u] \in Closed /\ session[u] => mpu[u] # "open"
Blameless(u) == state[u] = "AVAILABLE" => error[u] = "none"

Ordered(u) ==
  /\ CreatedAlone(u) /\ ListedIsCreated(u) /\ LockedState(u) /\ SeesSession(u)
  /\ PurgedIsClosed(u) /\ BytesNeedSession(u) /\ InitFailedUnopened(u)
  /\ Offered(u) /\ Released(u) /\ Blameless(u)

OutcomeInv == IntegrityInv /\ \A u \in Upload : Ordered(u)

LEMMA OrderedStep ==
  ASSUME Orderly, TypeOK, NEW u \in Upload, Signed(u), Ordered(u), Step(u)
  PROVE  Ordered(u)'
<1>0. /\ state \in [Upload -> States]
      /\ error \in [Upload -> {"none", "INIT_FAILED", "INTEGRITY"}]
      /\ expired \in [Upload -> BOOLEAN]
      /\ session \in [Upload -> BOOLEAN]
      /\ object \in [Upload -> {"NONE", "PROCESSING", "AVAILABLE", "QUARANTINED",
                                "BLOCKED", "PURGED"}]
      /\ mpu \in [Upload -> {"none", "open", "gone"}]
      /\ urls \in [Upload -> SUBSET (Part \X Content)]
      /\ parts \in [Upload -> [Part -> Content \cup {None}]]
      /\ blob \in [Upload -> [Part -> Content \cup {None}]]
      /\ creator \in [Upload -> {"idle", "admitted", "opened", "failing", "done"}]
      /\ holder \in [Upload -> {"free", "assembling", "assembled", "aborting", "blind", "expiring"}]
      /\ rejected \in [Upload -> BOOLEAN]
      /\ early \in [Upload -> {"none", "waiting", "blind"}]
  BY DEF TypeOK
<1> USE <1>0 DEF Orderly, Ordered, CreatedAlone, ListedIsCreated, LockedState,
                 SeesSession, PurgedIsClosed, BytesNeedSession, InitFailedUnopened, Offered, Released,
                 Blameless, Stored, NoParts, Closed, Settled, States, Idle, rowVars, storeVars
<1>1. CASE Admit(u)
  BY <1>1 DEF Admit
<1>2. CASE OpenMultipart(u)
  BY <1>2 DEF OpenMultipart
<1>3. CASE OpenSession(u)
  BY <1>3 DEF OpenSession
<1>4. CASE OpenSessionFails(u)
  BY <1>4 DEF OpenSessionFails
<1>5. CASE InitFails(u)
  BY <1>5 DEF InitFails
<1>6. CASE CreatorCrashes(u)
  BY <1>6 DEF CreatorCrashes
<1>7. ASSUME NEW n \in Part, NEW c \in Content, Sign(u, n, c) PROVE Ordered(u)'
  BY <1>7 DEF Sign, Signable
<1>8. ASSUME NEW n \in Part, NEW c \in Content, Put(u, n, c) PROVE Ordered(u)'
  BY <1>8 DEF Put, Signed, UrlsSigned
<1>9. CASE Finalize(u)
  BY <1>9 DEF Finalize, FinalizeLock, Finalizable, Completable
<1>10. CASE FinalizeRefused(u)
  BY <1>10 DEF FinalizeRefused, Completable
<1>11. CASE RecordRefusal(u)
  BY <1>11 DEF RecordRefusal, StillFailed
<1>12. CASE Assemble(u)
  <2>1. blob'[u] = parts[u] /\ session[u]
    BY <1>12 DEF Assemble, Signed, AssemblesAll
  <2>2. \A n \in Part : parts[u][n] # None
    BY <1>12 DEF Assemble, Signed, AssemblesAll
  <2>3. Stored(u)'
    BY <2>1, <2>2, UploadConstants
  <2> QED BY <1>12, <2>1, <2>3 DEF Assemble
<1>13. CASE FinalizeCommit(u)
  BY <1>13 DEF FinalizeCommit
<1>14. CASE Rollback(u)
  BY <1>14 DEF Rollback
<1>15. CASE Abort(u)
  BY <1>15 DEF Abort, Abortable, DropMultipart
<1>16. CASE AbortCommit(u)
  BY <1>16 DEF AbortCommit
<1>17. CASE Lapse(u)
  BY <1>17 DEF Lapse
<1>18. CASE WorkerList(u)
  BY <1>18 DEF WorkerList, Stale
<1>19. CASE WorkerHead(u)
  BY <1>19 DEF WorkerHead
<1>20. CASE WorkerFinalize(u)
  BY <1>20 DEF WorkerFinalize, FinalizeLock, Finalizable, Completable
<1>21. CASE WorkerExpire(u)
  BY <1>21 DEF WorkerExpire, CompletedMeanwhile, DropMultipart
<1>22. CASE ExpireCommit(u)
  BY <1>22 DEF ExpireCommit
<1>23. CASE ReconcileObject(u)
  BY <1>23 DEF ReconcileObject, PurgeableKey
<1>24. CASE ReconcileMultipart(u)
  BY <1>24 DEF ReconcileMultipart
<1>25. CASE ReconcileMissing(u)
  BY <1>25 DEF ReconcileMissing, Missing
<1>26. CASE AbortWaits(u)
  BY <1>26 DEF AbortWaits
<1> QED
  BY <1>1, <1>2, <1>3, <1>4, <1>5, <1>6, <1>7, <1>8, <1>9, <1>10, <1>11, <1>12, <1>13,
     <1>14, <1>15, <1>16, <1>17, <1>18, <1>19, <1>20, <1>21, <1>22, <1>23, <1>24, <1>25, <1>26
  DEF Step, Creating

LEMMA OrderedElsewhere ==
  ASSUME NEW v \in Upload, Ordered(v), Same(v)
  PROVE  Ordered(v)'
BY DEF Same, Ordered, CreatedAlone, ListedIsCreated, LockedState, SeesSession, PurgedIsClosed,
       BytesNeedSession, InitFailedUnopened, Offered, Released, Blameless, Stored, NoParts

LEMMA OutcomeInit == Init => OutcomeInv
<1> SUFFICES ASSUME Init, NEW u \in Upload PROVE Ordered(u)
  BY IntegrityInit DEF OutcomeInv
<1> QED
  BY DEF Init, Ordered, CreatedAlone, ListedIsCreated, LockedState, SeesSession, PurgedIsClosed,
         BytesNeedSession, InitFailedUnopened, Offered, Released, Blameless, Stored,
         NoParts, Closed, Idle

LEMMA OutcomeNext == Orderly /\ OutcomeInv /\ [Next]_vars => OutcomeInv'
<1> SUFFICES ASSUME Orderly, OutcomeInv, [Next]_vars, NEW v \in Upload PROVE Ordered(v)'
  BY IntegrityNext DEF OutcomeInv
<1>1. ASSUME NEW u \in Upload, Step(u) PROVE Ordered(v)'
  <2>1. CASE v = u
    BY <1>1, <2>1, OrderedStep DEF OutcomeInv, IntegrityInv
  <2>2. CASE v # u
    <3>1. Same(v)
      BY <1>1, <2>2, Elsewhere DEF OutcomeInv, IntegrityInv
    <3> QED BY <3>1, OrderedElsewhere DEF OutcomeInv
  <2> QED BY <2>1, <2>2
<1>2. CASE UNCHANGED vars
  <2>1. Same(v)
    BY <1>2 DEF vars, rowVars, storeVars, Same
  <2> QED BY <2>1, OrderedElsewhere DEF OutcomeInv
<1> QED
  BY <1>1, <1>2 DEF Next

LEMMA OutcomeInvariant == Orderly /\ Spec => []OutcomeInv
<1>1. CASE Orderly
  <2>1. OutcomeInv /\ [Next]_vars => OutcomeInv'
    BY <1>1, OutcomeNext
  <2> QED BY OutcomeInit, <2>1, PTL DEF Spec
<1>2. CASE ~Orderly
  BY <1>2, PTL
<1> QED BY <1>1, <1>2

\* A completed upload keeps its bytes and an object that is not purged: an
\* abort or an expiry that looked at the store before it had the row finds,
\* once it has it, that the upload is complete (uploads.ts:24, uploads.ts:56,
\* worker/src/index.ts:39).
THEOREM AvailableIsStoredHolds == Orderly /\ Spec => []AvailableIsStored
<1>1. OutcomeInv => AvailableIsStored
  BY DEF OutcomeInv, Ordered, Offered, AvailableIsStored
<1> QED
  BY <1>1, OutcomeInvariant, PTL

\* A closed upload with a session has no open multipart upload left
\* (uploads.ts:56, worker/src/index.ts:39).
THEOREM ClosedHoldsNoPartsHolds == Orderly /\ Spec => []ClosedHoldsNoParts
<1>1. OutcomeInv => ClosedHoldsNoParts
  BY DEF OutcomeInv, Ordered, Released, ClosedHoldsNoParts
<1> QED
  BY <1>1, OutcomeInvariant, PTL

\* An upload whose creation failed, which the quota view does not count,
\* takes no bytes (uploads.ts:75-76, lib.ts:23).
THEOREM UnreservedTakesNoBytesHolds == Orderly /\ Spec => []UnreservedTakesNoBytes
<1>1. OutcomeInv => UnreservedTakesNoBytes
  BY DEF OutcomeInv, Ordered, InitFailedUnopened, BytesNeedSession, UnreservedTakesNoBytes
<1> QED
  BY <1>1, OutcomeInvariant, PTL

\* A completed upload is not counted as a failure, whenever a refusal of
\* another device is recorded (uploads.ts:44, uploads.ts:101).
THEOREM CompletedIsNoFailureHolds == Orderly /\ Spec => []CompletedIsNoFailure
<1>1. OutcomeInv => CompletedIsNoFailure
  BY DEF OutcomeInv, Ordered, Blameless, CompletedIsNoFailure
<1> QED
  BY <1>1, OutcomeInvariant, PTL

\* What one upload's own steps do to an outcome it has.
Stays(u) ==
  /\ state[u] = "AVAILABLE" => state'[u] = "AVAILABLE"
  /\ state[u] \in Closed => state'[u] \in Closed

LEMMA StepStays ==
  ASSUME Orderly, TypeOK, NEW u \in Upload, Ordered(u), Step(u)
  PROVE  Stays(u)
<1>0. state \in [Upload -> States] /\ holder[u] \in {"free", "assembling", "assembled",
                                                     "aborting", "blind", "expiring"}
  BY DEF TypeOK
<1> USE <1>0 DEF Orderly, Ordered, CreatedAlone, LockedState, SeesSession, Stays, Closed, Settled, States,
                 rowVars, storeVars
<1>1. CASE Admit(u)
  BY <1>1 DEF Admit
<1>2. CASE OpenMultipart(u)
  BY <1>2 DEF OpenMultipart
<1>3. CASE OpenSession(u)
  BY <1>3 DEF OpenSession
<1>4. CASE OpenSessionFails(u)
  BY <1>4 DEF OpenSessionFails
<1>5. CASE InitFails(u)
  BY <1>5 DEF InitFails
<1>6. CASE CreatorCrashes(u)
  BY <1>6 DEF CreatorCrashes
<1>7. ASSUME NEW n \in Part, NEW c \in Content, Sign(u, n, c) PROVE Stays(u)
  BY <1>7 DEF Sign, Signable
<1>8. ASSUME NEW n \in Part, NEW c \in Content, Put(u, n, c) PROVE Stays(u)
  BY <1>8 DEF Put
<1>9. CASE Finalize(u)
  BY <1>9 DEF Finalize, FinalizeLock
<1>10. CASE FinalizeRefused(u)
  BY <1>10 DEF FinalizeRefused
<1>11. CASE RecordRefusal(u)
  BY <1>11 DEF RecordRefusal
<1>12. CASE Assemble(u)
  BY <1>12 DEF Assemble
<1>13. CASE FinalizeCommit(u)
  BY <1>13 DEF FinalizeCommit
<1>14. CASE Rollback(u)
  BY <1>14 DEF Rollback
<1>15. CASE Abort(u)
  BY <1>15 DEF Abort, Abortable
<1>16. CASE AbortCommit(u)
  BY <1>16 DEF AbortCommit
<1>17. CASE Lapse(u)
  BY <1>17 DEF Lapse
<1>18. CASE WorkerList(u)
  BY <1>18 DEF WorkerList
<1>19. CASE WorkerHead(u)
  BY <1>19 DEF WorkerHead
<1>20. CASE WorkerFinalize(u)
  BY <1>20 DEF WorkerFinalize, FinalizeLock
<1>21. CASE WorkerExpire(u)
  BY <1>21 DEF WorkerExpire
<1>22. CASE ExpireCommit(u)
  BY <1>22 DEF ExpireCommit
<1>23. CASE ReconcileObject(u)
  BY <1>23 DEF ReconcileObject
<1>24. CASE ReconcileMultipart(u)
  BY <1>24 DEF ReconcileMultipart
<1>25. CASE ReconcileMissing(u)
  BY <1>25 DEF ReconcileMissing
<1>26. CASE AbortWaits(u)
  BY <1>26 DEF AbortWaits
<1> QED
  BY <1>1, <1>2, <1>3, <1>4, <1>5, <1>6, <1>7, <1>8, <1>9, <1>10, <1>11, <1>12, <1>13,
     <1>14, <1>15, <1>16, <1>17, <1>18, <1>19, <1>20, <1>21, <1>22, <1>23, <1>24, <1>25, <1>26
  DEF Step, Creating

\* A complete upload stays complete and a closed one closed: neither a late
\* handler of the API nor the worker, whose list and look at the store are
\* older than the lock, reopens it (uploads.ts:24-25, uploads.ts:56,
\* uploads.ts:88, worker/src/index.ts:39).
THEOREM OutcomeIsFinalHolds == Orderly /\ Spec => OutcomeIsFinal
<1>1. ASSUME Orderly, OutcomeInv, [Next]_vars PROVE [SettledStays]_vars
  <2> SUFFICES ASSUME Next, NEW v \in Upload PROVE Stays(v)
    BY <1>1 DEF SettledStays, Stays
  <2>1. PICK u \in Upload : Step(u)
    BY DEF Next
  <2>2. CASE v = u
    BY <1>1, <2>1, <2>2, StepStays DEF OutcomeInv, IntegrityInv
  <2>3. CASE v # u
    <3>1. Same(v)
      BY <1>1, <2>1, <2>3, Elsewhere DEF OutcomeInv, IntegrityInv
    <3> QED BY <3>1 DEF Same, Stays
  <2> QED BY <2>2, <2>3
<1>2. CASE Orderly
  <2>1. OutcomeInv /\ [Next]_vars => [SettledStays]_vars
    BY <1>1, <1>2
  <2> QED BY <1>2, <2>1, OutcomeInvariant, PTL DEF Spec, OutcomeIsFinal
<1>3. CASE ~Orderly
  BY <1>3, PTL
<1> QED BY <1>2, <1>3
=============================================================================
