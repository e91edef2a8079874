--------------------------- MODULE UploadSession ---------------------------
(***************************************************************************)
(* The multipart upload protocol: POST /api/uploads, sign, the browser's   *)
(* PUTs, complete (finalize), abort, expiry by the worker and the part of  *)
(* the worker's reconciliation that concerns uploads                       *)
(* (apps/api/src/uploads.ts, apps/worker/src/index.ts).                    *)
(*                                                                         *)
(* Every handler that decides something holds the uploads row's lock       *)
(* (SELECT ... FOR UPDATE) from its first read to its commit; holder[u]    *)
(* says which one does.  What can move under such a handler is the object  *)
(* store, the rows it has not locked, and the process running it.  The     *)
(* session row is one of those: ownedUpload joins it with FOR UPDATE OF u, *)
(* so in READ COMMITTED a statement that waited for the lock has the       *)
(* session as it was when the statement began.                             *)
(***************************************************************************)
EXTENDS Naturals

CONSTANTS Upload,       \* upload ids
          Part,         \* part numbers of an upload
          Content,      \* what a part may hold; stands for its SHA-256 too
          None,         \* no such row, no such part
          Scanning,     \* settings.scanningEnabled
          EarlyAbort,   \* an upload may be aborted while POST still creates it
          LostCommit    \* COMMIT may succeed and its answer be lost

ASSUME UploadConstants ==
  /\ Part # {}
  /\ None \notin Content
  /\ Scanning \in BOOLEAN
  /\ EarlyAbort \in BOOLEAN
  /\ LostCommit \in BOOLEAN

VARIABLES
  state,     \* uploads.state; "NONE" before the row exists
  error,     \* uploads.error_code
  expired,   \* uploads.expires_at < now()
  session,   \* a multipart_sessions row exists
  manifest,  \* upload_parts.checksum_sha256 of each part
  object,    \* state of the file_objects row and of the files row over it
  mpu,       \* the multipart upload in the object store
  urls,      \* the presigned PUTs handed out, as <<part, content>>
  parts,     \* parts the store holds for the multipart upload
  blob,      \* the assembled object in the store
  creator,   \* where the POST /api/uploads handler of u is
  holder,    \* the transaction that holds the uploads row's lock
  rejected,  \* a complete request was refused and its catch is still to run
  early,     \* an abort's SELECT that began before the session row was there:
             \* "waiting" for the lock; "blind" once it closed an upload whose
             \* session it did not see (the second is only read by a property)
  worker     \* the worker's pass over the stale uploads

rowVars == <<state, error, expired, session, manifest, object>>
storeVars == <<mpu, urls, parts, blob>>
vars == <<rowVars, storeVars, creator, holder, rejected, early, worker>>

NoParts == [n \in Part |-> None]
Idle == [step |-> "idle", on |-> None]

Closed == {"ABORTED", "EXPIRED"}
Settled == Closed \cup {"AVAILABLE"}
States == {"NONE", "CREATED", "UPLOADING", "FAILED"} \cup Settled

TypeOK ==
  /\ state \in [Upload -> States]
  /\ error \in [Upload -> {"none", "INIT_FAILED", "INTEGRITY"}]
  /\ expired \in [Upload -> BOOLEAN]
  /\ session \in [Upload -> BOOLEAN]
  /\ manifest \in [Upload -> [Part -> Content \cup {None}]]
  /\ object \in [Upload -> {"NONE", "PROCESSING", "AVAILABLE", "QUARANTINED",
                            "BLOCKED", "PURGED"}]
  /\ mpu \in [Upload -> {"none", "open", "gone"}]
  /\ urls \in [Upload -> SUBSET (Part \X Content)]
  /\ parts \in [Upload -> [Part -> Content \cup {None}]]
  /\ blob \in [Upload -> [Part -> Content \cup {None}]]
  /\ creator \in [Upload -> {"idle", "admitted", "opened", "failing", "done"}]
  /\ holder \in [Upload -> {"free", "assembling", "assembled", "aborting",
                            "blind", "expiring"}]
  /\ rejected \in [Upload -> BOOLEAN]
  /\ early \in [Upload -> {"none", "waiting", "blind"}]
  /\ worker \in [step : {"idle", "listed", "missing", "found"},
                 on : Upload \cup {None}]

Init ==
  /\ state = [u \in Upload |-> "NONE"]
  /\ error = [u \in Upload |-> "none"]
  /\ expired = [u \in Upload |-> FALSE]
  /\ session = [u \in Upload |-> FALSE]
  /\ manifest = [u \in Upload |-> NoParts]
  /\ object = [u \in Upload |-> "NONE"]
  /\ mpu = [u \in Upload |-> "none"]
  /\ urls = [u \in Upload |-> {}]
  /\ parts = [u \in Upload |-> NoParts]
  /\ blob = [u \in Upload |-> NoParts]
  /\ creator = [u \in Upload |-> "idle"]
  /\ holder = [u \in Upload |-> "free"]
  /\ rejected = [u \in Upload |-> FALSE]
  /\ early = [u \in Upload |-> "none"]
  /\ worker = Idle

Stored(u) == blob[u] # NoParts   \* HeadObject finds the key

----------------------------------------------------------------------------
(* POST /api/uploads: intent, then the store, then the session row.        *)

\* The first transaction: object, file and upload rows, all before storage.
Admit(u) ==
  /\ creator[u] = "idle"
  /\ state' = [state EXCEPT ![u] = "CREATED"]
  /\ object' = [object EXCEPT ![u] = "PROCESSING"]
  /\ creator' = [creator EXCEPT ![u] = "admitted"]
  /\ UNCHANGED <<error, expired, session, manifest, storeVars, holder,
                 rejected, early, worker>>

\* storage.create: the answer may be lost after the store acted, or it fails.
OpenMultipart(u) ==
  /\ creator[u] = "admitted"
  /\ \/ /\ mpu' = [mpu EXCEPT ![u] = "open"]
        /\ creator' = [creator EXCEPT ![u] = "opened"]
     \/ /\ mpu' \in {mpu, [mpu EXCEPT ![u] = "open"]}
        /\ creator' = [creator EXCEPT ![u] = "failing"]
  /\ UNCHANGED <<rowVars, urls, parts, blob, holder, rejected, early, worker>>

\* The second transaction: the session row and an UPDATE with no condition
\* on the state.
OpenSession(u) ==
  /\ creator[u] = "opened" /\ holder[u] = "free"
  /\ session' = [session EXCEPT ![u] = TRUE]
  /\ state' = [state EXCEPT ![u] = "UPLOADING"]
  /\ \/ creator' = [creator EXCEPT ![u] = "done"]
     \/ LostCommit /\ creator' = [creator EXCEPT ![u] = "failing"]
  /\ UNCHANGED <<error, expired, manifest, object, storeVars, holder,
                 rejected, early, worker>>

\* The second transaction rolls back.
OpenSessionFails(u) ==
  /\ creator[u] = "opened"
  /\ creator' = [creator EXCEPT ![u] = "failing"]
  /\ UNCHANGED <<rowVars, storeVars, holder, rejected, early, worker>>

\* The catch: INIT_FAILED, again with no condition on the state.
InitFails(u) ==
  /\ creator[u] = "failing" /\ holder[u] = "free"
  /\ state' = [state EXCEPT ![u] = "FAILED"]
  /\ error' = [error EXCEPT ![u] = "INIT_FAILED"]
  /\ creator' = [creator EXCEPT ![u] = "done"]
  /\ UNCHANGED <<expired, session, manifest, object, storeVars, holder,
                 rejected, early, worker>>

\* The API process dies under the handler.
CreatorCrashes(u) ==
  /\ creator[u] \in {"admitted", "opened", "failing"}
  /\ creator' = [creator EXCEPT ![u] = "done"]
  /\ UNCHANGED <<rowVars, storeVars, holder, rejected, early, worker>>

----------------------------------------------------------------------------
(* Signing parts and the browser's PUTs.                                   *)

\* Mutant of SameFile: a later signature replaces the checksum.
AnyFile(u, n, c) == u \in Upload /\ n \in Part /\ c \in Content

\* A part's checksum is fixed by the first signature.
SameFile(u, n, c) == manifest[u][n] \in {None, c}

\* Sessions that may still be signed: the worker has not closed them and
\* they have not lapsed.
Signable(u) == state[u] \in {"UPLOADING", "FAILED"} /\ session[u] /\ ~expired[u]

Sign(u, n, c) ==
  /\ holder[u] = "free"
  /\ Signable(u)
  /\ SameFile(u, n, c)
  /\ manifest' = [manifest EXCEPT ![u][n] = c]
  /\ urls' = [urls EXCEPT ![u] = @ \cup {<<n, c>>}]
  /\ state' = [state EXCEPT ![u] = "UPLOADING"]
  /\ UNCHANGED <<error, expired, session, object, mpu, parts, blob, creator,
                 holder, rejected, early, worker>>

\* The browser PUTs a slice straight to the store, which takes only the bytes
\* the URL was signed for; no lock of the API is involved.
Put(u, n, c) ==
  /\ <<n, c>> \in urls[u]
  /\ mpu[u] = "open"
  /\ parts' = [parts EXCEPT ![u][n] = c]
  /\ UNCHANGED <<rowVars, mpu, urls, blob, creator, holder, rejected, early, worker>>

----------------------------------------------------------------------------
(* finalize: called by complete, by GET when the multipart upload is gone, *)
(* and by the worker for a stale upload whose object exists.               *)

Completable(u) == state[u] \in {"UPLOADING", "FAILED"}

\* reconcile: what the store lists was signed for, with that checksum.
Reconciled(u) == \A n \in Part : parts[u][n] \in {None, manifest[u][n]}

\* assertParts: no part is missing.
PartsAsserted(u) == \A n \in Part : parts[u][n] # None

PartsConfirmed(u) ==
  /\ session[u] /\ mpu[u] = "open"
  /\ Reconciled(u) /\ PartsAsserted(u)

Finalizable(u) == Completable(u) /\ (Stored(u) \/ PartsConfirmed(u))

\* Lock, HeadObject, and only for a missing object the manifest check.
FinalizeLock(u) ==
  /\ holder[u] = "free"
  /\ Finalizable(u)
  /\ holder' = [holder EXCEPT ![u] = IF Stored(u) THEN "assembled" ELSE "assembling"]

Finalize(u) ==
  /\ FinalizeLock(u)
  /\ UNCHANGED <<rowVars, storeVars, creator, rejected, early, worker>>

\* The manifest check fails under the lock: rolled back, the catch of the
\* complete route is still to run.
FinalizeRefused(u) ==
  /\ holder[u] = "free"
  /\ Completable(u) /\ ~Finalizable(u) /\ session[u] /\ mpu[u] = "open"
  /\ rejected' = [rejected EXCEPT ![u] = TRUE]
  /\ UNCHANGED <<rowVars, storeVars, creator, holder, early, worker>>

\* Mutant of StillFailed: the refusal is counted whatever came since.
CountedAnyway(u) == u \in Upload

\* The catch counts the failure, unless the upload completed meanwhile.
StillFailed(u) == state[u] # "AVAILABLE"

RecordRefusal(u) ==
  /\ rejected[u] /\ holder[u] = "free"
  /\ error' = IF StillFailed(u) THEN [error EXCEPT ![u] = "INTEGRITY"] ELSE error
  /\ rejected' = [rejected EXCEPT ![u] = FALSE]
  /\ UNCHANGED <<state, expired, session, manifest, object, storeVars, creator,
                 holder, early, worker>>

\* storage.complete: the store joins the listed parts and forgets the
\* multipart upload; HeadObject then finds the object.
Assemble(u) ==
  /\ holder[u] = "assembling"
  /\ mpu[u] = "open"
  /\ blob' = [blob EXCEPT ![u] = parts[u]]
  /\ mpu' = [mpu EXCEPT ![u] = "gone"]
  /\ parts' = [parts EXCEPT ![u] = NoParts]
  /\ holder' = [holder EXCEPT ![u] = "assembled"]
  /\ UNCHANGED <<rowVars, urls, creator, rejected, early, worker>>

\* Mutant of FinalizeCommit: FINALIZING is committed on its own.
FinalizingCommitted(u) ==
  /\ holder[u] = "assembled"
  /\ state' = [state EXCEPT ![u] = "FINALIZING"]
  /\ UNCHANGED <<error, expired, session, manifest, object, storeVars, creator,
                 holder, rejected, early, worker>>

\* Object, file and upload become available in one commit.
FinalizeCommit(u) ==
  /\ holder[u] = "assembled"
  /\ state' = [state EXCEPT ![u] = "AVAILABLE"]
  /\ error' = [error EXCEPT ![u] = "none"]
  /\ object' = [object EXCEPT ![u] = IF Scanning THEN "QUARANTINED" ELSE "AVAILABLE"]
  /\ holder' = [holder EXCEPT ![u] = "free"]
  /\ UNCHANGED <<expired, session, manifest, storeVars, creator, rejected, early, worker>>

\* The transaction holding the lock dies: process, connection or store.
Rollback(u) ==
  /\ holder[u] # "free"
  /\ holder' = [holder EXCEPT ![u] = "free"]
  /\ UNCHANGED <<rowVars, storeVars, creator, rejected, early, worker>>

----------------------------------------------------------------------------
(* Abort (owner or moderator) and expiry.                                  *)

\* storage.abort: NoSuchUpload is swallowed, so it is a no-op on a multipart
\* upload that was completed or aborted before.
DropMultipart(u) ==
  IF session[u] /\ mpu[u] = "open"
    THEN /\ mpu' = [mpu EXCEPT ![u] = "gone"]
         /\ parts' = [parts EXCEPT ![u] = NoParts]
    ELSE UNCHANGED <<mpu, parts>>

\* FINALIZING is in the code's guard too, but no commit ever leaves it there.
Abortable(u) == state[u] \in {"CREATED", "UPLOADING", "FAILED"}

\* An abort's SELECT begins while POST is still to commit the session row.
AbortWaits(u) ==
  /\ EarlyAbort
  /\ creator[u] \in {"admitted", "opened"} /\ early[u] = "none"
  /\ early' = [early EXCEPT ![u] = "waiting"]
  /\ UNCHANGED <<rowVars, storeVars, creator, holder, rejected, worker>>

\* The lock is there: the row is as it is now, the session as it was when the
\* SELECT began; a handler that has seen no session leaves the store alone.
Abort(u) ==
  /\ holder[u] = "free"
  /\ Abortable(u)
  /\ \/ /\ EarlyAbort \/ creator[u] = "done"
        /\ DropMultipart(u)
        /\ holder' = [holder EXCEPT ![u] = "aborting"]
        /\ UNCHANGED early
     \/ /\ early[u] = "waiting"
        /\ holder' = [holder EXCEPT ![u] = "blind"]
        /\ early' = [early EXCEPT ![u] = "none"]
        /\ UNCHANGED <<mpu, parts>>
  /\ UNCHANGED <<rowVars, urls, blob, creator, rejected, worker>>

AbortCommit(u) ==
  /\ holder[u] \in {"aborting", "blind"}
  /\ state' = [state EXCEPT ![u] = "ABORTED"]
  /\ object' = [object EXCEPT ![u] = "PURGED"]
  /\ holder' = [holder EXCEPT ![u] = "free"]
  /\ early' = [early EXCEPT ![u] = IF holder[u] = "blind" /\ session[u] THEN "blind" ELSE @]
  /\ UNCHANGED <<error, expired, session, manifest, storeVars, creator,
                 rejected, worker>>

\* The session's lifetime is hours: its POST handler is long over.
Lapse(u) ==
  /\ creator[u] = "done" /\ ~expired[u]
  /\ expired' = [expired EXCEPT ![u] = TRUE]
  /\ UNCHANGED <<state, error, session, manifest, object, storeVars, creator,
                 holder, rejected, early, worker>>

\* Mutant of Stale: uploads whose session was never opened are not listed.
StaleOnceOpened(u) == expired[u] /\ state[u] \in {"UPLOADING", "FAILED"}

\* cleanup(): the snapshot of stale uploads.
Stale(u) == expired[u] /\ state[u] \in {"CREATED", "UPLOADING", "FAILED"}

WorkerList(u) ==
  /\ worker = Idle
  /\ Stale(u)
  /\ worker' = [step |-> "listed", on |-> u]
  /\ UNCHANGED <<rowVars, storeVars, creator, holder, rejected, early>>

\* HeadObject, with no lock held.
WorkerHead(u) ==
  /\ worker = [step |-> "listed", on |-> u]
  /\ worker' = [step |-> IF Stored(u) THEN "found" ELSE "missing", on |-> u]
  /\ UNCHANGED <<rowVars, storeVars, creator, holder, rejected, early>>

\* A complete object: finalize it. The worker's wait for the answer is left
\* out; finalize throws for an upload closed, or an object lost, meanwhile.
WorkerFinalize(u) ==
  /\ worker = [step |-> "found", on |-> u]
  /\ worker' = Idle
  /\ \/ FinalizeLock(u)
     \/ ~Finalizable(u) /\ holder[u] = "free" /\ UNCHANGED holder
  /\ UNCHANGED <<rowVars, storeVars, creator, rejected, early>>

\* Mutant of CompletedMeanwhile: the worker trusts what it saw unlocked.
NeverCompleted(u) == u \notin Upload

\* What the worker asks of the row once it has its lock.
CompletedMeanwhile(u) == state[u] = "AVAILABLE"

WorkerExpire(u) ==
  /\ worker = [step |-> "missing", on |-> u]
  /\ holder[u] = "free"
  /\ worker' = Idle
  /\ \/ CompletedMeanwhile(u) /\ UNCHANGED <<mpu, parts, holder>>
     \/ /\ ~CompletedMeanwhile(u)
        /\ DropMultipart(u)
        /\ holder' = [holder EXCEPT ![u] = "expiring"]
  /\ UNCHANGED <<rowVars, urls, blob, creator, rejected, early>>

ExpireCommit(u) ==
  /\ holder[u] = "expiring"
  /\ state' = [state EXCEPT ![u] = "EXPIRED"]
  /\ object' = [object EXCEPT ![u] = "PURGED"]
  /\ holder' = [holder EXCEPT ![u] = "free"]
  /\ UNCHANGED <<error, expired, session, manifest, storeVars, creator,
                 rejected, early, worker>>

----------------------------------------------------------------------------
(* The worker's reconcile(): each step looks at one key of the store.      *)

\* Mutant of PurgeableKey: only unknown keys are removed.
NoPurgeableKey(u) == u \notin Upload

\* Mutant of PurgeableKey: a key that is not offered yet counts as an orphan.
UnfinishedKey(u) == Stored(u) /\ object[u] \in {"PROCESSING", "PURGED"}

\* An object whose row is PURGED goes through purge().
PurgeableKey(u) == Stored(u) /\ object[u] = "PURGED"

ReconcileObject(u) ==
  /\ PurgeableKey(u)
  /\ blob' = [blob EXCEPT ![u] = NoParts]
  /\ UNCHANGED <<rowVars, mpu, urls, parts, creator, holder, rejected, early, worker>>

\* A multipart upload with no session row, older than 72 hours.
ReconcileMultipart(u) ==
  /\ mpu[u] = "open" /\ ~session[u] /\ creator[u] = "done"
  /\ mpu' = [mpu EXCEPT ![u] = "gone"]
  /\ parts' = [parts EXCEPT ![u] = NoParts]
  /\ UNCHANGED <<rowVars, urls, blob, creator, holder, rejected, early, worker>>

\* An AVAILABLE object the store does not have.
Missing(u) == object[u] = "AVAILABLE" /\ ~Stored(u)

ReconcileMissing(u) ==
  /\ Missing(u)
  /\ object' = [object EXCEPT ![u] = "BLOCKED"]
  /\ UNCHANGED <<state, error, expired, session, manifest, storeVars, creator,
                 holder, rejected, early, worker>>

----------------------------------------------------------------------------
Creating(u) == \/ OpenMultipart(u) \/ OpenSession(u) \/ OpenSessionFails(u)
               \/ InitFails(u) \/ CreatorCrashes(u)

Step(u) ==
  \/ Admit(u) \/ Creating(u)
  \/ \E n \in Part, c \in Content : Sign(u, n, c) \/ Put(u, n, c)
  \/ Finalize(u) \/ FinalizeRefused(u) \/ RecordRefusal(u) \/ Assemble(u)
  \/ FinalizeCommit(u) \/ Rollback(u)
  \/ AbortWaits(u) \/ Abort(u) \/ AbortCommit(u) \/ Lapse(u)
  \/ WorkerList(u) \/ WorkerHead(u) \/ WorkerFinalize(u) \/ WorkerExpire(u)
  \/ ExpireCommit(u)
  \/ ReconcileObject(u) \/ ReconcileMultipart(u) \/ ReconcileMissing(u)

Next == \E u \in Upload : Step(u)

Spec == Init /\ [][Next]_vars

(***************************************************************************)
(* Fairness.  A POST handler ends, by an answer or a crash; time passes;   *)
(* the worker's loop runs cleanup every minute and reconcile every six     *)
(* hours, for as long as the system lives.  PostgreSQL queues waiters of a *)
(* row lock, so the worker gets it (strong fairness of WorkerExpire and    *)
(* WorkerFinalize), and a transaction retried for ever is not rolled back  *)
(* for ever (strong fairness of the commits).  Nothing is assumed of       *)
(* browsers: they may stop signing, putting and completing at any time.    *)
(***************************************************************************)
Fairness ==
  \A u \in Upload :
    /\ WF_vars(Creating(u)) /\ WF_vars(Lapse(u))
    /\ SF_vars(WorkerList(u)) /\ WF_vars(WorkerHead(u))
    /\ SF_vars(WorkerFinalize(u)) /\ SF_vars(WorkerExpire(u))
    /\ WF_vars(Assemble(u)) /\ SF_vars(FinalizeCommit(u))
    /\ SF_vars(AbortCommit(u)) /\ SF_vars(ExpireCommit(u))
    /\ WF_vars(ReconcileObject(u)) /\ WF_vars(ReconcileMultipart(u))
    /\ WF_vars(ReconcileMissing(u))

FairSpec == Spec /\ Fairness

----------------------------------------------------------------------------
(* Safety.                                                                 *)

\* Whatever the store keeps under an upload's key is, part by part, what was
\* first signed for that part: two devices that resume one upload with
\* different files never get a mixture, at whatever step either is cut off
\* (uploads.ts:17, uploads.ts:30, uploads.ts:90).
Integrity ==
  \A u \in Upload :
    Stored(u) => \A n \in Part : blob[u][n] # None /\ blob[u][n] = manifest[u][n]

\* An upload reported complete has its bytes and an object that is not
\* purged: neither an abort nor the worker's expiry, both of which look at
\* the store before they get the row, takes them away (uploads.ts:24,
\* uploads.ts:56, worker/src/index.ts:39).
AvailableIsStored ==
  \A u \in Upload :
    state[u] = "AVAILABLE" =>
      Stored(u) /\ object[u] = IF Scanning THEN "QUARANTINED" ELSE "AVAILABLE"

\* Once the session row exists, a closed upload has no open multipart upload
\* left behind in the store, whatever crashed on the way: the store is told
\* before the commit (uploads.ts:56, worker/src/index.ts:39).
ClosedHoldsNoParts ==
  \A u \in Upload : state[u] \in Closed /\ session[u] => mpu[u] # "open"

\* An INIT_FAILED upload, which the quota view does not count as reserved,
\* has no session and can take no bytes (uploads.ts:75-76, lib.ts:23).
UnreservedTakesNoBytes ==
  \A u \in Upload :
    error[u] = "INIT_FAILED" => ~session[u] /\ parts[u] = NoParts /\ ~Stored(u)

\* A completed upload never counts towards its owner's cooldown after
\* repeated failures, also when another device's refused attempt is recorded
\* after the completion (uploads.ts:44, uploads.ts:61, uploads.ts:101).
CompletedIsNoFailure ==
  \A u \in Upload : state[u] = "AVAILABLE" => error[u] = "none"

\* An upload that is complete stays complete, and one that was closed stays
\* closed: no late handler of another actor reopens it (uploads.ts:24-25,
\* uploads.ts:56, uploads.ts:88, worker/src/index.ts:39).
SettledStays ==
  \A u \in Upload :
    /\ state[u] = "AVAILABLE" => state'[u] = "AVAILABLE"
    /\ state[u] \in Closed => state'[u] \in Closed
OutcomeIsFinal == [][SettledStays]_vars

----------------------------------------------------------------------------
(* Liveness.                                                               *)

\* No upload holds its reservation for ever: it completes, is aborted or
\* expires, whatever crashed and whatever the browser does
\* (worker/src/index.ts:38-39).
EveryUploadSettles ==
  \A u \in Upload : state[u] # "NONE" ~> state[u] \in Settled

\* An upload that stays aborted or expired leaves nothing in the store for
\* ever: neither an assembled object nor an open multipart upload, however
\* its creation was cut off (worker/src/index.ts:52-53).  Excepted is the one
\* case the code does not cover: an abort that waited for the transaction
\* that opens the session and closed the upload without seeing it; the store
\* is not told, and reconcile leaves a multipart upload with a session row
\* alone (uploads.ts:13, uploads.ts:56, worker/src/index.ts:53).
ClosedIsReclaimed ==
  \A u \in Upload :
    state[u] \in Closed ~>
      \/ state[u] \notin Closed
      \/ ~Stored(u) /\ (mpu[u] # "open" \/ early[u] = "blind")
============================================================================
