-------------------------- MODULE ObjectLifecycle --------------------------
(***************************************************************************)
(* The life of a stored object after its upload: the files that refer to   *)
(* it, the owner's bulk operations and edits (apps/api/src/files.ts), the  *)
(* moderator's patch, and the worker: retention passes, the purge job and  *)
(* the reconciliation (apps/worker/src/index.ts).                          *)
(*                                                                         *)
(* PostgreSQL runs at READ COMMITTED: each statement sees what is          *)
(* committed when it starts, and only the locks a handler takes protect    *)
(* what it read.  A bulk operation holds its owner's users row; the purge  *)
(* job and the moderator hold the file_objects row, and an INSERT that     *)
(* refers to an object waits for that lock (foreign key); the worker's     *)
(* retention passes hold neither.  A handler is split into actions where   *)
(* something else may run between two of its statements.                   *)
(***************************************************************************)
EXTENDS Naturals, FiniteSets

CONSTANTS File,     \* file ids: one per object, the others for copies
          Object,   \* file_objects ids
          None,     \* no object
          Ops,      \* what the owner, the moderator, time and failures do
          MaxAttempts  \* claims after which a failed job is left alone

OwnerOps == {"delete", "restore", "copy", "purge"}
Passes == {"expiry", "trash", "folder"}

ASSUME LifecycleConstants ==
  /\ None \notin Object
  /\ Ops \subseteq OwnerOps \cup Passes
                     \cup {"scan", "renew", "moderate", "crash", "fail", "retry"}
  /\ MaxAttempts \in Nat \ {0}

VARIABLES
  fstate,   \* files.state; "NONE" for an id not used yet
  ref,      \* files.object_id
  due,      \* why a file's retention is over: expires_at, deleted_at, folder
  ostate,   \* file_objects.state
  bytes,    \* the store holds the object
  job,      \* background_jobs row of kind 'purge' for the object
  attempts, \* its attempts, counted up to MaxAttempts
  lapses,   \* purges the code lost sight of; only UnreferencedIsPurged reads it
  scan,     \* background_jobs row of kind 'scan' for the object
  infected, \* what the scanner finds in the object
  bulk,     \* the owner's POST /api/files/bulk in progress
  worker    \* what the worker is doing

fileVars == <<fstate, ref, due>>
objectVars == <<ostate, bytes>>
jobVars == <<job, attempts, lapses>>
scanVars == <<scan, infected>>
vars == <<fileVars, objectVars, jobVars, bulk, worker, scanVars>>

NoBulk == [op |-> "none", step |-> "none", file |-> None]
Idle == [step |-> "idle", obj |-> None, todo |-> {}]

Gone == {"NONE", "PURGED", "EXPIRED"}
Completed == {"AVAILABLE", "QUARANTINED", "BLOCKED"}   \* what a bulk delete accepts
LapseKinds == {"ignored", "unlinked", "stranded"}
Status == {"NONE", "PENDING", "RUNNING", "COMPLETED", "FAILED"}

\* What finalize made of a completed upload: scanningEnabled or not.
Completion == IF "scan" \in Ops THEN "QUARANTINED" ELSE "AVAILABLE"

TypeOK ==
  /\ fstate \in [File -> Gone \cup Completed \cup {"DELETED"}]
  /\ ref \in [File -> Object \cup {None}]
  /\ due \in [File -> SUBSET Passes]
  /\ ostate \in [Object -> {"AVAILABLE", "QUARANTINED", "BLOCKED", "PURGED"}]
  /\ bytes \in [Object -> BOOLEAN]
  /\ job \in [Object -> Status] /\ scan \in [Object -> Status]
  /\ infected \in [Object -> BOOLEAN]
  /\ attempts \in [Object -> 0..MaxAttempts]
  /\ lapses \subseteq (Object \cup {None}) \X LapseKinds
  /\ bulk \in {NoBulk} \cup [op : OwnerOps, step : {"read", "checked"}, file : File]
  /\ worker \in [step : {"idle", "claimed", "removing", "removed", "finishing",
                         "unlinked", "scanning", "scanned"} \cup Passes,
                 obj : Object \cup {None}, todo : SUBSET File]

\* Every object was completed by its upload and has that one file.
Init ==
  /\ \E home \in [Object -> File] :
       /\ \A o, p \in Object : o # p => home[o] # home[p]
       /\ ref = [f \in File |-> IF \E o \in Object : home[o] = f
                                  THEN CHOOSE o \in Object : home[o] = f ELSE None]
       /\ fstate = [f \in File |-> IF \E o \in Object : home[o] = f
                                     THEN Completion ELSE "NONE"]
  /\ due = [f \in File |-> {}]
  /\ ostate = [o \in Object |-> Completion]
  /\ bytes = [o \in Object |-> TRUE]
  /\ job = [o \in Object |-> "NONE"]
  /\ attempts = [o \in Object |-> 0]
  /\ lapses = {}
  /\ scan = [o \in Object |-> IF "scan" \in Ops THEN "PENDING" ELSE "NONE"]
  /\ infected \in [Object -> IF "scan" \in Ops THEN BOOLEAN ELSE {FALSE}]
  /\ bulk = NoBulk
  /\ worker = Idle

Live(f) == fstate[f] \notin Gone
Refers(f, o) == ref[f] = o /\ Live(f)
Unreferenced(o) == \A f \in File : ~Refers(f, o)

\* Mutant of RowLocked: nobody waits for the purge job's row lock.
NeverLocked(o) == o \notin Object

\* SELECT ... FOR UPDATE on the file_objects row, held by the purge job.
RowLocked(o) == worker.step \in {"removing", "removed"} /\ worker.obj = o

\* Mutant of Enqueued: a request that finds a row leaves it as it is.
EnqueuedOnce(o) == IF job[o] = "NONE" THEN [job EXCEPT ![o] = "PENDING"] ELSE job

\* enqueue('purge', o): one row per object; a PENDING or RUNNING one is left,
\* and attempts go on from where they were.
Enqueued(o) ==
  IF job[o] \in {"NONE", "FAILED", "COMPLETED"} THEN [job EXCEPT ![o] = "PENDING"] ELSE job

\* A request for a purge that has looked for references already is lost.
Ignored(o) == IF worker.step = "finishing" /\ worker.obj = o
                THEN lapses \cup {<<o, "ignored">>} ELSE lapses

----------------------------------------------------------------------------
(* POST /api/files/bulk, one file at a time.                               *)

\* SELECT id FROM users ... FOR UPDATE.
UserLocked(op) == bulk = NoBulk /\ op \in OwnerOps

Accepts(op) == CASE op = "delete" -> Completed
                 [] op = "copy"   -> {"AVAILABLE"}
                 [] OTHER         -> {"DELETED"}

\* ownedFile and the check of the file's state.
BulkRead(op, f) ==
  /\ op \in Ops /\ UserLocked(op)
  /\ fstate[f] \in Accepts(op)
  /\ bulk' = [op |-> op, step |-> "read", file |-> f]
  /\ UNCHANGED <<fileVars, objectVars, jobVars, worker, scanVars>>

\* Mutant of Restorable: whatever the store still has may be restored.
RestorableIfStored(o) == bytes[o]

Restorable(o) == ostate[o] = "AVAILABLE"

\* restore reads the object's state, and throws unless it is AVAILABLE.
RestoreCheck ==
  /\ bulk.op = "restore" /\ bulk.step = "read"
  /\ bulk' = IF Restorable(ref[bulk.file])
               THEN [bulk EXCEPT !.step = "checked"] ELSE NoBulk
  /\ UNCHANGED <<fileVars, objectVars, jobVars, worker, scanVars>>

BulkDelete(f) ==
  /\ bulk = [op |-> "delete", step |-> "read", file |-> f]
  /\ fstate' = [fstate EXCEPT ![f] = "DELETED"]
  /\ due' = [due EXCEPT ![f] = @ \ {"trash"}]
  /\ bulk' = NoBulk
  /\ UNCHANGED <<ref, objectVars, jobVars, worker, scanVars>>

BulkRestore(f) ==
  /\ bulk = [op |-> "restore", step |-> "checked", file |-> f]
  /\ fstate' = [fstate EXCEPT ![f] = "AVAILABLE"]
  /\ bulk' = NoBulk
  /\ UNCHANGED <<ref, due, objectVars, jobVars, worker, scanVars>>

\* The copy keeps the object and expires_at; it goes to its source's folder
\* or to another one. Its foreign key waits for the object's row.
BulkCopy(f, g) ==
  /\ bulk = [op |-> "copy", step |-> "read", file |-> f]
  /\ fstate[g] = "NONE"
  /\ ~RowLocked(ref[f])
  /\ ref' = [ref EXCEPT ![g] = ref[f]]
  /\ fstate' = [fstate EXCEPT ![g] = "AVAILABLE"]
  /\ \E keep \in SUBSET {"folder"} : due' = [due EXCEPT ![g] = due[f] \cap (keep \cup {"expiry"})]
  /\ bulk' = NoBulk
  /\ UNCHANGED <<objectVars, jobVars, worker, scanVars>>

BulkPurge(f) ==
  /\ bulk = [op |-> "purge", step |-> "read", file |-> f]
  /\ fstate' = [fstate EXCEPT ![f] = "PURGED"]
  /\ job' = Enqueued(ref[f]) /\ lapses' = Ignored(ref[f])
  /\ bulk' = NoBulk
  /\ UNCHANGED <<ref, due, objectVars, attempts, worker, scanVars>>

\* The request fails before its commit.
BulkRollback ==
  /\ "fail" \in Ops /\ bulk # NoBulk
  /\ bulk' = NoBulk
  /\ UNCHANGED <<fileVars, objectVars, jobVars, worker, scanVars>>

\* PATCH /api/files/:id: a later expires_at, or another folder.
Renew(f, why) ==
  /\ "renew" \in Ops /\ why \in {"expiry", "folder"} /\ why \in due[f]
  /\ due' = [due EXCEPT ![f] = @ \ {why}]
  /\ UNCHANGED <<fstate, ref, objectVars, jobVars, bulk, worker, scanVars>>

\* PATCH /api/folders/:id: a deleted folder, with the files in and below it,
\* is restored, or moved out of one that is still deleted. The users row is
\* locked here too.
FolderBack(files) ==
  /\ "renew" \in Ops /\ bulk = NoBulk /\ files # {} /\ \A f \in files : "folder" \in due[f]
  /\ due' = [f \in File |-> IF f \in files THEN due[f] \ {"folder"} ELSE due[f]]
  /\ UNCHANGED <<fstate, ref, objectVars, jobVars, bulk, worker, scanVars>>

\* Time passes: expires_at, or trashDays since deleted_at of the file or of a
\* folder above it.
Lapse(f, why) ==
  /\ why \in Ops \ due[f]
  /\ IF why = "trash" THEN fstate[f] = "DELETED" ELSE Live(f)
  /\ due' = [due EXCEPT ![f] = @ \cup {why}]
  /\ UNCHANGED <<fstate, ref, objectVars, jobVars, bulk, worker, scanVars>>

----------------------------------------------------------------------------
(* PATCH /api/admin/files/:id: file row, then object row, both locked.     *)

Moderate(f, s) ==
  /\ "moderate" \in Ops
  /\ fstate[f] \notin {"NONE", "PURGED"}
  /\ ~RowLocked(ref[f])
  /\ s = "AVAILABLE" => ostate[ref[f]] \in {"AVAILABLE", "BLOCKED"}
  /\ fstate' = [fstate EXCEPT ![f] = s]
  /\ due' = [due EXCEPT ![f] = IF s = "DELETED" THEN @ \ {"trash"} ELSE @]
  /\ ostate' = CASE s = "BLOCKED" -> [ostate EXCEPT ![ref[f]] = "BLOCKED"]
                 [] s = "AVAILABLE" -> [ostate EXCEPT ![ref[f]] = "AVAILABLE"]
                 [] OTHER -> ostate
  /\ IF s = "EXPIRED" THEN job' = Enqueued(ref[f]) /\ lapses' = Ignored(ref[f])
                      ELSE UNCHANGED <<job, lapses>>
  /\ UNCHANGED <<ref, bytes, attempts, bulk, worker, scanVars>>

----------------------------------------------------------------------------
(* The worker's cleanup passes: a snapshot, then one file at a time.       *)

Listed(why) ==
  {f \in File : why \in due[f] /\ CASE why = "expiry" -> Live(f)
                                     [] why = "trash" -> fstate[f] = "DELETED"
                                     [] why = "folder" -> fstate[f] \notin {"NONE", "PURGED"}}

List(why) ==
  /\ worker = Idle
  /\ Listed(why) # {}
  /\ worker' = [step |-> why, obj |-> None, todo |-> Listed(why)]
  /\ UNCHANGED <<fileVars, objectVars, jobVars, bulk, scanVars>>

Rest(f) == LET left == worker.todo \ {f}
           IN IF left = {} THEN Idle ELSE [worker EXCEPT !.todo = left]

\* The UPDATE asks for expires_at again, not for the state.
ExpireOne(f) ==
  /\ worker.step = "expiry" /\ f \in worker.todo
  /\ fstate' = IF "expiry" \in due[f] THEN [fstate EXCEPT ![f] = "EXPIRED"] ELSE fstate
  /\ job' = Enqueued(ref[f])
  /\ worker' = Rest(f)
  /\ UNCHANGED <<ref, due, objectVars, attempts, lapses, bulk, scanVars>>

\* The UPDATE asks for the state again, not for deleted_at.
TrashOne(f) ==
  /\ worker.step = "trash" /\ f \in worker.todo
  /\ fstate' = IF fstate[f] = "DELETED" THEN [fstate EXCEPT ![f] = "PURGED"] ELSE fstate
  /\ job' = Enqueued(ref[f])
  /\ worker' = Rest(f)
  /\ UNCHANGED <<ref, due, objectVars, attempts, lapses, bulk, scanVars>>

\* Files of a deleted folder: the UPDATE asks for nothing, and commits alone.
FolderOne(f) ==
  /\ worker.step = "folder" /\ f \in worker.todo
  /\ fstate' = [fstate EXCEPT ![f] = "PURGED"]
  /\ worker' = [step |-> "unlinked", obj |-> ref[f], todo |-> worker.todo \ {f}]
  /\ UNCHANGED <<ref, due, objectVars, jobVars, bulk, scanVars>>

\* Its enqueue, in a transaction of its own.
FolderEnqueue ==
  /\ worker.step = "unlinked"
  /\ job' = Enqueued(worker.obj)
  /\ worker' = IF worker.todo = {} THEN Idle
                 ELSE [step |-> "folder", obj |-> None, todo |-> worker.todo]
  /\ UNCHANGED <<fileVars, objectVars, attempts, lapses, bulk, scanVars>>

----------------------------------------------------------------------------
(* The purge job, the reconciliation and the worker's failures.            *)

At(step, o) == worker.step = step /\ worker.obj = o
Goto(step, o) == worker' = [step |-> step, obj |-> o, todo |-> {}]

\* A failed job whose backoff is over is claimed again, a few times.
Exhausted(o) == job[o] = "FAILED" /\ attempts[o] = MaxAttempts

Stranded(o) == lapses \cup {<<o, "stranded">>}

\* The answer to the claim's COMMIT may be lost: the loop's catch goes on, and
\* the row stays RUNNING until a worker is started.
Claim(o) ==
  /\ worker = Idle
  /\ job[o] \in {"PENDING", "FAILED"} /\ ~Exhausted(o)
  /\ job' = [job EXCEPT ![o] = "RUNNING"]
  /\ attempts' = [attempts EXCEPT ![o] = IF @ < MaxAttempts THEN @ + 1 ELSE @]
  /\ \/ Goto("claimed", o) /\ UNCHANGED lapses
     \/ "fail" \in Ops /\ lapses' = Stranded(o) /\ UNCHANGED worker
  /\ UNCHANGED <<fileVars, objectVars, bulk, scanVars>>

\* POST /api/admin/jobs/:id/retry.
Retry(o) ==
  /\ "retry" \in Ops /\ job[o] = "FAILED"
  /\ job' = [job EXCEPT ![o] = "PENDING"]
  /\ attempts' = [attempts EXCEPT ![o] = 0]
  /\ UNCHANGED <<fileVars, objectVars, lapses, bulk, worker, scanVars>>

\* Mutant of Purgeable: a file in the trash does not count as a reference.
TrashIsNoReference(o) ==
  \A f \in File : Refers(f, o) => fstate[f] = "DELETED"

\* No file refers to the object but purged and expired ones.
Purgeable(o) == Unreferenced(o)

\* Row lock, then the look for references.
PurgeCheck(o) ==
  /\ At("claimed", o)
  /\ Goto(IF Purgeable(o) THEN "removing" ELSE "finishing", o)
  /\ UNCHANGED <<fileVars, objectVars, jobVars, bulk, scanVars>>

PurgeRemove(o) ==
  /\ At("removing", o)
  /\ bytes' = [bytes EXCEPT ![o] = FALSE]
  /\ Goto("removed", o)
  /\ UNCHANGED <<fileVars, ostate, jobVars, bulk, scanVars>>

PurgeCommit(o) ==
  /\ At("removed", o)
  /\ ostate' = [ostate EXCEPT ![o] = "PURGED"]
  /\ Goto("finishing", o)
  /\ UNCHANGED <<fileVars, bytes, jobVars, bulk, scanVars>>

\* COMPLETED is written after the job's own transaction.
JobDone(o) ==
  /\ At("finishing", o)
  /\ job' = [job EXCEPT ![o] = "COMPLETED"]
  /\ worker' = Idle
  /\ UNCHANGED <<fileVars, objectVars, attempts, lapses, bulk, scanVars>>

\* Storage or database fails under the job or under its last write. The catch
\* writes FAILED; where that fails too, the loop goes on and the row stays.
JobFails(o) ==
  /\ "fail" \in Ops
  /\ At("claimed", o) \/ At("removing", o) \/ At("removed", o) \/ At("finishing", o)
  /\ \/ job' = [job EXCEPT ![o] = "FAILED"] /\ UNCHANGED lapses
     \/ lapses' = Stranded(o) /\ UNCHANGED job
  /\ worker' = Idle
  /\ UNCHANGED <<fileVars, objectVars, attempts, bulk, scanVars>>

----------------------------------------------------------------------------
(* The scan job. How often a failed one is claimed again is left open.     *)

ScanClaim(o) ==
  /\ worker = Idle
  /\ scan[o] \in {"PENDING", "FAILED"}
  /\ scan' = [scan EXCEPT ![o] = "RUNNING"]
  /\ Goto("scanning", o) \/ ("fail" \in Ops /\ UNCHANGED worker)
  /\ UNCHANGED <<fileVars, objectVars, jobVars, bulk, infected>>

\* The scanner has read the whole object and exits with 0 or 1: object and
\* files in one transaction. Files that left the quarantine stay as they are.
Verdict(o) ==
  LET state == IF infected[o] THEN "BLOCKED" ELSE "AVAILABLE"
  IN /\ At("scanning", o)
     /\ ostate[o] # "PURGED" /\ bytes[o]
     /\ ostate' = [ostate EXCEPT ![o] = state]
     /\ fstate' = [f \in File |-> IF ref[f] = o /\ fstate[f] = "QUARANTINED"
                                   THEN state ELSE fstate[f]]
     /\ Goto("scanned", o)
     /\ UNCHANGED <<ref, due, bytes, jobVars, bulk, scanVars>>

\* Nothing is left to scan.
ScanPurged(o) ==
  /\ At("scanning", o) /\ ostate[o] = "PURGED"
  /\ Goto("scanned", o)
  /\ UNCHANGED <<fileVars, objectVars, jobVars, bulk, scanVars>>

ScanDone(o) ==
  /\ At("scanned", o)
  /\ scan' = [scan EXCEPT ![o] = "COMPLETED"]
  /\ worker' = Idle
  /\ UNCHANGED <<fileVars, objectVars, jobVars, bulk, infected>>

\* The scanner fails, or the store or the database under it, the last write
\* of its row included.
ScanFails(o) ==
  /\ \/ At("scanning", o) /\ ostate[o] # "PURGED" /\ ("fail" \in Ops \/ ~bytes[o])
     \/ At("scanned", o) /\ "fail" \in Ops
  /\ \/ scan' = [scan EXCEPT ![o] = "FAILED"]
     \/ "fail" \in Ops /\ UNCHANGED scan
  /\ worker' = Idle
  /\ UNCHANGED <<fileVars, objectVars, jobVars, bulk, infected>>

----------------------------------------------------------------------------
\* Mutant of Restarted: the new worker takes over the queue as it is.
QueueAsLeft(rows) == rows

\* RUNNING jobs are PENDING again once a new worker holds the lease.
Restarted(rows) == [o \in Object |-> IF rows[o] = "RUNNING" THEN "PENDING" ELSE rows[o]]

\* The worker dies, idle or not, and is started again. A file the folder pass
\* has purged and not enqueued yet is in nobody's list any more.
WorkerCrash ==
  /\ "crash" \in Ops
  /\ worker' = Idle
  /\ job' = Restarted(job) /\ scan' = Restarted(scan)
  /\ lapses' = {l \in lapses : l[2] # "stranded"}
                 \cup (IF worker.step = "unlinked" THEN {<<worker.obj, "unlinked">>} ELSE {})
  /\ UNCHANGED <<fileVars, objectVars, attempts, bulk, infected>>

\* reconcile(): an AVAILABLE object the store does not have. Its other steps
\* concern keys of PURGED or unknown objects: see PurgedIsRemoved.
Reconcile(o) ==
  /\ worker = Idle
  /\ ostate[o] = "AVAILABLE" /\ ~bytes[o]
  /\ ostate' = [ostate EXCEPT ![o] = "BLOCKED"]
  /\ UNCHANGED <<fileVars, bytes, jobVars, bulk, worker, scanVars>>

----------------------------------------------------------------------------
Purging(o) == PurgeCheck(o) \/ PurgeRemove(o) \/ PurgeCommit(o) \/ JobDone(o)
Scanning(o) == Verdict(o) \/ ScanPurged(o) \/ ScanDone(o) \/ ScanFails(o)

PassStep == FolderEnqueue \/ \E f \in File : ExpireOne(f) \/ TrashOne(f) \/ FolderOne(f)

Next ==
  \/ \E op \in OwnerOps, f \in File : BulkRead(op, f)
  \/ RestoreCheck \/ BulkRollback
  \/ \E f \in File : BulkDelete(f) \/ BulkRestore(f) \/ BulkPurge(f)
  \/ \E f, g \in File : BulkCopy(f, g)
  \/ \E f \in File, why \in Passes : Renew(f, why) \/ Lapse(f, why)
  \/ \E files \in SUBSET File : FolderBack(files)
  \/ \E f \in File, s \in {"AVAILABLE", "BLOCKED", "DELETED", "EXPIRED"} : Moderate(f, s)
  \/ \E why \in Passes : List(why)
  \/ PassStep
  \/ \E o \in Object : Claim(o) \/ Purging(o) \/ JobFails(o) \/ Retry(o) \/ Reconcile(o)
  \/ \E o \in Object : ScanClaim(o) \/ Scanning(o)
  \/ WorkerCrash

Spec == Init /\ [][Next]_vars

(***************************************************************************)
(* Fairness: the worker's loop goes on for as long as the system lives.    *)
(* It claims the jobs that are not hashes in the order they were created,  *)
(* so none waits for ever as long as the scheduled passes take less than   *)
(* their minute (strong fairness of Claim), and crashes do not hit the same*)
(* step of the same job for ever (strong fairness of the job's steps).     *)
(* Nothing is assumed of a moderator's Retry.                              *)
(***************************************************************************)
Fairness ==
  /\ WF_vars(PassStep)
  /\ \A o \in Object :
       /\ WF_vars(Scanning(o))
       /\ SF_vars(Claim(o)) /\ SF_vars(PurgeCheck(o)) /\ SF_vars(PurgeRemove(o))
       /\ SF_vars(PurgeCommit(o)) /\ SF_vars(JobDone(o))

FairSpec == Spec /\ Fairness

----------------------------------------------------------------------------
(* Safety.                                                                 *)

\* A file that is not purged or expired has its object's bytes, files in the
\* trash included: what is in the trash can be restored.  Several devices of
\* the owner, the purge job and its crashes may interleave at will
\* (files.ts:46-58, worker/src/index.ts:26).
ReferencedIsStored == \A f \in File : Live(f) => bytes[ref[f]]

\* The store loses an object only while no file refers to it
\* (docs/ARCHITECTURE.md:16): the purge job's row lock keeps copies and
\* moderators from adding a reference between its look and its removal.
OnlyUnreferencedRemoved ==
  [][\A o \in Object : bytes[o] /\ ~bytes'[o] => Unreferenced(o)]_vars

\* The queue has the purge of o: waiting, failed, or RUNNING and not past a look
\* that found a reference; or the folder pass is about to ask for it.
Awaited(o) ==
  \/ job[o] \in {"PENDING", "FAILED"}
  \/ job[o] = "RUNNING" /\ ~At("finishing", o)
  \/ At("unlinked", o)

\* An object the store has and no file refers to is known to the queue: the
\* last reference goes in the transaction that asks for the purge, and a job
\* that found a reference ends before the next one is asked for. Excepted by
\* name are the requests that meet a job past its look for references
\* ("ignored", lib.ts:43) and a crash between the folder pass's two
\* transactions ("unlinked", worker/src/index.ts:37; files.ts:58,
\* worker/src/index.ts:32-35).
OrphanIsAwaited ==
  \A o \in Object :
    bytes[o] /\ Unreferenced(o) =>
      Awaited(o) \/ <<o, "ignored">> \in lapses \/ <<o, "unlinked">> \in lapses

\* No file is AVAILABLE whose object the scanner refuses, as long as no
\* moderator releases one: the owner may delete and restore it before, while
\* and after it is scanned, and scans fail and are repeated
\* (docs/SECURITY.md:23; files.ts:49-54, worker/src/index.ts:60-65).
InfectedIsNotOffered == \A f \in File : fstate[f] = "AVAILABLE" => ~infected[ref[f]]

\* An object's metadata says PURGED only after the store has removed it, so
\* a crash between the two leaves a job to repeat and never an unknown object
\* (worker/src/index.ts:26).
PurgedIsRemoved == \A o \in Object : ostate[o] = "PURGED" => ~bytes[o]

----------------------------------------------------------------------------
(* Liveness.                                                               *)

\* An object to which the last reference is gone leaves the store, however
\* owners, passes, moderators, crashes and failed jobs interleave, unless it is
\* referred to again or its job failed as often as it may
\* (worker/src/index.ts:21, worker/src/index.ts:82-83). Excepted by name are
\* the three ways the code loses sight of it: a request that meets a job past
\* its look for references ("ignored", lib.ts:43), a crash between the folder
\* pass's two transactions ("unlinked", worker/src/index.ts:37), and a row left
\* RUNNING by a worker that goes on ("stranded", worker/src/index.ts:82-85);
\* the last ends with the worker's next start, and so does the exception.
UnreferencedIsPurged ==
  \A o \in Object :
    Unreferenced(o) ~>
      ~bytes[o] \/ ~Unreferenced(o) \/ Exhausted(o) \/ lapses \cap ({o} \X LapseKinds) # {}
============================================================================
