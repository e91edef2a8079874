# AstraFileHost: TLA+ models, checks and proofs

AstraFile is a self-hosted file service: browsers send file slices straight to
an S3-compatible store with presigned PUTs, a Fastify API keeps the metadata in
PostgreSQL, and one elected worker cleans up and reconciles. What is hard in it
is not one algorithm but the agreement of three things that fail separately:
the rows, the store, and the processes that act on both. These modules model
that agreement, from the source, and state what must hold of it.

Paths below are relative to the repository's root. Modules are checked with
`tlc -config X.cfg M` and `tlapm M.tla`; PROJECT.json lists the runs, the
mutants each property must refuse, and the source lines of every definition.

## 1. Inventory

### Components

| Component | State it keeps | Operations |
| --- | --- | --- |
| Upload protocol `apps/api/src/uploads.ts` | `uploads`, `multipart_sessions`, `upload_parts`, the `files` and `file_objects` rows of an upload; multipart uploads in the store | POST (two transactions around `storage.create`), GET, sign, ack, complete (`finalize`), abort |
| Files `apps/api/src/files.ts` | `files`, `folders` | list, patch, bulk delete/restore/move/copy/purge, folder create/patch/delete, moderator's patch, downloads |
| Worker passes and jobs `apps/worker/src/index.ts` | `background_jobs`, snapshots in memory | cleanup (expiry, trash, folders, stale uploads, retention of logs), purge, reconcile, scan, hash, backup, statistics |
| Worker lease and loop (same file) | advisory lock, heartbeat, next due times | elect, take over RUNNING jobs, enqueue what is due, claim, complete or fail |
| Object store `packages/storage/index.ts` | multipart uploads, parts, objects | create, sign, list parts, complete, head, abort, remove, list |
| Metadata store `packages/database` | connection pool of 16, transactions | `tx`, `query`, migrations, triggers |
| Admission `apps/api/src/lib.ts`, `entitlements.ts` | balances as sums over rows, plan and overrides | `reserve`, `bandwidth`, `entitlements` |
| Shares `apps/api/src/shares.ts`, `share-capability.ts` | `shares`, `share_items`, `share_access`, `downloads` | create, update, revoke, resolve, unlock, view, download, report |
| Versions `apps/api/src/cloud.ts` | `file_versions`, `files.revision` | replace, restore, prune |
| Change feed `cloud.ts`, `003_cloud_versions.sql`, `apps/web/src/cloud-sync.tsx` | `cloud_cursors`, `cloud_changes`; the browser's cursor | emit (trigger), page through, apply |
| Browser upload engine `apps/web/src/upload/engine.ts` | transfers in IndexedDB, runtimes, XHRs in flight | add, run, pause, resume, cancel, retry |
| Part arithmetic `packages/validation/index.ts` | none | `partSize`, `expectedPartBytes`, `assertParts` |
| Accounts `auth.ts`, `account-security.ts`, `admin.ts` | `users`, `sessions`, resets, verifications | setup, guest, register, login, reset, roles, suspension |
| Backup stream `packages/privacy/backup.ts` | frame counter | encrypt, decrypt |
| Pages, SEO, branding, support tickets, API keys | independent rows with a revision | edit, publish, restore; message, close; issue, revoke |
| Overview, metrics, privacy digests, configuration, scripts | counters, none | views, pure functions, deployment |

### Interactions

* The browser and the store talk without the API: a presigned PUT works until
  it expires, whatever happened to the upload meanwhile.
* API handlers and the worker share rows. Handlers lock the `uploads` row, the
  owner's `users` row or the `file_objects` row; the worker's retention passes
  lock nothing but what they update. PostgreSQL runs at READ COMMITTED.
* A handler that needs both rows and store calls the store *inside* its
  transaction; a crash in between leaves the store ahead of the rows.
* Everything slow goes through `background_jobs` (one row per kind and target).
* Change triggers write the feed in the transaction of the change.

### What is hard

Stale reads under READ COMMITTED; store calls between two commits; a `COMMIT`
whose answer is lost; requests of two devices for one upload; a worker that
dies at any step; jobs requested while the job of that kind and target runs;
retention passes that work off lists minutes old; legal calls in an order
nobody meant. PROJECT.json `hazards` lists each with its line.

### What makes the components correct

* Uploads: no mixture of two files; a completed upload keeps its bytes; an
  outcome never changes; nothing is reserved, or kept in the store, for ever
  (one exception, see section 4).
* Objects: removed only while nothing refers to them, and then in the end;
  metadata never say PURGED of bytes that still exist.
* Jobs: none lost, none run by two workers at once, none starved.
* Admission: never above a quota or below the free-disk limit; each upload
  counted exactly once. Shares: never more downloads than the limit, nothing
  granted on a revoked version. Feed: no change skipped. Versions: at the
  revision asked for, none without its object. Engine: completes only what is
  stored; who waits is woken. Accounts: one
  active owner at least, no session that outlives its password.

## 2. Plan

Modelled in this order: what loses data first, then what grants too much, then
what stops.

| Module | Part | Abstract specification or main promise |
| --- | --- | --- |
| `UploadSession` | upload protocol, stale uploads, reconciliation | part by part what was signed; every upload settles |
| `ObjectLifecycle` | references to an object, its scan and its removal | removed only while unreferenced, and then in the end |
| `Feed`, `CloudFeed` | change feed and browser sync | `CloudFeed` implements the log `Feed` |
| `FileVersions` | replace, restore, prune, with the purge job | replaces what was seen; versions are references |
| `Sharing` | links, access rows, downloads | limits and versions hold in every interleaving |
| `Admission` | `reserve`, copies, transfers, the balances | within the quota; the disk keeps its floor |
| `UploadEngine` | the browser's queue and pumps | completes what is stored; who waits has a pump to wake it |
| `Accounts` | accounts, sessions, roles | an owner remains; old passwords end |
| `Backups`, `WorkerJobs` | lease, queue, loop, backup job and its file | only the holder works; requests are served |

`X_proofs` EXTENDS `X` and TLAPS and holds its theorems; `Storage_proofs` holds
those of `FileVersions` and of `Admission`, whose specification is therefore
called `AdmissionSpec`. `MCX` EXTENDS `X` and gives TLC its symmetry. `WorkerJobs` EXTENDS `Backups`; `CloudFeed` is mapped to
`Feed` by INSTANCE. The other modules meet in rows they share, and each models
the others' effect on these rows: `FileVersions` has the purge job of
`ObjectLifecycle` with versions as a second kind of reference, `Admission` has
uploads that move through the states of `UploadSession` without their store.
One composed module of all would be beyond TLC without showing a new
interleaving: the parts that interact closely are in one module already.

No module uses RECURSIVE, so that all of them can be proved about; invariants
are conjunctions of named parts, quantified over uploads, objects, files,
shares or users, so that a proof goes pointwise.

## 3. The modules

In all of them a handler is split into actions where it awaits something that
lets another transaction run: a statement of a transaction without a lock, a
call of the store, a commit. Statements that a lock keeps together are one
action. Audit log, notifications, and progress columns for display are left out.

### UploadSession

| State | In the code |
| --- | --- |
| `state`, `error`, `expired` | `uploads.state`, `error_code`, `expires_at < now()` |
| `session`, `manifest` | the `multipart_sessions` row; `upload_parts.checksum_sha256` |
| `object` | `file_objects.state`, with `files.state`, which moves with it here |
| `mpu`, `parts`, `blob` | in the store: the multipart upload, its parts, the object |
| `urls` | presigned PUTs handed out; they are never taken back |
| `creator` | where `POST /api/uploads` is between its two transactions |
| `holder` | the transaction that has `SELECT ... FOR UPDATE` on the uploads row |
| `early` | an abort whose SELECT began before the session was committed |
| `rejected` | a refused complete whose `catch` has still to write |
| `worker` | the worker's stale-upload pass, with what `HeadObject` told it |

`Finalize` / `Assemble` / `FinalizeCommit` are one `finalize`, `AbortWaits` /
`Abort` / `AbortCommit` one `abortUpload`: under READ COMMITTED a SELECT that
waited for the row gets the locked row as it is now and the joined session as it
was when the statement began, `WorkerList` / `WorkerHead` / `WorkerFinalize`
or `WorkerExpire` / `ExpireCommit` one turn of the worker. `Rollback` is the
death of a transaction at any such point; what the store did stays.
`upload_parts.etag` and `uploads.bytes_confirmed`, which ack and GET maintain
for display and finalize computes anew, are left out. Parts are sizes and
checksums: a `Content` stands for both, since `finalize` compares both. The
sizes themselves are not modelled: `partSize` makes parts of at least 5 MiB
and at most 10,000 of them (validation/index.ts:8-9), arithmetic without state.

`EarlyAbort` and `LostCommit` name two situations in which the code does not
keep some of its promises: an abort while the POST handler is still between its
transactions, and a second COMMIT that takes effect though its answer is lost.
The constants make it visible which property survives them.

### ObjectLifecycle

| State | In the code |
| --- | --- |
| `fstate`, `ref` | `files.state`, `files.object_id` |
| `due` | whether `expires_at`, the file's or a folder's `deleted_at` + `trashDays` have passed |
| `ostate`, `bytes` | `file_objects.state`; the store has the key |
| `job`, `attempts` | the `background_jobs` row of kind purge for the object |
| `scan`, `infected` | the row of kind scan; what the scanner would find |
| `lapses` | ghost: purges the code lost sight of, and how |
| `bulk` | the bulk request in progress: `BulkRead` is its `ownedFile`, then the action's statement |
| `worker` | the pass in progress with its snapshot, or the step of the purge or scan job |

`UserLocked` is the owner's row lock, `RowLocked` the purge job's lock on the
object's row, which also stops an `INSERT` into `files` (foreign key) and the
moderator. A bulk request handles several files in one transaction; the model
takes one file per request. `Renew` is a PATCH that puts `expires_at` later or
takes a file or a folder out of the deleted folder; a folder's restore takes its
files along. With `"scan"` in `Ops` a completed upload starts QUARANTINED and a
scan job makes it AVAILABLE or BLOCKED, whatever became of it meanwhile. `Ops`
chooses what may happen in a run: the operations, and the kinds of failure.

A job fails by the catch's UPDATE to FAILED, or, where that fails too, by nothing:
the loop's outer catch (worker/src/index.ts:85) goes on with the row RUNNING.
The same is left by a claim whose COMMIT is not answered. `lapses` has an object
as `stranded` from then to the worker's next start, as `ignored` when `enqueue`
met a job past its look for references, as `unlinked` when the worker died
between the folder pass's two transactions.

### FileVersions

| State | In the code |
| --- | --- |
| `ref`, `fstate`, `rev` | `files.object_id`, `state`, `revision` |
| `history`, `aged` | `file_versions`; those older than `versionDays` |
| `ostate`, `bytes`, `job` | as in `ObjectLifecycle` |
| `request` | a device: the revision it knows; from `ReplaceRead` on, file and source |
| `worker` | the purge job in progress |

`Look` is a device's GET; `ReplaceRead` locks the owner's and the file's row,
checks the revision and reads the source without a lock; `ReplaceWrite` is its INSERT into `file_versions`, its UPDATE, its
prune, and their `enqueue` in one transaction. `Edit` is any other change that
makes a new revision. `OnlyUnneededRemoved` needs the foreign keys: the write
waits for the purge job's lock on the object it refers to.

### Feed and CloudFeed

`Feed` is the promise: one log that only grows, and readers that have each read
a beginning of it. `CloudFeed` has the transactions with the row locks they
take, one by one, in the three orders the handlers have (`Program`), the
sequence numbers they draw, the committed `cloud_changes`, and a browser tab:
its cursor, the page it is at, what it knows has changed and whether its lists
are up to date (`shown`). `Cancel` is PostgreSQL's deadlock detector or any
other abort. `Log` is the committed rows in the order of their numbers, and a
tab's cursor is its place in it; `FeedIsFollowed == Abstract!Spec` says that
nothing is ever committed in front of a cursor. `excused` marks how far the
tab's first poll, a failed page or a failed list request (`FetchFails`)
swallowed changes without refreshing.

The branch that answers CLOUD_CURSOR (cloud.ts) cannot be reached from the
browser as it is and is left out.

### Sharing

| State | In the code |
| --- | --- |
| `share` | `shares`: version, enabled, expiry, `max_downloads`, `download_count`, password, secret |
| `access` | the `share_access` row behind a visitor's cookie |
| `call` | the request each caller has in progress, with the row it read |
| `recent`, `monthly` | `downloads` of the last 15 minutes; bytes authorized this month |

`Match` and `ResolveRead` are the two statements of `resolve`; `WriteAccess`,
`UnlockRead`, `DownloadLock`, `Grant`, `DownloadCommit` the rest of a visitor's
way; `OwnerGrant` is the owner's `directDownload`, which counts against the same
allowances. Every file has one unit of size. The owner's exemptions on own
private and protected shares, `view_count` and reports are left out. Access rows
expire (`ForgetAccess`). A share that was disabled by its expiry pass comes back
when the owner sets a later expiry.

### Admission

An item is an upload or a copy from its admission to its end; `ReserveLock`,
`DiskCheck`, `Admit`, `AdmitCommit` are `reserve` and the POST around it, under
the advisory lock and then the users row; `CopyCheck` / `CopyCommit` and
`Transfer` hold the users row only; `Write`, `Complete`, `End`, `ExpireFile`,
`Reclaim` are the uploads' own lives, under neither. Used and reserved bytes
are sums over items, as in the view: `Between(items, from, to)` is the number of
bytes after the first `from[i]`, up to `to[i]`, of each item, as the number of
elements of a set, about which the provers can reason. The limits per day, month, file and on
reserved bytes have the form of the two modelled (a sum or count read under the
lock against a limit). Ghosts: `missed` are bytes written by uploads that end
between an admission's statfs and its sum of reserved bytes, which it counts
neither as written nor as reserved; `revived` are files a moderator brings back
from EXPIRED, which no quota checks; `raced` are admissions open while the
plan, which they do not lock, changed.

### UploadEngine

| State | In the code |
| --- | --- |
| `transfer` | `this.transfers` of a page: state, known parts, current runtime, resumes waiting for their GET, its checkpoint, and the ghost `overlooked` |
| `pump` | every runtime made for it, with the pump that works for it |
| `server` | the upload as the API and the store have it |
| `upsets` | how many pauses, resumes, cancels, reloads and failures there were |

The page runs one thread: a step is what happens between two awaits. A resume
replaces `this.runtimes`' entry and does not stop a pump that works for the old
one, so a transfer has several runtimes. Failures of parts, completion and
GET, `Reload` of the page, and `CancelStart` with its two endings are included.
A checkpoint is a put into IndexedDB, awaited, and may fail: `Add` lists a file
before its first one, `Added` or `AddFails` is what follows; `Saved` or
`SaveFails` is the end of `run`, which looks for a waiter only after its last one.
`Reload` has what the checkpoints say, those still being written or not.
Left out: rate and progress, the attempts of a part, the changing number of connections,
hashing, the change of account in `load`, and `dismiss`, which nothing calls.

### Accounts

Rows of `users` and `sessions`, usable reset links, and requests in progress
with what they read when they were authenticated. `LoginRead` / `Issue` / `Trim`
are login (verify, INSERT, delete the oldest), `RegisterRead` / `RegisterGuest`
a registration that began as a guest's, `ChangeRead` / `ChangeWrite` /
`ChangeDrop` the change of password, `AdminRead` / `AdminCommit` an
administrator's PATCH with the owner guard. Passwords are numbers, one per
change. SUSPENDED stands for DISABLED too. The rows of verification links are
not modelled: `Verify` may happen whenever the account is PENDING.

### WorkerJobs and Backups

`Backups` has the framing of an encrypted backup, what `decryptBackup` accepts
and hands on (`Restored`: the frames before the first empty one), and what may
become of a file (`Damaged`). `WorkerJobs` has
`background_jobs` in the order of `created_at`, the lease as the session of the
leader connection, and each process: elected, taking over the RUNNING rows,
scheduling, claiming, busy, dumping, finishing. `Disconnect` is the loss of the
leader connection, whose process goes on with its job through the pool. Ghosts: `owed`
requests, `cut` processes, `strayed`. Jobs of kind hash, the moment at which a
schedule is due and what jobs do (but for the backup) are left out.

## 4. What the runs check

| Run | Checks | Bounds |
| --- | --- | --- |
| `upload_safety` | types, `Integrity`, `AvailableIsStored`, `CompletedIsNoFailure`, `OutcomeIsFinal` | 2 uploads, 2 parts, 2 contents, scanning on |
| `upload_recovery` | `EveryUploadSettles`, `ClosedIsReclaimed` under fairness | 1 upload, 2 parts, 2 contents, early aborts and lost answers |
| `lifecycle_owner` | `ReferencedIsStored`, `InfectedIsNotOffered`, `UnreferencedIsPurged`: the owner's operations, scans, crashes, failures, rows left RUNNING, retries | 3 files, 1 object, 2 attempts |
| `lifecycle_retention` | `OnlyUnreferencedRemoved`, `OrphanIsAwaited`: all passes, copies, permanent deletion, renewals, moderation, crashes | 2 files, 1 object |
| `versions` | types, `ReplacesWhatWasSeen`, `OnlyUnneededRemoved` | 2 files, 2 objects, 2 devices, 1 version kept, 3 revisions |
| `cloud_feed` | types, `FeedIsFollowed` (refinement), `ShownUnlessExcused`, `ReaderCatchesUp`, `EveryTransactionEnds` | 2 transactions, 1 tab, 1 change per page, 2 pages per poll |
| `sharing` | types, `DownloadsWithinLimit`, `GrantsWithinAllowance`, `AccessIsCurrent` | 1 share, 2 visitors and the owner, every limit 1, 3 versions |
| `admission` | types, `WithinQuota`, `FloorIsKept` | 2 owners, 3 items of size 1 or 2, quotas 2 or 3, 1 change of quota, disk 5, floor 1 |
| `upload_engine` | types, `CompletesWhatIsStored`, `ShownHasPump`, `WaiterHasWaker` | 3 files of 1 part, 1 connection, 3 runtimes for each, 2 upsets |
| `accounts` | types, `OwnerRemains`, `SessionsWithinLimit`, `OldPasswordEnds`, `SuspensionHolds` | 2 users, 2 requests at once, 1 session allowed and 2 issued, 2 passwords |
| `worker_jobs` | types, `AtWorkHoldsLease`, `BackupIsWhole`, `NoRequestIsLost` | 2 processes, a scheduled job and a backup of 1 chunk, 2 attempts, 2 requests, 2 mishaps |
| `engine_one_pump` | finds `OnePump` violated | 2 files of 1 part, 2 runtimes for each, 2 upsets |

Why the bounds are enough. Every property here speaks of one object, one upload,
one share or one owner at a time, so instances are large in *actors* and small in
*objects*: what breaks them is two or three requests that meet. Uploads share
only the worker's pass, so two are enough for it to be busy with one while the
other moves; two parts are the least that two contents can be mixed in. Three
files allow a copy of a copy and a copy after a purge. `MaxAttempts` is 5 in the
code; at 2, every order of failures up to the limit and one retry occurs. Limits
of 1 (downloads, grants, uploads, sessions, versions) put every second actor at
the limit. A share of three versions is changed twice, once under a request and
once more before its row is used. A page of one change makes a poll of two
transactions end in the middle of the feed. `MaxRevision`, `MaxVersion`,
`MaxIssued`, `MaxPassword`, `MaxRuntimes`, `MaxUpsets`, `MaxAsks`, `MaxMishaps`
and `MaxChanges` bound counters; steps that would pass them are disabled. Three
files let two wait behind a third; two upsets are a resume or pause and a failure
that meet, and a failure of what could not succeed is not counted. A backup of
one chunk has the two frames that can be cut or exchanged. Larger instances were
tried where they finish; `upload_engine` with two parts and `worker_jobs` with
two chunks do not in reasonable time, and their proofs cover them. The proofs need none of the
bounds, except that a counter's bound is a constant.

Deadlock is not checked (`CHECK_DEADLOCK FALSE`) because the system rests: with
every upload settled, every transaction ended and nobody asking there may be
nothing left to do, and a bounded counter may be used up.

### Fairness

`UploadSession`: a POST handler ends by an answer or a crash; time passes; the
worker's loop goes on, which is what `process.on` and the container's restart
policy give as long as somebody keeps the service up. PostgreSQL queues the
waiters of a row lock, hence *strong* fairness for the worker's locking steps;
a commit that is retried is not lost for ever, hence strong fairness for the
commits. Nothing is assumed of a browser or of an owner.

`ObjectLifecycle`: strong fairness of `Claim` says that no purge job waits for
ever. The loop claims by `created_at` (worker/src/index.ts:82), and the
scheduled jobs keep the row, and the age, of their first run: they are always
older. Strong fairness of `Claim` therefore assumes that a round of the
scheduled passes takes less than the minute after which they are due again.
Strong fairness of the purge steps says that crashes do not strike the same
step of the same job for ever. A moderator's retry is not assumed.

`CloudFeed`: transactions take their steps, PostgreSQL cancels one of a
deadlock's members (weak fairness of `Take`, `Commit`, `Cancel`), a tab polls on
its timer (`Poll`) and refetches (`Fetch`, or `FetchFails`, which excuses); strong fairness of `Page` and
`LastPage` says that requests do not fail for ever.

`UploadEngine` assumes none: `WaiterHasWaker` is an invariant, it says who will
wake a waiting file, and that a pump's awaits are answered in the end is
not checked; a run takes the newest waiting file first, so older ones may wait
as long as new ones come. `WorkerJobs`: weak fairness of `Turn` says a live
process goes on and a dead one is restarted; crashes and lost writes are bounded
by `MaxMishaps`, and requests and scheduled jobs by `MaxAsks`, on which
`NoRequestIsLost` rests: scheduled jobs that are always due again would keep the
worker from every younger job, and nothing in the code bounds their length.

### What the code does not keep

`engine_one_pump`, the finding of PROJECT.json: `resume` looks for a running pump
and then awaits; in that time the end of the pump before it, or the continuation
of `add`, starts the file on the runtime it has, and resume then replaces this
runtime and starts a second pump (engine.ts:36-46, 73-76, 86). The
upload stays correct (`CompletesWhatIsStored`), the bound on connections does not.

The models contain the following too; the properties are stated with the excuse
each needs, by a constant, a ghost or the set of operations of the run.

Uploads.
* An upload aborted between POST's two transactions (uploads.ts:75) goes on as
  UPLOADING with a PURGED object, which the reconciliation removes before or
  after it is completed (`EarlyAbort`).
* An abort whose SELECT waited for the transaction that opens the session gets
  the row as it is then and the session as it was, none (uploads.ts:13): it does
  not tell the store, and since the session row is there, the reconciliation
  leaves the multipart upload alone as well. `ClosedIsReclaimed` excepts it.
* With `LostCommit`, an INIT_FAILED upload may have a session and take bytes no
  reservation counts.
* The worker looks at the store before it has the lock and not again
  (worker/src/index.ts:39): it may expire an upload whose object was assembled
  in between by a handler that then died.

Objects.
* `restore` holds the owner's lock, which the worker does not take: a file
  purged between its read and its write comes back while its object is removed
  (files.ts:50). A copy has the same gap: a source purged with its object by the
  folder pass leaves a copy without bytes.
* `enqueue` leaves a RUNNING job alone, also when it is past its look for
  references (lib.ts:43); the object then stays, with no job for it.
* A job's row stays RUNNING under a live worker when the UPDATE to FAILED fails or
  the claim's COMMIT is not answered (worker/src/index.ts:82-85); `enqueue` leaves
  it alone, and only the next start of a worker makes it PENDING again.
* The trash pass asks for the state again but not for `deleted_at`: a file
  restored and deleted once more after it was listed is purged at once.
* The folder pass updates by id with no condition, so it also purges a file that
  was moved out, or whose folder was restored, after it was listed; and its
  update and its `enqueue` are two transactions, so that a crash between them
  leaves an object no job will remove.
* A moderator may block an expired file and then approve it: AVAILABLE without
  bytes, until the reconciliation blocks it. Blocking and approving a
  quarantined file offers an object that was never scanned, and a clean scan
  lifts a moderator's block of the object; `InfectedIsNotOffered` is therefore
  stated for runs without moderators (docs/SECURITY.md:23). Two workers at once,
  one of them without the lease, are not combined with scans: a late scan could
  make a PURGED object AVAILABLE.

Versions. A replacement's source is read without a lock and may be purged
before the write, which leaves a file without bytes (cloud.ts:36-37).

Feed. Handlers that lock `users` first and emit later (bulk, POST uploads,
share create and update and download, replace) deadlock with those that emit
first (worker passes, share delete, PATCH file, moderator, finalize); only
PostgreSQL's detector ends it. The tab's first poll, a failed later page,
and a failed request of a list (components.tsx:15) swallow changes: the lists are
not refetched for them.

Sharing. `resolve` matches the secret and reads the share in two statements: a
secret replaced in between still opens the new version (`raced`). Reviving an
expired share by a later expiry checks no count of shares (shares.ts:50).

Admission. `missed`, `revived` and `raced`, as described under the module.

Engine. A checkpoint that cannot be written leaves files waiting that nothing
wakes (`overlooked`): those that wait when a run ends, and an added file, which is
listed without a runtime (engine.ts:36, 86). `load` pauses completed transfers too; a refused cancel leaves
"uploading" on the screen without a pump; a resume of a paused file whose pump
has not ended yet returns silently.

Accounts. A registration that began as a guest's and ends after another made
the guest an account overwrites it, lifts a suspension, and can make the last
owner PENDING (auth.ts:69, `overwritten`). A login verified before a reset
inserts its session after the reset's DELETE (`late`); a login or a change of
password that is cut short leaves sessions it should have deleted (`cut`).

Worker. A process that lost its lease may write COMPLETED over a re-queued row,
claim a job and die with it RUNNING until the next restart, or reset the new
process's rows by a late take-over (worker/src/index.ts:18-21, 77-83);
`NoRequestIsLost` ends where one `strayed`, and excepts rows left RUNNING
(`stranded`). A request made while its job runs is
served by nothing. A cleanup that takes the minute of its own schedule starves
every younger job. A failed `pg_dump` leaves a file under its final name that
`decryptBackup` accepts (worker/src/index.ts:66-72), unlike
`createMetadataBackup`, which renames a `.partial`; only the job's FAILED row
tells them apart, so `BackupIsWhole` speaks of backups reported as created.

## 5. What is proved

TLAPS proves the following for every value of the constants that the modules'
ASSUMEs allow: any number of uploads, files, shares, users, processes, and any
limits. PROJECT.json `theorems` lists them with the run that checks each
property on an instance. Every module has its type correctness proved, and every
invariant and action property that a passing run checks is a theorem.

`UploadSession_proofs`
* `IntegrityHolds`, for every value of the constants. The inductive invariant
  says of each upload: every URL handed out is for the manifest's checksum, so
  is every part in the store, and what is being assembled was confirmed part
  by part under a lock that `sign` needs too. An already signed part is never
  overwritten in the manifest.
* `OutcomeIsFinalHolds`, `AvailableIsStoredHolds`, `CompletedIsNoFailureHolds`, and
  two facts no run needs to repeat (`ClosedHoldsNoPartsHolds`,
  `UnreservedTakesNoBytesHolds`), under `Orderly == ~EarlyAbort /\ ~LostCommit`,
  without which they are false. `OutcomeInv` ties the creator's position to the
  state, the row's lock to what the store holds, and the worker's memory to
  what it may do.

`ObjectLifecycle_proofs`
* `PurgedIsRemovedHolds` for all operations and failures: only the purge job
  writes PURGED, and between its removal and its commit nobody writes bytes.
* `InfectedIsNotOfferedHolds` under `NoModerator`: an infected object is never
  AVAILABLE, and what a bulk request has checked refers to another one.
* `OnlyUnreferencedRemovedHolds` under `NoStaleWrites` (no owner's delete or
  restore): while the purge job is between its look and its removal nothing
  refers to the object, because copies and moderators wait for the row's lock.
* `ReferencedIsStoredHolds` under `OwnerAlone` (no retention pass, no
  moderator): the owner's lock then covers every write to the owner's files,
  so what a bulk request has read is still so when it writes. With the same
  invariant `OwnerRemovesOnlyUnreferenced` proves `OnlyUnreferencedRemoved` with
  the deletes and restores that `NoStaleWrites` leaves out. With retention passes
  as well it is false, see section 4.
* `OrphanIsAwaitedHolds` for all operations and failures: a step that takes an
  object's last reference asks for its purge in the same transaction, a worker at
  a job has its row RUNNING, and what it found is tied to its step, so
  that it ends as COMPLETED only over a reference or a removed object, or over a
  request it has ignored. The folder
  pass, which asks one transaction later, is followed by the worker's position.

`CloudFeed_proofs`. `FeedIsFollowedHolds` is the refinement: initial states map
to initial states, and each step of locks, transactions and pages to `Publish`,
`Read` or a stutter. Its invariant `FeedInv`: committed rows are numbered
1..sequence without gap, only the holder of the cursor row has drawn numbers,
they continue the sequence, and no tab's cursor is past it.
`NothingBehindCursorHolds` follows from the same invariant.
`ShownUnlessExcusedHolds` adds `Faithful` for each tab: between the steps of a
poll, what its lists do not show of what its cursor has passed is still to be
fetched, or excused.

`Storage_proofs`, `FileVersions`. `ReplacesWhatWasSeenHolds` from `Known`: what a device
has seen at a revision is the file's object as long as the file is at that
revision. `OnlyUnneededRemovedHolds` from `HeldIsUnneeded`: the object the purge
job is about to remove is needed by nothing, since every write that would need
it waits for the job's lock.

`Storage_proofs`, `Admission`, for any number of owners and items, any sizes,
quotas, disk and floor. The lemmas about `Between` come first (it grows, joins,
and changes by one item's bytes); then what each action does to an item.
* `AdmissionTypeCorrect` and `FloorIsKeptHolds`, from `DiskInv`: the bytes of the
  disk are free or written; one admission at a time is under the advisory lock;
  what it has seen free is free or was written since; once it has compared the
  sums, the disk can take its upload on top of what is still to be written. What
  reserved uploads wrote since statfs is counted twice, what others wrote is
  `missed`, and that is all there is to excuse.
* `WithinQuotaHolds`, from `QuotaInv`: one transaction at a time has an owner's
  users row, and until it commits there is room for what it has checked, unless
  the plan changed under it. Steps without the row add nothing to what counts.

`Sharing_proofs`. `DownloadsWithinLimitHolds` and `GrantsWithinAllowanceHolds`:
a grant in progress holds the share's and the owner's row, so the counts it
checked are those it adds to. `AccessIsCurrentHolds`: an access row and every
request under way know at most the version they read, and a version, once
made, fixes secret and password.

`UploadEngine_proofs`. `EngineInv`: a pump at work has launched, or found
stored, every part before its next one, and asks to complete only with none in
flight; a file shown as uploading has a pump at work or a cancel under way. It
gives `CompletesWhatIsStoredHolds` and `ShownHasPumpHolds`, second pumps
included. `WaiterHasWakerHolds` needs `WakeInv` as well: a file that waits,
is not overlooked and not being added has its runtime in the map, where the end of
a run looks for it. A file begins to wait only where another's pump runs, and the last step of
a pump starts a waiter, whose pump will wake the next. `Bounded` limits the parts in flight for `TypeCorrect`.

`Accounts_proofs`. `OwnerRemainsHolds`, `SuspensionHoldsAlways`,
`OldPasswordEndsHolds` and `SessionsWithinLimitHolds`: session and login under
way appear together, and what `Trim` deletes makes up for what is above the
limit. `OldPasswordEnds` needs to know of each login under way that
it verified the password in force or is late; `OwnerRemains` that guests are
never owners and that a request of an owner is made only where there is one.

`WorkerJobs_proofs`. `AtWorkHoldsLeaseHolds` and `OneAtWork` for any number of
processes and jobs, from `LeaseInv`: who has not lost the leader connection
holds the lease from its start to its exit. `BackupIsWholeHolds`, for any number
of chunks, from `FileInv`: what is there was written by `encryptBackup` up to
some chunk, and what its writer has finished is whole; a damaged file's frames
are among those written, and a reader that accepts them has seen each in its
place and the last one at the end. `TypeCorrect` needs that a job in the queue
stands there once, that a process has a job just while it is at it, and that
there are finitely many scheduled jobs (`WorkerConstants`).

Each proof has one step per action and goes pointwise; the inductive invariants
were checked with TLC before they were proved. The assumptions exclude exactly
the interleavings that section 4 describes.

Only model-checked: the liveness properties, whose fairness and ENABLED are out of
the prover's reach (`EveryUploadSettles`, `ClosedIsReclaimed`,
`UnreferencedIsPurged`, `ReaderCatchesUp`, `EveryTransactionEnds`,
`NoRequestIsLost`). `OnePump` is false. The theorems with
an assumption (`Orderly`, `NoStaleWrites`, `OwnerAlone`, `NoModerator`) say
nothing of the operations it excludes.

## 6. What is not modelled

PROJECT.json `components` gives the reason per component.

* Pages, SEO and branding, support tickets and API keys: independent rows with a
  revision check or a single statement; nothing relates two rows that change
  separately.
* Overview, metrics, live events: views and counters.
* Cryptographic digests, redaction: a model would assume what it should show.
* Part arithmetic beyond `assertParts`: three lines without state.
* Configuration, one-off migrations, presentation, deployment scripts.
* Within modelled components: rate limits, listing and search, folder creation
  and its cycle check, jobs of kind hash, private shares and the owner's
  exemptions, the engine's rate control, verification links.
