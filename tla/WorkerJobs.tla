----------------------------- MODULE WorkerJobs -----------------------------
(***************************************************************************)
(* The worker (apps/worker/src/index.ts): the lease that elects one        *)
(* process, the queue background_jobs, the loop that schedules, claims and *)
(* finishes jobs, and the backup job; what the API does to the queue       *)
(* (enqueue in lib.ts, jobs in admin.ts); scripts/backup.ts.               *)
(*                                                                         *)
(* A process holds the lease by the session of its leader connection.  It  *)
(* does everything else through the pool, so that a process whose leader   *)
(* connection dropped goes on with the job it has.  Jobs of kind hash,     *)
(* which come after all others, are left out, and so are the contents of   *)
(* the jobs other than the backup.                                         *)
(***************************************************************************)
EXTENDS Backups, FiniteSets

CONSTANTS
  Worker,       \* worker processes
  Scheduled,    \* jobs the loop enqueues, target 'scheduled'
  Manual,       \* jobs an administrator enqueues, target 'manual'
  BackupJobs,   \* those of kind backup
  Chunks,       \* chunks of a whole dump
  MaxAttempts,  \* claims after which a failed job is left alone
  MaxAsks,      \* bound: requests, scheduled or not, and retries
  MaxMishaps,   \* bound: crashes, signals, lost connections, answers and writes
  None

Job == Scheduled \cup Manual

ASSUME WorkerConstants ==
  /\ IsFiniteSet(Worker) /\ IsFiniteSet(Scheduled) /\ None \notin Worker \cup Job
  /\ BackupJobs \subseteq Job
  /\ {Chunks, MaxAttempts, MaxAsks, MaxMishaps} \subseteq Nat /\ MaxAttempts > 0

VARIABLES
  row,      \* background_jobs: status and attempts of each job
  order,    \* the jobs in the order of created_at
  lease,    \* the process whose session holds the advisory lock
  proc,     \* each process
  file,     \* the backup last left in BACKUP_DIR under its final name, and by
            \* whom while that process is at work on it
  owed,     \* requests not served yet, see NoRequestIsLost
  stranded, \* jobs whose row a process has left RUNNING, and has gone on
  strayed,  \* a process claimed or wrote after it had lost the lease
  cut,      \* processes whose leader connection dropped
  asks, mishaps

queueVars == <<row, order, owed, stranded>>
ghosts == <<strayed, cut, asks, mishaps>>
vars == <<queueVars, lease, proc, file, ghosts>>

NoFile == [by |-> None, header |-> 1, frames |-> <<>>, dumped |-> 0, created |-> FALSE]
Down == [at |-> "down", job |-> None, stopping |-> FALSE]

TypeOK ==
  /\ row \in [Job -> [status : {"NONE", "PENDING", "RUNNING", "COMPLETED", "FAILED"},
                      attempts : 0..MaxAttempts]]
  /\ ToSet(order) \subseteq Job /\ IsInjective(order)
  /\ \A j \in Job : row[j].status = "NONE" <=> ~Contains(order, j)
  /\ lease \in Worker \cup {None}
  /\ proc \in [Worker -> [at : {"down", "locked", "idle", "alive", "busy", "dumped", "broken"},
                          job : Job \cup {None}, stopping : BOOLEAN]]
  /\ \A w \in Worker : proc[w].at \in {"busy", "dumped", "broken"} <=> proc[w].job # None
  /\ file.by \in Worker \cup {None} /\ file.dumped \in 0..Chunks /\ file.created \in BOOLEAN
  /\ owed \in [Job -> {"no", "asked", "begun"}] /\ stranded \subseteq Job
  /\ strayed \in BOOLEAN /\ cut \subseteq Worker
  /\ asks \in 0..MaxAsks /\ mishaps \in 0..MaxMishaps

Init ==
  /\ row = [j \in Job |-> [status |-> "NONE", attempts |-> 0]]
  /\ order = <<>>
  /\ lease = None
  /\ proc = [w \in Worker |-> Down]
  /\ file = NoFile
  /\ owed = [j \in Job |-> "no"] /\ stranded = {}
  /\ strayed = FALSE /\ cut = {}
  /\ asks = 0 /\ mishaps = 0

Status(j) == row[j].status
Goto(w, at) == proc' = [proc EXCEPT ![w].at = at]
Release(w) == lease' = IF lease = w THEN None ELSE lease

----------------------------------------------------------------------------
(* The queue.                                                              *)

\* Mutant of Renewable: what has failed waits for the retries.
RenewableOnSuccess == {"NONE", "COMPLETED"}

\* The rows an enqueue makes PENDING; it leaves attempts and created_at alone.
Renewable == {"NONE", "COMPLETED", "FAILED"}

\* enqueue of the given jobs. A job under way serves no request made meanwhile.
Enqueue(jobs) ==
  LET new == {j \in jobs : Status(j) = "NONE"}
  IN /\ row' = [j \in Job |-> IF j \in jobs /\ Status(j) \in Renewable
                                THEN [row[j] EXCEPT !.status = "PENDING"] ELSE row[j]]
     /\ \E s \in SetToSeqs(new) : order' = order \o s
     /\ owed' = [j \in Job |-> IF j \in jobs /\ Status(j) # "RUNNING" THEN "asked" ELSE owed[j]]

\* POST /api/admin/jobs.
Request(j) ==
  /\ j \in Manual /\ asks < MaxAsks
  /\ Enqueue({j})
  /\ asks' = asks + 1
  /\ UNCHANGED <<stranded, lease, proc, file, strayed, cut, mishaps>>

\* POST /api/admin/jobs/:id/retry.
Retry(j) ==
  /\ Status(j) = "FAILED" /\ asks < MaxAsks
  /\ row' = [row EXCEPT ![j] = [status |-> "PENDING", attempts |-> 0]]
  /\ owed' = [owed EXCEPT ![j] = "asked"]
  /\ asks' = asks + 1
  /\ UNCHANGED <<order, stranded, lease, proc, file, strayed, cut, mishaps>>

----------------------------------------------------------------------------
(* A process from its start to its end.                                    *)

\* pg_try_advisory_lock. A process that does not get it exits, and is started
\* again (restart: unless-stopped).
Start(w) ==
  /\ proc[w].at = "down" /\ lease = None
  /\ lease' = w
  /\ Goto(w, "locked")
  /\ UNCHANGED <<queueVars, file, ghosts>>

\* What the last worker left RUNNING is PENDING again.
TakeOver(w) ==
  /\ proc[w].at = "locked"
  /\ row' = [j \in Job |-> IF Status(j) = "RUNNING"
                             THEN [row[j] EXCEPT !.status = "PENDING"] ELSE row[j]]
  /\ Goto(w, "idle")
  /\ stranded' = {}
  /\ strayed' = (strayed \/ lease # w)
  /\ UNCHANGED <<order, owed, lease, file, cut, asks, mishaps>>

\* The leader connection answers; the jobs whose time has come are enqueued.
Schedule(w, jobs) ==
  /\ proc[w].at = "idle" /\ ~proc[w].stopping /\ lease = w
  /\ jobs # {} => asks < MaxAsks
  /\ Enqueue(jobs)
  /\ asks' = IF jobs = {} THEN asks ELSE asks + 1
  /\ Goto(w, "alive")
  /\ UNCHANGED <<stranded, lease, file, strayed, cut, mishaps>>

\* Position in the order of created_at.
Before(i, j) == \E m, n \in DOMAIN order : m < n /\ order[m] = i /\ order[n] = j

\* A PENDING job, or a FAILED one whose backoff may be over; none that is
\* PENDING comes before it.
Claimable(j) ==
  /\ \/ Status(j) = "PENDING"
     \/ Status(j) = "FAILED" /\ row[j].attempts < MaxAttempts
  /\ ~\E i \in Job : Status(i) = "PENDING" /\ Before(i, j)

Claimed(j) ==
  row' = [row EXCEPT ![j] = [status |-> "RUNNING",
                             attempts |-> IF @.attempts < MaxAttempts THEN @.attempts + 1
                                                                      ELSE @.attempts]]

Claim(w, j) ==
  /\ proc[w].at = "alive"
  /\ Claimable(j)
  /\ Claimed(j)
  /\ proc' = [proc EXCEPT ![w].at = "busy", ![w].job = j]
  /\ owed' = [owed EXCEPT ![j] = IF @ = "asked" THEN "begun" ELSE @]
  /\ strayed' = (strayed \/ lease # w)
  /\ UNCHANGED <<order, stranded, lease, file, cut, asks, mishaps>>

\* COMMIT succeeds and its answer is lost: the loop's catch goes on to the
\* next turn, and nobody is at the job, whose row says RUNNING.
ClaimLost(w, j) ==
  /\ proc[w].at = "alive" /\ mishaps < MaxMishaps
  /\ Claimable(j)
  /\ Claimed(j)
  /\ Goto(w, "idle")
  /\ stranded' = stranded \cup {j}
  /\ strayed' = (strayed \/ lease # w)
  /\ mishaps' = mishaps + 1
  /\ UNCHANGED <<order, owed, lease, file, cut, asks>>

NoJob(w) ==
  /\ proc[w].at = "alive"
  /\ \A j \in Job : Status(j) # "PENDING"
  /\ Goto(w, "idle")
  /\ UNCHANGED <<queueVars, lease, file, ghosts>>

\* The loop's last turn is over: unlock, and exit.
Exit(w) ==
  /\ proc[w].at = "idle" /\ proc[w].stopping
  /\ Release(w)
  /\ proc' = [proc EXCEPT ![w] = Down]
  /\ cut' = cut \ {w}
  /\ UNCHANGED <<queueVars, file, strayed, asks, mishaps>>

\* Mutant of Signalled: the lease is given back at once.
SignalledReleases(w) == Release(w)

Signalled(w) == lease' = lease

\* SIGTERM, SIGINT: the loop goes on to the end of its turn.
Terminate(w) ==
  /\ proc[w].at # "down" /\ ~proc[w].stopping /\ mishaps < MaxMishaps
  /\ proc' = [proc EXCEPT ![w].stopping = TRUE]
  /\ Signalled(w)
  /\ mishaps' = mishaps + 1
  /\ UNCHANGED <<queueVars, file, strayed, cut, asks>>

\* The leader connection drops, and with its session the lease.
Disconnect(w) ==
  /\ lease = w /\ mishaps < MaxMishaps
  /\ lease' = None
  /\ cut' = cut \cup {w}
  /\ mishaps' = mishaps + 1
  /\ UNCHANGED <<queueVars, proc, file, strayed, asks>>

\* leader.on('error').
Notice(w) ==
  /\ w \in cut /\ ~proc[w].stopping /\ proc[w].at # "down"
  /\ proc' = [proc EXCEPT ![w].stopping = TRUE]
  /\ UNCHANGED <<queueVars, lease, file, ghosts>>

----------------------------------------------------------------------------
(* Jobs.                                                                   *)

\* The file of a dump that has written n chunks.
Written(w, n, frames) ==
  [by |-> w, header |-> 1, frames |-> frames, dumped |-> n, created |-> FALSE]

\* The last file, once w is not at work on it any more.
Left(w) == IF file.by = w THEN [file EXCEPT !.by = None] ELSE file

\* pg_dump has closed its output after n chunks: whatever its exit status,
\* encryptBackup writes the final frame, under the file's final name.
DumpEnds(w, n, ok) ==
  /\ proc[w].at = "busy" /\ proc[w].job \in BackupJobs
  /\ ok => n = Chunks
  /\ file' = Written(w, n, Sealed(1, n))
  /\ Goto(w, IF ok THEN "dumped" ELSE "broken")
  /\ UNCHANGED <<queueVars, lease, ghosts>>

\* The file cannot be written on; what there is of it stays.
WriteFails(w, n) ==
  /\ proc[w].at = "busy" /\ proc[w].job \in BackupJobs
  /\ file' = Written(w, n, Frames(1, n))
  /\ Goto(w, "broken")
  /\ UNCHANGED <<queueVars, lease, ghosts>>

\* Mutant of Succeeds: the exit status of pg_dump is not looked at.
SucceedsAnyhow(w) == proc[w].at # "down"

\* A backup is created if pg_dump exited with 0; other jobs may do either.
Succeeds(w) == proc[w].at = "dumped" \/ proc[w].job \notin BackupJobs

\* Mutant of Rest: the process holds on to the job it has finished.
RestOnJob(w) == proc' = [proc EXCEPT ![w].at = "idle"]

Rest(w) == proc' = [proc EXCEPT ![w].at = "idle", ![w].job = None]

\* COMPLETED or FAILED, by the id of the row; FAILED also where COMPLETED could
\* not be written. The audit record of a backup and its row are one step here.
Finish(w, ok) ==
  LET j == proc[w].job
  IN /\ proc[w].at \in {"busy", "dumped", "broken"}
     /\ j \in BackupJobs => proc[w].at # "busy"
     /\ ok => Succeeds(w)
     /\ \/ /\ \E end \in {"FAILED"} \cup (IF ok THEN {"COMPLETED"} ELSE {}) :
               row' = [row EXCEPT ![j].status = end]
           /\ owed' = [owed EXCEPT ![j] = IF @ = "begun" THEN "no" ELSE @]
           /\ UNCHANGED <<stranded, mishaps>>
        \/ /\ mishaps < MaxMishaps          \* FAILED cannot be written either
           /\ stranded' = stranded \cup {j} /\ mishaps' = mishaps + 1
           /\ UNCHANGED <<row, owed>>
     /\ file' = [Left(w) EXCEPT !.created = @ \/ (ok /\ j \in BackupJobs /\ file.by = w)]
     /\ strayed' = (strayed \/ lease # w)
     /\ Rest(w)
     /\ UNCHANGED <<order, lease, cut, asks>>

\* The process dies; the file of its backup stays as far as it was written.
Crash(w) ==
  /\ proc[w].at # "down" /\ mishaps < MaxMishaps
  /\ Release(w)
  /\ proc' = [proc EXCEPT ![w] = Down]
  /\ file' \in IF proc[w].at = "busy" /\ proc[w].job \in BackupJobs
                 THEN {Written(None, n, Frames(1, n)) : n \in 0..Chunks} ELSE {Left(w)}
  /\ cut' = cut \ {w}
  /\ mishaps' = mishaps + 1
  /\ UNCHANGED <<queueVars, strayed, asks>>

\* createMetadataBackup of the script: a temporary name until pg_dump has
\* exited with 0, then the final one. What fails is unlinked or stays temporary.
ScriptBackup ==
  /\ file' = [Written(None, Chunks, Sealed(1, Chunks)) EXCEPT !.created = TRUE]
  /\ UNCHANGED <<queueVars, lease, proc, ghosts>>

----------------------------------------------------------------------------
Turn(w) ==
  \/ Start(w) \/ TakeOver(w) \/ NoJob(w) \/ Exit(w) \/ Notice(w)
  \/ \E jobs \in SUBSET Scheduled : Schedule(w, jobs)
  \/ \E j \in Job : Claim(w, j) \/ ClaimLost(w, j)
  \/ \E n \in 0..Chunks, ok \in BOOLEAN : DumpEnds(w, n, ok)
  \/ \E n \in 0..Chunks : WriteFails(w, n)
  \/ \E ok \in BOOLEAN : Finish(w, ok)

Next ==
  \/ \E w \in Worker : Turn(w)
  \/ \E w \in Worker : Terminate(w) \/ Disconnect(w) \/ Crash(w)
  \/ \E j \in Job : Request(j) \/ Retry(j)
  \/ ScriptBackup

Spec == Init /\ [][Next]_vars

(***************************************************************************)
(* Fairness: processes are started again (restart: unless-stopped) and go  *)
(* on; jobs end.  Nothing is assumed of administrators, signals and        *)
(* failures.                                                               *)
(***************************************************************************)
FairSpec == Spec /\ \A w \in Worker : WF_vars(Turn(w))

----------------------------------------------------------------------------
\* A backup reported as created is all of the dump, and nothing but what
\* pg_dump wrote is ever accepted as a backup: cut short by a crash or a full
\* disk, or put together from pieces, a file is refused
\* (privacy/backup.ts:8-9; worker/src/index.ts:71, database/backup.ts:13).
BackupIsWhole ==
  /\ file.created => Accepted(file) /\ file.dumped = Chunks
  /\ \A f \in Damaged(file) :
       Accepted(f) => Restored(f) = [i \in 1..file.dumped |-> i]

\* A process that has not lost its leader connection holds the lease from its
\* start to its exit, the rest of its job after a signal included: two work
\* at once only if one of them lost the connection (docs/ARCHITECTURE.md:18;
\* worker/src/index.ts:18-20, 87-89).
AtWorkHoldsLease ==
  \A w \in Worker : proc[w].at # "down" /\ w \notin cut => lease = w

\* A request that finds its job not under way is followed by a run of it that
\* begins later and ends, through failures, crashes and restarts
\* (lib.ts:43; worker/src/index.ts:21, 82-83). Excepted by name are a process
\* that goes on claiming or writing without the lease (strayed), and a row
\* that a process could not write on and left RUNNING (stranded), until the
\* next start of a worker. The property rests on MaxAsks as well: the oldest
\* job goes first, and scheduled jobs that were due again before they are done
\* would keep the worker from all younger ones; nothing in the code bounds
\* their length.
NoRequestIsLost ==
  \A j \in Job : owed[j] # "no" ~> owed[j] = "no" \/ strayed \/ j \in stranded
=============================================================================
