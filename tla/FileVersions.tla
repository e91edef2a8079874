---------------------------- MODULE FileVersions ----------------------------
(***************************************************************************)
(* Version history (apps/api/src/cloud.ts): devices of one owner replace   *)
(* the content of a file, or restore an old one, at the revision they have *)
(* seen; old versions are pruned, by the replacement and by the worker,    *)
(* and the worker's purge job removes what no file and no version needs.   *)
(*                                                                         *)
(* A replacement holds the owner's users row and the file's row.  It reads *)
(* its source, another file or a version, without a lock; its INSERT and   *)
(* UPDATE wait for the purge job's lock on the object (foreign keys).      *)
(***************************************************************************)
EXTENDS Naturals, FiniteSets

CONSTANTS File, Object, Device,
          None,          \* no file, no object
          VersionCount,  \* min(policy.versionCount, maxVersionCount)
          MaxRevision    \* bound on revisions, for TLC

ASSUME VersionConstants ==
  /\ None \notin File \cup Object
  /\ VersionCount \in Nat \ {0} /\ MaxRevision \in Nat \ {0}

VARIABLES
  ref,      \* files.object_id
  fstate,   \* files.state: AVAILABLE or EXPIRED, which stands for PURGED too
  rev,      \* files.revision
  history,  \* file_versions of each file: object and revision
  aged,     \* versions older than versionDays
  ostate,   \* file_objects.state
  bytes,    \* the store holds the object
  job,      \* the background_jobs row of kind purge
  request,  \* what a device knows and asks for
  worker    \* the purge job in progress

fileVars == <<ref, fstate, rev>>
objectVars == <<ostate, bytes>>
vars == <<fileVars, history, aged, objectVars, job, request, worker>>

Version == [file : File, object : Object, rev : 1..MaxRevision]
NoRequest == [step |-> "idle", file |-> None, rev |-> 0, seen |-> None, source |-> None]
Idle == [step |-> "idle", object |-> None]

TypeOK ==
  /\ ref \in [File -> Object]
  /\ fstate \in [File -> {"AVAILABLE", "EXPIRED"}]
  /\ rev \in [File -> 1..MaxRevision]
  /\ history \subseteq Version /\ aged \subseteq Version
  /\ ostate \in [Object -> {"AVAILABLE", "PURGED"}]
  /\ bytes \in [Object -> BOOLEAN]
  /\ job \in [Object -> {"NONE", "PENDING", "RUNNING", "COMPLETED"}]
  /\ request \in [Device -> {NoRequest}
       \cup [step : {"knows"}, file : File, rev : 1..MaxRevision, seen : Object,
             source : {None}]
       \cup [step : {"locked"}, file : File, rev : 1..MaxRevision, seen : Object,
             source : Object]]
  /\ worker \in [step : {"idle", "claimed", "removing", "removed", "finishing"},
                 object : Object \cup {None}]

\* Every file was uploaded as an object of its own. A purge job may be due for
\* it, asked for when a copy of the file expired.
Init ==
  /\ ref \in [File -> Object] /\ \A f, g \in File : f # g => ref[f] # ref[g]
  /\ fstate = [f \in File |-> "AVAILABLE"]
  /\ rev = [f \in File |-> 1]
  /\ history = {} /\ aged = {}
  /\ ostate = [o \in Object |-> "AVAILABLE"]
  /\ bytes = [o \in Object |-> TRUE]
  /\ job \in [Object -> {"NONE", "PENDING"}]
  /\ request = [d \in Device |-> NoRequest]
  /\ worker = Idle

ReferredByFile(o) == \E f \in File : ref[f] = o /\ fstate[f] = "AVAILABLE"
ReferredByVersion(o) == \E v \in history : v.object = o

\* Mutant of Needed: the purge job looks at files only.
NeededByFile(o) == ReferredByFile(o)

Needed(o) == ReferredByFile(o) \/ ReferredByVersion(o)

\* Locks: the owner's users row and the file's row of a replacement in
\* progress, the object's row of a purge job in progress.
UserLocked == \E d \in Device : request[d].step = "locked"
FileLocked(f) == \E d \in Device : request[d].step = "locked" /\ request[d].file = f
ObjectLocked(o) == worker.object = o /\ worker.step \in {"removing", "removed"}

Enqueued(objects) ==
  [o \in Object |-> IF o \in objects /\ job[o] # "RUNNING" THEN "PENDING" ELSE job[o]]

\* pruneVersions(f): the newest versions that are young enough stay, and none
\* of a file that is gone.
Kept(f, all) ==
  {v \in all : v.file = f =>
     /\ v \notin aged /\ fstate[f] = "AVAILABLE"
     /\ Cardinality({w \in all : w.file = f /\ w.rev > v.rev}) < VersionCount}

Objects(versions) == {v.object : v \in versions}

----------------------------------------------------------------------------
(* The owner's devices.                                                    *)

\* GET /api/files/:id/versions: the content on the screen and its revision.
Look(d, f) ==
  /\ request[d].step # "locked" /\ fstate[f] = "AVAILABLE"
  /\ request' = [request EXCEPT ![d] = [step |-> "knows", file |-> f, rev |-> rev[f],
                                        seen |-> ref[f], source |-> None]]
  /\ UNCHANGED <<fileVars, history, aged, objectVars, job, worker>>

\* accessibleFile: a file that is there, with its object.
Accessible(o) == \E f \in File : /\ ref[f] = o /\ fstate[f] = "AVAILABLE"
                                 /\ ostate[o] = "AVAILABLE"

\* What may replace the content of f: an accessible file of the owner, or a
\* version of f whose object is there.
Sources(f) ==
  {o \in Object : \/ Accessible(o)
                  \/ \E v \in history : v.file = f /\ v.object = o /\ ostate[o] = "AVAILABLE"}

\* Mutant of SameRevision: the device's revision is not asked for.
AnyRevision(d) == request[d].file \in File

SameRevision(d) == rev[request[d].file] = request[d].rev

\* Locks, checks and the read of the source. A refusal, and a source that is
\* the content already, change nothing.
ReplaceRead(d, o) ==
  /\ request[d].step = "knows" /\ ~UserLocked
  /\ SameRevision(d)
  /\ fstate[request[d].file] = "AVAILABLE"
  /\ o \in Sources(request[d].file) \ {ref[request[d].file]}
  /\ request' = [request EXCEPT ![d].step = "locked", ![d].source = o]
  /\ UNCHANGED <<fileVars, history, aged, objectVars, job, worker>>

\* The old content becomes a version, the source the content; then prune.
ReplaceWrite(d) ==
  LET f == request[d].file
      new == request[d].source
      all == history \cup {[file |-> f, object |-> ref[f], rev |-> rev[f]]}
  IN /\ request[d].step = "locked"
     /\ ~ObjectLocked(new) /\ ~ObjectLocked(ref[f])
     /\ rev[f] < MaxRevision
     /\ ref' = [ref EXCEPT ![f] = new]
     /\ rev' = [rev EXCEPT ![f] = @ + 1]
     /\ history' = Kept(f, all)
     /\ job' = Enqueued(Objects(all \ Kept(f, all)))
     /\ request' = [request EXCEPT ![d] = NoRequest]
     /\ UNCHANGED <<fstate, aged, objectVars, worker>>

\* Mutant of ReplaceFails: the transaction stays open, with its locks.
ReplaceAbandoned(d) ==
  /\ request[d].step = "locked"
  /\ request' = [request EXCEPT ![d] = [NoRequest EXCEPT !.step = "locked"]]
  /\ UNCHANGED <<fileVars, history, aged, objectVars, job, worker>>

\* A lost connection, a quota: the transaction is rolled back.
ReplaceFails(d) ==
  /\ request[d].step = "locked"
  /\ request' = [request EXCEPT ![d] = NoRequest]
  /\ UNCHANGED <<fileVars, history, aged, objectVars, job, worker>>

\* Any other change of the file's row, by any device: the trigger counts it.
Edit(f) ==
  /\ fstate[f] = "AVAILABLE" /\ ~FileLocked(f) /\ rev[f] < MaxRevision
  /\ rev' = [rev EXCEPT ![f] = @ + 1]
  /\ UNCHANGED <<ref, fstate, history, aged, objectVars, job, request, worker>>

----------------------------------------------------------------------------
(* Time and the worker.                                                    *)

Age(v) ==
  /\ v \in history \ aged
  /\ aged' = aged \cup {v}
  /\ UNCHANGED <<fileVars, history, objectVars, job, request, worker>>

\* The expiry pass: the file's row, then the job.
Expire(f) ==
  /\ worker = Idle /\ fstate[f] = "AVAILABLE" /\ ~FileLocked(f)
  /\ fstate' = [fstate EXCEPT ![f] = "EXPIRED"]
  /\ job' = Enqueued({ref[f]})
  /\ UNCHANGED <<ref, rev, history, aged, objectVars, request, worker>>

\* The cleanup's prune of one file, in a transaction of its own. It reads the
\* file's row without a lock.
PrunePass(f) ==
  /\ worker = Idle
  /\ history' = Kept(f, history) /\ history' # history
  /\ job' = Enqueued(Objects(history \ Kept(f, history)))
  /\ UNCHANGED <<fileVars, aged, objectVars, request, worker>>

At(step, o) == worker = [step |-> step, object |-> o]

Claim(o) ==
  /\ worker = Idle /\ job[o] = "PENDING"
  /\ job' = [job EXCEPT ![o] = "RUNNING"]
  /\ worker' = [step |-> "claimed", object |-> o]
  /\ UNCHANGED <<fileVars, history, aged, objectVars, request>>

\* The object's row is locked, then files and versions are looked at.
PurgeCheck(o) ==
  /\ At("claimed", o)
  /\ worker' = [worker EXCEPT !.step = IF Needed(o) THEN "finishing" ELSE "removing"]
  /\ UNCHANGED <<fileVars, history, aged, objectVars, job, request>>

PurgeRemove(o) ==
  /\ At("removing", o)
  /\ bytes' = [bytes EXCEPT ![o] = FALSE]
  /\ worker' = [worker EXCEPT !.step = "removed"]
  /\ UNCHANGED <<fileVars, history, aged, ostate, job, request>>

PurgeCommit(o) ==
  /\ At("removed", o)
  /\ ostate' = [ostate EXCEPT ![o] = "PURGED"]
  /\ worker' = [worker EXCEPT !.step = "finishing"]
  /\ UNCHANGED <<fileVars, history, aged, bytes, job, request>>

JobDone(o) ==
  /\ At("finishing", o)
  /\ job' = [job EXCEPT ![o] = "COMPLETED"]
  /\ worker' = Idle
  /\ UNCHANGED <<fileVars, history, aged, objectVars, request>>

----------------------------------------------------------------------------
Next ==
  \/ \E d \in Device : (\E f \in File : Look(d, f)) \/ (\E o \in Object : ReplaceRead(d, o))
                       \/ ReplaceWrite(d) \/ ReplaceFails(d)
  \/ \E f \in File : Edit(f) \/ Expire(f) \/ PrunePass(f)
  \/ \E v \in Version : Age(v)
  \/ \E o \in Object : Claim(o) \/ PurgeCheck(o) \/ PurgeRemove(o) \/ PurgeCommit(o) \/ JobDone(o)

Spec == Init /\ [][Next]_vars

----------------------------------------------------------------------------
(* Properties.                                                             *)

\* What a device replaces is the content it had on its screen: a change of
\* another device in between, also one there and back again, makes the
\* revision another one (cloud.ts:32, 003_cloud_versions.sql:17).
ReplacesWhatWasSeen ==
  [][\A f \in File : ref'[f] # ref[f] =>
       \E d \in Device : /\ request[d].step = "locked" /\ request[d].file = f
                         /\ request[d].seen = ref[f] /\ request'[d] = NoRequest]_vars

\* The store loses an object only while neither a file nor a version needs
\* it, however replacements, restores, prunes and the job interleave
\* (worker/src/index.ts:26).
OnlyUnneededRemoved ==
  [][\A o \in Object : bytes[o] /\ ~bytes'[o] =>
       ~ReferredByFile(o) /\ ~ReferredByVersion(o)]_vars
=============================================================================
