----------------------------- MODULE Admission -----------------------------
(***************************************************************************)
(* What may be uploaded and copied: reserve of lib.ts, the copies of       *)
(* POST /api/files/bulk, the transfers of PATCH /api/admin/files, and the  *)
(* view account_storage_usage (003_cloud_versions.sql) they all read.      *)
(*                                                                         *)
(* An admission holds one advisory lock and, later, its owner's users row; *)
(* copies and transfers hold the users row only.  Uploads write, end and   *)
(* expire under neither.  The quota is the plan's, or the owner's own if   *)
(* an administrator has set one; a plan changes under no lock that an      *)
(* admission takes.  The limits per day and month, per file and on         *)
(* reserved bytes have the form of the two modelled here.                  *)
(*                                                                         *)
(* AdmissionSpec and its parts bear the module's name, for Storage_proofs, *)
(* which extends this module and FileVersions.                             *)
(***************************************************************************)
EXTENDS Naturals, FiniteSets

CONSTANTS Owner, Item,
          Sizes,       \* sizes of uploads
          Quotas,      \* values of storageBytes in a plan and for an owner
          UploadLimit, \* min(policy.concurrentUploads, incompleteUploadLimit)
          Disk, Floor, \* free bytes at first, and the larger of the two limits
          MaxChanges,  \* bound: changes of quotas
          Unset        \* no owner, no quota of the owner's own

ASSUME AdmissionConstants ==
  /\ IsFiniteSet(Item) /\ Unset \notin Owner \cup Quotas /\ Sizes \subseteq Nat \ {0}
  /\ Quotas \subseteq Nat /\ {UploadLimit, Disk, Floor, MaxChanges} \subseteq Nat /\ Floor <= Disk

VARIABLES
  item,   \* an upload or a copy, from its admission to its end
  plan,   \* storageBytes of the owners' plan
  own,    \* storageBytes in users.quota, or Unset
  changes, \* of plan and own, up to MaxChanges
  free,   \* free bytes of the disk
  seen,   \* free bytes as the admission in progress has read them
  mark,   \* bytes written by each item at that time
  missed  \* bytes written behind an admission's back, see DiskCheck

diskVars == <<free, seen, mark, missed>>
policyVars == <<plan, own, changes>>
admissionVars == <<item, policyVars, diskVars>>

\* raced: the plan changed while the item's transaction had still to commit.
NoItem == [state |-> "free", owner |-> Unset, size |-> 0, written |-> 0, revived |-> FALSE,
           raced |-> FALSE]

Zero == [i \in Item |-> 0]

AdmissionTypeOK ==
  /\ item \in [Item ->
       [state : {"free", "locked", "checked", "admitted", "reserved", "unreserved", "ended",
                 "copying", "held", "expired"},
        owner : Owner \cup {Unset}, size : Sizes \cup {0}, written : 0..Disk, revived : BOOLEAN,
        raced : BOOLEAN]]
  /\ \A i \in Item : item[i].written <= item[i].size
  /\ plan \in Quotas /\ own \in [Owner -> Quotas \cup {Unset}]
  /\ changes \in 0..MaxChanges
  /\ free \in 0..Disk /\ seen \in 0..Disk
  /\ mark \in [Item -> 0..Disk] /\ missed \in Nat

AdmissionInit ==
  /\ item = [i \in Item |-> NoItem]
  /\ plan \in Quotas /\ own = [o \in Owner |-> Unset]
  /\ changes = 0
  /\ free = Disk /\ seen = 0 /\ mark = Zero /\ missed = 0

----------------------------------------------------------------------------
In(states) == {i \in Item : item[i].state \in states}
Owned(o, states) == {i \in In(states) : item[i].owner = o}

\* How many bytes some items have after the first from[i], up to to[i].
Between(items, from, to) == Cardinality(UNION {{i} \X (from[i] + 1 .. to[i]) : i \in items})

Written == [i \in Item |-> item[i].written]
Size == [i \in Item |-> item[i].size]

Bytes(items) == Between(items, Zero, Size)

\* used_bytes + reserved_bytes
Usage(o) == Bytes(Owned(o, {"held"})) + Bytes(Owned(o, {"reserved"}))

\* Mutant of AdvisoryFree: admissions of several owners at once.
AdvisoryUnused(i) == i \in Item

AdvisoryFree(i) == In({"locked", "checked", "admitted"}) \subseteq {i}

\* Mutant of UserFree: the balances are read without FOR UPDATE.
UserNeverLocked(o) == o \in Owner

UserFree(o) == Owned(o, {"admitted", "copying"}) = {}

\* entitlements(o).effective.storageBytes
Quota(o) == IF own[o] = Unset THEN plan ELSE own[o]

Put(i, state) == item' = [item EXCEPT ![i].state = state]

----------------------------------------------------------------------------
(* POST /api/uploads                                                       *)

\* reserve: the advisory lock and statfs.
ReserveLock(i, o, n) ==
  /\ item[i] = NoItem /\ AdvisoryFree(i)
  /\ item' = [item EXCEPT ![i] = [NoItem EXCEPT !.state = "locked", !.owner = o, !.size = n]]
  /\ seen' = free
  /\ mark' = Written
  /\ UNCHANGED <<policyVars, free, missed>>

\* The bytes of uploads that ended after statfs, written after it: neither the
\* free bytes that were read nor the reserved bytes read now account for them.
Missed == Between(Item \ In({"reserved"}), mark, Written)

\* What statfs returned is used once.
Forget == seen' = 0 /\ mark' = Zero

\* The reserved bytes of everyone, and the limit.
DiskCheck(i) ==
  /\ item[i].state = "locked"
  /\ seen >= Bytes(In({"reserved"})) + item[i].size + Floor
  /\ Put(i, "checked")
  /\ missed' = missed + Missed
  /\ Forget /\ UNCHANGED <<policyVars, free>>

\* The users row, the balances, the rows of the upload.
Admit(i) ==
  LET o == item[i].owner
  IN /\ item[i].state = "checked" /\ UserFree(o)
     /\ Cardinality(Owned(o, {"reserved"})) < UploadLimit
     /\ Usage(o) + item[i].size <= Quota(o)
     /\ Put(i, "admitted")
     /\ UNCHANGED <<policyVars, diskVars>>

AdmitCommit(i) ==
  /\ item[i].state = "admitted"
  /\ Put(i, "reserved")
  /\ UNCHANGED <<policyVars, diskVars>>

\* Mutant of Refused: the attempt is counted as written.
RefusedAsWritten(i) == [item EXCEPT ![i] = [NoItem EXCEPT !.written = item[i].size]]

Refused(i) == [item EXCEPT ![i] = NoItem]

\* A limit, or a broken connection: the transaction is rolled back.
Rollback(i) ==
  /\ item[i].state \in {"locked", "checked", "admitted", "copying"}
  /\ item' = Refused(i)
  /\ IF item[i].state = "locked" THEN Forget ELSE UNCHANGED <<seen, mark>>
  /\ UNCHANGED <<policyVars, free, missed>>

\* The multipart upload could not be opened: INIT_FAILED is not reserved.
InitFails(i) ==
  /\ item[i].state = "reserved" /\ item[i].written = 0
  /\ Put(i, "unreserved")
  /\ UNCHANGED <<policyVars, diskVars>>

----------------------------------------------------------------------------
(* What becomes of an upload and of a file.                                *)

Write(i) ==
  /\ item[i].state = "reserved" /\ item[i].written < item[i].size /\ free > 0
  /\ item' = [item EXCEPT ![i].written = @ + 1]
  /\ free' = free - 1
  /\ UNCHANGED <<policyVars, seen, mark, missed>>

\* finalize: one transaction ends the upload and offers the file.
Complete(i) ==
  /\ item[i].state = "reserved" /\ item[i].written = item[i].size
  /\ Put(i, "held")
  /\ UNCHANGED <<policyVars, diskVars>>

\* Aborted by its owner or expired by the worker.
End(i) ==
  /\ item[i].state = "reserved"
  /\ Put(i, "ended")
  /\ UNCHANGED <<policyVars, diskVars>>

\* EXPIRED, which stands for PURGED too.
ExpireFile(i) ==
  /\ item[i].state = "held"
  /\ Put(i, "expired")
  /\ UNCHANGED <<policyVars, diskVars>>

\* The store gives the bytes back. Copies have none of their own, and stand in
\* the way while there are any.
Reclaim(i) ==
  /\ item[i].state \in {"ended", "expired"} /\ item[i].written > 0
  /\ \A j \in In({"held", "copying"}) : item[j].written > 0
  /\ free' = free + item[i].written
  /\ item' = [item EXCEPT ![i].state = "ended", ![i].written = 0]
  /\ UNCHANGED <<policyVars, seen, mark, missed>>

\* A moderator makes an expired file available again. Nothing is checked.
Revive(i) ==
  /\ item[i].state = "expired"
  /\ item' = [item EXCEPT ![i].state = "held", ![i].revived = TRUE]
  /\ UNCHANGED <<policyVars, diskVars>>

\* A moderator gives a file to another owner, whose users row is locked.
Transfer(i, o) ==
  /\ item[i].state \in {"held", "expired"} /\ item[i].owner # o /\ UserFree(o)
  /\ Usage(o) + item[i].size <= Quota(o)
  /\ item' = [item EXCEPT ![i].owner = o]
  /\ UNCHANGED <<policyVars, diskVars>>

\* POST /api/files/bulk, copy: the users row, the balances, a file row.
CopyCheck(i, j) ==
  LET o == item[j].owner
  IN /\ item[i] = NoItem /\ item[j].state = "held" /\ UserFree(o)
     /\ Usage(o) + item[j].size <= Quota(o)
     /\ item' = [item EXCEPT ![i] = [NoItem EXCEPT !.state = "copying", !.owner = o,
                                                   !.size = item[j].size]]
     /\ UNCHANGED <<policyVars, diskVars>>

CopyCommit(i) ==
  /\ item[i].state = "copying"
  /\ Put(i, "held")
  /\ UNCHANGED <<policyVars, diskVars>>

----------------------------------------------------------------------------
(* What is allowed changes.                                                *)

\* PUT /api/admin/plans/:id: the plans row alone is locked.
SetPlan(q) ==
  /\ plan # q /\ changes < MaxChanges
  /\ plan' = q /\ changes' = changes + 1
  /\ item' = [i \in Item |->
                IF item[i].state \in {"admitted", "copying"} /\ own[item[i].owner] = Unset
                THEN [item[i] EXCEPT !.raced = TRUE] ELSE item[i]]
  /\ UNCHANGED <<own, diskVars>>

\* PATCH /api/admin/users/:id: the users row is locked.
SetOwn(o, q) ==
  /\ own[o] # q /\ changes < MaxChanges /\ UserFree(o)
  /\ own' = [own EXCEPT ![o] = q] /\ changes' = changes + 1
  /\ UNCHANGED <<item, plan, diskVars>>

----------------------------------------------------------------------------
AdmissionNext ==
  \/ \E i \in Item :
       \/ \E o \in Owner : Transfer(i, o) \/ \E n \in Sizes : ReserveLock(i, o, n)
       \/ DiskCheck(i) \/ Admit(i) \/ AdmitCommit(i) \/ Rollback(i) \/ InitFails(i)
       \/ Write(i) \/ Complete(i) \/ End(i) \/ ExpireFile(i) \/ Reclaim(i) \/ Revive(i)
       \/ (\E j \in Item : CopyCheck(i, j)) \/ CopyCommit(i)
  \/ \E q \in Quotas : SetPlan(q)
  \/ \E o \in Owner, q \in Quotas \cup {Unset} : SetOwn(o, q)

AdmissionSpec == AdmissionInit /\ [][AdmissionNext]_admissionVars

----------------------------------------------------------------------------
(* Properties.                                                             *)

Counted(o) == Bytes({i \in Owned(o, {"held", "reserved"}) : ~item[i].revived})
Incomplete(o) == Cardinality(Owned(o, {"reserved"}))

\* Whenever what an owner holds and has reserved grows, it is within the quota
\* in force, each upload counted once on its way from reserved to used, however
\* admissions, copies, transfers and changes of quotas meet; only a plan that
\* changed under an open transaction, and what a moderator revived, come on
\* top. The number of uploads grows within its limit
\* (lib.ts:25-29, files.ts:54, files.ts:73, admin.ts:65).
WithinQuota ==
  [][\A o \in Owner :
       /\ Counted(o)' > Counted(o) =>
            Counted(o)' <= Quota(o) \/ \E i \in Item : item[i].raced /\ item'[i] # item[i]
       /\ Incomplete(o)' > Incomplete(o) => Incomplete(o)' <= UploadLimit]_admissionVars

\* The disk can take every admitted upload to its end and keep its floor, but
\* for the bytes of uploads that ended between an admission's statfs and its
\* sum of reserved bytes (lib.ts:20-23).
FloorIsKept ==
  free + missed >= Floor + Between(In({"reserved"}), Written, Size)
============================================================================
