--------------------------- MODULE Storage_proofs ---------------------------
(***************************************************************************)
(* What is stored, and how much: replacement and purge of versioned files  *)
(* (FileVersions) and the admission of uploads and copies (Admission), for *)
(* any files, objects, devices, owners, sizes, quotas and disk.            *)
(*                                                                         *)
(* FileVersions: the locks of a replacement keep the revision it has       *)
(* compared, and the job's lock on an object keeps it unneeded.            *)
(* Admission: bytes are summed as numbers of elements; the one admission   *)
(* that has read the disk knows what is still to be written, and the one   *)
(* transaction that has an owner's row knows what the owner may still get. *)
(***************************************************************************)
EXTENDS FileVersions, Admission, FiniteSetTheorems, TLAPS

----------------------------------------------------------------------------
(* FileVersions.                                                            *)


Requests ==
  {NoRequest}
  \cup [step : {"knows"}, file : File, rev : 1..MaxRevision, seen : Object, source : {None}]
  \cup [step : {"locked"}, file : File, rev : 1..MaxRevision, seen : Object, source : Object]

LEMMA KeptSubset ==
  ASSUME NEW f \in File, NEW all
  PROVE  Kept(f, all) \subseteq all
BY DEF Kept

LEMMA EnqueuedType ==
  ASSUME TypeOK, NEW objects
  PROVE  Enqueued(objects) \in [Object -> {"NONE", "PENDING", "RUNNING", "COMPLETED"}]
BY DEF Enqueued, TypeOK

\* A request that is not NoRequest.
LEMMA RequestFields ==
  ASSUME TypeOK, NEW d \in Device, request[d].step # "idle"
  PROVE  /\ request[d].step \in {"knows", "locked"}
         /\ request[d].file \in File /\ request[d].rev \in 1..MaxRevision
         /\ request[d].seen \in Object
         /\ request[d].step = "locked" => request[d].source \in Object
<1>1. request[d] \in Requests
  BY DEF TypeOK, Requests
<1>2. request[d] # NoRequest
  BY DEF NoRequest
<1> QED
  BY <1>1, <1>2 DEF Requests

LEMMA TypeInit == Init => TypeOK
<1> SUFFICES ASSUME Init PROVE TypeOK
  OBVIOUS
<1>1. 1 \in 1..MaxRevision
  BY VersionConstants
<1>2. job \in [Object -> {"NONE", "PENDING", "RUNNING", "COMPLETED"}]
  BY DEF Init
<1>3. request \in [Device -> Requests]
  BY DEF Init, Requests
<1> QED
  BY <1>1, <1>2, <1>3 DEF Init, TypeOK, Idle, Requests

LEMMA TypeNext == TypeOK /\ [Next]_vars => TypeOK'
<1> SUFFICES ASSUME TypeOK, [Next]_vars PROVE TypeOK'
  OBVIOUS
<1> USE DEF fileVars, objectVars
<1>1. ASSUME NEW d \in Device, NEW f \in File, Look(d, f) PROVE TypeOK'
  <2> DEFINE new == [step |-> "knows", file |-> f, rev |-> rev[f], seen |-> ref[f], source |-> None]
  <2>1. new \in Requests
    BY DEF TypeOK, Requests
  <2>2. request' = [request EXCEPT ![d] = new]
    BY <1>1 DEF Look
  <2> HIDE DEF new
  <2>3. request' \in [Device -> Requests]
    BY <2>1, <2>2 DEF TypeOK, Requests
  <2> QED
    BY <1>1, <2>3 DEF Look, TypeOK, Requests
<1>2. ASSUME NEW d \in Device, NEW o \in Object, ReplaceRead(d, o) PROVE TypeOK'
  <2> DEFINE old == request[d]
             new == [old EXCEPT !.step = "locked", !.source = o]
  <2>1. old \in Requests /\ old # NoRequest
    BY <1>2 DEF TypeOK, Requests, ReplaceRead, NoRequest
  <2>2. request' = [request EXCEPT ![d] = new]
    BY <1>2 DEF ReplaceRead
  <2> HIDE DEF old
  <2>3. new \in Requests
    BY <2>1 DEF Requests
  <2> HIDE DEF new
  <2>4. request' \in [Device -> Requests]
    BY <2>2, <2>3 DEF TypeOK, Requests
  <2> QED
    BY <1>2, <2>4 DEF ReplaceRead, TypeOK, Requests
<1>3. ASSUME NEW d \in Device, ReplaceWrite(d) PROVE TypeOK'
  <2> DEFINE f == request[d].file
             all == history \cup {[file |-> f, object |-> ref[f], rev |-> rev[f]]}
  <2>1. f \in File /\ request[d].source \in Object
    BY <1>3, RequestFields DEF ReplaceWrite
  <2>2. all \subseteq Version
    BY <2>1 DEF TypeOK, Version
  <2>3. history' \subseteq Version
    BY <1>3, <2>1, <2>2, KeptSubset DEF ReplaceWrite
  <2>4. rev' \in [File -> 1..MaxRevision]
    BY <1>3, <2>1, VersionConstants DEF ReplaceWrite, TypeOK
  <2>5. job' \in [Object -> {"NONE", "PENDING", "RUNNING", "COMPLETED"}]
    BY <1>3, EnqueuedType DEF ReplaceWrite
  <2> QED
    BY <1>3, <2>1, <2>3, <2>4, <2>5 DEF ReplaceWrite, TypeOK
<1>4. ASSUME NEW d \in Device, ReplaceFails(d) PROVE TypeOK'
  BY <1>4 DEF ReplaceFails, TypeOK
<1>5. ASSUME NEW f \in File, Edit(f) PROVE TypeOK'
  <2>1. rev' \in [File -> 1..MaxRevision]
    BY <1>5, VersionConstants DEF Edit, TypeOK
  <2> QED
    BY <1>5, <2>1 DEF Edit, TypeOK
<1>6. ASSUME NEW f \in File, Expire(f) PROVE TypeOK'
  BY <1>6, EnqueuedType DEF Expire, TypeOK
<1>7. ASSUME NEW f \in File, PrunePass(f) PROVE TypeOK'
  <2>1. history' \subseteq Version
    BY <1>7, KeptSubset DEF PrunePass, TypeOK
  <2> QED
    BY <1>7, <2>1, EnqueuedType DEF PrunePass, TypeOK
<1>8. ASSUME NEW v \in Version, Age(v) PROVE TypeOK'
  BY <1>8 DEF Age, TypeOK
<1>9. ASSUME NEW o \in Object,
             Claim(o) \/ PurgeCheck(o) \/ PurgeRemove(o) \/ PurgeCommit(o) \/ JobDone(o)
      PROVE  TypeOK'
  <2>1. CASE Claim(o)
    BY <2>1 DEF Claim, TypeOK
  <2>2. CASE PurgeCheck(o)
    <3>1. worker' \in [step : {"finishing", "removing"}, object : {o}]
      BY <2>2 DEF PurgeCheck, At
    <3> QED
      BY <2>2, <3>1 DEF PurgeCheck, TypeOK
  <2>3. CASE PurgeRemove(o)
    <3>1. worker' = [step |-> "removed", object |-> o]
      BY <2>3 DEF PurgeRemove, At
    <3> QED
      BY <2>3, <3>1 DEF PurgeRemove, TypeOK
  <2>4. CASE PurgeCommit(o)
    <3>1. worker' = [step |-> "finishing", object |-> o]
      BY <2>4 DEF PurgeCommit, At
    <3> QED
      BY <2>4, <3>1 DEF PurgeCommit, TypeOK
  <2>5. CASE JobDone(o)
    BY <2>5 DEF JobDone, Idle, TypeOK
  <2> QED
    BY <1>9, <2>1, <2>2, <2>3, <2>4, <2>5
<1>10. CASE UNCHANGED vars
  BY <1>10 DEF vars, TypeOK
<1> QED
  BY <1>1, <1>2, <1>3, <1>4, <1>5, <1>6, <1>7, <1>8, <1>9, <1>10 DEF Next

\* Files, versions, objects, requests and the job have their types.
THEOREM TypeCorrect == Spec => []TypeOK
BY TypeInit, TypeNext, PTL DEF Spec

----------------------------------------------------------------------------
(* What a replacement replaces.                                            *)

\* A device never knows a later revision than the file has, and what it has
\* seen is the content of the revision it knows. The locks keep both until the
\* replacement ends.
Known ==
  /\ \A d \in Device : request[d].step # "idle" =>
       /\ request[d].rev <= rev[request[d].file]
       /\ request[d].rev = rev[request[d].file] => request[d].seen = ref[request[d].file]
  /\ \A d \in Device : request[d].step = "locked" => request[d].rev = rev[request[d].file]
  /\ \A d, e \in Device : request[d].step = "locked" /\ request[e].step = "locked" => d = e

KnownInv == TypeOK /\ Known

LEMMA KnownInit == Init => KnownInv
BY TypeInit DEF Init, KnownInv, Known, NoRequest

LEMMA KnownNext == KnownInv /\ [Next]_vars => KnownInv'
<1> SUFFICES ASSUME KnownInv, [Next]_vars PROVE Known'
  BY TypeNext DEF KnownInv
<1>0. TypeOK /\ Known
  BY DEF KnownInv
<1> USE DEF fileVars, objectVars
<1>1. ASSUME NEW d \in Device, NEW f \in File, Look(d, f) PROVE Known'
  <2>1. \A e \in Device : e # d => request'[e] = request[e]
    BY <1>0, <1>1 DEF Look, TypeOK
  <2>2. request'[d].step = "knows" /\ request'[d].rev = rev[f] /\ request'[d].seen = ref[f]
        /\ request'[d].file = f /\ rev[f] \in Nat
    BY <1>0, <1>1 DEF Look, TypeOK
  <2> QED
    BY <1>0, <1>1, <2>1, <2>2 DEF Known, Look
<1>2. ASSUME NEW d \in Device, NEW o \in Object, ReplaceRead(d, o) PROVE Known'
  <2>1. \A e \in Device : e # d => request'[e] = request[e] /\ request[e].step # "locked"
    BY <1>0, <1>2 DEF ReplaceRead, TypeOK, UserLocked
  <2>2. request[d] \in Requests /\ request[d] # NoRequest
    BY <1>0, <1>2 DEF TypeOK, Requests, ReplaceRead, NoRequest
  <2>3. /\ request'[d].step = "locked" /\ request'[d].rev = request[d].rev
        /\ request'[d].seen = request[d].seen /\ request'[d].file = request[d].file
    <3> DEFINE old == request[d]
               new == [old EXCEPT !.step = "locked", !.source = o]
    <3>1. request'[d] = new
      BY <1>0, <1>2 DEF ReplaceRead, TypeOK
    <3>2. old \in Requests /\ old # NoRequest
      BY <2>2
    <3> HIDE DEF old
    <3>3. new.step = "locked" /\ new.rev = old.rev /\ new.seen = old.seen /\ new.file = old.file
      BY <3>2 DEF Requests
    <3> QED
      BY <3>1, <3>3 DEF old
  <2> QED
    <3>1. /\ ref' = ref /\ rev' = rev /\ request[d].step = "knows"
          /\ request[d].rev = rev[request[d].file]
      BY <1>2 DEF ReplaceRead, SameRevision
    <3>2. /\ request[d].rev <= rev[request[d].file]
          /\ request[d].seen = ref[request[d].file]
      BY <1>0, <3>1 DEF Known
    <3>3. \A e \in Device : request'[e].step = "locked" => e = d
      BY <2>1
    <3>4. \A e \in Device : request'[e].step # "idle" =>
            /\ request'[e].rev <= rev[request'[e].file]
            /\ request'[e].rev = rev[request'[e].file]
                 => request'[e].seen = ref[request'[e].file]
      BY <1>0, <2>1, <2>3, <3>2 DEF Known
    <3>5. request'[d].rev = rev[request'[d].file]
      BY <2>3, <3>1
    <3> QED
      BY <3>1, <3>3, <3>4, <3>5 DEF Known
<1>3. ASSUME NEW d \in Device, ReplaceWrite(d) PROVE Known'
  <2> DEFINE f == request[d].file
  <2>1. f \in File /\ request[d].step = "locked"
    BY <1>0, <1>3, RequestFields DEF ReplaceWrite
  <2>2. request'[d] = NoRequest /\ \A e \in Device : e # d => request'[e] = request[e]
    BY <1>0, <1>3 DEF ReplaceWrite, TypeOK
  <2>3. \A e \in Device : e # d => request[e].step # "locked"
    BY <1>0, <2>1 DEF Known
  <2>4. /\ rev'[f] = rev[f] + 1 /\ rev[f] \in Nat
        /\ \A g \in File : g # f => rev'[g] = rev[g] /\ ref'[g] = ref[g]
    BY <1>0, <1>3, <2>1 DEF ReplaceWrite, TypeOK
  <2>5. \A e \in Device : request[e].step # "idle" =>
          request[e].file \in File /\ request[e].rev \in Nat
    BY <1>0, RequestFields
  <2>6. ASSUME NEW e \in Device, e # d, request[e].step # "idle"
        PROVE  /\ request[e].rev <= rev'[request[e].file]
               /\ request[e].rev = rev'[request[e].file]
                    => request[e].seen = ref'[request[e].file]
    <3>1. request[e].rev <= rev[request[e].file] /\ request[e].rev \in Nat
          /\ (request[e].rev = rev[request[e].file]
                => request[e].seen = ref[request[e].file])
      BY <1>0, <2>5, <2>6 DEF Known
    <3>2. CASE request[e].file = f
      <4>1. request[e].rev < rev[f] + 1
        BY <2>4, <3>1, <3>2
      <4> QED
        BY <2>4, <3>1, <3>2, <4>1
    <3>3. CASE request[e].file # f
      BY <2>4, <2>5, <2>6, <3>1, <3>3
    <3> QED
      BY <3>2, <3>3
  <2> QED
    BY <2>2, <2>3, <2>6 DEF Known, NoRequest
<1>4. ASSUME NEW d \in Device, ReplaceFails(d) PROVE Known'
  <2>1. request'[d] = NoRequest /\ \A e \in Device : e # d => request'[e] = request[e]
    BY <1>0, <1>4 DEF ReplaceFails, TypeOK
  <2> QED
    BY <1>0, <1>4, <2>1 DEF Known, ReplaceFails, NoRequest
<1>5. ASSUME NEW f \in File, Edit(f) PROVE Known'
  <2>1. /\ rev'[f] = rev[f] + 1 /\ rev[f] \in Nat /\ UNCHANGED <<ref, request>>
        /\ \A g \in File : g # f => rev'[g] = rev[g]
    BY <1>0, <1>5 DEF Edit, TypeOK
  <2>2. \A e \in Device : request[e].step = "locked" => request[e].file # f
    BY <1>5 DEF Edit, FileLocked
  <2>3. \A e \in Device : request[e].step # "idle" =>
          request[e].file \in File /\ request[e].rev \in Nat
    BY <1>0, RequestFields
  <2>4. ASSUME NEW e \in Device, request[e].step # "idle"
        PROVE  /\ request[e].rev <= rev'[request[e].file]
               /\ request[e].rev = rev'[request[e].file]
                    => request[e].seen = ref[request[e].file]
    <3>1. request[e].rev <= rev[request[e].file] /\ request[e].rev \in Nat
          /\ (request[e].rev = rev[request[e].file]
                => request[e].seen = ref[request[e].file])
      BY <1>0, <2>3, <2>4 DEF Known
    <3>2. CASE request[e].file = f
      <4>1. request[e].rev < rev[f] + 1
        BY <2>1, <3>1, <3>2
      <4> QED
        BY <2>1, <3>1, <3>2, <4>1
    <3>3. CASE request[e].file # f
      BY <2>1, <2>3, <2>4, <3>1, <3>3
    <3> QED
      BY <3>2, <3>3
  <2>5. ASSUME NEW e \in Device, request[e].step = "locked"
        PROVE  request[e].rev = rev'[request[e].file]
    BY <1>0, <2>1, <2>2, <2>3, <2>5 DEF Known
  <2> QED
    BY <1>0, <2>1, <2>4, <2>5 DEF Known
<1>6. ASSUME \/ \E f \in File : Expire(f) \/ PrunePass(f)
             \/ \E v \in Version : Age(v)
             \/ \E o \in Object : Claim(o) \/ PurgeCheck(o) \/ PurgeRemove(o) \/ PurgeCommit(o) \/ JobDone(o)
             \/ UNCHANGED vars
      PROVE  Known'
  <2>1. UNCHANGED <<ref, rev, request>>
    BY <1>6 DEF Expire, PrunePass, Age, Claim, PurgeCheck, PurgeRemove, PurgeCommit, JobDone, vars
  <2> QED
    BY <1>0, <2>1 DEF Known
<1> QED
  BY <1>1, <1>2, <1>3, <1>4, <1>5, <1>6 DEF Next

\* Whatever other devices and the worker do in between, a replacement puts
\* its source in the place of the content its device had seen.
THEOREM ReplacesWhatWasSeenHolds == Spec => ReplacesWhatWasSeen
<1> DEFINE Step ==
      \A f \in File : ref'[f] # ref[f] =>
        \E d \in Device : /\ request[d].step = "locked" /\ request[d].file = f
                          /\ request[d].seen = ref[f] /\ request'[d] = NoRequest
<1>1. KnownInv /\ [Next]_vars => [Step]_vars
  <2> SUFFICES ASSUME KnownInv, Next, NEW f \in File, ref'[f] # ref[f]
               PROVE  \E d \in Device : /\ request[d].step = "locked" /\ request[d].file = f
                                        /\ request[d].seen = ref[f] /\ request'[d] = NoRequest
    OBVIOUS
  <2>1. PICK d \in Device : ReplaceWrite(d)
    BY DEF Next, fileVars, Look, ReplaceRead, ReplaceFails, Edit, Expire, PrunePass, Age,
           Claim, PurgeCheck, PurgeRemove, PurgeCommit, JobDone
  <2>2. request[d].step = "locked" /\ request[d].file \in File /\ request'[d] = NoRequest
    BY <2>1, RequestFields DEF ReplaceWrite, KnownInv, TypeOK
  <2>3. request[d].file = f
    BY <2>1, <2>2 DEF ReplaceWrite, KnownInv, TypeOK
  <2>4. request[d].seen = ref[f]
    BY <2>2, <2>3 DEF KnownInv, Known
  <2> QED
    BY <2>2, <2>3, <2>4
<1> QED
  BY <1>1, KnownInit, KnownNext, PTL DEF Spec, ReplacesWhatWasSeen

----------------------------------------------------------------------------
(* What the purge job removes.                                             *)

\* While the job holds an object it has found unneeded, it stays unneeded.
HeldIsUnneeded == \A o \in Object : ObjectLocked(o) => ~Needed(o)

PurgeInv == TypeOK /\ HeldIsUnneeded

LEMMA PurgeInit == Init => PurgeInv
BY TypeInit DEF Init, PurgeInv, HeldIsUnneeded, ObjectLocked, Idle

LEMMA PurgeNext == PurgeInv /\ [Next]_vars => PurgeInv'
<1> SUFFICES ASSUME PurgeInv, [Next]_vars, NEW o \in Object, ObjectLocked(o)'
             PROVE  ~Needed(o)'
  BY TypeNext DEF PurgeInv, HeldIsUnneeded
<1>0. TypeOK /\ (ObjectLocked(o) => ~Needed(o))
  BY DEF PurgeInv, HeldIsUnneeded
<1> USE DEF fileVars, objectVars
<1>1. ASSUME NEW d \in Device, ReplaceWrite(d) PROVE ~Needed(o)'
  <2> DEFINE f == request[d].file
             v == [file |-> f, object |-> ref[f], rev |-> rev[f]]
  <2>1. f \in File /\ ref[f] # o /\ request[d].source # o /\ ~Needed(o)
    BY <1>0, <1>1, RequestFields DEF ReplaceWrite, ObjectLocked
  <2>2. ref' = [ref EXCEPT ![f] = request[d].source] /\ fstate' = fstate
        /\ history' \subseteq history \cup {v}
    BY <1>1, <2>1, KeptSubset DEF ReplaceWrite
  <2>3. v.object # o
    BY <2>1
  <2> QED
    BY <1>0, <2>1, <2>2, <2>3 DEF Needed, ReferredByFile, ReferredByVersion, TypeOK
<1>2. ASSUME UNCHANGED <<ref, history, worker>>, \A f \in File : fstate'[f] = "AVAILABLE" => fstate[f] = "AVAILABLE"
      PROVE  ~Needed(o)'
  BY <1>0, <1>2 DEF Needed, ReferredByFile, ReferredByVersion, ObjectLocked
<1>3. ASSUME NEW d \in Device,
             (\E f \in File : Look(d, f)) \/ (\E x \in Object : ReplaceRead(d, x)) \/ ReplaceFails(d)
      PROVE  ~Needed(o)'
  BY <1>2, <1>3 DEF Look, ReplaceRead, ReplaceFails
<1>4. ASSUME NEW f \in File, Edit(f) PROVE ~Needed(o)'
  BY <1>2, <1>4 DEF Edit
<1>5. ASSUME NEW f \in File, Expire(f) PROVE ~Needed(o)'
  BY <1>0, <1>5 DEF Expire, ObjectLocked, Idle
<1>6. ASSUME NEW f \in File, PrunePass(f) PROVE ~Needed(o)'
  BY <1>0, <1>6 DEF PrunePass, ObjectLocked, Idle
<1>7. ASSUME NEW v \in Version, Age(v) PROVE ~Needed(o)'
  BY <1>2, <1>7 DEF Age
<1>8. ASSUME NEW x \in Object, Claim(x) \/ PurgeCommit(x) \/ JobDone(x) PROVE ~Needed(o)'
  BY <1>0, <1>8 DEF Claim, PurgeCommit, JobDone, At, Idle, ObjectLocked, TypeOK
<1>9. ASSUME NEW x \in Object, PurgeCheck(x) PROVE ~Needed(o)'
  <2>1. x = o /\ ~Needed(x) /\ UNCHANGED <<ref, fstate, history>>
    BY <1>9 DEF PurgeCheck, At, ObjectLocked
  <2> QED
    BY <2>1 DEF Needed, ReferredByFile, ReferredByVersion
<1>10. ASSUME NEW x \in Object, PurgeRemove(x) PROVE ~Needed(o)'
  <2>1. ObjectLocked(o) /\ UNCHANGED <<ref, fstate, history>>
    BY <1>10 DEF PurgeRemove, At, ObjectLocked
  <2> QED
    BY <1>0, <2>1 DEF Needed, ReferredByFile, ReferredByVersion
<1>11. CASE UNCHANGED vars
  BY <1>2, <1>11 DEF vars
<1> QED
  BY <1>1, <1>3, <1>4, <1>5, <1>6, <1>7, <1>8, <1>9, <1>10, <1>11 DEF Next

\* The store never loses an object that a file or a version needs, for any
\* number of devices, files and versions.
THEOREM OnlyUnneededRemovedHolds == Spec => OnlyUnneededRemoved
<1> DEFINE Step ==
      \A o \in Object : bytes[o] /\ ~bytes'[o] => ~ReferredByFile(o) /\ ~ReferredByVersion(o)
<1>1. PurgeInv /\ [Next]_vars => [Step]_vars
  <2> SUFFICES ASSUME PurgeInv, Next, NEW o \in Object, bytes[o], ~bytes'[o]
               PROVE  ~ReferredByFile(o) /\ ~ReferredByVersion(o)
    OBVIOUS
  <2>1. bytes' # bytes
    OBVIOUS
  <2>2. PICK x \in Object : PurgeRemove(x)
    BY <2>1 DEF Next, objectVars, Look, ReplaceRead, ReplaceWrite, ReplaceFails, Edit, Expire,
                PrunePass, Age, Claim, PurgeCheck, PurgeCommit, JobDone
  <2>3. x = o
    BY <2>2 DEF PurgeRemove, PurgeInv, TypeOK
  <2>4. ObjectLocked(o)
    BY <2>2, <2>3 DEF PurgeRemove, At, ObjectLocked
  <2> QED
    BY <2>4 DEF PurgeInv, HeldIsUnneeded, Needed
<1> QED
  BY <1>1, PurgeInit, PurgeNext, PTL DEF Spec, OnlyUnneededRemoved

----------------------------------------------------------------------------
(* Admission: sums of bytes, as numbers of elements.                        *)

Units(items, from, to) == UNION {{i} \X (from[i] + 1 .. to[i]) : i \in items}

Counts == [Item -> Nat]

LEMMA UnitIn ==
  ASSUME NEW items, NEW from, NEW to, NEW u
  PROVE  u \in Units(items, from, to) <=>
           \E i \in items : \E n \in from[i] + 1 .. to[i] : u = <<i, n>>
<1>1. \A i : u \in {i} \X (from[i] + 1 .. to[i]) <=> \E n \in from[i] + 1 .. to[i] : u = <<i, n>>
  OBVIOUS
<1> QED
  BY <1>1 DEF Units

LEMMA UnitsSubset ==
  ASSUME NEW S, NEW T, NEW a, NEW b, NEW c, NEW d,
         \A i \in S : i \in T /\ a[i] + 1 .. b[i] \subseteq c[i] + 1 .. d[i]
  PROVE  Units(S, a, b) \subseteq Units(T, c, d)
<1> SUFFICES ASSUME NEW u \in Units(S, a, b) PROVE u \in Units(T, c, d)
  OBVIOUS
<1>1. PICK i \in S : \E n \in a[i] + 1 .. b[i] : u = <<i, n>>
  BY UnitIn
<1>2. i \in T /\ \E n \in c[i] + 1 .. d[i] : u = <<i, n>>
  BY <1>1
<1> QED
  BY <1>2, UnitIn

LEMMA UnitsFinite ==
  ASSUME NEW S \in SUBSET Item, NEW from \in Counts, NEW to \in Counts
  PROVE  IsFiniteSet(Units(S, from, to)) /\ Between(S, from, to) \in Nat
<1> DEFINE Piece(i) == {i} \X (from[i] + 1 .. to[i])
           All == {Piece(i) : i \in S}
           f == [i \in S |-> Piece(i)]
<1>1. IsFiniteSet(S)
  BY AdmissionConstants, FS_Subset
<1>2. f \in Surjection(S, All)
  <2>1. f \in [S -> All]
    OBVIOUS
  <2>2. \A x \in All : \E i \in S : f[i] = x
    OBVIOUS
  <2> HIDE DEF f, All
  <2> QED
    BY <2>1, <2>2 DEF Surjection
<1>3. IsFiniteSet(All)
  <2> HIDE DEF f, All
  <2> QED
    BY <1>1, <1>2, FS_Surjection
<1>4. ASSUME NEW x \in All PROVE IsFiniteSet(x)
  <2>1. PICK i \in S : x = {i} \X (from[i] + 1 .. to[i])
    BY <1>4
  <2>2. from[i] + 1 \in Int /\ to[i] \in Int
    BY DEF Counts
  <2>3. IsFiniteSet(from[i] + 1 .. to[i]) /\ IsFiniteSet({i})
    BY <2>2, FS_Interval, FS_Singleton
  <2>4. IsFiniteSet({i} \X (from[i] + 1 .. to[i]))
    BY <2>3, FS_Product
  <2> QED
    BY <2>1, <2>4
<1>5. Units(S, from, to) = UNION All
  BY DEF Units
<1>6. IsFiniteSet(Units(S, from, to))
  <2> HIDE DEF All
  <2> QED
    BY <1>3, <1>4, <1>5, FS_UNION
<1>7. Between(S, from, to) = Cardinality(Units(S, from, to))
  BY DEF Between, Units
<1> QED
  BY <1>6, <1>7, FS_CardinalityType

LEMMA BetweenIs ==
  ASSUME NEW S, NEW from, NEW to
  PROVE  Between(S, from, to) = Cardinality(Units(S, from, to))
BY DEF Between, Units

\* More bytes of more items are more.
LEMMA BetweenGrows ==
  ASSUME NEW S \in SUBSET Item, NEW T \in SUBSET Item, NEW a \in Counts, NEW b \in Counts,
         NEW c \in Counts, NEW d \in Counts,
         \A i \in S : i \in T /\ c[i] <= a[i] /\ b[i] <= d[i]
  PROVE  Between(S, a, b) <= Between(T, c, d)
<1>1. \A i \in S : a[i] + 1 .. b[i] \subseteq c[i] + 1 .. d[i]
  BY DEF Counts
<1>2. Units(S, a, b) \subseteq Units(T, c, d)
  BY <1>1, UnitsSubset
<1>3. IsFiniteSet(Units(T, c, d))
  BY UnitsFinite
<1>4. Cardinality(Units(S, a, b)) <= Cardinality(Units(T, c, d))
  BY <1>2, <1>3, FS_Subset
<1> QED
  BY <1>4, BetweenIs

LEMMA BetweenSame ==
  ASSUME NEW S, NEW a, NEW b, NEW c, NEW d, \A i \in S : a[i] = c[i] /\ b[i] = d[i]
  PROVE  Between(S, a, b) = Between(S, c, d)
<1>1. \A i \in S : a[i] + 1 .. b[i] = c[i] + 1 .. d[i]
  OBVIOUS
<1>2. Units(S, a, b) \subseteq Units(S, c, d) /\ Units(S, c, d) \subseteq Units(S, a, b)
  BY <1>1, UnitsSubset
<1> QED
  BY <1>2, BetweenIs

\* The bytes of one item.
LEMMA BetweenOne ==
  ASSUME NEW i \in Item, NEW from \in Counts, NEW to \in Counts
  PROVE  Between({i}, from, to) = IF from[i] <= to[i] THEN to[i] - from[i] ELSE 0
<1> DEFINE m == from[i] + 1
           n == to[i]
           range == m .. n
<1>1. m \in Int /\ n \in Int /\ m = from[i] + 1 /\ from[i] \in Nat /\ to[i] \in Nat
  BY DEF Counts
<1>2. Units({i}, from, to) = {i} \X range
  BY DEF Units
<1>3. IsFiniteSet(range) /\ Cardinality(range) = IF m > n THEN 0 ELSE n - m + 1
  <2> HIDE DEF m, n
  <2> QED
    BY <1>1, FS_Interval
<1>4. Cardinality(range) = IF from[i] <= to[i] THEN to[i] - from[i] ELSE 0
  <2> HIDE DEF range
  <2> QED
    BY <1>1, <1>3
<1> HIDE DEF range
<1>5. Cardinality({i} \X range) = 1 * Cardinality(range)
  <2>1. IsFiniteSet({i}) /\ Cardinality({i}) = 1
    BY FS_Singleton
  <2>2. Cardinality({i} \X range) = Cardinality({i}) * Cardinality(range)
    BY <1>3, <2>1, FS_Product
  <2> QED
    BY <2>1, <2>2
<1>6. Cardinality(range) \in Nat
  BY <1>3, FS_CardinalityType
<1>7. Cardinality({i} \X range) = Cardinality(range)
  BY <1>5, <1>6
<1> QED
  BY <1>2, <1>4, <1>7, BetweenIs

\* Those of items that are not the same.
LEMMA BetweenBoth ==
  ASSUME NEW S \in SUBSET Item, NEW T \in SUBSET Item, S \cap T = {},
         NEW from \in Counts, NEW to \in Counts
  PROVE  Between(S \cup T, from, to) = Between(S, from, to) + Between(T, from, to)
<1> DEFINE A == Units(S, from, to)
           B == Units(T, from, to)
           C == Units(S \cup T, from, to)
<1>1. IsFiniteSet(A) /\ IsFiniteSet(B) /\ Between(S, from, to) \in Nat /\ Between(T, from, to) \in Nat
  BY UnitsFinite
<1>2. A \cap B = {}
  <2> SUFFICES ASSUME NEW u \in A, u \in B PROVE FALSE
    OBVIOUS
  <2>1. PICK i \in S : \E n \in from[i] + 1 .. to[i] : u = <<i, n>>
    BY UnitIn
  <2>2. PICK j \in T : \E n \in from[j] + 1 .. to[j] : u = <<j, n>>
    BY UnitIn
  <2> QED
    BY <2>1, <2>2
<1>3. C = A \cup B
  <2>1. A \subseteq C /\ B \subseteq C
    BY UnitsSubset
  <2>2. ASSUME NEW u \in C PROVE u \in A \cup B
    <3>1. PICK i \in S \cup T : \E n \in from[i] + 1 .. to[i] : u = <<i, n>>
      BY UnitIn
    <3> QED
      BY <3>1, UnitIn
  <2> QED
    BY <2>1, <2>2
<1>4. Between(S, from, to) = Cardinality(A) /\ Between(T, from, to) = Cardinality(B)
      /\ Between(S \cup T, from, to) = Cardinality(C)
  BY BetweenIs
<1> HIDE DEF A, B, C
<1>5. Cardinality(A \cup B) = Cardinality(A) + Cardinality(B) - Cardinality(A \cap B)
  BY <1>1, FS_Union
<1>6. Cardinality(A \cap B) = 0
  BY <1>2, FS_EmptySet
<1> QED
  BY <1>1, <1>3, <1>4, <1>5, <1>6

\* The first bytes of each, and the rest.
LEMMA BetweenJoin ==
  ASSUME NEW S \in SUBSET Item, NEW a \in Counts, NEW b \in Counts, NEW c \in Counts,
         \A i \in S : a[i] <= b[i] /\ b[i] <= c[i]
  PROVE  Between(S, a, c) = Between(S, a, b) + Between(S, b, c)
<1> DEFINE A == Units(S, a, b)
           B == Units(S, b, c)
           C == Units(S, a, c)
<1>1. IsFiniteSet(A) /\ IsFiniteSet(B) /\ Between(S, a, b) \in Nat /\ Between(S, b, c) \in Nat
  BY UnitsFinite
<1>2. A \cap B = {}
  <2> SUFFICES ASSUME NEW u \in A, u \in B PROVE FALSE
    OBVIOUS
  <2>1. PICK i \in S : \E n \in a[i] + 1 .. b[i] : u = <<i, n>>
    BY UnitIn
  <2>2. PICK j \in S : \E n \in b[j] + 1 .. c[j] : u = <<j, n>>
    BY UnitIn
  <2>3. PICK m \in a[i] + 1 .. b[i] : u = <<i, m>>
    BY <2>1
  <2>4. PICK n \in b[j] + 1 .. c[j] : u = <<j, n>>
    BY <2>2
  <2>5. i = j /\ m = n
    BY <2>3, <2>4
  <2> QED
    BY <2>3, <2>4, <2>5 DEF Counts
<1>3. C = A \cup B
  <2>1. \A i \in S : /\ a[i] + 1 .. b[i] \subseteq a[i] + 1 .. c[i]
                     /\ b[i] + 1 .. c[i] \subseteq a[i] + 1 .. c[i]
                     /\ \A n \in a[i] + 1 .. c[i] : n \in a[i] + 1 .. b[i] \/ n \in b[i] + 1 .. c[i]
    BY DEF Counts
  <2>2. A \subseteq C /\ B \subseteq C
    BY <2>1, UnitsSubset
  <2>3. ASSUME NEW u \in C PROVE u \in A \cup B
    <3>1. PICK i \in S : \E n \in a[i] + 1 .. c[i] : u = <<i, n>>
      BY UnitIn
    <3>2. PICK n \in a[i] + 1 .. c[i] : u = <<i, n>>
      BY <3>1
    <3>3. n \in a[i] + 1 .. b[i] \/ n \in b[i] + 1 .. c[i]
      BY <2>1
    <3> QED
      BY <3>2, <3>3, UnitIn
  <2> QED
    BY <2>2, <2>3
<1>4. Between(S, a, b) = Cardinality(A) /\ Between(S, b, c) = Cardinality(B)
      /\ Between(S, a, c) = Cardinality(C)
  BY BetweenIs
<1> HIDE DEF A, B, C
<1>5. Cardinality(A \cup B) = Cardinality(A) + Cardinality(B) - Cardinality(A \cap B)
  BY <1>1, FS_Union
<1>6. Cardinality(A \cap B) = 0
  BY <1>2, FS_EmptySet
<1> QED
  BY <1>1, <1>3, <1>4, <1>5, <1>6

\* One item more.
LEMMA BetweenMore ==
  ASSUME NEW S \in SUBSET Item, NEW i \in Item \ S, NEW from \in Counts, NEW to \in Counts,
         from[i] <= to[i]
  PROVE  /\ Between(S \cup {i}, from, to) = Between(S, from, to) + (to[i] - from[i])
         /\ Between(S, from, to) \in Nat
<1>1. Between(S \cup {i}, from, to) = Between(S, from, to) + Between({i}, from, to)
  BY BetweenBoth
<1>2. Between({i}, from, to) = to[i] - from[i]
  BY BetweenOne
<1>3. Between(S, from, to) \in Nat
  BY UnitsFinite
<1> QED
  BY <1>1, <1>2, <1>3

\* One item whose bytes change.
LEMMA BetweenAt ==
  ASSUME NEW S \in SUBSET Item, NEW i \in S, NEW a \in Counts, NEW b \in Counts,
         NEW c \in Counts, NEW d \in Counts, a[i] <= b[i], c[i] <= d[i],
         \A j \in S : j # i => a[j] = c[j] /\ b[j] = d[j]
  PROVE  Between(S, c, d) + (b[i] - a[i]) = Between(S, a, b) + (d[i] - c[i])
<1> DEFINE T == S \ {i}
<1>1. T \in SUBSET Item /\ i \in Item \ T /\ S = T \cup {i}
  OBVIOUS
<1>2. Between(T, a, b) = Between(T, c, d)
  BY BetweenSame
<1> HIDE DEF T
<1>3. Between(S, a, b) = Between(T, a, b) + (b[i] - a[i]) /\ Between(T, a, b) \in Nat
  BY <1>1, BetweenMore
<1>4. Between(S, c, d) = Between(T, c, d) + (d[i] - c[i])
  BY <1>1, BetweenMore
<1>5. a[i] \in Nat /\ b[i] \in Nat /\ c[i] \in Nat /\ d[i] \in Nat
  BY DEF Counts
<1> QED
  BY <1>2, <1>3, <1>4, <1>5

----------------------------------------------------------------------------
(* Admission: what each action does to an item.                             *)

ItemStates ==
  {"free", "locked", "checked", "admitted", "reserved", "unreserved", "ended",
   "copying", "held", "expired"}

Items ==
  [state : ItemStates, owner : Owner \cup {Unset}, size : Sizes \cup {0}, written : 0..Disk,
   revived : BOOLEAN, raced : BOOLEAN]

\* What has not been reserved yet has written nothing.
Fresh == {"free", "locked", "checked", "admitted", "copying"}

ItemsInv ==
  /\ item \in [Item -> Items]
  /\ \A i \in Item : /\ item[i].written <= item[i].size
                     /\ item[i].state # "free" => item[i].owner \in Owner
                     /\ item[i].state \in Fresh => item[i].written = 0

PolicyInv == plan \in Quotas /\ own \in [Owner -> Quotas \cup {Unset}] /\ changes \in 0..MaxChanges

LEMMA Sized == Sizes \cup {0} \subseteq Nat /\ 0..Disk \subseteq Nat /\ Disk \in Nat
BY AdmissionConstants

LEMMA NoItemIs ==
  /\ NoItem \in Items
  /\ NoItem.state = "free" /\ NoItem.owner = Unset /\ NoItem.size = 0 /\ NoItem.written = 0
  /\ NoItem.revived = FALSE /\ NoItem.raced = FALSE
<1>1. 0 \in 0..Disk
  BY Sized
<1> QED
  BY <1>1 DEF NoItem, Items, ItemStates

LEMMA ItemFields ==
  ASSUME NEW old \in Items
  PROVE  /\ old.state \in ItemStates /\ old.owner \in Owner \cup {Unset}
         /\ old.size \in Sizes \cup {0} /\ old.size \in Nat
         /\ old.written \in 0..Disk /\ old.written \in Nat
         /\ old.revived \in BOOLEAN /\ old.raced \in BOOLEAN
BY Sized DEF Items

LEMMA OneItem ==
  ASSUME ItemsInv, NEW i \in Item, NEW new \in Items, item' = [item EXCEPT ![i] = new]
  PROVE  /\ item' \in [Item -> Items] /\ item'[i] = new
         /\ \A j \in Item : j # i => item'[j] = item[j]
BY DEF ItemsInv

LEMMA PutMoves ==
  ASSUME ItemsInv, NEW i \in Item, NEW state \in ItemStates, Put(i, state)
  PROVE  /\ item' \in [Item -> Items]
         /\ \A j \in Item : j # i => item'[j] = item[j]
         /\ item'[i].state = state /\ item'[i].owner = item[i].owner
         /\ item'[i].size = item[i].size /\ item'[i].written = item[i].written
         /\ item'[i].revived = item[i].revived /\ item'[i].raced = item[i].raced
<1> DEFINE old == item[i]
           new == [old EXCEPT !.state = state]
<1>1. item' = [item EXCEPT ![i] = new]
  BY DEF Put
<1>2. old \in Items /\ old = item[i]
  BY DEF ItemsInv
<1> HIDE DEF old
<1>3. /\ new \in Items
      /\ new.state = state /\ new.owner = old.owner /\ new.size = old.size
      /\ new.written = old.written /\ new.revived = old.revived /\ new.raced = old.raced
  BY <1>2 DEF Items
<1> HIDE DEF new
<1> QED
  BY <1>1, <1>2, <1>3, OneItem

LEMMA LockMoves ==
  ASSUME ItemsInv, NEW i \in Item, NEW o \in Owner, NEW n \in Sizes, ReserveLock(i, o, n)
  PROVE  /\ item' \in [Item -> Items]
         /\ \A j \in Item : j # i => item'[j] = item[j]
         /\ item[i].state = "free" /\ item[i].written = 0
         /\ item'[i].state = "locked" /\ item'[i].owner = o
         /\ item'[i].size = n /\ item'[i].written = 0
<1> DEFINE locked == "locked"
           new == [NoItem EXCEPT !.state = locked, !.owner = o, !.size = n]
<1>1. item' = [item EXCEPT ![i] = new] /\ item[i] = NoItem
  BY DEF ReserveLock
<1>2. locked \in ItemStates /\ locked = "locked"
  BY DEF ItemStates
<1> HIDE DEF locked
<1>3. new \in Items /\ new.state = locked /\ new.owner = o /\ new.size = n /\ new.written = NoItem.written
  BY <1>2, NoItemIs DEF Items
<1> HIDE DEF new
<1> QED
  BY <1>1, <1>2, <1>3, NoItemIs, OneItem

LEMMA RollbackMoves ==
  ASSUME ItemsInv, NEW i \in Item, Rollback(i)
  PROVE  /\ item' \in [Item -> Items]
         /\ \A j \in Item : j # i => item'[j] = item[j]
         /\ item'[i].state = "free" /\ item'[i].size = 0 /\ item'[i].written = 0
<1>1. item' = [item EXCEPT ![i] = NoItem]
  BY DEF Rollback, Refused
<1> QED
  BY <1>1, NoItemIs, OneItem

LEMMA WriteMoves ==
  ASSUME ItemsInv, NEW i \in Item, free \in 0..Disk, free + item[i].written <= Disk, Write(i)
  PROVE  /\ item' \in [Item -> Items]
         /\ \A j \in Item : j # i => item'[j] = item[j]
         /\ item'[i].state = item[i].state /\ item'[i].owner = item[i].owner
         /\ item'[i].size = item[i].size /\ item'[i].written = item[i].written + 1
         /\ item'[i].revived = item[i].revived /\ item'[i].raced = item[i].raced
<1> DEFINE old == item[i]
           more == item[i].written + 1
           new == [old EXCEPT !.written = more]
<1>1. item' = [item EXCEPT ![i] = new] /\ free > 0
  BY DEF Write
<1>2. old \in Items /\ old = item[i]
  BY DEF ItemsInv
<1>3. more \in 0..Disk /\ more = item[i].written + 1
  BY <1>1, <1>2, ItemFields, Sized
<1> HIDE DEF old, more
<1>4. /\ new \in Items
      /\ new.state = old.state /\ new.owner = old.owner /\ new.size = old.size
      /\ new.written = more /\ new.revived = old.revived /\ new.raced = old.raced
  BY <1>2, <1>3 DEF Items
<1> HIDE DEF new
<1> QED
  BY <1>1, <1>2, <1>3, <1>4, OneItem

LEMMA ReclaimMoves ==
  ASSUME ItemsInv, NEW i \in Item, Reclaim(i)
  PROVE  /\ item' \in [Item -> Items]
         /\ \A j \in Item : j # i => item'[j] = item[j]
         /\ item'[i].state = "ended" /\ item'[i].owner = item[i].owner
         /\ item'[i].size = item[i].size /\ item'[i].written = 0
<1> DEFINE old == item[i]
           ended == "ended"
           none == 0
           new == [old EXCEPT !.state = ended, !.written = none]
<1>1. item' = [item EXCEPT ![i] = new]
  BY DEF Reclaim
<1>2. old \in Items /\ old = item[i]
  BY DEF ItemsInv
<1>3. ended \in ItemStates /\ ended = "ended" /\ none \in 0..Disk /\ none = 0
  BY Sized DEF ItemStates
<1> HIDE DEF old, ended, none
<1>4. /\ new \in Items
      /\ new.state = ended /\ new.owner = old.owner /\ new.size = old.size /\ new.written = none
  BY <1>2, <1>3 DEF Items
<1> HIDE DEF new
<1> QED
  BY <1>1, <1>2, <1>3, <1>4, OneItem

LEMMA ReviveMoves ==
  ASSUME ItemsInv, NEW i \in Item, Revive(i)
  PROVE  /\ item' \in [Item -> Items]
         /\ \A j \in Item : j # i => item'[j] = item[j]
         /\ item[i].state = "expired"
         /\ item'[i].state = "held" /\ item'[i].owner = item[i].owner
         /\ item'[i].size = item[i].size /\ item'[i].written = item[i].written
         /\ item'[i].revived = TRUE
<1> DEFINE old == item[i]
           held == "held"
           yes == TRUE
           new == [old EXCEPT !.state = held, !.revived = yes]
<1>1. item' = [item EXCEPT ![i] = new] /\ item[i].state = "expired"
  BY DEF Revive
<1>2. old \in Items /\ old = item[i]
  BY DEF ItemsInv
<1>3. held \in ItemStates /\ held = "held" /\ yes \in BOOLEAN /\ yes = TRUE
  BY DEF ItemStates
<1> HIDE DEF old, held, yes
<1>4. /\ new \in Items
      /\ new.state = held /\ new.owner = old.owner /\ new.size = old.size
      /\ new.written = old.written /\ new.revived = yes
  BY <1>2, <1>3 DEF Items
<1> HIDE DEF new
<1> QED
  BY <1>1, <1>2, <1>3, <1>4, OneItem

LEMMA TransferMoves ==
  ASSUME ItemsInv, NEW i \in Item, NEW o \in Owner, Transfer(i, o)
  PROVE  /\ item' \in [Item -> Items]
         /\ \A j \in Item : j # i => item'[j] = item[j]
         /\ item[i].state \in {"held", "expired"} /\ item[i].owner # o
         /\ item'[i].state = item[i].state /\ item'[i].owner = o
         /\ item'[i].size = item[i].size /\ item'[i].written = item[i].written
         /\ item'[i].revived = item[i].revived
<1> DEFINE old == item[i]
           new == [old EXCEPT !.owner = o]
<1>1. item' = [item EXCEPT ![i] = new] /\ item[i].state \in {"held", "expired"} /\ item[i].owner # o
  BY DEF Transfer
<1>2. old \in Items /\ old = item[i]
  BY DEF ItemsInv
<1> HIDE DEF old
<1>3. /\ new \in Items
      /\ new.state = old.state /\ new.owner = o /\ new.size = old.size
      /\ new.written = old.written /\ new.revived = old.revived
  BY <1>2 DEF Items
<1> HIDE DEF new
<1> QED
  BY <1>1, <1>2, <1>3, OneItem

LEMMA CopyMoves ==
  ASSUME ItemsInv, NEW i \in Item, NEW j \in Item, CopyCheck(i, j)
  PROVE  /\ item' \in [Item -> Items]
         /\ \A k \in Item : k # i => item'[k] = item[k]
         /\ item[i].state = "free" /\ item[i].written = 0 /\ item[j].owner \in Owner
         /\ item'[i].state = "copying" /\ item'[i].owner = item[j].owner
         /\ item'[i].size = item[j].size /\ item'[i].written = 0
<1> DEFINE copying == "copying"
           o == item[j].owner
           n == item[j].size
           new == [NoItem EXCEPT !.state = copying, !.owner = o, !.size = n]
<1>1. item' = [item EXCEPT ![i] = new] /\ item[i] = NoItem /\ item[j].state = "held"
  BY DEF CopyCheck
<1>2. copying \in ItemStates /\ copying = "copying"
  BY DEF ItemStates
<1>3. o \in Owner /\ n \in Sizes \cup {0} /\ o = item[j].owner /\ n = item[j].size
  BY <1>1, ItemFields DEF ItemsInv
<1> HIDE DEF copying, o, n
<1>4. /\ new \in Items /\ new.state = copying /\ new.owner = o /\ new.size = n
      /\ new.written = NoItem.written
  BY <1>2, <1>3, NoItemIs DEF Items
<1> HIDE DEF new
<1> QED
  BY <1>1, <1>2, <1>3, <1>4, NoItemIs, OneItem

LEMMA PlanMoves ==
  ASSUME ItemsInv, NEW q \in Quotas, SetPlan(q)
  PROVE  /\ item' \in [Item -> Items]
         /\ \A i \in Item :
              /\ item'[i].state = item[i].state /\ item'[i].owner = item[i].owner
              /\ item'[i].size = item[i].size /\ item'[i].written = item[i].written
              /\ item'[i].revived = item[i].revived
              /\ item[i].raced => item'[i].raced
              /\ item[i].state \in {"admitted", "copying"} /\ own[item[i].owner] = Unset =>
                   item'[i].raced
<1>1. item' = [i \in Item |-> IF item[i].state \in {"admitted", "copying"} /\ own[item[i].owner] = Unset
                               THEN [item[i] EXCEPT !.raced = TRUE] ELSE item[i]]
  BY DEF SetPlan
<1>2. ASSUME NEW i \in Item
      PROVE  /\ item'[i] \in Items
             /\ item'[i].state = item[i].state /\ item'[i].owner = item[i].owner
             /\ item'[i].size = item[i].size /\ item'[i].written = item[i].written
             /\ item'[i].revived = item[i].revived
             /\ item[i].raced => item'[i].raced
             /\ item[i].state \in {"admitted", "copying"} /\ own[item[i].owner] = Unset =>
                  item'[i].raced
  <2> DEFINE old == item[i]
             yes == TRUE
             new == [old EXCEPT !.raced = yes]
             open == old.state \in {"admitted", "copying"} /\ own[old.owner] = Unset
  <2>1. old \in Items /\ old = item[i] /\ yes = TRUE
    BY DEF ItemsInv
  <2>2. item'[i] = IF open THEN new ELSE old
    BY <1>1
  <2>3. open <=> item[i].state \in {"admitted", "copying"} /\ own[item[i].owner] = Unset
    OBVIOUS
  <2> HIDE DEF old, yes, open
  <2>4. /\ new \in Items
        /\ new.state = old.state /\ new.owner = old.owner /\ new.size = old.size
        /\ new.written = old.written /\ new.revived = old.revived /\ new.raced = TRUE
    BY <2>1 DEF Items
  <2> HIDE DEF new
  <2>5. CASE open
    BY <2>1, <2>2, <2>3, <2>4, <2>5
  <2>6. CASE ~open
    BY <2>1, <2>2, <2>3, <2>6
  <2> QED
    BY <2>5, <2>6
<1> QED
  BY <1>1, <1>2

----------------------------------------------------------------------------
(* Admission: the disk.                                                     *)

Advised == {"locked", "checked", "admitted"}

Reserved == {i \in Item : item[i].state = "reserved"}

\* What the reserved uploads have still to write.
Remaining == Between(Reserved, Written, Size)

DiskTypes ==
  /\ free \in 0..Disk /\ seen \in 0..Disk
  /\ mark \in [Item -> 0..Disk] /\ missed \in Nat

\* The bytes of the disk are free or written. While an admission has still to
\* read the reserved bytes, what it has seen free is free or written since; once
\* it has compared them, the disk can take its upload as well.
DiskInv ==
  /\ DiskTypes
  /\ \A i \in Item : item[i].state # "ended" => mark[i] <= item[i].written
  /\ \A i, j \in Item : item[i].state \in Advised /\ item[j].state \in Advised => i = j
  /\ free + Between(Item, Zero, Written) = Disk
  /\ (\E i \in Item : item[i].state = "locked") => free + Between(Item, mark, Written) >= seen
  /\ free + missed >= Floor + Remaining
  /\ \A i \in Item : item[i].state \in {"checked", "admitted"} =>
                       free + missed >= Floor + Remaining + item[i].size

LEMMA CountsOf ==
  ASSUME NEW x \in [Item -> Items]
  PROVE  /\ [i \in Item |-> x[i].written] \in Counts
         /\ [i \in Item |-> x[i].size] \in Counts
         /\ Zero \in Counts
BY ItemFields DEF Counts, Zero

LEMMA Sums ==
  ASSUME ItemsInv, DiskTypes
  PROVE  /\ Written \in Counts /\ Size \in Counts /\ Zero \in Counts /\ mark \in Counts
         /\ Remaining \in Nat /\ Between(Item, Zero, Written) \in Nat
         /\ Between(Item, mark, Written) \in Nat
         /\ free \in Nat /\ missed \in Nat /\ seen \in Nat /\ Floor \in Nat /\ Disk \in Nat
<1>1. Written \in Counts /\ Size \in Counts /\ Zero \in Counts
  BY CountsOf DEF ItemsInv, Written, Size
<1>2. mark \in Counts
  BY Sized DEF DiskTypes, Counts
<1>3. Reserved \in SUBSET Item /\ Item \in SUBSET Item
  BY DEF Reserved
<1>4. Remaining \in Nat /\ Between(Item, Zero, Written) \in Nat /\ Between(Item, mark, Written) \in Nat
  BY <1>1, <1>2, <1>3, UnitsFinite DEF Remaining
<1> QED
  BY <1>1, <1>2, <1>4, AdmissionConstants, Sized DEF DiskTypes

LEMMA SumsNext ==
  ASSUME ItemsInv', DiskTypes'
  PROVE  /\ Written' \in Counts /\ Size' \in Counts /\ Zero \in Counts /\ mark' \in Counts
         /\ Remaining' = Between(Reserved', Written', Size')
         /\ Remaining' \in Nat /\ Between(Item, Zero, Written') \in Nat
         /\ Between(Item, mark', Written') \in Nat
         /\ free' \in Nat /\ missed' \in Nat /\ seen' \in Nat
<1>1. Written' \in Counts /\ Size' \in Counts /\ Zero \in Counts
  BY CountsOf DEF ItemsInv, Written, Size
<1>2. mark' \in Counts
  BY Sized DEF DiskTypes, Counts
<1>3. Reserved' \in SUBSET Item /\ Item \in SUBSET Item
  BY DEF Reserved
<1>4. Remaining' = Between(Reserved', Written', Size')
  BY DEF Remaining
<1>5. Remaining' \in Nat /\ Between(Item, Zero, Written') \in Nat /\ Between(Item, mark', Written') \in Nat
  BY <1>1, <1>2, <1>3, <1>4, UnitsFinite
<1> QED
  BY <1>1, <1>2, <1>4, <1>5, Sized DEF DiskTypes

\* A step that writes nothing and reserves nothing more.
LEMMA RemainingFalls ==
  ASSUME ItemsInv, ItemsInv', DiskTypes, DiskTypes',
         \A i \in Item : item'[i].written = item[i].written,
         \A i \in Item : item'[i].state = "reserved" =>
                           item[i].state = "reserved" /\ item'[i].size = item[i].size
  PROVE  Remaining' <= Remaining /\ Written' = Written
<1>1. Written' = Written
  BY DEF Written
<1>2. /\ Written \in Counts /\ Size \in Counts /\ Size' \in Counts
      /\ Remaining' = Between(Reserved', Written', Size')
      /\ Remaining = Between(Reserved, Written, Size)
  BY Sums, SumsNext DEF Remaining
<1>3. /\ Reserved \in SUBSET Item /\ Reserved' \in SUBSET Item
      /\ \A i \in Reserved' : i \in Reserved /\ Size'[i] = Size[i] /\ Size[i] \in Nat /\ Written[i] \in Nat
  BY <1>2 DEF Reserved, Size, Counts
<1>4. \A i \in Reserved' : i \in Reserved /\ Written[i] <= Written[i] /\ Size'[i] <= Size[i]
  BY <1>3
<1>5. Between(Reserved', Written, Size') <= Between(Reserved, Written, Size)
  BY <1>2, <1>3, <1>4, BetweenGrows
<1> QED
  BY <1>1, <1>2, <1>5

LEMMA DiskQuiet ==
  ASSUME ItemsInv, ItemsInv', DiskInv, free' = free, missed' = missed,
         \/ seen' = seen /\ mark' = mark
         \/ Forget /\ \A i \in Item : item'[i].state # "locked",
         \A i \in Item :
           /\ item'[i].written = item[i].written
           /\ item'[i].state = "reserved" =>
                item[i].state = "reserved" /\ item'[i].size = item[i].size
           /\ item'[i].state # "ended" => item[i].state # "ended"
           /\ item'[i].state = "locked" => item[i].state = "locked"
           /\ item'[i].state \in {"checked", "admitted"} =>
                item[i].state \in {"checked", "admitted"} /\ item'[i].size = item[i].size
  PROVE  DiskInv'
<1>1. DiskTypes /\ DiskTypes'
  BY Sized DEF DiskInv, DiskTypes, Forget, Zero
<1>2. Remaining' <= Remaining /\ Written' = Written
  BY <1>1, RemainingFalls
<1>3. /\ Remaining \in Nat /\ Remaining' \in Nat /\ free \in Nat /\ missed \in Nat /\ Floor \in Nat
      /\ \A i \in Item : item[i].size \in Nat /\ item[i].written \in Nat
  BY <1>1, Sums, SumsNext, ItemFields DEF ItemsInv
<1>4. \A i \in Item : item'[i].state # "ended" => mark'[i] <= item'[i].written
  <2>1. CASE mark' = mark
    BY <2>1 DEF DiskInv
  <2>2. CASE mark' = Zero
    BY <1>3, <2>2 DEF Zero
  <2> QED
    BY <2>1, <2>2 DEF Forget
<1>5. \A i, j \in Item : item'[i].state \in Advised /\ item'[j].state \in Advised => i = j
  <2>1. \A i \in Item : item'[i].state \in Advised => item[i].state \in Advised
    BY DEF Advised
  <2> QED
    BY <2>1 DEF DiskInv
<1>6. free' + Between(Item, Zero, Written') = Disk
  BY <1>2 DEF DiskInv
<1>7. (\E i \in Item : item'[i].state = "locked") => free' + Between(Item, mark', Written') >= seen'
  BY <1>2 DEF DiskInv
<1>8. free' + missed' >= Floor + Remaining'
  <2>1. free + missed >= Floor + Remaining
    BY DEF DiskInv
  <2> QED
    BY <1>2, <1>3, <2>1
<1>9. \A i \in Item : item'[i].state \in {"checked", "admitted"} =>
                        free' + missed' >= Floor + Remaining' + item'[i].size
  <2> TAKE i \in Item
  <2>1. HAVE item'[i].state \in {"checked", "admitted"}
  <2>2. free + missed >= Floor + Remaining + item[i].size /\ item'[i].size = item[i].size
    BY <2>1 DEF DiskInv
  <2> QED
    BY <1>2, <1>3, <2>2
<1>10. Zero' = Zero
  BY DEF Zero
<1> QED
  BY <1>1, <1>4, <1>5, <1>6, <1>7, <1>8, <1>9, <1>10 DEF DiskInv

LEMMA ReservedIs == In({"reserved"}) = Reserved
BY DEF In, Reserved

LEMMA DiskLock ==
  ASSUME ItemsInv, ItemsInv', DiskInv, NEW i \in Item, NEW o \in Owner, NEW n \in Sizes,
         ReserveLock(i, o, n)
  PROVE  DiskInv'
<1>1. /\ \A j \in Item : j # i => item'[j] = item[j]
      /\ item[i].state = "free" /\ item[i].written = 0
      /\ item'[i].state = "locked" /\ item'[i].written = 0
  BY LockMoves
<1>2. seen' = free /\ mark' = Written /\ free' = free /\ missed' = missed
  BY DEF ReserveLock
<1>3. \A j \in Item : item'[j].written = item[j].written
  BY <1>1
<1>4. DiskTypes /\ DiskTypes'
  <2>1. Written \in [Item -> 0..Disk]
    BY ItemFields DEF ItemsInv, Written
  <2> QED
    BY <1>2, <2>1 DEF DiskInv, DiskTypes
<1>5. Remaining' <= Remaining /\ Written' = Written
  BY <1>1, <1>3, <1>4, RemainingFalls
<1>6. \A j \in Item : item[j].state \in Advised => j = i
  BY DEF ReserveLock, AdvisoryFree, In, Advised
<1>7. \A j \in Item : item'[j].state \in Advised => j = i
  BY <1>1, <1>6
<1>8. \A j \in Item : item'[j].state \notin {"checked", "admitted"}
  BY <1>1, <1>7 DEF Advised
<1>9. \A j \in Item : mark'[j] <= item'[j].written
  <2>1. \A j \in Item : item[j].written \in Nat
    BY ItemFields DEF ItemsInv
  <2> QED
    BY <1>2, <1>3, <2>1 DEF Written
<1>10. /\ Between(Item, mark', Written') \in Nat /\ free \in Nat /\ missed \in Nat /\ Floor \in Nat
       /\ Remaining \in Nat /\ Remaining' \in Nat
  BY <1>4, Sums, SumsNext
<1>11. free' + Between(Item, mark', Written') >= seen'
  BY <1>2, <1>10
<1>12. free' + missed' >= Floor + Remaining'
  <2>1. free + missed >= Floor + Remaining
    BY DEF DiskInv
  <2>2. free' = free /\ missed' = missed /\ Remaining' <= Remaining
    BY <1>2, <1>5
  <2> DEFINE r == Remaining'
             f == free'
             m == missed'
  <2>3. r \in Nat /\ f \in Nat /\ m \in Nat /\ f = free /\ m = missed /\ r <= Remaining
    BY <1>10, <2>2
  <2> HIDE DEF r, f, m
  <2>4. f + m >= Floor + r
    BY <1>10, <2>1, <2>3
  <2> QED
    BY <2>4 DEF r, f, m
<1>13. Zero' = Zero /\ free' + Between(Item, Zero, Written') = Disk
  BY <1>2, <1>5 DEF DiskInv, Zero
<1> QED
  BY <1>4, <1>7, <1>8, <1>9, <1>11, <1>12, <1>13 DEF DiskInv

\* The sum of reserved bytes is read after the free bytes: what was written in
\* between by uploads still reserved is in both, what others wrote is missed.
LEMMA DiskChecked ==
  ASSUME ItemsInv, ItemsInv', DiskInv, NEW i \in Item, DiskCheck(i)
  PROVE  DiskInv'
<1> DEFINE still == Between(Reserved, Zero, Written)
           since == Between(Reserved, mark, Written)
           all == Between(Item, mark, Written)
           total == Bytes(Reserved)
           size == item[i].size
<1>1. /\ item[i].state = "locked" /\ Put(i, "checked")
      /\ seen >= total + size + Floor
      /\ missed' = missed + Missed /\ free' = free /\ seen' = 0 /\ mark' = Zero
  BY ReservedIs DEF DiskCheck, Forget
<1>2. /\ \A j \in Item : j # i => item'[j] = item[j]
      /\ item'[i].state = "checked" /\ item'[i].size = size /\ item'[i].written = item[i].written
  BY <1>1, PutMoves DEF ItemStates
<1>3. DiskTypes
  BY DEF DiskInv
<1>4. /\ Written \in Counts /\ Size \in Counts /\ Zero \in Counts /\ mark \in Counts
      /\ Remaining \in Nat /\ all \in Nat
      /\ free \in Nat /\ missed \in Nat /\ seen \in Nat /\ Floor \in Nat
  BY <1>3, Sums
<1>5. Reserved \in SUBSET Item /\ (Item \ Reserved) \in SUBSET Item
  BY DEF Reserved
<1>6. Missed = Between(Item \ Reserved, mark, Written) /\ Missed \in Nat
  BY <1>4, <1>5, ReservedIs, UnitsFinite DEF Missed
<1>7. all = since + Missed /\ since \in Nat
  <2>1. Reserved \cup (Item \ Reserved) = Item /\ Reserved \cap (Item \ Reserved) = {}
    BY <1>5
  <2>2. Between(Reserved \cup (Item \ Reserved), mark, Written)
          = Between(Reserved, mark, Written) + Between(Item \ Reserved, mark, Written)
    BY <1>4, <1>5, <2>1, BetweenBoth
  <2>3. since \in Nat
    BY <1>4, <1>5, UnitsFinite
  <2> QED
    BY <1>6, <2>1, <2>2, <2>3
<1>8. since <= still /\ still \in Nat
  <2>1. \A j \in Reserved : j \in Reserved /\ Zero[j] <= mark[j] /\ Written[j] <= Written[j]
    BY <1>4, <1>5 DEF Zero, Counts
  <2>2. still \in Nat
    BY <1>4, <1>5, UnitsFinite
  <2> QED
    BY <1>4, <1>5, <2>1, <2>2, BetweenGrows
<1>9. total = still + Remaining
  <2>1. \A j \in Reserved : Zero[j] <= Written[j] /\ Written[j] <= Size[j]
    BY <1>4, <1>5 DEF Zero, Counts, ItemsInv, Written, Size
  <2>2. Between(Reserved, Zero, Size) = Between(Reserved, Zero, Written) + Between(Reserved, Written, Size)
    BY <1>4, <1>5, <2>1, BetweenJoin
  <2> QED
    BY <2>2 DEF Bytes, Remaining
<1>10. free + all >= seen
  BY <1>1 DEF DiskInv
<1>11. size \in Nat
  BY ItemFields DEF ItemsInv
<1> HIDE DEF still, since, all, total, size
<1>12. free + (missed + Missed) >= Floor + Remaining + size
  BY <1>1, <1>4, <1>6, <1>7, <1>8, <1>9, <1>10, <1>11
<1>13. DiskTypes'
  BY <1>1, <1>3, <1>4, <1>6, Sized DEF DiskTypes, Zero
<1>14. Remaining' <= Remaining /\ Written' = Written
  BY <1>1, <1>2, <1>3, <1>13, RemainingFalls DEF size
<1>15. Remaining' \in Nat /\ missed' \in Nat
  BY <1>13, SumsNext
<1>16. free' + missed' >= Floor + Remaining' + size
  BY <1>1, <1>4, <1>6, <1>11, <1>12, <1>14, <1>15
<1>17. free' + missed' >= Floor + Remaining'
  BY <1>1, <1>4, <1>11, <1>15, <1>16
<1>18. \A j \in Item : item'[j].state \in Advised => j = i
  <2>1. \A j \in Item : item[j].state \in Advised => j = i
    BY <1>1 DEF DiskInv, Advised
  <2> QED
    BY <1>2, <2>1
<1>19. \A j \in Item : item'[j].state # "locked"
  BY <1>2, <1>18 DEF Advised
<1>20. \A j \in Item : item'[j].state \in {"checked", "admitted"} => j = i
  BY <1>18 DEF Advised
<1>21. \A j \in Item : mark'[j] <= item'[j].written
  <2>1. \A j \in Item : item'[j].written \in Nat
    BY ItemFields DEF ItemsInv
  <2> QED
    BY <1>1, <2>1 DEF Zero
<1>22. Zero' = Zero /\ free' + Between(Item, Zero, Written') = Disk
  BY <1>1, <1>14 DEF DiskInv, Zero
<1> QED
  BY <1>2, <1>13, <1>16, <1>17, <1>18, <1>19, <1>20, <1>21, <1>22 DEF DiskInv

LEMMA DiskCommit ==
  ASSUME ItemsInv, ItemsInv', DiskInv, NEW i \in Item, AdmitCommit(i)
  PROVE  DiskInv'
<1>1. /\ item[i].state = "admitted" /\ Put(i, "reserved")
      /\ free' = free /\ missed' = missed /\ seen' = seen /\ mark' = mark
  BY DEF AdmitCommit, diskVars
<1>2. /\ \A j \in Item : j # i => item'[j] = item[j]
      /\ item'[i].state = "reserved" /\ item'[i].size = item[i].size
      /\ item'[i].written = item[i].written
  BY <1>1, PutMoves DEF ItemStates
<1>3. DiskTypes /\ DiskTypes'
  BY <1>1 DEF DiskInv, DiskTypes
<1>4. /\ Written \in Counts /\ Size \in Counts /\ Remaining \in Nat
      /\ free \in Nat /\ missed \in Nat /\ Floor \in Nat
  BY <1>3, Sums
<1>5. Written' = Written /\ Size' = Size
  BY <1>2 DEF Written, Size
<1>6. Reserved \in SUBSET Item /\ i \in Item \ Reserved /\ Reserved' = Reserved \cup {i}
  BY <1>1, <1>2 DEF Reserved
<1>7. item[i].written = 0 /\ item[i].size \in Nat
  BY <1>1, ItemFields DEF ItemsInv, Fresh
<1>8. Written[i] = 0 /\ Size[i] = item[i].size
  BY <1>7 DEF Written, Size
<1>9. Remaining' = Remaining + item[i].size
  <2>1. Between(Reserved \cup {i}, Written, Size) = Between(Reserved, Written, Size) + (Size[i] - Written[i])
    BY <1>4, <1>6, <1>7, <1>8, BetweenMore
  <2>2. Remaining' = Between(Reserved \cup {i}, Written, Size)
    BY <1>5, <1>6 DEF Remaining
  <2>3. Size[i] - Written[i] = item[i].size
    BY <1>7, <1>8
  <2> QED
    BY <2>1, <2>2, <2>3 DEF Remaining
<1>10. free + missed >= Floor + Remaining + item[i].size
  BY <1>1 DEF DiskInv
<1>11. free' + missed' >= Floor + Remaining'
  BY <1>1, <1>4, <1>7, <1>9, <1>10
<1>12. \A j \in Item : item'[j].state \notin Advised
  BY <1>1, <1>2 DEF DiskInv, Advised
<1>13. \A j \in Item : item'[j].state # "locked" /\ item'[j].state \notin {"checked", "admitted"}
  BY <1>12 DEF Advised
<1>14. \A j \in Item : item'[j].state # "ended" => mark'[j] <= item'[j].written
  BY <1>1, <1>2 DEF DiskInv
<1>15. Zero' = Zero /\ free' + Between(Item, Zero, Written') = Disk
  BY <1>1, <1>5 DEF DiskInv, Zero
<1> QED
  BY <1>3, <1>11, <1>12, <1>13, <1>14, <1>15 DEF DiskInv

LEMMA RoomOnDisk ==
  ASSUME ItemsInv, DiskInv, NEW i \in Item
  PROVE  free + item[i].written <= Disk
<1>1. DiskTypes /\ Item \in SUBSET Item /\ {i} \in SUBSET Item
  BY DEF DiskInv
<1>2. Written \in Counts /\ Zero \in Counts /\ free \in Nat /\ Between(Item, Zero, Written) \in Nat
  BY <1>1, Sums
<1>3. \A j \in {i} : j \in Item /\ Zero[j] <= Zero[j] /\ Written[j] <= Written[j]
  BY <1>2 DEF Zero, Counts
<1>4. Between({i}, Zero, Written) <= Between(Item, Zero, Written)
  BY <1>1, <1>2, <1>3, BetweenGrows
<1>5. Zero[i] = 0 /\ Written[i] = item[i].written /\ Written[i] \in Nat
  BY <1>2 DEF Zero, Written, Counts
<1>6. Between({i}, Zero, Written) = item[i].written
  <2>1. Between({i}, Zero, Written) = IF Zero[i] <= Written[i] THEN Written[i] - Zero[i] ELSE 0
    BY <1>2, BetweenOne
  <2> QED
    BY <1>5, <2>1
<1>7. free + Between(Item, Zero, Written) = Disk
  BY DEF DiskInv
<1> QED
  BY <1>2, <1>4, <1>5, <1>6, <1>7

LEMMA DiskWrite ==
  ASSUME ItemsInv, ItemsInv', DiskInv, NEW i \in Item, Write(i)
  PROVE  DiskInv'
<1> DEFINE w == item[i].written
<1>1. /\ item[i].state = "reserved" /\ w < item[i].size /\ free > 0
      /\ free' = free - 1 /\ missed' = missed /\ seen' = seen /\ mark' = mark
  BY DEF Write
<1>2. DiskTypes /\ free + w <= Disk
  BY RoomOnDisk DEF DiskInv
<1>3. /\ \A j \in Item : j # i => item'[j] = item[j]
      /\ item'[i].state = item[i].state /\ item'[i].size = item[i].size
      /\ item'[i].written = w + 1
  BY <1>2, WriteMoves DEF DiskTypes
<1>4. /\ Written \in Counts /\ Size \in Counts /\ Zero \in Counts /\ mark \in Counts
      /\ Remaining \in Nat /\ Between(Item, Zero, Written) \in Nat
      /\ Between(Item, mark, Written) \in Nat
      /\ free \in Nat /\ missed \in Nat /\ seen \in Nat /\ Floor \in Nat /\ Disk \in Nat
  BY <1>2, Sums
<1>5. DiskTypes'
  BY <1>1, <1>2, <1>4 DEF DiskTypes
<1>6. /\ Written' \in Counts /\ Remaining' \in Nat /\ Between(Item, Zero, Written') \in Nat
      /\ Between(Item, mark', Written') \in Nat
  BY <1>5, SumsNext
<1>7. /\ Size' = Size /\ Reserved' = Reserved /\ i \in Reserved /\ Reserved \in SUBSET Item
      /\ Written[i] = w /\ Written'[i] = w + 1 /\ w \in Nat /\ Size[i] = item[i].size
      /\ Size[i] \in Nat
      /\ \A j \in Item : j # i => Written'[j] = Written[j]
  BY <1>1, <1>3, <1>4 DEF Size, Reserved, Written, Counts
<1> HIDE DEF w
<1>8. Remaining' + 1 = Remaining
  <2>1. Written[i] <= Size[i] /\ Written'[i] <= Size[i]
        /\ \A j \in Reserved : j # i => Written[j] = Written'[j] /\ Size[j] = Size[j]
    BY <1>1, <1>7
  <2>2. Between(Reserved, Written', Size) + (Size[i] - Written[i])
          = Between(Reserved, Written, Size) + (Size[i] - Written'[i])
    BY <1>4, <1>6, <1>7, <2>1, BetweenAt
  <2>3. Remaining = Between(Reserved, Written, Size) /\ Remaining' = Between(Reserved, Written', Size)
    BY <1>7 DEF Remaining
  <2> QED
    BY <1>4, <1>6, <1>7, <2>2, <2>3
<1>9. Between(Item, Zero, Written') = Between(Item, Zero, Written) + 1
  <2>1. Zero[i] = 0 /\ Zero[i] <= Written[i] /\ Zero[i] <= Written'[i] /\ Item \in SUBSET Item
    BY <1>7 DEF Zero
  <2>2. Between(Item, Zero, Written') + (Written[i] - Zero[i])
          = Between(Item, Zero, Written) + (Written'[i] - Zero[i])
    BY <1>4, <1>6, <1>7, <2>1, BetweenAt
  <2> QED
    BY <1>4, <1>6, <1>7, <2>1, <2>2
<1>10. Between(Item, mark, Written') = Between(Item, mark, Written) + 1
  <2>1. mark[i] <= Written[i] /\ mark[i] \in Nat /\ Item \in SUBSET Item
    BY <1>1, <1>4, <1>7 DEF DiskInv, Counts, w
  <2>2. mark[i] <= Written'[i]
    BY <1>7, <2>1
  <2>3. Between(Item, mark, Written') + (Written[i] - mark[i])
          = Between(Item, mark, Written) + (Written'[i] - mark[i])
    BY <1>4, <1>6, <1>7, <2>1, <2>2, BetweenAt
  <2> QED
    BY <1>1, <1>4, <1>6, <1>7, <2>1, <2>3
<1>11. free' + missed' >= Floor + Remaining'
  <2>1. free + missed >= Floor + Remaining
    BY DEF DiskInv
  <2> QED
    BY <1>1, <1>4, <1>6, <1>8, <2>1
<1>12. \A j \in Item : item'[j].state \in {"checked", "admitted"} =>
                         free' + missed' >= Floor + Remaining' + item'[j].size
  <2> SUFFICES ASSUME NEW j \in Item, item'[j].state \in {"checked", "admitted"}
               PROVE  free' + missed' >= Floor + Remaining' + item'[j].size
    OBVIOUS
  <2>1. item[j].state \in {"checked", "admitted"} /\ item'[j].size = item[j].size
    BY <1>3
  <2>2. free + missed >= Floor + Remaining + item[j].size /\ item[j].size \in Nat
    BY <2>1, ItemFields DEF DiskInv, ItemsInv
  <2>3. free' = free - 1 /\ missed' = missed /\ Remaining' \in Nat /\ Remaining' + 1 = Remaining
    BY <1>1, <1>6, <1>8
  <2>4. free' + missed' >= Floor + Remaining' + item[j].size
    <3> DEFINE n == item[j].size
               r == Remaining'
               f == free'
               m == missed'
    <3>1. n \in Nat /\ free + missed >= Floor + Remaining + n
      BY <2>2
    <3>2. r \in Nat /\ f = free - 1 /\ m = missed /\ r + 1 = Remaining
      BY <2>3
    <3> HIDE DEF n, r, f, m
    <3>3. f + m >= Floor + r + n
      BY <1>4, <3>1, <3>2
    <3> QED
      BY <2>1, <3>3 DEF n, r, f, m
  <2> QED
    BY <2>1, <2>4
<1>13. \A j \in Item : item'[j].state # "ended" => mark'[j] <= item'[j].written
  <2>1. mark[i] <= w /\ mark[i] \in Nat
    BY <1>1, <1>4 DEF DiskInv, Counts, w
  <2>2. mark'[i] <= item'[i].written
    BY <1>1, <1>3, <1>7, <2>1
  <2> QED
    BY <1>1, <1>3, <2>2 DEF DiskInv
<1>14. \A j, k \in Item : item'[j].state \in Advised /\ item'[k].state \in Advised => j = k
  BY <1>3 DEF DiskInv
<1>15. (\E j \in Item : item'[j].state = "locked") => free' + Between(Item, mark', Written') >= seen'
  <2>1. (\E j \in Item : item'[j].state = "locked") => \E j \in Item : item[j].state = "locked"
    BY <1>3
  <2>2. (\E j \in Item : item[j].state = "locked") => free + Between(Item, mark, Written) >= seen
    BY DEF DiskInv
  <2>3. free' + Between(Item, mark', Written') = free + Between(Item, mark, Written)
    BY <1>1, <1>4, <1>10
  <2> QED
    BY <1>1, <2>1, <2>2, <2>3
<1>16. Zero' = Zero /\ free' + Between(Item, Zero, Written') = Disk
  <2>1. free + Between(Item, Zero, Written) = Disk
    BY DEF DiskInv
  <2> QED
    BY <1>1, <1>4, <1>9, <2>1 DEF Zero
<1> QED
  BY <1>5, <1>11, <1>12, <1>13, <1>14, <1>15, <1>16 DEF DiskInv

\* What a reclaimed item has written since the admission's statfs is no more
\* than what the disk gets back.
LEMMA DiskReclaim ==
  ASSUME ItemsInv, ItemsInv', DiskInv, NEW i \in Item, Reclaim(i)
  PROVE  DiskInv'
<1> DEFINE w == item[i].written
<1>1. /\ item[i].state \in {"ended", "expired"}
      /\ free' = free + w /\ missed' = missed /\ seen' = seen /\ mark' = mark
  BY DEF Reclaim
<1>2. DiskTypes /\ free + w <= Disk
  BY RoomOnDisk DEF DiskInv
<1>3. /\ \A j \in Item : j # i => item'[j] = item[j]
      /\ item'[i].state = "ended" /\ item'[i].written = 0
  BY ReclaimMoves
<1>4. /\ Written \in Counts /\ Size \in Counts /\ Zero \in Counts /\ mark \in Counts
      /\ Remaining \in Nat /\ Between(Item, Zero, Written) \in Nat
      /\ Between(Item, mark, Written) \in Nat
      /\ free \in Nat /\ missed \in Nat /\ seen \in Nat /\ Floor \in Nat /\ Disk \in Nat
  BY <1>2, Sums
<1>5. w \in Nat /\ Written[i] = w /\ Written'[i] = 0 /\ mark[i] \in Nat
      /\ \A j \in Item : j # i => Written'[j] = Written[j] /\ Size'[j] = Size[j]
  BY <1>3, <1>4 DEF Written, Size, Counts
<1> HIDE DEF w
<1>6. DiskTypes'
  BY <1>1, <1>2, <1>4, <1>5 DEF DiskTypes
<1>7. /\ Written' \in Counts /\ Size' \in Counts /\ Between(Item, Zero, Written') \in Nat
      /\ Between(Item, mark', Written') \in Nat
  BY <1>6, SumsNext
<1>8. Remaining' = Remaining
  <2>1. Reserved' = Reserved /\ \A j \in Reserved : j \in Item /\ j # i
    BY <1>1, <1>3 DEF Reserved
  <2>2. Between(Reserved, Written', Size') = Between(Reserved, Written, Size)
    BY <1>5, <2>1, BetweenSame
  <2> QED
    BY <2>1, <2>2 DEF Remaining
<1>9. Between(Item, Zero, Written') + w = Between(Item, Zero, Written)
  <2>1. Zero[i] = 0 /\ Zero[i] <= Written[i] /\ Zero[i] <= Written'[i] /\ Item \in SUBSET Item
    BY <1>5 DEF Zero
  <2>2. Between(Item, Zero, Written') + (Written[i] - Zero[i])
          = Between(Item, Zero, Written) + (Written'[i] - Zero[i])
    BY <1>4, <1>5, <1>7, <2>1, BetweenAt
  <2> QED
    BY <1>4, <1>5, <1>7, <2>1, <2>2
<1>10. Between(Item, mark, Written') + w >= Between(Item, mark, Written)
  <2> DEFINE T == Item \ {i}
  <2>1. T \in SUBSET Item /\ {i} \in SUBSET Item /\ T \cap {i} = {} /\ T \cup {i} = Item
        /\ Item \in SUBSET Item /\ \A j \in T : j # i
    OBVIOUS
  <2>2. Between(T, mark, Written') = Between(T, mark, Written)
    BY <1>5, BetweenSame
  <2> HIDE DEF T
  <2>3. Between(T \cup {i}, mark, Written) = Between(T, mark, Written) + Between({i}, mark, Written)
    BY <1>4, <2>1, BetweenBoth
  <2>4. Between({i}, mark, Written) <= w /\ Between({i}, mark, Written) \in Nat
    <3>1. Between({i}, mark, Written) = IF mark[i] <= Written[i] THEN Written[i] - mark[i] ELSE 0
      BY <1>4, BetweenOne
    <3> QED
      BY <1>5, <3>1
  <2>5. \A j \in T : j \in Item /\ mark[j] <= mark[j] /\ Written'[j] <= Written'[j]
    BY <1>4, <1>7, <2>1 DEF Counts
  <2>6. Between(T, mark, Written') <= Between(Item, mark, Written')
    BY <1>4, <1>7, <2>1, <2>5, BetweenGrows
  <2>7. Between(T, mark, Written') \in Nat
    BY <1>4, <1>7, <2>1, UnitsFinite
  <2> QED
    BY <1>1, <1>4, <1>5, <1>7, <2>1, <2>2, <2>3, <2>4, <2>6, <2>7
<1>11. free' + missed' >= Floor + Remaining'
  <2>1. free + missed >= Floor + Remaining
    BY DEF DiskInv
  <2> QED
    BY <1>1, <1>4, <1>5, <1>8, <2>1
<1>12. \A j \in Item : item'[j].state \in {"checked", "admitted"} =>
                         free' + missed' >= Floor + Remaining' + item'[j].size
  <2> SUFFICES ASSUME NEW j \in Item, item'[j].state \in {"checked", "admitted"}
               PROVE  free' + missed' >= Floor + Remaining' + item'[j].size
    OBVIOUS
  <2>1. item[j].state \in {"checked", "admitted"} /\ item'[j].size = item[j].size
    BY <1>3
  <2>2. free + missed >= Floor + Remaining + item[j].size /\ item[j].size \in Nat
    BY <2>1, ItemFields DEF DiskInv, ItemsInv
  <2> QED
    BY <1>1, <1>4, <1>5, <1>8, <2>1, <2>2
<1>13. \A j \in Item : item'[j].state # "ended" => mark'[j] <= item'[j].written
  BY <1>1, <1>3 DEF DiskInv
<1>14. \A j, k \in Item : item'[j].state \in Advised /\ item'[k].state \in Advised => j = k
  <2>1. \A j \in Item : item'[j].state \in Advised => item[j].state \in Advised
    BY <1>3 DEF Advised
  <2> QED
    BY <2>1 DEF DiskInv
<1>15. (\E j \in Item : item'[j].state = "locked") => free' + Between(Item, mark', Written') >= seen'
  <2>1. (\E j \in Item : item'[j].state = "locked") => \E j \in Item : item[j].state = "locked"
    BY <1>3
  <2>2. (\E j \in Item : item[j].state = "locked") => free + Between(Item, mark, Written) >= seen
    BY DEF DiskInv
  <2>3. free' + Between(Item, mark', Written') >= free + Between(Item, mark, Written)
    BY <1>1, <1>4, <1>5, <1>7, <1>10
  <2>4. free' + Between(Item, mark', Written') \in Nat
    BY <1>1, <1>4, <1>5, <1>7
  <2> QED
    BY <1>1, <1>4, <2>1, <2>2, <2>3, <2>4
<1>16. Zero' = Zero /\ free' + Between(Item, Zero, Written') = Disk
  <2>1. free + Between(Item, Zero, Written) = Disk
    BY DEF DiskInv
  <2> QED
    BY <1>1, <1>4, <1>5, <1>7, <1>9, <2>1 DEF Zero
<1> QED
  BY <1>6, <1>11, <1>12, <1>13, <1>14, <1>15, <1>16 DEF DiskInv

----------------------------------------------------------------------------
(* Admission: every step keeps the items and the disk.                      *)

\* What a step that concerns one item has to show of it.
LEMMA OtherItems ==
  ASSUME ItemsInv, NEW i \in Item, item' \in [Item -> Items],
         \A j \in Item : j # i => item'[j] = item[j],
         item'[i].written <= item'[i].size,
         item'[i].state # "free" => item'[i].owner \in Owner,
         item'[i].state \in Fresh => item'[i].written = 0
  PROVE  ItemsInv'
BY DEF ItemsInv

LEMMA ItemsNext ==
  ASSUME ItemsInv, PolicyInv, DiskInv, AdmissionNext
  PROVE  ItemsInv' /\ PolicyInv'
<1> USE DEF ItemStates, Fresh
<1>1. \A i \in Item : /\ item[i] \in Items /\ item[i].written <= item[i].size
                      /\ item[i].written \in Nat /\ item[i].size \in Nat
                      /\ item[i].state # "free" => item[i].owner \in Owner
                      /\ item[i].state \in Fresh => item[i].written = 0
  BY ItemFields DEF ItemsInv
<1>2. UNCHANGED policyVars => PolicyInv'
  BY DEF PolicyInv, policyVars
<1>3. ASSUME NEW i \in Item, NEW o \in Owner, NEW n \in Sizes, ReserveLock(i, o, n)
      PROVE  ItemsInv' /\ PolicyInv'
  <2>1. n \in Nat /\ UNCHANGED policyVars
    BY <1>3, Sized DEF ReserveLock
  <2> QED
    BY <1>2, <1>3, <2>1, LockMoves, OtherItems
<1>4. ASSUME NEW i \in Item, NEW state \in ItemStates, Put(i, state), UNCHANGED policyVars,
             item[i].state # "free", state \in Fresh => item[i].state \in Fresh
      PROVE  ItemsInv' /\ PolicyInv'
  BY <1>1, <1>2, <1>4, PutMoves, OtherItems
<1>5. ASSUME NEW i \in Item, DiskCheck(i) PROVE ItemsInv' /\ PolicyInv'
  <2>1. Put(i, "checked") /\ UNCHANGED policyVars /\ item[i].state = "locked"
    BY <1>5 DEF DiskCheck
  <2> QED
    BY <1>4, <2>1
<1>6. ASSUME NEW i \in Item, Admit(i) PROVE ItemsInv' /\ PolicyInv'
  <2>1. Put(i, "admitted") /\ UNCHANGED policyVars /\ item[i].state = "checked"
    BY <1>6 DEF Admit
  <2> QED
    BY <1>4, <2>1
<1>7. ASSUME NEW i \in Item, AdmitCommit(i) PROVE ItemsInv' /\ PolicyInv'
  <2>1. Put(i, "reserved") /\ UNCHANGED policyVars /\ item[i].state = "admitted"
    BY <1>7 DEF AdmitCommit
  <2> QED
    BY <1>4, <2>1
<1>8. ASSUME NEW i \in Item, Rollback(i) PROVE ItemsInv' /\ PolicyInv'
  <2>1. UNCHANGED policyVars
    BY <1>8 DEF Rollback
  <2> QED
    BY <1>2, <1>8, <2>1, RollbackMoves, OtherItems
<1>9. ASSUME NEW i \in Item, InitFails(i) PROVE ItemsInv' /\ PolicyInv'
  <2>1. Put(i, "unreserved") /\ UNCHANGED policyVars /\ item[i].state = "reserved"
    BY <1>9 DEF InitFails
  <2> QED
    BY <1>4, <2>1
<1>10. ASSUME NEW i \in Item, Write(i) PROVE ItemsInv' /\ PolicyInv'
  <2>1. /\ UNCHANGED policyVars /\ item[i].state = "reserved" /\ item[i].written < item[i].size
        /\ free \in 0..Disk /\ free + item[i].written <= Disk
    BY <1>10, RoomOnDisk DEF Write, DiskInv, DiskTypes
  <2>2. /\ item' \in [Item -> Items] /\ \A j \in Item : j # i => item'[j] = item[j]
        /\ item'[i].state = "reserved" /\ item'[i].owner = item[i].owner
        /\ item'[i].size = item[i].size /\ item'[i].written = item[i].written + 1
    BY <1>10, <2>1, WriteMoves
  <2>3. item'[i].written <= item'[i].size
    BY <1>1, <2>1, <2>2
  <2> QED
    BY <1>1, <1>2, <2>1, <2>2, <2>3, OtherItems
<1>11. ASSUME NEW i \in Item, Complete(i) PROVE ItemsInv' /\ PolicyInv'
  <2>1. Put(i, "held") /\ UNCHANGED policyVars /\ item[i].state = "reserved"
    BY <1>11 DEF Complete
  <2> QED
    BY <1>4, <2>1
<1>12. ASSUME NEW i \in Item, End(i) PROVE ItemsInv' /\ PolicyInv'
  <2>1. Put(i, "ended") /\ UNCHANGED policyVars /\ item[i].state = "reserved"
    BY <1>12 DEF End
  <2> QED
    BY <1>4, <2>1
<1>13. ASSUME NEW i \in Item, ExpireFile(i) PROVE ItemsInv' /\ PolicyInv'
  <2>1. Put(i, "expired") /\ UNCHANGED policyVars /\ item[i].state = "held"
    BY <1>13 DEF ExpireFile
  <2> QED
    BY <1>4, <2>1
<1>14. ASSUME NEW i \in Item, Reclaim(i) PROVE ItemsInv' /\ PolicyInv'
  <2>1. UNCHANGED policyVars /\ item[i].state # "free"
    BY <1>14 DEF Reclaim
  <2>2. /\ item' \in [Item -> Items] /\ \A j \in Item : j # i => item'[j] = item[j]
        /\ item'[i].state = "ended" /\ item'[i].owner = item[i].owner
        /\ item'[i].size = item[i].size /\ item'[i].written = 0
    BY <1>14, ReclaimMoves
  <2> QED
    BY <1>1, <1>2, <2>1, <2>2, OtherItems
<1>15. ASSUME NEW i \in Item, Revive(i) PROVE ItemsInv' /\ PolicyInv'
  <2>1. UNCHANGED policyVars
    BY <1>15 DEF Revive
  <2> QED
    BY <1>1, <1>2, <1>15, <2>1, ReviveMoves, OtherItems
<1>16. ASSUME NEW i \in Item, NEW o \in Owner, Transfer(i, o) PROVE ItemsInv' /\ PolicyInv'
  <2>1. UNCHANGED policyVars
    BY <1>16 DEF Transfer
  <2> QED
    BY <1>1, <1>2, <1>16, <2>1, TransferMoves, OtherItems
<1>17. ASSUME NEW i \in Item, NEW j \in Item, CopyCheck(i, j) PROVE ItemsInv' /\ PolicyInv'
  <2>1. UNCHANGED policyVars
    BY <1>17 DEF CopyCheck
  <2> QED
    BY <1>1, <1>2, <1>17, <2>1, CopyMoves, OtherItems
<1>18. ASSUME NEW i \in Item, CopyCommit(i) PROVE ItemsInv' /\ PolicyInv'
  <2>1. Put(i, "held") /\ UNCHANGED policyVars /\ item[i].state = "copying"
    BY <1>18 DEF CopyCommit
  <2> QED
    BY <1>4, <2>1
<1>19. ASSUME changes < MaxChanges, changes' = changes + 1, PolicyInv
       PROVE  changes' \in 0..MaxChanges
  BY <1>19, AdmissionConstants DEF PolicyInv
<1>20. ASSUME NEW q \in Quotas, SetPlan(q) PROVE ItemsInv' /\ PolicyInv'
  <2>1. ItemsInv'
    BY <1>20, PlanMoves DEF ItemsInv
  <2>2. plan' = q /\ own' = own /\ changes < MaxChanges /\ changes' = changes + 1
    BY <1>20 DEF SetPlan
  <2> QED
    BY <1>19, <2>1, <2>2 DEF PolicyInv
<1>21. ASSUME NEW o \in Owner, NEW q \in Quotas \cup {Unset}, SetOwn(o, q)
       PROVE  ItemsInv' /\ PolicyInv'
  <2>1. /\ item' = item /\ plan' = plan /\ own' = [own EXCEPT ![o] = q]
        /\ changes < MaxChanges /\ changes' = changes + 1
    BY <1>21 DEF SetOwn
  <2> QED
    BY <1>19, <2>1 DEF PolicyInv, ItemsInv
<1> QED
  BY <1>3, <1>5, <1>6, <1>7, <1>8, <1>9, <1>10, <1>11, <1>12, <1>13, <1>14, <1>15, <1>16, <1>17,
     <1>18, <1>20, <1>21 DEF AdmissionNext

\* A step of one item that leaves the disk, and the admission in progress, alone.
LEMMA DiskPut ==
  ASSUME ItemsInv, ItemsInv', DiskInv, NEW i \in Item, UNCHANGED diskVars,
         \A j \in Item : j # i => item'[j] = item[j],
         item'[i].written = item[i].written,
         item'[i].state \notin {"reserved", "locked"},
         item'[i].state # "ended" => item[i].state # "ended",
         item'[i].state \in {"checked", "admitted"} =>
           item[i].state \in {"checked", "admitted"} /\ item'[i].size = item[i].size
  PROVE  DiskInv'
<1>1. free' = free /\ missed' = missed /\ seen' = seen /\ mark' = mark
  BY DEF diskVars
<1>2. \A j \in Item :
           /\ item'[j].written = item[j].written
           /\ item'[j].state = "reserved" =>
                item[j].state = "reserved" /\ item'[j].size = item[j].size
           /\ item'[j].state # "ended" => item[j].state # "ended"
           /\ item'[j].state = "locked" => item[j].state = "locked"
           /\ item'[j].state \in {"checked", "admitted"} =>
                item[j].state \in {"checked", "admitted"} /\ item'[j].size = item[j].size
  OBVIOUS
<1> QED
  BY <1>1, <1>2, DiskQuiet

LEMMA DiskRollback ==
  ASSUME ItemsInv, ItemsInv', DiskInv, NEW i \in Item, Rollback(i)
  PROVE  DiskInv'
<1>1. /\ item[i].state \in {"locked", "checked", "admitted", "copying"}
      /\ free' = free /\ missed' = missed
      /\ IF item[i].state = "locked" THEN Forget ELSE seen' = seen /\ mark' = mark
  BY DEF Rollback
<1>2. /\ \A j \in Item : j # i => item'[j] = item[j]
      /\ item'[i].state = "free" /\ item'[i].written = 0 /\ item[i].written = 0
  BY <1>1, RollbackMoves DEF ItemsInv, Fresh
<1>3. \A j \in Item :
           /\ item'[j].written = item[j].written
           /\ item'[j].state = "reserved" =>
                item[j].state = "reserved" /\ item'[j].size = item[j].size
           /\ item'[j].state # "ended" => item[j].state # "ended"
           /\ item'[j].state = "locked" => item[j].state = "locked"
           /\ item'[j].state \in {"checked", "admitted"} =>
                item[j].state \in {"checked", "admitted"} /\ item'[j].size = item[j].size
  BY <1>1, <1>2
<1>4. \/ seen' = seen /\ mark' = mark
      \/ Forget /\ \A j \in Item : item'[j].state # "locked"
  <2>1. ASSUME item[i].state = "locked", NEW j \in Item, item'[j].state = "locked" PROVE FALSE
    BY <1>2, <1>3, <2>1 DEF DiskInv, Advised
  <2> QED
    BY <1>1, <2>1
<1> QED
  BY <1>1, <1>3, <1>4, DiskQuiet

LEMMA DiskNext ==
  ASSUME ItemsInv, PolicyInv, DiskInv, AdmissionNext
  PROVE  DiskInv'
<1> USE DEF ItemStates
<1>1. ItemsInv'
  BY ItemsNext
<1>2. ASSUME NEW i \in Item, NEW o \in Owner, NEW n \in Sizes, ReserveLock(i, o, n) PROVE DiskInv'
  BY <1>1, <1>2, DiskLock
<1>3. ASSUME NEW i \in Item, DiskCheck(i) PROVE DiskInv'
  BY <1>1, <1>3, DiskChecked
<1>4. ASSUME NEW i \in Item, Admit(i) PROVE DiskInv'
  <2>1. Put(i, "admitted") /\ UNCHANGED diskVars /\ item[i].state = "checked"
    BY <1>4 DEF Admit
  <2> QED
    BY <1>1, <2>1, PutMoves, DiskPut
<1>5. ASSUME NEW i \in Item, AdmitCommit(i) PROVE DiskInv'
  BY <1>1, <1>5, DiskCommit
<1>6. ASSUME NEW i \in Item, Rollback(i) PROVE DiskInv'
  BY <1>1, <1>6, DiskRollback
<1>7. ASSUME NEW i \in Item, InitFails(i) PROVE DiskInv'
  <2>1. Put(i, "unreserved") /\ UNCHANGED diskVars /\ item[i].state = "reserved"
    BY <1>7 DEF InitFails
  <2> QED
    BY <1>1, <2>1, PutMoves, DiskPut
<1>8. ASSUME NEW i \in Item, Write(i) PROVE DiskInv'
  BY <1>1, <1>8, DiskWrite
<1>9. ASSUME NEW i \in Item, Complete(i) PROVE DiskInv'
  <2>1. Put(i, "held") /\ UNCHANGED diskVars /\ item[i].state = "reserved"
    BY <1>9 DEF Complete
  <2> QED
    BY <1>1, <2>1, PutMoves, DiskPut
<1>10. ASSUME NEW i \in Item, End(i) PROVE DiskInv'
  <2>1. Put(i, "ended") /\ UNCHANGED diskVars /\ item[i].state = "reserved"
    BY <1>10 DEF End
  <2> QED
    BY <1>1, <2>1, PutMoves, DiskPut
<1>11. ASSUME NEW i \in Item, ExpireFile(i) PROVE DiskInv'
  <2>1. Put(i, "expired") /\ UNCHANGED diskVars /\ item[i].state = "held"
    BY <1>11 DEF ExpireFile
  <2> QED
    BY <1>1, <2>1, PutMoves, DiskPut
<1>12. ASSUME NEW i \in Item, Reclaim(i) PROVE DiskInv'
  BY <1>1, <1>12, DiskReclaim
<1>13. ASSUME NEW i \in Item, Revive(i) PROVE DiskInv'
  <2>1. UNCHANGED diskVars
    BY <1>13 DEF Revive
  <2> QED
    BY <1>1, <1>13, <2>1, ReviveMoves, DiskPut
<1>14. ASSUME NEW i \in Item, NEW o \in Owner, Transfer(i, o) PROVE DiskInv'
  <2>1. UNCHANGED diskVars
    BY <1>14 DEF Transfer
  <2> QED
    BY <1>1, <1>14, <2>1, TransferMoves, DiskPut
<1>15. ASSUME NEW i \in Item, NEW j \in Item, CopyCheck(i, j) PROVE DiskInv'
  <2>1. UNCHANGED diskVars
    BY <1>15 DEF CopyCheck
  <2> QED
    BY <1>1, <1>15, <2>1, CopyMoves, DiskPut
<1>16. ASSUME NEW i \in Item, CopyCommit(i) PROVE DiskInv'
  <2>1. Put(i, "held") /\ UNCHANGED diskVars /\ item[i].state = "copying"
    BY <1>16 DEF CopyCommit
  <2> QED
    BY <1>1, <2>1, PutMoves, DiskPut
<1>17. ASSUME NEW q \in Quotas, SetPlan(q) PROVE DiskInv'
  <2>1. free' = free /\ missed' = missed /\ seen' = seen /\ mark' = mark
    BY <1>17 DEF SetPlan, diskVars
  <2>2. \A i \in Item : /\ item'[i].state = item[i].state /\ item'[i].size = item[i].size
                        /\ item'[i].written = item[i].written
    BY <1>17, PlanMoves
  <2> QED
    BY <1>1, <2>1, <2>2, DiskQuiet
<1>18. ASSUME NEW o \in Owner, NEW q \in Quotas \cup {Unset}, SetOwn(o, q) PROVE DiskInv'
  <2>1. free' = free /\ missed' = missed /\ seen' = seen /\ mark' = mark /\ item' = item
    BY <1>18 DEF SetOwn, diskVars
  <2> QED
    BY <1>1, <2>1, DiskQuiet
<1> QED
  BY <1>2, <1>3, <1>4, <1>5, <1>6, <1>7, <1>8, <1>9, <1>10, <1>11, <1>12, <1>13, <1>14, <1>15,
     <1>16, <1>17, <1>18 DEF AdmissionNext

LEMMA AdmissionInitHolds ==
  ASSUME AdmissionInit
  PROVE  ItemsInv /\ PolicyInv /\ DiskInv
<1>1. item \in [Item -> Items] /\ \A i \in Item : item[i] = NoItem
  BY NoItemIs DEF AdmissionInit
<1>2. ItemsInv
  BY <1>1, NoItemIs DEF ItemsInv
<1>3. PolicyInv
  BY AdmissionConstants DEF PolicyInv, AdmissionInit
<1>4. free = Disk /\ seen = 0 /\ mark = Zero /\ missed = 0
  BY DEF AdmissionInit
<1>5. DiskTypes
  BY <1>4, Sized DEF DiskTypes, Zero
<1>6. Written = Zero
  BY <1>1, NoItemIs DEF Written, Zero
<1>7. Reserved = {}
  BY <1>1, NoItemIs DEF Reserved
<1>8. Units(Item, Zero, Zero) = {} /\ Units({}, Zero, Size) = {}
  <2>1. \A i \in Item : Zero[i] + 1 .. Zero[i] = {}
    BY DEF Zero
  <2>2. ASSUME NEW u \in Units(Item, Zero, Zero) PROVE FALSE
    BY <2>1, UnitIn
  <2>3. Units({}, Zero, Size) = {}
    BY DEF Units
  <2> QED
    BY <2>2, <2>3
<1>9. Between(Item, Zero, Written) = 0 /\ Remaining = 0
  <2>1. Between(Item, Zero, Zero) = 0 /\ Between({}, Zero, Size) = 0
    BY <1>8, BetweenIs, FS_EmptySet
  <2> QED
    BY <1>6, <1>7, <2>1 DEF Remaining
<1>10. DiskInv
  <2>1. \A i \in Item : mark[i] <= item[i].written /\ item[i].state = "free"
    BY <1>1, <1>4, NoItemIs DEF Zero
  <2>2. free + Between(Item, Zero, Written) = Disk /\ free + missed >= Floor + Remaining
    BY <1>4, <1>9, AdmissionConstants
  <2> QED
    BY <1>5, <2>1, <2>2 DEF DiskInv, Advised
<1> QED
  BY <1>2, <1>3, <1>10

AdmissionInv == ItemsInv /\ PolicyInv /\ DiskInv

LEMMA AdmissionInvHolds == AdmissionSpec => []AdmissionInv
<1>1. AdmissionInit => AdmissionInv
  BY AdmissionInitHolds DEF AdmissionInv
<1>2. AdmissionInv /\ [AdmissionNext]_admissionVars => AdmissionInv'
  <2> SUFFICES ASSUME AdmissionInv, [AdmissionNext]_admissionVars PROVE AdmissionInv'
    OBVIOUS
  <2>1. CASE AdmissionNext
    BY <2>1, ItemsNext, DiskNext DEF AdmissionInv
  <2>2. CASE UNCHANGED admissionVars
    <3>1. ItemsInv' /\ PolicyInv'
      BY <2>2 DEF AdmissionInv, ItemsInv, PolicyInv, admissionVars, policyVars
    <3>2. /\ free' = free /\ missed' = missed /\ seen' = seen /\ mark' = mark /\ item' = item
      BY <2>2 DEF admissionVars, diskVars
    <3>3. DiskInv'
      BY <3>1, <3>2, DiskQuiet DEF AdmissionInv
    <3> QED
      BY <3>1, <3>3 DEF AdmissionInv
  <2> QED
    BY <2>1, <2>2
<1> QED
  BY <1>1, <1>2, PTL DEF AdmissionSpec

\* Items, policies and what is counted of the disk have their types at every
\* step of admissions, uploads, copies and transfers (lib.ts:14-31).
THEOREM AdmissionTypeCorrect == AdmissionSpec => []AdmissionTypeOK
<1>1. AdmissionInv => AdmissionTypeOK
  BY DEF AdmissionInv, ItemsInv, PolicyInv, DiskInv, DiskTypes, Items, ItemStates, AdmissionTypeOK
<1> QED
  BY <1>1, AdmissionInvHolds, PTL

\* The disk can take every admitted upload to its end and keep its floor, however
\* many owners upload, but for what was written behind an admission's back
\* (lib.ts:20-23).
THEOREM FloorIsKeptHolds == AdmissionSpec => []FloorIsKept
<1>1. AdmissionInv => FloorIsKept
  BY ReservedIs DEF AdmissionInv, DiskInv, Remaining, FloorIsKept
<1> QED
  BY <1>1, AdmissionInvHolds, PTL

----------------------------------------------------------------------------
(* Admission: the quota.                                                    *)

\* A transaction that holds the users row of the item's owner.
Open == {"admitted", "copying"}

\* Whose bytes count, and which uploads are under way.
CountedItems(o) ==
  {i \in Item : item[i].state \in {"held", "reserved"} /\ item[i].owner = o /\ ~item[i].revived}
Uploads(o) == {i \in Item : item[i].state = "reserved" /\ item[i].owner = o}

\* One transaction at a time has an owner's row, and until it commits there is
\* room for what it has checked.
RoomFor(o, i) ==
  /\ \A j \in Item : item[j].state \in Open /\ item[j].owner = o => j = i
  /\ item[i].raced \/ Counted(o) + item[i].size <= Quota(o)
  /\ item[i].state = "admitted" => Incomplete(o) < UploadLimit

QuotaInv ==
  \A o \in Owner, i \in Item : item[i].state \in Open /\ item[i].owner = o => RoomFor(o, i)

\* What WithinQuota says of a step.
QuotaStep(o) ==
  /\ Counted(o)' > Counted(o) =>
       Counted(o)' <= Quota(o) \/ \E i \in Item : item[i].raced /\ item'[i] # item[i]
  /\ Incomplete(o)' > Incomplete(o) => Incomplete(o)' <= UploadLimit

LEMMA CountedIs ==
  ASSUME NEW o
  PROVE  /\ Counted(o) = Between(CountedItems(o), Zero, Size)
         /\ Incomplete(o) = Cardinality(Uploads(o))
         /\ CountedItems(o) \in SUBSET Item /\ Uploads(o) \in SUBSET Item
<1>1. {i \in Owned(o, {"held", "reserved"}) : ~item[i].revived} = CountedItems(o)
  BY DEF Owned, In, CountedItems
<1>2. Owned(o, {"reserved"}) = Uploads(o)
  BY DEF Owned, In, Uploads
<1> QED
  BY <1>1, <1>2 DEF Counted, Bytes, Incomplete, CountedItems, Uploads

LEMMA CountedType ==
  ASSUME ItemsInv, NEW o
  PROVE  /\ Size \in Counts /\ Zero \in Counts
         /\ Counted(o) \in Nat /\ Incomplete(o) \in Nat /\ IsFiniteSet(Uploads(o))
<1>1. Size \in Counts /\ Zero \in Counts
  BY CountsOf DEF ItemsInv, Size
<1>2. IsFiniteSet(Uploads(o))
  BY CountedIs, AdmissionConstants, FS_Subset
<1> QED
  BY <1>1, <1>2, CountedIs, UnitsFinite, FS_CardinalityType

LEMMA CountedNext ==
  ASSUME ItemsInv', NEW o
  PROVE  /\ Size' \in Counts
         /\ Counted(o)' = Between(CountedItems(o)', Zero, Size') /\ CountedItems(o)' \in SUBSET Item
         /\ Incomplete(o)' = Cardinality(Uploads(o)')
         /\ Counted(o)' \in Nat /\ Incomplete(o)' \in Nat
<1>1. Size' \in Counts /\ Zero \in Counts
  BY CountsOf DEF ItemsInv, Size
<1>2. {i \in Owned(o, {"held", "reserved"})' : ~item'[i].revived} = CountedItems(o)'
  BY DEF Owned, In, CountedItems
<1>3. Owned(o, {"reserved"})' = Uploads(o)'
  BY DEF Owned, In, Uploads
<1>4. CountedItems(o)' \in SUBSET Item /\ Uploads(o)' \in SUBSET Item
  BY DEF CountedItems, Uploads
<1>5. IsFiniteSet(Uploads(o)')
  BY <1>4, AdmissionConstants, FS_Subset
<1>6. Zero' = Zero
  BY DEF Zero
<1>7. /\ Counted(o)' = Between(CountedItems(o)', Zero, Size')
      /\ Incomplete(o)' = Cardinality(Uploads(o)')
  BY <1>2, <1>3, <1>6 DEF Counted, Bytes, Incomplete
<1> QED
  BY <1>1, <1>4, <1>5, <1>7, UnitsFinite, FS_CardinalityType

LEMMA CountedFalls ==
  ASSUME ItemsInv, ItemsInv', NEW o,
         \A i \in CountedItems(o)' : i \in CountedItems(o) /\ item'[i].size = item[i].size
  PROVE  Counted(o)' <= Counted(o)
<1>1. Size \in Counts /\ Size' \in Counts /\ Zero \in Counts
  BY CountedType, CountedNext
<1>2. CountedItems(o) \in SUBSET Item /\ CountedItems(o)' \in SUBSET Item
  BY CountedIs, CountedNext
<1>3. \A i \in CountedItems(o)' :
        i \in CountedItems(o) /\ Zero[i] <= Zero[i] /\ Size'[i] <= Size[i]
  <2>1. \A i \in CountedItems(o)' : /\ Size'[i] = Size[i] /\ Size[i] \in Nat /\ Zero[i] \in Nat
    BY <1>1, <1>2 DEF Size, Counts
  <2> QED
    BY <2>1
<1>4. Between(CountedItems(o)', Zero, Size') <= Between(CountedItems(o), Zero, Size)
  BY <1>1, <1>2, <1>3, BetweenGrows
<1> QED
  BY <1>4, CountedIs, CountedNext

LEMMA CountedRises ==
  ASSUME ItemsInv, ItemsInv', NEW o, NEW i \in Item,
         \A j \in CountedItems(o)' :
           /\ j \in CountedItems(o) \/ j = i
           /\ item'[j].size = item[j].size
  PROVE  Counted(o)' <= Counted(o) + item[i].size
<1> DEFINE S == CountedItems(o)
           more == S \cup {i}
<1>1. Size \in Counts /\ Size' \in Counts /\ Zero \in Counts
  BY CountedType, CountedNext
<1>2. S \in SUBSET Item /\ CountedItems(o)' \in SUBSET Item /\ more \in SUBSET Item
  BY CountedIs, CountedNext
<1>3. \A j \in CountedItems(o)' : j \in more /\ Zero[j] <= Zero[j] /\ Size'[j] <= Size[j]
  <2>1. \A j \in CountedItems(o)' : Size'[j] = Size[j] /\ Size[j] \in Nat /\ Zero[j] \in Nat
    BY <1>1, <1>2 DEF Size, Counts
  <2> QED
    BY <2>1
<1>4. Between(CountedItems(o)', Zero, Size') <= Between(more, Zero, Size)
  <2> HIDE DEF more
  <2> QED
    BY <1>1, <1>2, <1>3, BetweenGrows
<1>5. Size[i] = item[i].size /\ Size[i] \in Nat /\ Zero[i] = 0 /\ Zero[i] <= Size[i]
  BY <1>1 DEF Size, Counts, Zero
<1>6. Between(S, Zero, Size) \in Nat
  BY <1>1, <1>2, UnitsFinite
<1>7. Between(more, Zero, Size) <= Between(S, Zero, Size) + item[i].size
  <2>1. CASE i \in S
    <3>1. Between(more, Zero, Size) = Between(S, Zero, Size)
      <4>1. more = S
        BY <2>1
      <4> QED
        BY <4>1
    <3> HIDE DEF S, more
    <3> QED
      BY <1>5, <1>6, <3>1
  <2>2. CASE i \notin S
    <3> HIDE DEF S
    <3>1. Between(more, Zero, Size) = Between(S, Zero, Size) + (Size[i] - Zero[i])
      BY <1>1, <1>2, <1>5, <2>2, BetweenMore
    <3> QED
      BY <1>5, <1>6, <3>1
  <2> QED
    BY <2>1, <2>2
<1>8. /\ Counted(o)' = Between(CountedItems(o)', Zero, Size') /\ Counted(o)' \in Nat
      /\ Counted(o) = Between(S, Zero, Size)
  BY CountedIs, CountedNext
<1>9. Between(more, Zero, Size) \in Nat
  <2> HIDE DEF more
  <2> QED
    BY <1>1, <1>2, UnitsFinite
<1> HIDE DEF more, S
<1> QED
  BY <1>4, <1>5, <1>6, <1>7, <1>8, <1>9

LEMMA UploadsFall ==
  ASSUME ItemsInv, NEW o, Uploads(o)' \subseteq Uploads(o)
  PROVE  Incomplete(o)' <= Incomplete(o)
<1>1. IsFiniteSet(Uploads(o))
  BY CountedType
<1>2. Cardinality(Uploads(o)') <= Cardinality(Uploads(o))
  BY <1>1, FS_Subset
<1>3. Owned(o, {"reserved"})' = Uploads(o)'
  BY DEF Owned, In, Uploads
<1> QED
  BY <1>2, <1>3, CountedIs DEF Incomplete

LEMMA UploadsRise ==
  ASSUME ItemsInv, ItemsInv', NEW o, NEW i, Uploads(o)' \subseteq Uploads(o) \cup {i}
  PROVE  Incomplete(o)' <= Incomplete(o) + 1
<1>1. IsFiniteSet(Uploads(o)) /\ Incomplete(o) \in Nat /\ Incomplete(o) = Cardinality(Uploads(o))
  BY CountedType, CountedIs
<1> DEFINE S == Uploads(o)
           more == S \cup {i}
<1>2. /\ IsFiniteSet(more) /\ Cardinality(more) \in Nat
      /\ Cardinality(more) = Cardinality(S) \/ Cardinality(more) = Cardinality(S) + 1
  <2>1. IsFiniteSet(S)
    BY <1>1
  <2> HIDE DEF S
  <2> QED
    BY <2>1, FS_AddElement, FS_CardinalityType
<1>3. Cardinality(Uploads(o)') <= Cardinality(more)
  BY <1>2, FS_Subset
<1>4. Incomplete(o)' = Cardinality(Uploads(o)') /\ Incomplete(o)' \in Nat
  BY CountedNext
<1>5. Cardinality(S) = Incomplete(o)
  BY <1>1
<1> HIDE DEF S, more
<1> QED
  BY <1>1, <1>2, <1>3, <1>4, <1>5

\* What is counted is part of what the balances say.
LEMMA CountedIsUsed ==
  ASSUME ItemsInv, NEW o
  PROVE  Counted(o) <= Usage(o) /\ Usage(o) \in Nat
<1> DEFINE H == Owned(o, {"held"})
           R == Owned(o, {"reserved"})
<1>1. Size \in Counts /\ Zero \in Counts
  BY CountedType
<1>2. H \in SUBSET Item /\ R \in SUBSET Item /\ H \cap R = {} /\ H \cup R \in SUBSET Item
  BY DEF Owned, In
<1>3. \A i \in CountedItems(o) : i \in H \cup R
  BY DEF CountedItems, Owned, In
<1> HIDE DEF H, R
<1>4. /\ Between(H \cup R, Zero, Size) = Between(H, Zero, Size) + Between(R, Zero, Size)
      /\ Between(H \cup R, Zero, Size) \in Nat
  BY <1>1, <1>2, BetweenBoth, UnitsFinite
<1>5. CountedItems(o) \in SUBSET Item /\ Counted(o) = Between(CountedItems(o), Zero, Size)
  BY CountedIs
<1>6. \A i \in CountedItems(o) : i \in H \cup R /\ Zero[i] <= Zero[i] /\ Size[i] <= Size[i]
  BY <1>1, <1>3, <1>5 DEF Counts
<1>7. Between(CountedItems(o), Zero, Size) <= Between(H \cup R, Zero, Size)
  BY <1>1, <1>2, <1>5, <1>6, BetweenGrows
<1>8. Usage(o) = Between(H, Zero, Size) + Between(R, Zero, Size)
  BY DEF Usage, Bytes, H, R
<1> QED
  BY <1>4, <1>5, <1>7, <1>8

LEMMA QuotaType ==
  ASSUME PolicyInv, NEW o \in Owner
  PROVE  Quota(o) \in Nat /\ UploadLimit \in Nat
<1>1. Quota(o) \in Quotas
  BY DEF PolicyInv, Quota
<1> QED
  BY <1>1, AdmissionConstants

\* A step that takes no row of a user, and after which nobody has more.
LEMMA QuotaQuiet ==
  ASSUME ItemsInv, ItemsInv', PolicyInv, QuotaInv,
         \A o \in Owner, i \in Item : item'[i].state \in Open /\ item'[i].owner = o =>
           /\ item[i].state \in Open /\ item[i].owner = o
           /\ item'[i].size = item[i].size
           /\ item'[i].state = "admitted" => item[i].state = "admitted"
           /\ \/ item'[i].raced
              \/ ~item[i].raced /\ Quota(o)' = Quota(o),
         \A i \in Item : item'[i].state \in {"held", "reserved"} /\ ~item'[i].revived =>
           /\ item[i].state \in {"held", "reserved"} /\ ~item[i].revived
           /\ item'[i].owner = item[i].owner /\ item'[i].size = item[i].size,
         \A i \in Item : item'[i].state = "reserved" =>
           item[i].state = "reserved" /\ item'[i].owner = item[i].owner
  PROVE  QuotaInv' /\ \A o \in Owner : QuotaStep(o)
<1>1. ASSUME NEW o \in Owner
      PROVE  /\ Counted(o)' <= Counted(o) /\ Incomplete(o)' <= Incomplete(o)
             /\ Counted(o) \in Nat /\ Counted(o)' \in Nat
             /\ Incomplete(o) \in Nat /\ Incomplete(o)' \in Nat
  <2>1. \A i \in CountedItems(o)' : i \in CountedItems(o) /\ item'[i].size = item[i].size
    BY DEF CountedItems
  <2>2. Uploads(o)' \subseteq Uploads(o)
    BY DEF Uploads
  <2> QED
    BY <2>1, <2>2, CountedFalls, UploadsFall, CountedType, CountedNext
<1>2. ASSUME NEW o \in Owner PROVE QuotaStep(o)
  BY <1>1 DEF QuotaStep
<1>3. ASSUME NEW o \in Owner, NEW i \in Item, item'[i].state \in Open, item'[i].owner = o
      PROVE  RoomFor(o, i)'
  <2>1. /\ item[i].state \in Open /\ item[i].owner = o /\ item'[i].size = item[i].size
        /\ item'[i].state = "admitted" => item[i].state = "admitted"
        /\ item'[i].raced \/ (~item[i].raced /\ Quota(o)' = Quota(o))
    BY <1>3
  <2>2. item[i].size \in Nat
    BY ItemFields DEF ItemsInv
  <2>3. RoomFor(o, i)
    BY <2>1 DEF QuotaInv
  <2>4. \A j \in Item : item'[j].state \in Open /\ item'[j].owner = o => j = i
    BY <2>3 DEF RoomFor
  <2>5. /\ Counted(o)' <= Counted(o) /\ Incomplete(o)' <= Incomplete(o)
        /\ Counted(o) \in Nat /\ Counted(o)' \in Nat
        /\ Incomplete(o) \in Nat /\ Incomplete(o)' \in Nat
        /\ Quota(o) \in Nat /\ UploadLimit \in Nat
    BY <1>1, QuotaType
  <2>6. item'[i].raced \/ Counted(o)' + item'[i].size <= Quota(o)'
    BY <2>1, <2>2, <2>3, <2>5 DEF RoomFor
  <2>7. item'[i].state = "admitted" => Incomplete(o)' < UploadLimit
    BY <2>1, <2>3, <2>5 DEF RoomFor
  <2> QED
    BY <2>4, <2>6, <2>7 DEF RoomFor
<1>4. QuotaInv'
  BY <1>3 DEF QuotaInv
<1> QED
  BY <1>2, <1>4

\* An owner whose counted bytes, uploads and quota no step of others moves.
LEMMA RoomStays ==
  ASSUME PolicyInv, NEW o \in Owner, NEW i \in Item, RoomFor(o, i), item'[i] = item[i],
         item[i].size \in Nat, Quota(o)' = Quota(o),
         Counted(o)' <= Counted(o), Incomplete(o)' <= Incomplete(o),
         Counted(o) \in Nat, Counted(o)' \in Nat, Incomplete(o) \in Nat, Incomplete(o)' \in Nat,
         \A j \in Item : item'[j].state \in Open /\ item'[j].owner = o => j = i
  PROVE  RoomFor(o, i)'
<1>1. Quota(o) \in Nat /\ UploadLimit \in Nat
  BY QuotaType
<1>2. item'[i].raced \/ Counted(o)' + item'[i].size <= Quota(o)'
  <2>1. item[i].raced \/ Counted(o) + item[i].size <= Quota(o)
    BY DEF RoomFor
  <2> QED
    BY <1>1, <2>1
<1>3. item'[i].state = "admitted" => Incomplete(o)' < UploadLimit
  <2>1. item[i].state = "admitted" => Incomplete(o) < UploadLimit
    BY DEF RoomFor
  <2> QED
    BY <1>1, <2>1
<1> QED
  BY <1>2, <1>3 DEF RoomFor

\* An admission or a copy has its owner's row, and has read the balances.
LEMMA QuotaOpens ==
  ASSUME ItemsInv, ItemsInv', PolicyInv, QuotaInv, UNCHANGED policyVars,
         NEW i \in Item, NEW o \in Owner, UserFree(o),
         \A j \in Item : j # i => item'[j] = item[j],
         item[i].state \in {"free", "checked"},
         item'[i].state \in Open, item'[i].owner = o,
         Usage(o) + item'[i].size <= Quota(o),
         item'[i].state = "admitted" => Incomplete(o) < UploadLimit
  PROVE  QuotaInv' /\ \A u \in Owner : QuotaStep(u)
<1>1. ASSUME NEW u \in Owner
      PROVE  /\ Counted(u)' <= Counted(u) /\ Incomplete(u)' <= Incomplete(u)
             /\ Counted(u) \in Nat /\ Counted(u)' \in Nat
             /\ Incomplete(u) \in Nat /\ Incomplete(u)' \in Nat
             /\ Quota(u)' = Quota(u) /\ Quota(u) \in Nat /\ UploadLimit \in Nat
  <2>1. \A j \in CountedItems(u)' : j \in CountedItems(u) /\ item'[j].size = item[j].size
    BY DEF CountedItems, Open
  <2>2. Uploads(u)' \subseteq Uploads(u)
    BY DEF Uploads, Open
  <2>3. Quota(u)' = Quota(u)
    BY DEF Quota, policyVars
  <2> QED
    BY <2>1, <2>2, <2>3, CountedFalls, UploadsFall, CountedType, CountedNext, QuotaType
<1>2. ASSUME NEW u \in Owner PROVE QuotaStep(u)
  BY <1>1 DEF QuotaStep
<1>3. \A j \in Item : item[j].state \in Open => item[j].owner # o
  BY DEF UserFree, Owned, In, Open
<1>4. RoomFor(o, i)'
  <2>1. \A k \in Item : item'[k].state \in Open /\ item'[k].owner = o => k = i
    BY <1>3
  <2>2. Counted(o) <= Usage(o) /\ Usage(o) \in Nat /\ item'[i].size \in Nat
    BY CountedIsUsed, ItemFields DEF ItemsInv
  <2>3. Counted(o)' + item'[i].size <= Quota(o)'
    <3> DEFINE n == item'[i].size
               c == Counted(o)'
    <3>1. n \in Nat /\ Usage(o) + n <= Quota(o) /\ c \in Nat /\ c <= Counted(o)
      BY <1>1, <2>2
    <3>2. Quota(o)' = Quota(o) /\ Quota(o) \in Nat /\ Counted(o) \in Nat
      BY <1>1
    <3> HIDE DEF n, c
    <3>3. c + n <= Quota(o)
      BY <2>2, <3>1, <3>2
    <3> QED
      BY <3>2, <3>3 DEF n, c
  <2>4. item'[i].state = "admitted" => Incomplete(o)' < UploadLimit
    BY <1>1
  <2> QED
    BY <2>1, <2>3, <2>4 DEF RoomFor
<1>5. ASSUME NEW u \in Owner, NEW j \in Item, item'[j].state \in Open, item'[j].owner = u, j # i
      PROVE  RoomFor(u, j)'
  <2>1. item'[j] = item[j] /\ RoomFor(u, j) /\ u # o
    BY <1>3, <1>5 DEF QuotaInv
  <2>2. item[j].size \in Nat
    BY ItemFields DEF ItemsInv
  <2>3. \A k \in Item : item'[k].state \in Open /\ item'[k].owner = u => k = j
    BY <2>1 DEF RoomFor
  <2> QED
    BY <1>1, <2>1, <2>2, <2>3, RoomStays
<1>6. QuotaInv'
  BY <1>4, <1>5 DEF QuotaInv
<1> QED
  BY <1>2, <1>6

\* What it has checked still holds when it commits.
LEMMA QuotaCommits ==
  ASSUME ItemsInv, ItemsInv', PolicyInv, QuotaInv, UNCHANGED policyVars,
         NEW i \in Item, NEW o \in Owner, item[i].owner = o,
         \A j \in Item : j # i => item'[j] = item[j],
         item[i].state \in Open, item'[i].state \in {"held", "reserved"},
         item'[i].state = "reserved" => item[i].state = "admitted",
         item'[i].owner = item[i].owner, item'[i].size = item[i].size
  PROVE  QuotaInv' /\ \A u \in Owner : QuotaStep(u)
<1>1. item[i].size \in Nat /\ item'[i] # item[i]
  BY ItemFields DEF ItemsInv, Open
<1>2. RoomFor(o, i)
  BY DEF QuotaInv
<1>3. ASSUME NEW u \in Owner
      PROVE  /\ Counted(u) \in Nat /\ Counted(u)' \in Nat
             /\ Incomplete(u) \in Nat /\ Incomplete(u)' \in Nat
             /\ Quota(u)' = Quota(u) /\ Quota(u) \in Nat /\ UploadLimit \in Nat
  <2>1. Quota(u)' = Quota(u)
    BY DEF Quota, policyVars
  <2> QED
    BY <2>1, CountedType, CountedNext, QuotaType
<1>4. ASSUME NEW u \in Owner, u # o
      PROVE  Counted(u)' <= Counted(u) /\ Incomplete(u)' <= Incomplete(u)
  <2>1. \A j \in CountedItems(u)' : j \in CountedItems(u) /\ item'[j].size = item[j].size
    BY <1>4 DEF CountedItems
  <2>2. Uploads(u)' \subseteq Uploads(u)
    BY <1>4 DEF Uploads
  <2> QED
    BY <2>1, <2>2, CountedFalls, UploadsFall
<1>5. QuotaStep(o)
  <2>1. Counted(o)' <= Counted(o) + item[i].size
    <3>1. \A j \in CountedItems(o)' : (j \in CountedItems(o) \/ j = i) /\ item'[j].size = item[j].size
      BY DEF CountedItems
    <3> QED
      BY <3>1, CountedRises
  <2>2. item[i].raced \/ Counted(o)' <= Quota(o)
    BY <1>1, <1>2, <1>3, <2>1 DEF RoomFor
  <2>3. CASE item'[i].state = "reserved"
    <3>1. Uploads(o)' \subseteq Uploads(o) \cup {i}
      BY DEF Uploads
    <3>2. Incomplete(o)' <= Incomplete(o) + 1
      BY <3>1, UploadsRise
    <3>3. Incomplete(o)' <= UploadLimit
      BY <1>2, <1>3, <2>3, <3>2 DEF RoomFor
    <3> QED
      BY <1>1, <2>2, <3>3 DEF QuotaStep
  <2>4. CASE item'[i].state = "held"
    <3>1. Uploads(o)' \subseteq Uploads(o)
      BY <2>4 DEF Uploads, Open
    <3>2. Incomplete(o)' <= Incomplete(o)
      BY <3>1, UploadsFall
    <3> QED
      BY <1>1, <1>3, <2>2, <3>2 DEF QuotaStep
  <2> QED
    BY <2>3, <2>4
<1>6. ASSUME NEW u \in Owner PROVE QuotaStep(u)
  <2>1. CASE u = o
    BY <1>5, <2>1
  <2>2. CASE u # o
    BY <1>3, <1>4, <2>2 DEF QuotaStep
  <2> QED
    BY <2>1, <2>2
<1>7. ASSUME NEW u \in Owner, NEW j \in Item, item'[j].state \in Open, item'[j].owner = u
      PROVE  RoomFor(u, j)'
  <2>1. j # i /\ item'[j] = item[j]
    BY <1>7 DEF Open
  <2>2. RoomFor(u, j) /\ u # o
    BY <1>2, <1>7, <2>1 DEF QuotaInv, RoomFor
  <2>3. item[j].size \in Nat
    BY ItemFields DEF ItemsInv
  <2>4. \A k \in Item : item'[k].state \in Open /\ item'[k].owner = u => k = j
    BY <2>2 DEF RoomFor, Open
  <2> QED
    BY <1>3, <1>4, <2>1, <2>2, <2>3, <2>4, RoomStays
<1>8. QuotaInv'
  BY <1>7 DEF QuotaInv
<1> QED
  BY <1>6, <1>8

\* A file goes to an owner whose row nobody else holds.
LEMMA QuotaTransfers ==
  ASSUME ItemsInv, ItemsInv', PolicyInv, QuotaInv, NEW i \in Item, NEW o \in Owner, Transfer(i, o)
  PROVE  QuotaInv' /\ \A u \in Owner : QuotaStep(u)
<1>1. /\ UserFree(o) /\ Usage(o) + item[i].size <= Quota(o) /\ UNCHANGED policyVars
  BY DEF Transfer
<1>2. /\ \A j \in Item : j # i => item'[j] = item[j]
      /\ item[i].state \in {"held", "expired"} /\ item'[i].state = item[i].state
      /\ item'[i].owner = o /\ item'[i].size = item[i].size
      /\ item'[i].revived = item[i].revived
  BY TransferMoves
<1>3. ASSUME NEW u \in Owner
      PROVE  /\ Counted(u) \in Nat /\ Counted(u)' \in Nat
             /\ Incomplete(u) \in Nat /\ Incomplete(u)' \in Nat
             /\ Quota(u)' = Quota(u) /\ Quota(u) \in Nat /\ UploadLimit \in Nat
             /\ Incomplete(u)' <= Incomplete(u)
  <2>1. Quota(u)' = Quota(u)
    BY <1>1 DEF Quota, policyVars
  <2>2. Uploads(u)' \subseteq Uploads(u)
    BY <1>2 DEF Uploads
  <2> QED
    BY <2>1, <2>2, UploadsFall, CountedType, CountedNext, QuotaType
<1>4. ASSUME NEW u \in Owner, u # o PROVE Counted(u)' <= Counted(u)
  <2>1. \A j \in CountedItems(u)' : j \in CountedItems(u) /\ item'[j].size = item[j].size
    BY <1>2, <1>4 DEF CountedItems
  <2> QED
    BY <2>1, CountedFalls
<1>5. QuotaStep(o)
  <2>1. Counted(o)' <= Counted(o) + item[i].size
    <3>1. \A j \in CountedItems(o)' : (j \in CountedItems(o) \/ j = i) /\ item'[j].size = item[j].size
      BY <1>2 DEF CountedItems
    <3> QED
      BY <3>1, CountedRises
  <2>2. Counted(o) <= Usage(o) /\ Usage(o) \in Nat /\ item[i].size \in Nat
    BY CountedIsUsed, ItemFields DEF ItemsInv
  <2>3. Counted(o)' <= Quota(o)
    BY <1>1, <1>3, <2>1, <2>2
  <2> QED
    BY <1>3, <2>3 DEF QuotaStep
<1>6. ASSUME NEW u \in Owner PROVE QuotaStep(u)
  <2>1. CASE u = o
    BY <1>5, <2>1
  <2>2. CASE u # o
    BY <1>3, <1>4, <2>2 DEF QuotaStep
  <2> QED
    BY <2>1, <2>2
<1>7. ASSUME NEW u \in Owner, NEW j \in Item, item'[j].state \in Open, item'[j].owner = u
      PROVE  RoomFor(u, j)'
  <2>1. j # i /\ item'[j] = item[j]
    BY <1>2, <1>7 DEF Open
  <2>2. RoomFor(u, j) /\ u # o
    BY <1>1, <1>7, <2>1 DEF QuotaInv, UserFree, Owned, In, Open
  <2>3. item[j].size \in Nat
    BY ItemFields DEF ItemsInv
  <2>4. \A k \in Item : item'[k].state \in Open /\ item'[k].owner = u => k = j
    BY <1>2, <2>2 DEF RoomFor, Open
  <2> QED
    BY <1>3, <1>4, <2>1, <2>2, <2>3, <2>4, RoomStays
<1>8. QuotaInv'
  BY <1>7 DEF QuotaInv
<1> QED
  BY <1>6, <1>8

\* A step of one item, without its owner's row, that adds nothing to what counts.
LEMMA QuotaPut ==
  ASSUME ItemsInv, ItemsInv', PolicyInv, QuotaInv, UNCHANGED policyVars, NEW i \in Item,
         \A j \in Item : j # i => item'[j] = item[j],
         item'[i].state \notin Open,
         item'[i].state \in {"held", "reserved"} /\ ~item'[i].revived =>
           /\ item[i].state \in {"held", "reserved"} /\ ~item[i].revived
           /\ item'[i].owner = item[i].owner /\ item'[i].size = item[i].size,
         item'[i].state = "reserved" =>
           item[i].state = "reserved" /\ item'[i].owner = item[i].owner
  PROVE  QuotaInv' /\ \A o \in Owner : QuotaStep(o)
<1>1. \A o \in Owner : Quota(o)' = Quota(o)
  BY DEF Quota, policyVars
<1>2. \A o \in Owner, j \in Item : item'[j].state \in Open /\ item'[j].owner = o =>
           /\ item[j].state \in Open /\ item[j].owner = o
           /\ item'[j].size = item[j].size
           /\ item'[j].state = "admitted" => item[j].state = "admitted"
           /\ \/ item'[j].raced
              \/ ~item[j].raced /\ Quota(o)' = Quota(o)
  BY <1>1
<1>3. \A j \in Item : item'[j].state \in {"held", "reserved"} /\ ~item'[j].revived =>
           /\ item[j].state \in {"held", "reserved"} /\ ~item[j].revived
           /\ item'[j].owner = item[j].owner /\ item'[j].size = item[j].size
  OBVIOUS
<1>4. \A j \in Item : item'[j].state = "reserved" =>
           item[j].state = "reserved" /\ item'[j].owner = item[j].owner
  OBVIOUS
<1> QED
  BY <1>2, <1>3, <1>4, QuotaQuiet

LEMMA QuotaNext ==
  ASSUME AdmissionInv, QuotaInv, AdmissionNext
  PROVE  QuotaInv' /\ \A o \in Owner : QuotaStep(o)
<1> DEFINE Goal == QuotaInv' /\ \A o \in Owner : QuotaStep(o)
<1>1. ItemsInv /\ ItemsInv' /\ PolicyInv /\ DiskInv
  BY ItemsNext DEF AdmissionInv
<1> HIDE DEF Goal
<1>2. ASSUME UNCHANGED policyVars, NEW i \in Item, NEW state \in ItemStates, Put(i, state),
             state \notin Open,
             state \in {"held", "reserved"} => item[i].state = "reserved"
      PROVE  Goal
  <2>1. /\ \A j \in Item : j # i => item'[j] = item[j]
        /\ item'[i].state = state /\ item'[i].owner = item[i].owner
        /\ item'[i].size = item[i].size /\ item'[i].revived = item[i].revived
    BY <1>1, <1>2, PutMoves
  <2>2. /\ item'[i].state \in {"held", "reserved"} /\ ~item'[i].revived =>
             /\ item[i].state \in {"held", "reserved"} /\ ~item[i].revived
             /\ item'[i].owner = item[i].owner /\ item'[i].size = item[i].size
        /\ item'[i].state = "reserved" =>
             item[i].state = "reserved" /\ item'[i].owner = item[i].owner
        /\ item'[i].state \notin Open
    BY <1>2, <2>1
  <2> QED
    BY <1>1, <1>2, <2>1, <2>2, QuotaPut DEF Goal
<1>3. ASSUME NEW i \in Item, NEW o \in Owner, NEW n \in Sizes, ReserveLock(i, o, n) PROVE Goal
  <2>1. UNCHANGED policyVars
    BY <1>3 DEF ReserveLock
  <2>2. /\ \A j \in Item : j # i => item'[j] = item[j]
        /\ item'[i].state = "locked"
    BY <1>1, <1>3, LockMoves
  <2> QED
    BY <1>1, <2>1, <2>2, QuotaPut DEF Goal, Open
<1>4. ASSUME NEW i \in Item, DiskCheck(i) PROVE Goal
  <2>1. Put(i, "checked") /\ UNCHANGED policyVars
    BY <1>4 DEF DiskCheck
  <2> QED
    BY <1>2, <2>1 DEF ItemStates, Open
<1>5. ASSUME NEW i \in Item, Admit(i) PROVE Goal
  <2>1. PICK o \in Owner : o = item[i].owner
    BY <1>1, <1>5 DEF Admit, ItemsInv
  <2>2. /\ item[i].state = "checked" /\ Put(i, "admitted") /\ UNCHANGED policyVars
        /\ UserFree(o) /\ Usage(o) + item[i].size <= Quota(o) /\ Incomplete(o) < UploadLimit
    BY <1>5, <2>1 DEF Admit, Incomplete
  <2>3. /\ \A j \in Item : j # i => item'[j] = item[j]
        /\ item'[i].state = "admitted" /\ item'[i].owner = o /\ item'[i].size = item[i].size
    BY <1>1, <2>1, <2>2, PutMoves DEF ItemStates
  <2>4. item'[i].state \in Open /\ Usage(o) + item'[i].size <= Quota(o)
    BY <2>2, <2>3 DEF Open
  <2> QED
    BY <1>1, <2>2, <2>3, <2>4, QuotaOpens DEF Goal
<1>6. ASSUME NEW i \in Item, NEW to \in {"held", "reserved"}, Put(i, to), UNCHANGED policyVars,
             item[i].state \in Open, to = "reserved" => item[i].state = "admitted"
      PROVE  Goal
  <2>1. PICK o \in Owner : o = item[i].owner
    BY <1>1, <1>6 DEF Open, ItemsInv
  <2>2. /\ \A j \in Item : j # i => item'[j] = item[j]
        /\ item'[i].state = to /\ item'[i].owner = item[i].owner /\ item'[i].size = item[i].size
    BY <1>1, <1>6, PutMoves DEF ItemStates
  <2> QED
    BY <1>1, <1>6, <2>1, <2>2, QuotaCommits DEF Goal
<1>7. ASSUME NEW i \in Item, AdmitCommit(i) PROVE Goal
  <2>1. Put(i, "reserved") /\ UNCHANGED policyVars /\ item[i].state = "admitted"
    BY <1>7 DEF AdmitCommit
  <2> QED
    BY <1>6, <2>1 DEF Open
<1>8. ASSUME NEW i \in Item, Rollback(i) PROVE Goal
  <2>1. UNCHANGED policyVars
    BY <1>8 DEF Rollback
  <2>2. /\ \A j \in Item : j # i => item'[j] = item[j]
        /\ item'[i].state = "free"
    BY <1>1, <1>8, RollbackMoves
  <2> QED
    BY <1>1, <2>1, <2>2, QuotaPut DEF Goal, Open
<1>9. ASSUME NEW i \in Item, InitFails(i) PROVE Goal
  <2>1. Put(i, "unreserved") /\ UNCHANGED policyVars
    BY <1>9 DEF InitFails
  <2> QED
    BY <1>2, <2>1 DEF ItemStates, Open
<1>10. ASSUME NEW i \in Item, Write(i) PROVE Goal
  <2>1. UNCHANGED policyVars /\ item[i].state = "reserved"
    BY <1>10 DEF Write
  <2>2. /\ \A j \in Item : j # i => item'[j] = item[j]
        /\ item'[i].state = item[i].state /\ item'[i].owner = item[i].owner
        /\ item'[i].size = item[i].size /\ item'[i].revived = item[i].revived
    BY <1>1, <1>10, RoomOnDisk, WriteMoves DEF DiskInv, DiskTypes
  <2> QED
    BY <1>1, <2>1, <2>2, QuotaPut DEF Goal, Open
<1>11. ASSUME NEW i \in Item, Complete(i) PROVE Goal
  <2>1. Put(i, "held") /\ UNCHANGED policyVars /\ item[i].state = "reserved"
    BY <1>11 DEF Complete
  <2> QED
    BY <1>2, <2>1 DEF ItemStates, Open
<1>12. ASSUME NEW i \in Item, End(i) PROVE Goal
  <2>1. Put(i, "ended") /\ UNCHANGED policyVars
    BY <1>12 DEF End
  <2> QED
    BY <1>2, <2>1 DEF ItemStates, Open
<1>13. ASSUME NEW i \in Item, ExpireFile(i) PROVE Goal
  <2>1. Put(i, "expired") /\ UNCHANGED policyVars
    BY <1>13 DEF ExpireFile
  <2> QED
    BY <1>2, <2>1 DEF ItemStates, Open
<1>14. ASSUME NEW i \in Item, Reclaim(i) PROVE Goal
  <2>1. UNCHANGED policyVars
    BY <1>14 DEF Reclaim
  <2>2. /\ \A j \in Item : j # i => item'[j] = item[j]
        /\ item'[i].state = "ended"
    BY <1>1, <1>14, ReclaimMoves
  <2> QED
    BY <1>1, <2>1, <2>2, QuotaPut DEF Goal, Open
<1>15. ASSUME NEW i \in Item, Revive(i) PROVE Goal
  <2>1. UNCHANGED policyVars
    BY <1>15 DEF Revive
  <2>2. /\ \A j \in Item : j # i => item'[j] = item[j]
        /\ item'[i].state = "held" /\ item'[i].revived
    BY <1>1, <1>15, ReviveMoves
  <2> QED
    BY <1>1, <2>1, <2>2, QuotaPut DEF Goal, Open
<1>16. ASSUME NEW i \in Item, NEW o \in Owner, Transfer(i, o) PROVE Goal
  BY <1>1, <1>16, QuotaTransfers DEF Goal
<1>17. ASSUME NEW i \in Item, NEW j \in Item, CopyCheck(i, j) PROVE Goal
  <2>1. PICK o \in Owner : o = item[j].owner
    BY <1>1, <1>17, CopyMoves
  <2>2. /\ UNCHANGED policyVars /\ UserFree(o) /\ Usage(o) + item[j].size <= Quota(o)
    BY <1>17, <2>1 DEF CopyCheck
  <2>3. /\ \A k \in Item : k # i => item'[k] = item[k]
        /\ item[i].state = "free" /\ item'[i].state = "copying"
        /\ item'[i].owner = o /\ item'[i].size = item[j].size
    BY <1>1, <1>17, <2>1, CopyMoves
  <2>4. item'[i].state \in Open /\ Usage(o) + item'[i].size <= Quota(o)
    BY <2>2, <2>3 DEF Open
  <2> QED
    BY <1>1, <2>2, <2>3, <2>4, QuotaOpens DEF Goal
<1>18. ASSUME NEW i \in Item, CopyCommit(i) PROVE Goal
  <2>1. Put(i, "held") /\ UNCHANGED policyVars /\ item[i].state = "copying"
    BY <1>18 DEF CopyCommit
  <2> QED
    BY <1>6, <2>1 DEF Open
<1>19. ASSUME NEW q \in Quotas, SetPlan(q) PROVE Goal
  <2>1. \A i \in Item :
          /\ item'[i].state = item[i].state /\ item'[i].owner = item[i].owner
          /\ item'[i].size = item[i].size /\ item'[i].revived = item[i].revived
          /\ item[i].raced => item'[i].raced
          /\ item[i].state \in Open /\ own[item[i].owner] = Unset => item'[i].raced
    BY <1>1, <1>19, PlanMoves DEF Open
  <2>2. \A o \in Owner : own[o] # Unset => Quota(o)' = Quota(o)
    BY <1>19 DEF SetPlan, Quota
  <2>3. \A o \in Owner, i \in Item : item'[i].state \in Open /\ item'[i].owner = o =>
           /\ item[i].state \in Open /\ item[i].owner = o
           /\ item'[i].size = item[i].size
           /\ item'[i].state = "admitted" => item[i].state = "admitted"
           /\ \/ item'[i].raced
              \/ ~item[i].raced /\ Quota(o)' = Quota(o)
    BY <2>1, <2>2
  <2> QED
    BY <1>1, <2>1, <2>3, QuotaQuiet DEF Goal
<1>20. ASSUME NEW u \in Owner, NEW q \in Quotas \cup {Unset}, SetOwn(u, q) PROVE Goal
  <2>1. item' = item /\ plan' = plan /\ own' = [own EXCEPT ![u] = q] /\ UserFree(u)
    BY <1>20 DEF SetOwn
  <2>2. \A o \in Owner : o # u => Quota(o)' = Quota(o)
    BY <1>1, <2>1 DEF Quota, PolicyInv
  <2>3. \A o \in Owner, i \in Item : item'[i].state \in Open /\ item'[i].owner = o => o # u
    BY <2>1 DEF UserFree, Owned, In, Open
  <2>4. \A o \in Owner, i \in Item : item'[i].state \in Open /\ item'[i].owner = o =>
           /\ item[i].state \in Open /\ item[i].owner = o
           /\ item'[i].size = item[i].size
           /\ item'[i].state = "admitted" => item[i].state = "admitted"
           /\ \/ item'[i].raced
              \/ ~item[i].raced /\ Quota(o)' = Quota(o)
    BY <2>1, <2>2, <2>3
  <2> QED
    BY <1>1, <2>1, <2>4, QuotaQuiet DEF Goal
<1> QED
  BY <1>3, <1>4, <1>5, <1>7, <1>8, <1>9, <1>10, <1>11, <1>12, <1>13, <1>14, <1>15, <1>16,
     <1>17, <1>18, <1>19, <1>20 DEF AdmissionNext, Goal

\* Whenever what an owner holds and has reserved grows, it is within the quota in
\* force, and the number of uploads within its limit, however admissions, copies,
\* transfers and changes of quotas of any number of owners meet
\* (lib.ts:25-29, files.ts:54, files.ts:73, admin.ts:65).
THEOREM WithinQuotaHolds == AdmissionSpec => WithinQuota
<1>1. AdmissionInit => QuotaInv
  BY NoItemIs DEF AdmissionInit, QuotaInv, Open
<1>2. AdmissionInv /\ QuotaInv /\ [AdmissionNext]_admissionVars => QuotaInv'
  <2> SUFFICES ASSUME AdmissionInv, QuotaInv, [AdmissionNext]_admissionVars PROVE QuotaInv'
    OBVIOUS
  <2>1. CASE AdmissionNext
    BY <2>1, QuotaNext
  <2>2. CASE UNCHANGED admissionVars
    <3>1. item' = item /\ UNCHANGED policyVars
      BY <2>2 DEF admissionVars
    <3>2. ItemsInv /\ ItemsInv' /\ PolicyInv
      BY <3>1 DEF AdmissionInv, ItemsInv
    <3>3. \A o \in Owner : Quota(o)' = Quota(o)
      BY <3>1 DEF Quota, policyVars
    <3>4. \A o \in Owner, i \in Item : item'[i].state \in Open /\ item'[i].owner = o =>
             /\ item[i].state \in Open /\ item[i].owner = o
             /\ item'[i].size = item[i].size
             /\ item'[i].state = "admitted" => item[i].state = "admitted"
             /\ \/ item'[i].raced
                \/ ~item[i].raced /\ Quota(o)' = Quota(o)
      BY <3>1, <3>3
    <3> QED
      BY <3>1, <3>2, <3>4, QuotaQuiet
  <2> QED
    BY <2>1, <2>2
<1>3. AdmissionInv /\ QuotaInv /\ [AdmissionNext]_admissionVars =>
        [\A o \in Owner :
           /\ Counted(o)' > Counted(o) =>
                Counted(o)' <= Quota(o) \/ \E i \in Item : item[i].raced /\ item'[i] # item[i]
           /\ Incomplete(o)' > Incomplete(o) => Incomplete(o)' <= UploadLimit]_admissionVars
  BY QuotaNext DEF QuotaStep
<1> QED
  BY <1>1, <1>2, <1>3, AdmissionInvHolds, PTL DEF AdmissionSpec, WithinQuota

=============================================================================
