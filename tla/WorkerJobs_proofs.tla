-------------------------- MODULE WorkerJobs_proofs --------------------------
(***************************************************************************)
(* The lease of the worker, for any number of processes and jobs: at most  *)
(* one process that has not lost its leader connection is at work.  The    *)
(* backup file, for a dump of any length.  The queue and its order.        *)
(***************************************************************************)
EXTENDS WorkerJobs, SequenceTheorems, FiniteSetTheorems, TLAPS

Procs == [at : {"down", "locked", "idle", "alive", "busy", "dumped", "broken"},
          job : Job \cup {None}, stopping : BOOLEAN]

LeaseInv ==
  /\ proc \in [Worker -> Procs]
  /\ lease \in Worker \cup {None}
  /\ AtWorkHoldsLease

LEMMA LeaseInit == Init => LeaseInv
BY DEF Init, LeaseInv, Procs, Down, AtWorkHoldsLease

\* A process that goes on keeps what it has of the lease.
LEMMA ProcessGoesOn ==
  ASSUME LeaseInv, NEW w \in Worker, NEW new \in Procs,
         proc[w].at # "down" \/ new.at = "down",
         proc' = [proc EXCEPT ![w] = new], lease' = lease, cut' = cut
  PROVE  LeaseInv'
<1>1. \A v \in Worker : v # w => proc'[v] = proc[v]
  BY DEF LeaseInv
<1>2. proc'[w] = new /\ proc' \in [Worker -> Procs]
  BY DEF LeaseInv
<1> QED
  BY <1>1, <1>2 DEF LeaseInv, AtWorkHoldsLease

\* One that ends gives back the lease if it has it.
LEMMA ProcessEnds ==
  ASSUME LeaseInv, NEW w \in Worker,
         proc' = [proc EXCEPT ![w] = Down], Release(w), cut' = cut \ {w}
  PROVE  LeaseInv'
<1>1. Down \in Procs /\ Down.at = "down"
  BY DEF Down, Procs
<1>2. proc' \in [Worker -> Procs] /\ proc'[w] = Down
      /\ \A v \in Worker : v # w => proc'[v] = proc[v]
  BY <1>1 DEF LeaseInv
<1> QED
  BY <1>1, <1>2 DEF LeaseInv, AtWorkHoldsLease, Release

LEMMA GotoType ==
  ASSUME LeaseInv, NEW w \in Worker, NEW at \in {"locked", "idle", "alive", "busy", "dumped", "broken"},
         Goto(w, at)
  PROVE  \E new \in Procs : new.at = at /\ proc' = [proc EXCEPT ![w] = new]
<1> DEFINE old == proc[w]
           new == [old EXCEPT !.at = at]
<1>1. old \in Procs
  BY DEF LeaseInv
<1>2. proc' = [proc EXCEPT ![w] = new]
  BY DEF Goto
<1> HIDE DEF old
<1>3. new \in Procs /\ new.at = at
  BY <1>1 DEF Procs
<1> QED
  BY <1>2, <1>3

LEMMA LeaseNext == LeaseInv /\ [Next]_vars => LeaseInv'
<1> SUFFICES ASSUME LeaseInv, [Next]_vars PROVE LeaseInv'
  OBVIOUS
<1> USE DEF queueVars, ghosts
<1>0. proc \in [Worker -> Procs]
  BY DEF LeaseInv
<1>1. ASSUME UNCHANGED <<proc, lease, cut>> PROVE LeaseInv'
  BY <1>1 DEF LeaseInv, AtWorkHoldsLease
<1>2. ASSUME NEW w \in Worker, Start(w) PROVE LeaseInv'
  <2>1. PICK new \in Procs : new.at = "locked" /\ proc' = [proc EXCEPT ![w] = new]
    BY <1>2, GotoType DEF Start
  <2>2. proc' \in [Worker -> Procs] /\ \A v \in Worker : v # w => proc'[v] = proc[v]
    BY <1>0, <2>1
  <2>3. lease = None /\ lease' = w /\ cut' = cut /\ None \notin Worker
    BY <1>2, WorkerConstants DEF Start
  <2> QED
    BY <2>2, <2>3 DEF LeaseInv, AtWorkHoldsLease
<1>3. ASSUME NEW w \in Worker,
             \/ TakeOver(w) \/ NoJob(w) \/ \E jobs \in SUBSET Scheduled : Schedule(w, jobs)
             \/ \E j \in Job : ClaimLost(w, j)
             \/ \E n \in 0..Chunks, ok \in BOOLEAN : DumpEnds(w, n, ok)
             \/ \E n \in 0..Chunks : WriteFails(w, n)
      PROVE  LeaseInv'
  <2>1. PICK at \in {"idle", "alive", "dumped", "broken"} : Goto(w, at)
    BY <1>3 DEF TakeOver, NoJob, Schedule, ClaimLost, DumpEnds, WriteFails
  <2>2. proc[w].at # "down" /\ lease' = lease /\ cut' = cut
    BY <1>3 DEF TakeOver, NoJob, Schedule, ClaimLost, DumpEnds, WriteFails
  <2> QED
    BY <2>1, <2>2, GotoType, ProcessGoesOn
<1>4. ASSUME NEW w \in Worker, NEW j \in Job, Claim(w, j) PROVE LeaseInv'
  <2> DEFINE old == proc[w]
             new == [old EXCEPT !.at = "busy", !.job = j]
  <2>1. proc' = [proc EXCEPT ![w] = new] /\ lease' = lease /\ cut' = cut /\ old.at # "down"
    BY <1>4 DEF Claim
  <2>2. old \in Procs
    BY <1>0
  <2> HIDE DEF old
  <2>3. new \in Procs
    BY <2>2 DEF Procs
  <2> QED
    BY <2>1, <2>3, ProcessGoesOn DEF old
<1>5. ASSUME NEW w \in Worker, NEW ok \in BOOLEAN, Finish(w, ok) PROVE LeaseInv'
  <2> DEFINE old == proc[w]
             new == [old EXCEPT !.at = "idle", !.job = None]
  <2>1. proc' = [proc EXCEPT ![w] = new] /\ lease' = lease /\ cut' = cut /\ old.at # "down"
    BY <1>5 DEF Finish, Rest
  <2>2. old \in Procs
    BY <1>0
  <2> HIDE DEF old
  <2>3. new \in Procs
    BY <2>2 DEF Procs
  <2> QED
    BY <2>1, <2>3, ProcessGoesOn DEF old
<1>6. ASSUME NEW w \in Worker, Terminate(w) \/ Notice(w) PROVE LeaseInv'
  <2> DEFINE old == proc[w]
             yes == TRUE
             new == [old EXCEPT !.stopping = yes]
  <2>1. proc' = [proc EXCEPT ![w] = new] /\ lease' = lease /\ cut' = cut /\ old.at # "down"
    BY <1>6 DEF Terminate, Notice, Signalled
  <2>2. old \in Procs /\ yes \in BOOLEAN
    BY <1>0
  <2> HIDE DEF old, yes
  <2>3. new \in Procs
    BY <2>2 DEF Procs
  <2> QED
    BY <2>1, <2>3, ProcessGoesOn DEF old
<1>7. ASSUME NEW w \in Worker, Exit(w) \/ Crash(w) PROVE LeaseInv'
  BY <1>7, ProcessEnds DEF Exit, Crash
<1>8. ASSUME NEW w \in Worker, Disconnect(w) PROVE LeaseInv'
  BY <1>8 DEF Disconnect, LeaseInv, AtWorkHoldsLease
<1>9. ASSUME NEW j \in Job, Request(j) \/ Retry(j) PROVE LeaseInv'
  BY <1>1, <1>9 DEF Request, Retry
<1>10. CASE ScriptBackup
  BY <1>1, <1>10 DEF ScriptBackup
<1>11. CASE UNCHANGED vars
  BY <1>1, <1>11 DEF vars
<1> QED
  BY <1>2, <1>3, <1>4, <1>5, <1>6, <1>7, <1>8, <1>9, <1>10, <1>11 DEF Next, Turn

\* Whatever is signalled, dies or is started again, a process at work that has
\* not lost its leader connection holds the lease.
THEOREM AtWorkHoldsLeaseHolds == Spec => []AtWorkHoldsLease
<1>1. LeaseInv => AtWorkHoldsLease
  BY DEF LeaseInv
<1> QED
  BY <1>1, LeaseInit, LeaseNext, PTL DEF Spec

\* So two processes at work at once are two of which one has lost it.
COROLLARY OneAtWork ==
  Spec => [](\A v, w \in Worker :
               proc[v].at # "down" /\ proc[w].at # "down" /\ v \notin cut /\ w \notin cut => v = w)
<1>1. AtWorkHoldsLease =>
        \A v, w \in Worker :
          proc[v].at # "down" /\ proc[w].at # "down" /\ v \notin cut /\ w \notin cut => v = w
  BY DEF AtWorkHoldsLease
<1> QED
  BY <1>1, AtWorkHoldsLeaseHolds, PTL

----------------------------------------------------------------------------
(* The backup file: of an intact beginning, or of a whole file, nothing     *)
(* that happens to it makes another file that is accepted.                  *)

Frame == [header : Nat, number : Nat, data : Nat]

Files ==
  [by : Worker \cup {None}, header : {1}, frames : Seq(Frame),
   dumped : 0..Chunks, created : BOOLEAN]

\* The frames of a file of n chunks.
Piece(n) ==
  {[header |-> 1, number |-> i, data |-> i] : i \in 1..n}
    \cup {[header |-> 1, number |-> n + 1, data |-> End]}

\* Every frame of s that bears the file's header is one of the file's frames.
MadeOf(s, n) ==
  /\ s \in Seq(Frame)
  /\ \A i \in 1..Len(s) : s[i].header = 1 => s[i] \in Piece(n)

LEMMA FramesMadeOf ==
  ASSUME NEW n \in Nat
  PROVE  /\ MadeOf(Frames(1, n), n)
         /\ Len(Frames(1, n)) = n
<1> DEFINE s == Frames(1, n)
<1>1. s \in [1..n -> Frame] /\ \A i \in 1..n : s[i] \in Piece(n)
  BY DEF Frames, Frame, Piece
<1>2. s \in Seq(Frame)
  BY <1>1, SeqDef
<1>3. DOMAIN s = 1..n /\ DOMAIN s = 1..Len(s) /\ Len(s) \in Nat
  BY <1>1, <1>2, LenProperties
<1> HIDE DEF s
<1>4. Len(s) = n
  BY <1>3
<1> QED
  BY <1>1, <1>2, <1>4 DEF MadeOf, s

LEMMA SealedMadeOf ==
  ASSUME NEW n \in Nat
  PROVE  MadeOf(Sealed(1, n), n)
<1> DEFINE s == Frames(1, n)
           last == [header |-> 1, number |-> n + 1, data |-> End]
           t == Append(s, last)
<1>1. s \in Seq(Frame) /\ Len(s) = n /\ \A i \in 1..n : s[i].header = 1 => s[i] \in Piece(n)
  BY FramesMadeOf DEF MadeOf
<1>2. last \in Frame /\ last \in Piece(n)
  BY DEF Frame, Piece, End
<1>3. t = Sealed(1, n)
  BY DEF Sealed
<1> HIDE DEF s, last
<1>4. /\ t \in Seq(Frame)
      /\ Len(t) = n + 1
      /\ \A i \in 1..n : t[i] = s[i]
      /\ t[n + 1] = last
  BY <1>1, <1>2, AppendProperties
<1> HIDE DEF t
<1>5. \A i \in 1..Len(t) : t[i].header = 1 => t[i] \in Piece(n)
  <2> SUFFICES ASSUME NEW i \in 1..Len(t), t[i].header = 1 PROVE t[i] \in Piece(n)
    OBVIOUS
  <2>1. i \in 1..n \/ i = n + 1
    BY <1>4
  <2> QED
    BY <2>1, <1>1, <1>2, <1>4
<1> QED
  BY <1>3, <1>4, <1>5 DEF MadeOf

LEMMA SealedAccepted ==
  ASSUME NEW f, NEW n \in Nat, f.header = 1, f.frames = Sealed(1, n)
  PROVE  Accepted(f)
<1> DEFINE s == Frames(1, n)
           last == [header |-> 1, number |-> n + 1, data |-> End]
           t == Append(s, last)
<1>1. s \in Seq(Frame) /\ Len(s) = n /\ last \in Frame
  BY FramesMadeOf DEF MadeOf, Frame, End
<1>2. \A i \in 1..n : s[i].header = 1 /\ s[i].number = i /\ s[i].data # End
  BY DEF Frames, End
<1>3. t = f.frames /\ last.header = 1 /\ last.number = n + 1 /\ last.data = End
  BY DEF Sealed
<1> HIDE DEF s, last
<1>4. /\ t # <<>> /\ Len(t) = n + 1
      /\ \A i \in 1..n : t[i] = s[i]
      /\ t[n + 1] = last
  BY <1>1, AppendProperties
<1> HIDE DEF t
<1>5. \A i \in 1..(n + 1) : i \in 1..n \/ i = n + 1
  OBVIOUS
<1>6. \A i \in 1..(n + 1) : t[i].header = 1 /\ t[i].number = i /\ (i < n + 1 => t[i].data # End)
  BY <1>2, <1>3, <1>4, <1>5
<1> QED
  BY <1>3, <1>4, <1>6 DEF Accepted, Ends, Last, Opens

\* The frames of another file bear another header.
LEMMA OtherFile ==
  ASSUME NEW m \in Nat, NEW n \in Nat
  PROVE  MadeOf(Sealed(2, m), n)
<1> DEFINE s == Frames(2, m)
           last == [header |-> 2, number |-> m + 1, data |-> End]
           t == Append(s, last)
<1>1. s \in [1..m -> Frame] /\ \A i \in 1..m : s[i].header = 2
  BY DEF Frames, Frame
<1>2. s \in Seq(Frame)
  BY <1>1, SeqDef
<1>3. DOMAIN s = 1..m /\ DOMAIN s = 1..Len(s) /\ Len(s) \in Nat
  BY <1>1, <1>2, LenProperties
<1>4. last \in Frame /\ last.header = 2
  BY DEF Frame, End
<1>5. t = Sealed(2, m)
  BY DEF Sealed
<1> HIDE DEF s, last
<1>6. Len(s) = m
  BY <1>3
<1>7. /\ t \in Seq(Frame)
      /\ Len(t) = m + 1
      /\ \A i \in 1..m : t[i] = s[i]
      /\ t[m + 1] = last
  BY <1>2, <1>4, <1>6, AppendProperties
<1> HIDE DEF t
<1>8. \A i \in 1..Len(t) : i \in 1..m \/ i = m + 1
  BY <1>7
<1>9. \A i \in 1..Len(t) : t[i].header = 2
  BY <1>1, <1>4, <1>7, <1>8
<1> QED
  BY <1>5, <1>7, <1>9 DEF MadeOf

\* Frames taken from a sequence made of the file's frames make another.
LEMMA TakenFrom ==
  ASSUME NEW n \in Nat, NEW s, MadeOf(s, n), NEW g \in Seq(Frame),
         \A i \in 1..Len(g) : \E k \in 1..Len(s) : g[i] = s[k]
  PROVE  MadeOf(g, n)
BY DEF MadeOf

\* What is accepted of such frames are all of them, in their order.
LEMMA AcceptedIsWhole ==
  ASSUME NEW n \in Nat, NEW f, f.header = 1, MadeOf(f.frames, n), Accepted(f)
  PROVE  Restored(f) = [i \in 1..n |-> i]
<1> DEFINE g == f.frames
           L == Len(g)
<1>1. g \in Seq(Frame) /\ L \in Nat /\ \A i \in 1..L : g[i].header = 1 => g[i] \in Piece(n)
  BY LenProperties DEF MadeOf
<1>2. g # <<>> /\ g[L].data = End
  BY DEF Accepted, Ends, Last
<1>3. L > 0
  BY <1>1, <1>2, EmptySeq
<1>4. \A i \in 1..L : /\ g[i].header = 1 /\ g[i].number = i
                      /\ i < L => g[i].data # End
  BY DEF Accepted, Opens
<1> HIDE DEF g, L
<1>5. \A i \in 1..L : g[i] \in Piece(n)
  BY <1>1, <1>4
<1>6. \A x \in Piece(n) : \/ x.number \in 1..n /\ x.data = x.number
                          \/ x.number = n + 1 /\ x.data = End
  BY DEF Piece
<1>7. \A i \in 1..L : \/ i \in 1..n /\ g[i].data = i
                      \/ i = n + 1 /\ g[i].data = End
  BY <1>4, <1>5, <1>6
<1>8. L = n + 1
  <2>1. L \in 1..L
    BY <1>1, <1>3
  <2>2. L \in 1..n => g[L].data # End
    BY <1>2, <1>7, <2>1 DEF End
  <2> QED
    BY <1>2, <1>7, <2>1, <2>2
<1>9. \A i \in 1..n : g[i].data = i /\ g[i].data # End
  BY <1>4, <1>7, <1>8
<1> DEFINE Whole == {i \in 1..L : \A k \in 1..i : g[k].data # End}
<1>10. Whole = 1..n
  <2>1. ASSUME NEW i \in 1..n PROVE i \in Whole
    <3>1. \A k \in 1..i : k \in 1..n
      OBVIOUS
    <3> QED
      BY <1>8, <1>9, <3>1
  <2>2. ASSUME NEW i \in Whole PROVE i \in 1..n
    <3>1. i \in 1..(n + 1) /\ (i = n + 1 => g[n + 1].data # End)
      BY <1>8
    <3>2. i # n + 1
      BY <1>2, <1>8, <3>1
    <3> QED
      BY <3>1, <3>2
  <2> QED
    BY <2>1, <2>2
<1>11. Restored(f) = [i \in Whole |-> g[i].data]
  BY DEF Restored, g, L
<1> HIDE DEF Whole
<1> QED
  BY <1>9, <1>10, <1>11

\* Whatever becomes of a file is made of its frames.
LEMMA DamagedMadeOf ==
  ASSUME NEW n \in Nat, NEW h \in Files, MadeOf(h.frames, n), NEW f \in Damaged(h)
  PROVE  f.header = 1 /\ MadeOf(f.frames, n)
<1> DEFINE s == h.frames
           with(frames) == [h EXCEPT !.frames = frames]
<1>1. s \in Seq(Frame) /\ Len(s) \in Nat /\ MadeOf(s, n)
  BY LenProperties DEF MadeOf
<1>2. \A i \in 1..Len(s) : s[i] \in Frame
  BY <1>1, ElementOfSeq
<1>3. \E g : f = with(g) /\ MadeOf(g, n)
  <2>1. \/ \E k \in 0..Len(s) : f = with(SubSeq(s, 1, k))
        \/ \E k \in 1..Len(s) : f = with(RemoveAt(s, k))
        \/ \E j, k \in 1..Len(s) : f = with([s EXCEPT ![j] = s[k], ![k] = s[j]])
        \/ f = with(s \o s)
        \/ \E m \in 0..1 : f = with(s \o Sealed(2, m))
    <3>1. h.header + 1 = 2
      BY DEF Files
    <3>2. Damaged(h) =
             {with(SubSeq(s, 1, k)) : k \in 0..Len(s)}
               \cup {with(RemoveAt(s, k)) : k \in 1..Len(s)}
               \cup {with([s EXCEPT ![j] = s[k], ![k] = s[j]]) : j, k \in 1..Len(s)}
               \cup {with(s \o s)}
               \cup {with(s \o Sealed(h.header + 1, m)) : m \in 0..1}
      BY DEF Damaged
    <3>3. f \in Damaged(h)
      OBVIOUS
    <3> HIDE DEF with, s
    <3> QED
      BY <3>1, <3>2, <3>3
  <2> HIDE DEF s, with
  <2>2. ASSUME NEW a \in Int, NEW b \in Int, \A i \in a..b : i \in 1..Len(s)
        PROVE  MadeOf(SubSeq(s, a, b), n)
    <3> DEFINE u == SubSeq(s, a, b)
    <3>1. \A i \in a..b : s[i] \in Frame
      BY <1>2, <2>2
    <3>2. /\ u \in Seq(Frame)
          /\ Len(u) = IF a <= b THEN b - a + 1 ELSE 0
          /\ \A i \in 1..(b - a + 1) : u[i] = s[a + i - 1]
      BY <3>1, SubSeqProperties
    <3> HIDE DEF u
    <3>3. \A i \in 1..Len(u) : i \in 1..(b - a + 1) /\ a + i - 1 \in a..b
      BY <3>2
    <3>4. \A i \in 1..Len(u) : \E k \in 1..Len(s) : u[i] = s[k]
      BY <2>2, <3>2, <3>3
    <3>5. MadeOf(u, n)
      BY <1>1, <3>2, <3>4, TakenFrom
    <3> QED
      BY <3>5 DEF u
  <2>3. ASSUME NEW t, NEW u, MadeOf(t, n), MadeOf(u, n)
        PROVE  MadeOf(t \o u, n)
    <3> DEFINE v == t \o u
    <3>1. t \in Seq(Frame) /\ u \in Seq(Frame)
      BY <2>3 DEF MadeOf
    <3>2. /\ v \in Seq(Frame)
          /\ Len(v) = Len(t) + Len(u)
          /\ \A i \in 1..(Len(t) + Len(u)) : v[i] = IF i <= Len(t) THEN t[i] ELSE u[i - Len(t)]
      BY <3>1, ConcatProperties
    <3>3. Len(t) \in Nat /\ Len(u) \in Nat
      BY <3>1, LenProperties
    <3> HIDE DEF v
    <3>4. \A i \in 1..Len(v) : i \in 1..Len(t) \/ (i > Len(t) /\ i - Len(t) \in 1..Len(u))
      BY <3>2, <3>3
    <3>5. \A i \in 1..Len(v) : \/ \E k \in 1..Len(t) : v[i] = t[k]
                               \/ \E k \in 1..Len(u) : v[i] = u[k]
      BY <3>2, <3>3, <3>4
    <3>6. v \in Seq(Frame)
      BY <3>2
    <3>7. MadeOf(v, n)
      BY <2>3, <3>5, <3>6 DEF MadeOf
    <3> QED
      BY <3>7 DEF v
  <2>4. ASSUME NEW k \in 0..Len(s) PROVE MadeOf(SubSeq(s, 1, k), n)
    <3>1. 1 \in Int /\ k \in Int /\ \A i \in 1..k : i \in 1..Len(s)
      BY <1>1
    <3> QED
      BY <3>1, <2>2
  <2>5. ASSUME NEW k \in 1..Len(s) PROVE MadeOf(RemoveAt(s, k), n)
    <3>1. 1 \in Int /\ k - 1 \in Int /\ \A i \in 1..(k - 1) : i \in 1..Len(s)
      BY <1>1
    <3>2. k + 1 \in Int /\ Len(s) \in Int /\ \A i \in (k + 1)..Len(s) : i \in 1..Len(s)
      BY <1>1
    <3>3. MadeOf(SubSeq(s, 1, k - 1), n) /\ MadeOf(SubSeq(s, k + 1, Len(s)), n)
      BY <3>1, <3>2, <2>2
    <3> QED
      BY <3>3, <2>3 DEF RemoveAt
  <2>6. ASSUME NEW j \in 1..Len(s), NEW k \in 1..Len(s)
        PROVE  MadeOf([s EXCEPT ![j] = s[k], ![k] = s[j]], n)
    <3> DEFINE t == [s EXCEPT ![j] = s[k], ![k] = s[j]]
    <3>1. s \in [1..Len(s) -> Frame] /\ DOMAIN s = 1..Len(s)
      BY <1>1, LenProperties
    <3>2. t \in [1..Len(s) -> Frame]
      BY <3>1
    <3>3. \A i \in 1..Len(s) : t[i] = s[i] \/ t[i] = s[j] \/ t[i] = s[k]
      BY <3>1
    <3> HIDE DEF t
    <3>4. t \in Seq(Frame)
      BY <3>2, <1>1, SeqDef
    <3>5. DOMAIN t = 1..Len(s) /\ DOMAIN t = 1..Len(t) /\ Len(t) \in Nat
      BY <3>2, <3>4, LenProperties
    <3>6. Len(t) = Len(s)
      BY <3>5, <1>1
    <3>7. \A i \in 1..Len(t) : \E m \in 1..Len(s) : t[i] = s[m]
      BY <3>3, <3>6
    <3>8. MadeOf(t, n)
      BY <1>1, <3>4, <3>7, TakenFrom
    <3> QED
      BY <3>8 DEF t
  <2>7. MadeOf(s \o s, n)
    BY <1>1, <2>3
  <2>8. ASSUME NEW m \in 0..1 PROVE MadeOf(s \o Sealed(2, m), n)
    BY <1>1, <2>3, OtherFile
  <2> QED
    BY <2>1, <2>4, <2>5, <2>6, <2>7, <2>8
<1>4. PICK g : f = with(g) /\ MadeOf(g, n)
  BY <1>3
<1>5. g \in Seq(Frame)
  BY <1>4 DEF MadeOf
<1>6. f.header = 1 /\ f.frames = g
  BY <1>4, <1>5 DEF Files
<1> QED
  BY <1>4, <1>6

----------------------------------------------------------------------------
(* The file of the last backup, from the first frame to the record of it.   *)

IsWhole == file.frames = Sealed(1, Chunks) /\ file.dumped = Chunks

\* What is there was written by encryptBackup; what its writer has finished,
\* and what is recorded as created, is whole.
FileInv ==
  /\ file \in Files
  /\ file.frames \in {Frames(1, file.dumped), Sealed(1, file.dumped)}
  /\ file.created => IsWhole
  /\ \A w \in Worker : proc[w].at = "dumped" /\ file.by = w => IsWhole

LEMMA WrittenFile ==
  ASSUME NEW by \in Worker \cup {None}, NEW n \in 0..Chunks,
         NEW frames \in {Frames(1, n), Sealed(1, n)}
  PROVE  /\ Written(by, n, frames) \in Files
         /\ Written(by, n, frames).by = by
         /\ Written(by, n, frames).frames = frames
         /\ Written(by, n, frames).dumped = n
         /\ Written(by, n, frames).created = FALSE
<1>1. n \in Nat
  BY WorkerConstants
<1>2. frames \in Seq(Frame)
  BY <1>1, FramesMadeOf, SealedMadeOf DEF MadeOf
<1> QED
  BY <1>2 DEF Written, Files

LEMMA FileInit == Init => FileInv
<1> SUFFICES ASSUME Init PROVE FileInv
  OBVIOUS
<1> DEFINE frames == Frames(1, 0)
           first == Written(None, 0, frames)
<1>1. file = first
  BY DEF Init, NoFile, Written, Frames
<1>2. 0 \in 0..Chunks /\ None \in Worker \cup {None} /\ frames \in {frames, Sealed(1, 0)}
  BY WorkerConstants
<1>3. first \in Files /\ first.created = FALSE /\ first.dumped = 0 /\ first.frames = frames
  BY <1>2, WrittenFile
<1> HIDE DEF first
<1>4. file \in Files /\ file.created = FALSE /\ file.dumped = 0 /\ file.frames = Frames(1, 0)
  BY <1>1, <1>3
<1>5. \A w \in Worker : proc[w].at # "dumped"
  BY DEF Init, Down
<1> QED
  BY <1>4, <1>5 DEF FileInv

\* A step that leaves the file, and takes no process to the end of a dump.
LEMMA FileStays ==
  ASSUME FileInv, file' = file,
         \A w \in Worker : proc'[w].at = "dumped" => proc[w].at = "dumped"
  PROVE  FileInv'
BY DEF FileInv, IsWhole

\* A step that begins a file under the final name.
LEMMA FileBegins ==
  ASSUME NEW by \in Worker \cup {None}, NEW n \in 0..Chunks,
         NEW frames \in {Frames(1, n), Sealed(1, n)},
         file' = Written(by, n, frames),
         \A w \in Worker : proc'[w].at = "dumped" /\ by = w =>
                             n = Chunks /\ frames = Sealed(1, Chunks)
  PROVE  FileInv'
<1>1. n \in Nat
  BY WorkerConstants
<1>2. frames \in Seq(Frame)
  BY <1>1, FramesMadeOf, SealedMadeOf DEF MadeOf
<1>3. /\ file' \in Files /\ file'.by = by /\ file'.frames = frames /\ file'.dumped = n
      /\ file'.created = FALSE
  BY <1>2 DEF Written, Files
<1>4. \A w \in Worker : proc'[w].at = "dumped" /\ file'.by = w =>
        file'.frames = Sealed(1, Chunks) /\ file'.dumped = Chunks
  BY <1>3
<1>5. file'.frames \in {Frames(1, file'.dumped), Sealed(1, file'.dumped)}
  BY <1>3
<1> QED
  BY <1>3, <1>4, <1>5 DEF FileInv, IsWhole

\* A step that ends w's work at the file, and may record it as created.
LEMMA FileEnds ==
  ASSUME FileInv, NEW w \in Worker, NEW created \in BOOLEAN,
         created => IsWhole,
         file' = [Left(w) EXCEPT !.created = created],
         \A v \in Worker : proc'[v].at = "dumped" => proc[v].at = "dumped"
  PROVE  FileInv'
<1>1. PICK by \in {file.by, None} : Left(w) = [file EXCEPT !.by = by]
  BY DEF Left, FileInv, Files
<1>2. file \in Files
  BY DEF FileInv
<1>3. file' = [file EXCEPT !.by = by, !.created = created]
  BY <1>1, <1>2 DEF Files
<1>4. /\ file' \in Files /\ file'.by = by /\ file'.created = created
      /\ file'.frames = file.frames /\ file'.dumped = file.dumped
  BY <1>2, <1>3 DEF Files
<1>5. by \notin Worker \/ by = file.by
  BY <1>1, WorkerConstants
<1> QED
  BY <1>4, <1>5 DEF FileInv, IsWhole

LEMMA FileNext == LeaseInv /\ FileInv /\ [Next]_vars => FileInv'
<1> SUFFICES ASSUME LeaseInv, FileInv, [Next]_vars PROVE FileInv'
  OBVIOUS
<1> USE DEF queueVars, ghosts
<1>0. proc \in [Worker -> Procs] /\ file \in Files
  BY DEF LeaseInv, FileInv
<1>1. ASSUME file' = file, UNCHANGED proc PROVE FileInv'
  BY <1>1, FileStays
<1>2. ASSUME NEW w \in Worker, NEW at \in {"locked", "idle", "alive", "broken"}, Goto(w, at)
      PROVE  \A v \in Worker : proc'[v].at = "dumped" => proc[v].at = "dumped" /\ v # w
  BY <1>0, <1>2 DEF Goto, Procs
<1>3. ASSUME NEW w \in Worker,
             \/ Start(w) \/ TakeOver(w) \/ NoJob(w)
             \/ \E jobs \in SUBSET Scheduled : Schedule(w, jobs)
             \/ \E j \in Job : ClaimLost(w, j)
      PROVE  FileInv'
  <2>1. PICK at \in {"locked", "idle", "alive", "broken"} : Goto(w, at) /\ file' = file
    BY <1>3 DEF Start, TakeOver, NoJob, Schedule, ClaimLost
  <2> QED
    BY <1>2, <2>1, FileStays
<1>4. ASSUME NEW w \in Worker, NEW j \in Job, Claim(w, j) PROVE FileInv'
  <2>1. \A v \in Worker : proc'[v].at = "dumped" => proc[v].at = "dumped"
    BY <1>0, <1>4 DEF Claim, Procs
  <2> QED
    BY <1>4, <2>1, FileStays DEF Claim
<1>5. ASSUME NEW w \in Worker, Terminate(w) \/ Notice(w) PROVE FileInv'
  <2>1. \A v \in Worker : proc'[v].at = "dumped" => proc[v].at = "dumped"
    BY <1>0, <1>5 DEF Terminate, Notice, Procs
  <2> QED
    BY <1>5, <2>1, FileStays DEF Terminate, Notice
<1>6. ASSUME NEW w \in Worker, Exit(w) PROVE FileInv'
  <2>1. \A v \in Worker : proc'[v].at = "dumped" => proc[v].at = "dumped"
    BY <1>0, <1>6 DEF Exit, Procs, Down
  <2> QED
    BY <1>6, <2>1, FileStays DEF Exit
<1>7. ASSUME NEW w \in Worker, NEW n \in 0..Chunks, NEW ok \in BOOLEAN, DumpEnds(w, n, ok)
      PROVE  FileInv'
  <2>1. \A v \in Worker : proc'[v].at = "dumped" /\ w = v => ok
    <3>1. proc' = [proc EXCEPT ![w].at = IF ok THEN "dumped" ELSE "broken"]
      BY <1>7 DEF DumpEnds, Goto
    <3> QED
      BY <1>0, <3>1 DEF Procs
  <2>2. (ok => n = Chunks) /\ file' = Written(w, n, Sealed(1, n))
    BY <1>7 DEF DumpEnds
  <2> QED
    BY <2>1, <2>2, FileBegins
<1>8. ASSUME NEW w \in Worker, NEW n \in 0..Chunks, WriteFails(w, n) PROVE FileInv'
  <2>1. Goto(w, "broken") /\ file' = Written(w, n, Frames(1, n))
    BY <1>8 DEF WriteFails
  <2>2. \A v \in Worker : ~(proc'[v].at = "dumped" /\ w = v)
    BY <1>2, <2>1
  <2> QED
    BY <2>1, <2>2, FileBegins
<1>9. ASSUME NEW w \in Worker, NEW ok \in BOOLEAN, Finish(w, ok) PROVE FileInv'
  <2> DEFINE created == file.created \/ (ok /\ proc[w].job \in BackupJobs /\ file.by = w)
  <2>1. \A v \in Worker : proc'[v].at = "dumped" => proc[v].at = "dumped"
    BY <1>0, <1>9 DEF Finish, Rest, Procs
  <2>2. Left(w).created = file.created /\ file.created \in BOOLEAN
    BY <1>0 DEF Left, Files
  <2>3. file' = [Left(w) EXCEPT !.created = created]
    BY <1>9, <2>2 DEF Finish
  <2>4. ok /\ proc[w].job \in BackupJobs => proc[w].at = "dumped"
    BY <1>9 DEF Finish, Succeeds
  <2>5. created => IsWhole
    BY <2>4 DEF FileInv
  <2>6. created \in BOOLEAN
    BY <2>2
  <2> HIDE DEF created
  <2> QED
    BY <2>1, <2>3, <2>5, <2>6, FileEnds
<1>10. ASSUME NEW w \in Worker, Crash(w) PROVE FileInv'
  <2>1. proc' = [proc EXCEPT ![w] = Down]
    BY <1>10 DEF Crash
  <2>2. /\ proc'[w].at # "dumped"
        /\ \A v \in Worker : proc'[v].at = "dumped" => proc[v].at = "dumped"
    BY <1>0, <2>1 DEF Procs, Down
  <2>3. CASE \E n \in 0..Chunks : file' = Written(None, n, Frames(1, n))
    BY <2>3, FileBegins, WorkerConstants
  <2>4. CASE file' = Left(w)
    <3>1. Left(w) = [Left(w) EXCEPT !.created = file.created] /\ file.created \in BOOLEAN
      BY <1>0 DEF Left, Files
    <3>2. file.created => IsWhole
      BY DEF FileInv
    <3> QED
      BY <2>2, <2>4, <3>1, <3>2, FileEnds
  <2> QED
    BY <1>10, <2>3, <2>4 DEF Crash
<1>11. ASSUME NEW w \in Worker, Disconnect(w) PROVE FileInv'
  BY <1>1, <1>11 DEF Disconnect
<1>12. ASSUME NEW j \in Job, Request(j) \/ Retry(j) PROVE FileInv'
  BY <1>1, <1>12 DEF Request, Retry
<1>13. CASE ScriptBackup
  <2> DEFINE new == Written(None, Chunks, Sealed(1, Chunks))
  <2>1. Chunks \in 0..Chunks /\ None \in Worker \cup {None}
    BY WorkerConstants
  <2>2. new \in Files /\ new.by = None /\ new.frames = Sealed(1, Chunks) /\ new.dumped = Chunks
    BY <2>1, WrittenFile
  <2>3. file' = [new EXCEPT !.created = TRUE] /\ proc' = proc
    BY <1>13 DEF ScriptBackup
  <2> HIDE DEF new
  <2>4. /\ file' \in Files /\ file'.by = None /\ file'.frames = Sealed(1, Chunks)
        /\ file'.dumped = Chunks
    BY <2>2, <2>3 DEF Files
  <2> QED
    BY <2>4 DEF FileInv, IsWhole
<1>14. CASE UNCHANGED vars
  BY <1>1, <1>14 DEF vars
<1> QED
  BY <1>3, <1>4, <1>5, <1>6, <1>7, <1>8, <1>9, <1>10, <1>11, <1>12, <1>13, <1>14 DEF Next, Turn

\* A backup recorded as created is the whole dump, and whatever becomes of the
\* file, only the whole of what was dumped into it is ever accepted.
THEOREM BackupIsWholeHolds == Spec => []BackupIsWhole
<1>1. ASSUME FileInv PROVE BackupIsWhole
  <2> DEFINE n == file.dumped
  <2>1. file \in Files /\ n \in Nat /\ file.header = 1
    BY <1>1, WorkerConstants DEF FileInv, Files
  <2>2. MadeOf(file.frames, n)
    BY <1>1, <2>1, FramesMadeOf, SealedMadeOf DEF FileInv
  <2>3. \A f \in Damaged(file) : Accepted(f) => Restored(f) = [i \in 1..n |-> i]
    BY <2>1, <2>2, DamagedMadeOf, AcceptedIsWhole
  <2>4. ASSUME file.created PROVE Accepted(file) /\ file.dumped = Chunks
    BY <1>1, <2>1, <2>4, SealedAccepted DEF FileInv, IsWhole
  <2> QED
    BY <2>3, <2>4 DEF BackupIsWhole
<1> QED
  BY <1>1, LeaseInit, LeaseNext, FileInit, FileNext, PTL DEF Spec

----------------------------------------------------------------------------
(* Types: the queue's rows and their order, and the processes' jobs.        *)

Rows == [status : {"NONE", "PENDING", "RUNNING", "COMPLETED", "FAILED"},
         attempts : 0..MaxAttempts]

QueueInv ==
  /\ row \in [Job -> Rows]
  /\ order \in Seq(Job) /\ IsInjective(order)
  /\ \A j \in Job : row[j].status = "NONE" <=> ~Contains(order, j)
  /\ owed \in [Job -> {"no", "asked", "begun"}] /\ stranded \subseteq Job

HasJob == {"busy", "dumped", "broken"}

\* A process that has a job is at it, and the job has its row.
ProcInv ==
  \A w \in Worker : /\ proc[w].at \in HasJob <=> proc[w].job # None
                    /\ proc[w].job # None => row[proc[w].job].status # "NONE"

GhostInv ==
  /\ strayed \in BOOLEAN /\ cut \subseteq Worker
  /\ asks \in 0..MaxAsks /\ mishaps \in 0..MaxMishaps

TypeInv == LeaseInv /\ FileInv /\ QueueInv /\ ProcInv /\ GhostInv

\* No row is ever deleted.
RowsStay == \A j \in Job : row[j].status # "NONE" => row'[j].status # "NONE"

LEMMA TypeInit == Init => TypeInv
<1> SUFFICES ASSUME Init PROVE TypeInv
  OBVIOUS
<1>1. QueueInv
  <2>1. order = <<>> /\ order \in Seq(Job) /\ Len(order) = 0 /\ DOMAIN order = {}
    BY EmptySeq DEF Init
  <2>2. row \in [Job -> Rows] /\ \A j \in Job : row[j].status = "NONE"
    BY WorkerConstants DEF Init, Rows
  <2>3. IsInjective(order) /\ \A j \in Job : ~Contains(order, j)
    BY <2>1 DEF IsInjective, Contains
  <2>4. owed \in [Job -> {"no", "asked", "begun"}] /\ stranded \subseteq Job
    BY DEF Init
  <2> QED
    BY <2>1, <2>2, <2>3, <2>4 DEF QueueInv
<1>2. ProcInv
  BY DEF Init, Down, ProcInv, HasJob
<1>3. GhostInv
  <2>1. 0 \in 0..MaxAsks /\ 0 \in 0..MaxMishaps
    BY WorkerConstants
  <2> QED
    BY <2>1 DEF Init, GhostInv
<1> QED
  BY <1>1, <1>2, <1>3, LeaseInit, FileInit DEF TypeInv

\* The new jobs, each once, in some order.
LEMMA NewInOrder ==
  ASSUME NEW new, new \subseteq Job, IsFiniteSet(new), NEW s \in SetToSeqs(new)
  PROVE  /\ s \in Seq(Job)
         /\ \A i, k \in 1..Len(s) : s[i] = s[k] => i = k
         /\ \A i \in 1..Len(s) : s[i] \in new
         /\ \A j \in new : \E i \in 1..Len(s) : s[i] = j
<1> DEFINE c == Cardinality(new)
<1>1. c \in Nat
  BY FS_CardinalityType
<1>2. s \in [1..c -> new] /\ \A i, k \in 1..c : i # k => s[i] # s[k]
  BY DEF SetToSeqs
<1>3. IsFiniteSet(1..c) /\ Cardinality(1..c) = c
  BY <1>1, FS_Interval
<1> HIDE DEF c
<1>4. s \in Injection(1..c, new)
  BY <1>2 DEF Injection, IsInjective
<1>5. s \in Surjection(1..c, new)
  BY <1>3, <1>4, FS_Injection DEF c
<1>6. \A j \in new : \E i \in 1..c : s[i] = j
  BY <1>5 DEF Surjection
<1>7. s \in [1..c -> Job]
  BY <1>2
<1>8. s \in Seq(Job)
  BY <1>1, <1>7, SeqDef
<1>9. DOMAIN s = 1..c /\ DOMAIN s = 1..Len(s) /\ Len(s) \in Nat
  BY <1>7, <1>8, LenProperties
<1>10. 1..Len(s) = 1..c
  BY <1>9
<1> QED
  BY <1>2, <1>6, <1>8, <1>10

LEMMA EnqueueQueue ==
  ASSUME QueueInv, NEW jobs, jobs \subseteq Job, IsFiniteSet(jobs), Enqueue(jobs),
         stranded' = stranded
  PROVE  QueueInv' /\ RowsStay
<1> DEFINE new == {j \in jobs : Status(j) = "NONE"}
<1>1. PICK s \in SetToSeqs(new) : order' = order \o s
  BY DEF Enqueue
<1>2. new \subseteq Job /\ IsFiniteSet(new) /\ \A j \in new : row[j].status = "NONE"
  BY FS_Subset DEF Status
<1> HIDE DEF new
<1>3. /\ s \in Seq(Job)
      /\ \A i, k \in 1..Len(s) : s[i] = s[k] => i = k
      /\ \A i \in 1..Len(s) : s[i] \in new
      /\ \A j \in new : \E i \in 1..Len(s) : s[i] = j
  BY <1>2, NewInOrder
<1>4. /\ order \in Seq(Job) /\ IsInjective(order) /\ Len(order) \in Nat /\ Len(s) \in Nat
      /\ DOMAIN order = 1..Len(order)
  BY <1>3, LenProperties DEF QueueInv
<1>5. /\ order' \in Seq(Job)
      /\ Len(order') = Len(order) + Len(s)
      /\ \A i \in 1..(Len(order) + Len(s)) :
           order'[i] = IF i <= Len(order) THEN order[i] ELSE s[i - Len(order)]
  BY <1>1, <1>3, <1>4, ConcatProperties
<1>6. \A i \in 1..Len(order) : order[i] \notin new
  BY <1>2, <1>4, ElementOfSeq DEF QueueInv, Contains
<1>7. \A i \in 1..Len(order') : \/ i \in 1..Len(order) /\ order'[i] = order[i]
                                \/ i > Len(order) /\ i - Len(order) \in 1..Len(s)
                                   /\ order'[i] = s[i - Len(order)]
  BY <1>4, <1>5
<1>8. IsInjective(order')
  <2>1. DOMAIN order' = 1..Len(order')
    BY <1>5, LenProperties
  <2> SUFFICES ASSUME NEW i \in 1..Len(order'), NEW k \in 1..Len(order'), order'[i] = order'[k]
               PROVE  i = k
    BY <2>1 DEF IsInjective
  <2>2. CASE i \in 1..Len(order) /\ k \in 1..Len(order)
    <3>1. order[i] = order[k]
      BY <1>4, <1>7, <2>2
    <3> QED
      BY <1>4, <2>2, <3>1 DEF IsInjective
  <2>3. CASE i > Len(order) /\ k > Len(order)
    <3>1. i - Len(order) \in 1..Len(s) /\ k - Len(order) \in 1..Len(s)
          /\ s[i - Len(order)] = s[k - Len(order)]
      BY <1>4, <1>7, <2>3
    <3>2. i - Len(order) = k - Len(order)
      BY <1>3, <3>1
    <3> QED
      BY <1>4, <3>2
  <2>4. CASE i \in 1..Len(order) /\ k > Len(order)
    BY <1>3, <1>4, <1>6, <1>7, <2>4
  <2>5. CASE k \in 1..Len(order) /\ i > Len(order)
    BY <1>3, <1>4, <1>6, <1>7, <2>5
  <2> QED
    BY <1>4, <1>7, <2>2, <2>3, <2>4, <2>5
<1>9. \A j \in Job : Contains(order', j) <=> Contains(order, j) \/ j \in new
  <2> TAKE j \in Job
  <2>1. ASSUME NEW i \in 1..Len(order'), order'[i] = j PROVE Contains(order, j) \/ j \in new
    <3>1. CASE i \in 1..Len(order) /\ order'[i] = order[i]
      BY <2>1, <3>1 DEF Contains
    <3>2. CASE i - Len(order) \in 1..Len(s) /\ order'[i] = s[i - Len(order)]
      BY <1>3, <2>1, <3>2
    <3> QED
      BY <1>7, <3>1, <3>2
  <2>2. ASSUME NEW i \in 1..Len(order), order[i] = j PROVE Contains(order', j)
    <3>1. i \in 1..Len(order') /\ order'[i] = j
      BY <1>4, <1>5, <2>2
    <3> QED
      BY <3>1 DEF Contains
  <2>3. ASSUME NEW i \in 1..Len(s), s[i] = j PROVE Contains(order', j)
    <3>1. Len(order) + i \in 1..Len(order')
      BY <1>4, <1>5
    <3>2. order'[Len(order) + i] = j
      <4>1. ~(Len(order) + i <= Len(order)) /\ Len(order) + i - Len(order) = i
        BY <1>4
      <4> QED
        BY <1>5, <2>3, <3>1, <4>1
    <3> QED
      BY <3>1, <3>2 DEF Contains
  <2> QED
    BY <1>3, <2>1, <2>2, <2>3 DEF Contains
<1>10. row' = [j \in Job |-> IF j \in jobs /\ Status(j) \in Renewable
                               THEN [row[j] EXCEPT !.status = "PENDING"] ELSE row[j]]
  BY DEF Enqueue
<1>11. \A j \in Job : /\ row'[j] \in Rows
                      /\ row'[j].status = "NONE" <=> row[j].status = "NONE" /\ j \notin new
  <2> SUFFICES ASSUME NEW j \in Job
               PROVE  /\ row'[j] \in Rows
                      /\ row'[j].status = "NONE" <=> row[j].status = "NONE" /\ j \notin new
    OBVIOUS
  <2> DEFINE old == row[j]
  <2>1. old \in Rows
    BY DEF QueueInv
  <2>2. j \in new <=> j \in jobs /\ old.status = "NONE"
    BY DEF new, Status
  <2>3. row'[j] = IF j \in jobs /\ old.status \in Renewable
                    THEN [old EXCEPT !.status = "PENDING"] ELSE old
    BY <1>10 DEF Status
  <2>4. old = row[j]
    OBVIOUS
  <2> DEFINE renewed == [old EXCEPT !.status = "PENDING"]
  <2> HIDE DEF old
  <2>5. renewed \in Rows /\ renewed.status = "PENDING"
    BY <2>1 DEF Rows
  <2> HIDE DEF renewed
  <2>6. CASE j \in jobs /\ old.status \in Renewable
    <3>1. row'[j] = renewed
      BY <2>3, <2>6 DEF renewed
    <3> QED
      BY <2>2, <2>4, <2>5, <2>6, <3>1
  <2>7. CASE ~(j \in jobs /\ old.status \in Renewable)
    <3>1. row'[j] = old
      BY <2>3, <2>7
    <3>2. j \notin new
      BY <2>2, <2>7 DEF Renewable
    <3> QED
      BY <2>1, <2>4, <3>1, <3>2
  <2> QED
    BY <2>6, <2>7
<1>12. row' \in [Job -> Rows]
  BY <1>10, <1>11
<1>13. owed' \in [Job -> {"no", "asked", "begun"}] /\ stranded' \subseteq Job
  BY DEF Enqueue, QueueInv
<1>14. \A j \in Job : row'[j].status = "NONE" <=> ~Contains(order', j)
  BY <1>9, <1>11 DEF QueueInv
<1> QED
  BY <1>5, <1>8, <1>11, <1>12, <1>13, <1>14 DEF QueueInv, RowsStay

\* A row that changes its status or attempts.
LEMMA RowChanges ==
  ASSUME QueueInv, NEW j \in Job, row[j].status # "NONE",
         NEW new \in Rows, new.status # "NONE",
         row' = [row EXCEPT ![j] = new], order' = order,
         NEW o \in {"no", "asked", "begun"}, owed' = [owed EXCEPT ![j] = o],
         stranded' \subseteq Job
  PROVE  QueueInv' /\ RowsStay
<1>1. row' \in [Job -> Rows] /\ \A i \in Job : row'[i].status = "NONE" <=> row[i].status = "NONE"
  BY DEF QueueInv
<1>2. owed' \in [Job -> {"no", "asked", "begun"}]
  BY DEF QueueInv
<1>3. \A i \in Job : Contains(order', i) <=> Contains(order, i)
  OBVIOUS
<1>4. order' \in Seq(Job) /\ IsInjective(order')
  BY DEF QueueInv
<1> QED
  BY <1>1, <1>2, <1>3, <1>4 DEF QueueInv, RowsStay

LEMMA QueueStays ==
  ASSUME QueueInv, UNCHANGED queueVars
  PROVE  QueueInv' /\ RowsStay
BY DEF QueueInv, RowsStay, queueVars, Contains, IsInjective

LEMMA QueueNext == TypeInv /\ [Next]_vars => QueueInv' /\ RowsStay
<1> SUFFICES ASSUME TypeInv, [Next]_vars PROVE QueueInv' /\ RowsStay
  OBVIOUS
<1>0. /\ QueueInv /\ proc \in [Worker -> Procs] /\ row \in [Job -> Rows]
      /\ owed \in [Job -> {"no", "asked", "begun"}]
  BY DEF TypeInv, LeaseInv, QueueInv
<1>1. ASSUME NEW j \in Job, Request(j) PROVE QueueInv' /\ RowsStay
  BY <1>0, <1>1, EnqueueQueue, FS_Singleton DEF Request
<1>2. ASSUME NEW j \in Job, Retry(j) PROVE QueueInv' /\ RowsStay
  <2> DEFINE new == [status |-> "PENDING", attempts |-> 0]
             asked == "asked"
  <2>1. /\ row[j].status # "NONE" /\ row' = [row EXCEPT ![j] = new] /\ order' = order
        /\ owed' = [owed EXCEPT ![j] = asked]
    BY <1>2 DEF Retry, Status
  <2>2. new \in Rows /\ new.status # "NONE" /\ asked \in {"no", "asked", "begun"}
    BY WorkerConstants DEF Rows
  <2>3. stranded' \subseteq Job
    BY <1>0, <1>2 DEF Retry, QueueInv
  <2> HIDE DEF new, asked
  <2> QED
    BY <1>0, <2>1, <2>2, <2>3, RowChanges
<1>3. ASSUME NEW w \in Worker, NEW jobs \in SUBSET Scheduled, Schedule(w, jobs)
      PROVE  QueueInv' /\ RowsStay
  <2>1. IsFiniteSet(jobs) /\ jobs \subseteq Job
    BY WorkerConstants, FS_Subset DEF Job
  <2> QED
    BY <1>0, <1>3, <2>1, EnqueueQueue DEF Schedule
<1>4. ASSUME NEW w \in Worker, TakeOver(w) PROVE QueueInv' /\ RowsStay
  <2>1. row' = [j \in Job |-> IF Status(j) = "RUNNING"
                                THEN [row[j] EXCEPT !.status = "PENDING"] ELSE row[j]]
        /\ order' = order /\ owed' = owed /\ stranded' = {}
    BY <1>4 DEF TakeOver
  <2>2. ASSUME NEW j \in Job
        PROVE  /\ row'[j] \in Rows
               /\ row'[j].status = "NONE" <=> row[j].status = "NONE"
    BY <1>0, <2>1 DEF Rows, Status
  <2>3. row' \in [Job -> Rows]
    BY <2>1, <2>2
  <2>4. \A j \in Job : Contains(order', j) <=> Contains(order, j)
    BY <2>1
  <2>5. order' \in Seq(Job) /\ IsInjective(order')
    BY <1>0, <2>1 DEF QueueInv
  <2> QED
    BY <1>0, <2>1, <2>2, <2>3, <2>4, <2>5 DEF QueueInv, RowsStay
<1>5. ASSUME NEW w \in Worker, NEW j \in Job, Claim(w, j) \/ ClaimLost(w, j)
      PROVE  QueueInv' /\ RowsStay
  <2> DEFINE n == row[j].attempts
             more == IF n < MaxAttempts THEN n + 1 ELSE n
             new == [status |-> "RUNNING", attempts |-> more]
             begun == IF owed[j] = "asked" THEN "begun" ELSE owed[j]
             now == owed[j]
  <2>1. row[j].status # "NONE" /\ row' = [row EXCEPT ![j] = new] /\ order' = order
    BY <1>5 DEF Claim, ClaimLost, Claimable, Claimed, Status
  <2>2. \/ owed' = [owed EXCEPT ![j] = begun]
        \/ owed' = [owed EXCEPT ![j] = now]
    BY <1>0, <1>5 DEF Claim, ClaimLost
  <2>3. n \in 0..MaxAttempts /\ {begun, now} \subseteq {"no", "asked", "begun"}
    BY <1>0 DEF Rows
  <2>4. stranded' \subseteq Job
    BY <1>0, <1>5 DEF Claim, ClaimLost, QueueInv
  <2> HIDE DEF n
  <2>5. more \in 0..MaxAttempts
    BY <2>3, WorkerConstants
  <2> HIDE DEF more
  <2>6. new \in Rows /\ new.status # "NONE"
    BY <2>5 DEF Rows
  <2> HIDE DEF new, begun, now
  <2>7. CASE owed' = [owed EXCEPT ![j] = begun]
    BY <1>0, <2>1, <2>3, <2>4, <2>6, <2>7, RowChanges
  <2>8. CASE owed' = [owed EXCEPT ![j] = now]
    BY <1>0, <2>1, <2>3, <2>4, <2>6, <2>8, RowChanges
  <2> QED
    BY <2>2, <2>7, <2>8
<1>6. ASSUME NEW w \in Worker, NEW ok \in BOOLEAN, Finish(w, ok) PROVE QueueInv' /\ RowsStay
  <2>1. PICK j \in Job : j = proc[w].job
    BY <1>0, <1>6 DEF TypeInv, ProcInv, HasJob, Finish, Procs
  <2>2. order' = order /\ stranded' \subseteq Job /\ row[j].status # "NONE"
    BY <1>0, <1>6, <2>1, WorkerConstants DEF Finish, TypeInv, QueueInv, ProcInv
  <2>3. ASSUME NEW status \in {"COMPLETED", "FAILED"},
               row' = [row EXCEPT ![j].status = status],
               owed' = [owed EXCEPT ![j] = IF @ = "begun" THEN "no" ELSE @]
        PROVE  QueueInv' /\ RowsStay
    <3> DEFINE old == row[j]
               new == [old EXCEPT !.status = status]
               o == IF owed[j] = "begun" THEN "no" ELSE owed[j]
    <3>1. row' = [row EXCEPT ![j] = new] /\ owed' = [owed EXCEPT ![j] = o]
      BY <2>3
    <3>2. old \in Rows /\ o \in {"no", "asked", "begun"}
      BY <1>0
    <3> HIDE DEF old
    <3>3. new \in Rows /\ new.status # "NONE"
      BY <3>2 DEF Rows
    <3> HIDE DEF new, o
    <3> QED
      BY <1>0, <2>2, <3>1, <3>2, <3>3, RowChanges
  <2>4. ASSUME row' = row, owed' = owed PROVE QueueInv' /\ RowsStay
    BY <1>0, <2>2, <2>4 DEF QueueInv, RowsStay, Contains, IsInjective
  <2>5. \/ \E status \in {"COMPLETED", "FAILED"} :
             /\ row' = [row EXCEPT ![j].status = status]
             /\ owed' = [owed EXCEPT ![j] = IF @ = "begun" THEN "no" ELSE @]
        \/ row' = row /\ owed' = owed
    BY <1>6, <2>1 DEF Finish
  <2> QED
    BY <2>3, <2>4, <2>5
<1>7. ASSUME UNCHANGED queueVars PROVE QueueInv' /\ RowsStay
  BY <1>0, <1>7, QueueStays
<1> QED
  BY <1>1, <1>2, <1>3, <1>4, <1>5, <1>6, <1>7
     DEF Next, Turn, Start, NoJob, Exit, Notice, DumpEnds, WriteFails, Terminate, Disconnect,
         Crash, ScriptBackup, vars

\* A process that changes, with its job or without.
LEMMA ProcChanges ==
  ASSUME LeaseInv, ProcInv, RowsStay, NEW w \in Worker, NEW new \in Procs,
         new.at \in HasJob <=> new.job # None,
         new.job # None => row'[new.job].status # "NONE",
         proc' = [proc EXCEPT ![w] = new]
  PROVE  ProcInv'
<1>1. proc \in [Worker -> Procs]
  BY DEF LeaseInv
<1>2. \A v \in Worker : v # w => proc'[v] = proc[v]
  BY <1>1
<1>3. proc'[w] = new
  BY <1>1
<1>4. \A v \in Worker : proc[v].job # None => proc[v].job \in Job
  BY <1>1 DEF Procs
<1> QED
  BY <1>2, <1>3, <1>4 DEF ProcInv, RowsStay

LEMMA ProcNext == TypeInv /\ [Next]_vars => ProcInv'
<1> SUFFICES ASSUME TypeInv, [Next]_vars PROVE ProcInv'
  OBVIOUS
<1>0. LeaseInv /\ ProcInv /\ QueueInv /\ proc \in [Worker -> Procs] /\ RowsStay /\ QueueInv'
  BY QueueNext DEF TypeInv, LeaseInv
<1>1. ASSUME UNCHANGED proc PROVE ProcInv'
  <2>1. \A v \in Worker : proc[v].job # None => proc[v].job \in Job
    BY <1>0 DEF Procs
  <2> QED
    BY <1>0, <1>1, <2>1 DEF ProcInv, RowsStay
<1>2. ASSUME NEW w \in Worker, NEW at, Goto(w, at),
             \/ at \in HasJob /\ proc[w].at \in HasJob
             \/ at \in {"locked", "idle", "alive"} /\ proc[w].at \notin HasJob
      PROVE  ProcInv'
  <2> DEFINE old == proc[w]
             new == [old EXCEPT !.at = at]
  <2>1. old \in Procs /\ (old.at \in HasJob <=> old.job # None)
        /\ (old.job # None => row[old.job].status # "NONE" /\ old.job \in Job)
    BY <1>0 DEF ProcInv, Procs
  <2>2. proc' = [proc EXCEPT ![w] = new]
    BY <1>2 DEF Goto
  <2>3. old = proc[w]
    OBVIOUS
  <2> HIDE DEF old
  <2>4. new \in Procs /\ new.at = at /\ new.job = old.job
    BY <1>2, <2>1 DEF Procs, HasJob
  <2> HIDE DEF new
  <2>5. at \in HasJob <=> old.at \in HasJob
    BY <1>2, <2>3 DEF HasJob
  <2>6. new.job # None => row'[new.job].status # "NONE"
    BY <1>0, <2>1, <2>4 DEF RowsStay
  <2>7. new.at \in HasJob <=> new.job # None
    BY <2>1, <2>4, <2>5
  <2> QED
    BY <1>0, <2>2, <2>4, <2>6, <2>7, ProcChanges
<1>3. ASSUME NEW w \in Worker,
             \/ Start(w) \/ TakeOver(w) \/ NoJob(w)
             \/ \E jobs \in SUBSET Scheduled : Schedule(w, jobs)
             \/ \E j \in Job : ClaimLost(w, j)
      PROVE  ProcInv'
  <2>1. PICK at \in {"locked", "idle", "alive"} : Goto(w, at)
    BY <1>3 DEF Start, TakeOver, NoJob, Schedule, ClaimLost
  <2>2. proc[w].at \notin HasJob
    BY <1>3 DEF Start, TakeOver, NoJob, Schedule, ClaimLost, HasJob
  <2> QED
    BY <1>2, <2>1, <2>2
<1>4. ASSUME NEW w \in Worker,
             \/ \E n \in 0..Chunks, ok \in BOOLEAN : DumpEnds(w, n, ok)
             \/ \E n \in 0..Chunks : WriteFails(w, n)
      PROVE  ProcInv'
  <2>1. PICK at \in {"dumped", "broken"} : Goto(w, at)
    BY <1>4 DEF DumpEnds, WriteFails
  <2>2. proc[w].at \in HasJob /\ at \in HasJob
    BY <1>4 DEF DumpEnds, WriteFails, HasJob
  <2> QED
    BY <1>2, <2>1, <2>2
<1>5. ASSUME NEW w \in Worker, NEW j \in Job, Claim(w, j) PROVE ProcInv'
  <2> DEFINE old == proc[w]
             new == [old EXCEPT !.at = "busy", !.job = j]
  <2>1. old \in Procs
    BY <1>0
  <2>2. proc' = [proc EXCEPT ![w] = new]
    BY <1>5 DEF Claim
  <2>3. row'[j].status # "NONE"
    BY <1>0, <1>5 DEF Claim, Claimable, Status, RowsStay
  <2> HIDE DEF old
  <2>4. new \in Procs /\ new.at = "busy" /\ new.job = j
    BY <2>1 DEF Procs
  <2> HIDE DEF new
  <2>5. new.at \in HasJob /\ new.job # None
    BY <2>4, WorkerConstants DEF HasJob
  <2> QED
    BY <1>0, <2>2, <2>3, <2>4, <2>5, ProcChanges
<1>6. ASSUME NEW w \in Worker, NEW ok \in BOOLEAN, Finish(w, ok) PROVE ProcInv'
  <2> DEFINE old == proc[w]
             new == [old EXCEPT !.at = "idle", !.job = None]
  <2>1. old \in Procs
    BY <1>0
  <2>2. proc' = [proc EXCEPT ![w] = new]
    BY <1>6 DEF Finish, Rest
  <2> HIDE DEF old
  <2>3. new \in Procs /\ new.at \notin HasJob /\ new.job = None
    BY <2>1 DEF Procs, HasJob
  <2> HIDE DEF new
  <2> QED
    BY <1>0, <2>2, <2>3, ProcChanges
<1>7. ASSUME NEW w \in Worker, Terminate(w) \/ Notice(w) PROVE ProcInv'
  <2> DEFINE old == proc[w]
             yes == TRUE
             new == [old EXCEPT !.stopping = yes]
  <2>1. old \in Procs /\ (old.at \in HasJob <=> old.job # None) /\ yes \in BOOLEAN
        /\ (old.job # None => row[old.job].status # "NONE" /\ old.job \in Job)
    BY <1>0 DEF ProcInv, Procs
  <2>2. proc' = [proc EXCEPT ![w] = new]
    BY <1>7 DEF Terminate, Notice
  <2> HIDE DEF old, yes
  <2>3. new \in Procs /\ new.at = old.at /\ new.job = old.job
    BY <2>1 DEF Procs
  <2> HIDE DEF new
  <2>4. new.job # None => row'[new.job].status # "NONE"
    BY <1>0, <2>1, <2>3 DEF RowsStay
  <2> QED
    BY <1>0, <2>1, <2>2, <2>3, <2>4, ProcChanges
<1>8. ASSUME NEW w \in Worker, Exit(w) \/ Crash(w) PROVE ProcInv'
  <2>1. proc' = [proc EXCEPT ![w] = Down]
    BY <1>8 DEF Exit, Crash
  <2>2. Down \in Procs /\ Down.at \notin HasJob /\ Down.job = None
    BY DEF Down, Procs, HasJob
  <2> QED
    BY <1>0, <2>1, <2>2, ProcChanges
<1>9. ASSUME NEW w \in Worker, Disconnect(w) PROVE ProcInv'
  BY <1>1, <1>9 DEF Disconnect
<1>10. ASSUME NEW j \in Job, Request(j) \/ Retry(j) PROVE ProcInv'
  BY <1>1, <1>10 DEF Request, Retry
<1>11. CASE ScriptBackup
  BY <1>1, <1>11 DEF ScriptBackup
<1>12. CASE UNCHANGED vars
  BY <1>1, <1>12 DEF vars
<1> QED
  BY <1>3, <1>4, <1>5, <1>6, <1>7, <1>8, <1>9, <1>10, <1>11, <1>12 DEF Next, Turn

LEMMA GhostNext == TypeInv /\ [Next]_vars => GhostInv'
<1> SUFFICES ASSUME GhostInv, [Next]_vars PROVE GhostInv'
  BY DEF TypeInv
<1> USE DEF ghosts
<1>0. MaxAsks \in Nat /\ MaxMishaps \in Nat
  BY WorkerConstants
<1>1. strayed' \in BOOLEAN /\ cut' \subseteq Worker
  BY DEF GhostInv, Next, Turn, Start, TakeOver, NoJob, Exit, Notice, Schedule, Claim, ClaimLost,
         DumpEnds, WriteFails, Finish, Terminate, Disconnect, Crash, Request, Retry, ScriptBackup, vars
<1>2. \/ asks' = asks
      \/ asks < MaxAsks /\ asks' = asks + 1
  BY DEF GhostInv, Next, Turn, Start, TakeOver, NoJob, Exit, Notice, Schedule, Claim, ClaimLost,
         DumpEnds, WriteFails, Finish, Terminate, Disconnect, Crash, Request, Retry, ScriptBackup, vars
<1>3. \/ mishaps' = mishaps
      \/ mishaps < MaxMishaps /\ mishaps' = mishaps + 1
  BY DEF GhostInv, Next, Turn, Start, TakeOver, NoJob, Exit, Notice, Schedule, Claim, ClaimLost,
         DumpEnds, WriteFails, Finish, Terminate, Disconnect, Crash, Request, Retry, ScriptBackup, vars
<1>4. asks' \in 0..MaxAsks
  BY <1>0, <1>2 DEF GhostInv
<1>5. mishaps' \in 0..MaxMishaps
  BY <1>0, <1>3 DEF GhostInv
<1> QED
  BY <1>1, <1>4, <1>5 DEF GhostInv

\* Every variable keeps its type: each job has its row from its first request
\* and one place in the order for good, and a process has a job exactly while
\* it is at one.
THEOREM TypeCorrect == Spec => []TypeOK
<1>1. ASSUME TypeInv PROVE TypeOK
  <2>1. ToSet(order) \subseteq Job /\ IsInjective(order)
    BY <1>1, LenProperties, ElementOfSeq DEF TypeInv, QueueInv, ToSet
  <2>2. file.by \in Worker \cup {None} /\ file.dumped \in 0..Chunks /\ file.created \in BOOLEAN
    BY <1>1 DEF TypeInv, FileInv, Files
  <2> QED
    BY <1>1, <2>1, <2>2
       DEF TypeInv, TypeOK, LeaseInv, Procs, QueueInv, Rows, ProcInv, HasJob, GhostInv
<1>2. TypeInv /\ [Next]_vars => TypeInv'
  BY LeaseNext, FileNext, QueueNext, ProcNext, GhostNext DEF TypeInv
<1> QED
  BY <1>1, <1>2, TypeInit, PTL DEF Spec
=============================================================================
