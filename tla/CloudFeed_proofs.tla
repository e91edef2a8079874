-------------------------- MODULE CloudFeed_proofs --------------------------
(***************************************************************************)
(* CloudFeed implements Feed, for any number of transactions and tabs and  *)
(* pages of any size: the increment of the cursor row, locked until the    *)
(* transaction ends, makes the order of the numbers the order of commits.  *)
(***************************************************************************)
EXTENDS CloudFeed, SequenceTheorems, FiniteSetTheorems, TLAPS

LEMMA ProgramType ==
  ASSUME NEW k \in DOMAIN Program
  PROVE  /\ Len(Program[k]) \in 1..5
         /\ \A i \in 1..Len(Program[k]) : Program[k][i] \in Locks
<1>1. k \in {"edit", "pass", "complete"}
  BY DEF Program
<1>2. CASE k = "edit"
  BY <1>2 DEF Program, Locks
<1>3. CASE k = "pass"
  BY <1>3 DEF Program, Locks
<1>4. CASE k = "complete"
  BY <1>4 DEF Program, Locks
<1> QED
  BY <1>1, <1>2, <1>3, <1>4

----------------------------------------------------------------------------
(* Types.                                                                  *)

Tabs == [cursor : Nat, page : 0..MaxPages, changed : BOOLEAN, initialized : BOOLEAN,
         fetching : BOOLEAN, shown : Nat, excused : Nat]

\* TypeOK without the tabs.
AccountTypeOK ==
  /\ kind \in [Txn -> DOMAIN Program]
  /\ pc \in [Txn -> 1..6]
  /\ state \in [Txn -> {"open", "committed", "aborted"}]
  /\ held \in [Txn -> SUBSET Locks]
  /\ drawn \in [Txn -> Seq(Nat \ {0})]
  /\ sequence \in Nat
  /\ rows \subseteq [seq : Nat \ {0}, by : Txn]

LEMMA TypeParts == TypeOK <=> AccountTypeOK /\ tab \in [Client -> Tabs]
BY DEF TypeOK, AccountTypeOK, Tabs

LEMMA TypeInit == Init => TypeOK
BY FeedConstants DEF Init, TypeOK

LEMMA TabFields ==
  ASSUME NEW x \in Tabs
  PROVE  /\ x.cursor \in Nat /\ x.shown \in Nat /\ x.excused \in Nat
         /\ x.page \in 0..MaxPages
         /\ x.changed \in BOOLEAN /\ x.initialized \in BOOLEAN /\ x.fetching \in BOOLEAN
BY DEF Tabs

LEMMA CursorType ==
  ASSUME TypeOK, NEW c \in Client, NEW n \in NextCursor(c)
  PROVE  n \in Nat /\ n >= tab[c].cursor /\ (n \in Seqs \/ n = tab[c].cursor)
<1>1. tab[c].cursor \in Nat
  BY TypeParts, TabFields
<1>2. \A m \in Seqs : m \in Nat
  BY TypeParts DEF AccountTypeOK, Seqs
<1>3. n \in Items(c) \/ n = tab[c].cursor
  BY DEF NextCursor
<1>4. Items(c) \subseteq {m \in Seqs : m > tab[c].cursor}
  BY DEF Items
<1> QED
  BY <1>1, <1>2, <1>3, <1>4

\* The lists will be fetched again, show all that the cursor x has passed, or are
\* excused for it, or the poll in progress knows that there was a change.
Faithful(x) ==
  \/ x.fetching \/ x.shown >= x.cursor \/ x.excused >= x.cursor
  \/ x.page > 0 /\ x.changed

TabActs(c) ==
  Poll(c) \/ Page(c) \/ LastPage(c) \/ PageFails(c) \/ Fetch(c) \/ FetchFails(c)

\* A page that is not the last one has changes on it.
LEMMA PageHasItems ==
  ASSUME NEW c \in Client, GoesOn(c)
  PROVE  Changed(c)
<1>1. Cardinality(Items(c)) # 0
  BY FeedConstants DEF GoesOn, HasMore
<1>2. Items(c) # {}
  BY <1>1, FS_EmptySet
<1> QED
  BY <1>2 DEF Changed

\* What a step of tab c makes of its record.
LEMMA TabStep ==
  ASSUME TypeOK, NEW c \in Client, TabActs(c)
  PROVE  \E new \in Tabs :
           /\ tab' = [tab EXCEPT ![c] = new]
           /\ new.cursor = tab[c].cursor \/ new.cursor \in NextCursor(c)
           /\ Faithful(tab[c]) /\ tab[c].cursor <= sequence => Faithful(new)
           /\ UNCHANGED <<txnVars, feedVars>>
<1> DEFINE old == tab[c]
<1>1. old \in Tabs /\ tab \in [Client -> Tabs] /\ sequence \in Nat
  BY TypeParts DEF AccountTypeOK
<1>2. Changed(c) \in BOOLEAN
  BY <1>1, TabFields DEF Changed
<1>3. \A n \in NextCursor(c) : n \in Nat
  BY CursorType
<1> DEFINE no == FALSE
           yes == TRUE
           rest == 0
           first == 1
<1>9. no \in BOOLEAN /\ yes \in BOOLEAN /\ rest \in 0..MaxPages /\ first \in 0..MaxPages
  BY FeedConstants
<1>4. CASE Poll(c)
  <2> DEFINE new == [old EXCEPT !.page = first, !.changed = no]
  <2>1. tab' = [tab EXCEPT ![c] = new] /\ UNCHANGED <<txnVars, feedVars>> /\ old.page = 0
    BY <1>4 DEF Poll
  <2> HIDE DEF old, no, first
  <2>2. /\ new \in Tabs /\ new.cursor = old.cursor /\ new.fetching = old.fetching
        /\ new.shown = old.shown /\ new.excused = old.excused
    BY <1>1, <1>9 DEF Tabs
  <2> HIDE DEF new
  <2>3. Faithful(old) => Faithful(new)
    BY <2>1, <2>2 DEF Faithful
  <2> QED
    BY <2>1, <2>2, <2>3 DEF old
<1>5. CASE Page(c)
  <2>1. PICK n \in NextCursor(c) :
          tab' = [tab EXCEPT ![c].page = @ + 1, ![c].changed = Changed(c), ![c].cursor = n]
    BY <1>5 DEF Page
  <2> DEFINE found == Changed(c)
             page == old.page + 1
             new == [old EXCEPT !.page = page, !.changed = found, !.cursor = n]
  <2>2. tab' = [tab EXCEPT ![c] = new] /\ UNCHANGED <<txnVars, feedVars>>
    BY <1>5, <2>1 DEF Page
  <2>3. n \in Nat /\ found \in BOOLEAN /\ found
    BY <1>2, <1>3, <1>5, PageHasItems DEF Page
  <2>4. page \in 0..MaxPages /\ page > 0
    <3>1. old.page < MaxPages /\ old.page \in 0..MaxPages
      BY <1>1, <1>5, TabFields DEF Page, GoesOn
    <3> HIDE DEF old
    <3> QED
      BY <3>1, FeedConstants
  <2> HIDE DEF old, found, page
  <2>5. new \in Tabs /\ new.cursor = n /\ new.page = page /\ new.changed = found
    BY <1>1, <2>3, <2>4 DEF Tabs
  <2> HIDE DEF new
  <2>6. Faithful(new)
    BY <2>3, <2>4, <2>5 DEF Faithful
  <2> QED
    BY <2>2, <2>5, <2>6 DEF old
<1>6. CASE LastPage(c)
  <2>1. PICK n \in NextCursor(c) :
          tab' = [tab EXCEPT ![c].page = 0, ![c].changed = FALSE,
                          ![c].initialized = TRUE, ![c].cursor = n,
                          ![c].fetching = @ \/ (tab[c].initialized /\ Changed(c)),
                          ![c].excused = IF tab[c].initialized THEN @ ELSE n]
    BY <1>6 DEF LastPage
  <2> DEFINE again == tab[c].fetching \/ (tab[c].initialized /\ Changed(c))
             swallowed == IF tab[c].initialized THEN tab[c].excused ELSE n
             new == [old EXCEPT !.page = rest, !.changed = no, !.initialized = yes,
                                !.cursor = n, !.fetching = again, !.excused = swallowed]
  <2>3. n \in Nat /\ again \in BOOLEAN /\ swallowed \in Nat
    BY <1>1, <1>2, <1>3, TabFields
  <2>5. Faithful(old) => again \/ old.shown >= n \/ swallowed >= n
    <3>1. CASE old.initialized /\ ~Changed(c)
      <4>1. Items(c) = {} /\ ~old.changed
        BY <3>1 DEF Changed
      <4>2. n = old.cursor
        BY <2>1, <4>1 DEF NextCursor
      <4> QED
        BY <3>1, <4>1, <4>2 DEF Faithful
    <3>2. CASE ~old.initialized
      BY <2>3, <3>2
    <3> QED
      BY <3>1, <3>2
  <2> HIDE DEF again, swallowed
  <2>2. tab' = [tab EXCEPT ![c] = new] /\ UNCHANGED <<txnVars, feedVars>>
    <3>1. tab' = [tab EXCEPT ![c].page = 0, ![c].changed = FALSE,
                          ![c].initialized = TRUE, ![c].cursor = n,
                          ![c].fetching = again, ![c].excused = swallowed]
      BY <2>1, Zenon DEF again, swallowed
    <3> QED
      BY <1>6, <3>1 DEF LastPage
  <2> HIDE DEF old, no, yes, rest
  <2>4. /\ new \in Tabs /\ new.cursor = n /\ new.fetching = again
        /\ new.shown = old.shown /\ new.excused = swallowed
    BY <1>1, <1>9, <2>3 DEF Tabs
  <2> HIDE DEF new
  <2>6. Faithful(old) => Faithful(new)
    BY <2>4, <2>5 DEF Faithful
  <2> QED
    BY <2>2, <2>4, <2>6 DEF old
<1>7. CASE PageFails(c)
  <2> DEFINE swallowed == IF tab[c].changed THEN tab[c].cursor ELSE tab[c].excused
             new == [old EXCEPT !.page = rest, !.changed = no, !.excused = swallowed]
  <2>1. tab' = [tab EXCEPT ![c] = new] /\ UNCHANGED <<txnVars, feedVars>>
    BY <1>7 DEF PageFails
  <2>2. swallowed \in Nat
    BY <1>1, TabFields
  <2>4. Faithful(old) => old.fetching \/ old.shown >= old.cursor \/ swallowed >= old.cursor
    <3>1. old.cursor \in Nat
      BY <1>1, TabFields
    <3> QED
      BY <3>1 DEF Faithful
  <2> HIDE DEF old, no, rest, swallowed
  <2>3. /\ new \in Tabs /\ new.cursor = old.cursor /\ new.fetching = old.fetching
        /\ new.shown = old.shown /\ new.excused = swallowed
    BY <1>1, <1>9, <2>2 DEF Tabs
  <2> HIDE DEF new
  <2>5. Faithful(old) => Faithful(new)
    BY <2>3, <2>4 DEF Faithful
  <2> QED
    BY <2>1, <2>3, <2>5 DEF old
<1>8. CASE Fetch(c)
  <2> DEFINE new == [old EXCEPT !.fetching = FALSE, !.shown = sequence]
  <2>1. tab' = [tab EXCEPT ![c] = new] /\ UNCHANGED <<txnVars, feedVars>>
    BY <1>8 DEF Fetch
  <2> HIDE DEF old
  <2>2. new \in Tabs /\ new.cursor = old.cursor /\ new.shown = sequence
    BY <1>1 DEF Tabs
  <2>3. old.cursor \in Nat
    BY <1>1, TabFields
  <2> HIDE DEF new
  <2>4. old.cursor <= sequence => Faithful(new)
    BY <1>1, <2>2, <2>3 DEF Faithful
  <2> QED
    BY <2>1, <2>2, <2>4 DEF old
<1>10. CASE FetchFails(c)
  <2> DEFINE passed == tab[c].cursor
             new == [old EXCEPT !.fetching = no, !.shown = rest, !.excused = passed]
  <2>1. tab' = [tab EXCEPT ![c] = new] /\ UNCHANGED <<txnVars, feedVars>>
    BY <1>10 DEF FetchFails
  <2>2. passed \in Nat /\ rest \in Nat /\ passed = old.cursor
    BY <1>1, TabFields
  <2> HIDE DEF old, no, rest, passed
  <2>3. new \in Tabs /\ new.cursor = old.cursor /\ new.excused = passed
    BY <1>1, <1>9, <2>2 DEF Tabs
  <2> HIDE DEF new
  <2>4. Faithful(new)
    BY <2>2, <2>3 DEF Faithful
  <2> QED
    BY <2>1, <2>3, <2>4 DEF old
<1> QED
  BY <1>4, <1>5, <1>6, <1>7, <1>8, <1>10 DEF TabActs

LEMMA TypeNext == TypeOK /\ [Next]_vars => TypeOK'
<1> SUFFICES ASSUME TypeOK, [Next]_vars PROVE AccountTypeOK' /\ (tab \in [Client -> Tabs])'
  BY TypeParts
  DEF TypeOK, AccountTypeOK, Tabs
<1>0. AccountTypeOK /\ tab \in [Client -> Tabs]
  BY TypeParts
<1>1. ASSUME NEW t \in Txn, Take(t) PROVE AccountTypeOK' /\ tab' = tab
  <2>1. kind[t] \in DOMAIN Program /\ pc[t] \in 1..6 /\ pc[t] <= Len(Program[kind[t]])
    BY <1>0, <1>1 DEF Take, Asks, AccountTypeOK
  <2>2. Wanted(t) \in Locks /\ pc[t] + 1 \in 1..6
    BY <2>1, ProgramType DEF Wanted
  <2>3. held' \in [Txn -> SUBSET Locks] /\ pc' \in [Txn -> 1..6]
    BY <1>0, <1>1, <2>2 DEF Take, AccountTypeOK
  <2>4. Counter(t) \in Nat
    BY <1>0 DEF Counter, AccountTypeOK
  <2>5. drawn' \in [Txn -> Seq(Nat \ {0})]
    <3>1. Append(drawn[t], Counter(t) + 1) \in Seq(Nat \ {0})
      BY <1>0, <2>4 DEF AccountTypeOK
    <3> QED
      BY <1>0, <1>1, <3>1 DEF Take, AccountTypeOK
  <2> QED
    BY <1>0, <1>1, <2>3, <2>5 DEF Take, AccountTypeOK, feedVars
<1>2. ASSUME NEW t \in Txn, Commit(t) PROVE AccountTypeOK' /\ tab' = tab
  <2>1. drawn[t] \in Seq(Nat \ {0}) /\ <<>> \in Seq(Nat \ {0})
    BY <1>0 DEF AccountTypeOK
  <2>2. sequence' \in Nat
    BY <1>0, <1>2, <2>1 DEF Commit, Counter, AccountTypeOK
  <2>3. \A i \in 1..Len(drawn[t]) : drawn[t][i] \in Nat \ {0}
    BY <2>1
  <2>4. rows' \subseteq [seq : Nat \ {0}, by : Txn]
    BY <1>0, <1>2, <2>3 DEF Commit, AccountTypeOK
  <2> QED
    BY <1>0, <1>2, <2>1, <2>2, <2>4 DEF Commit, AccountTypeOK
<1>3. ASSUME NEW t \in Txn, Fail(t) \/ Cancel(t) PROVE AccountTypeOK' /\ tab' = tab
  <2>1. Rollback(t) /\ <<>> \in Seq(Nat \ {0})
    BY <1>3 DEF Fail, Cancel
  <2> QED
    BY <1>0, <2>1 DEF Rollback, Release, AccountTypeOK, feedVars
<1>4. ASSUME NEW c \in Client, TabActs(c)
      PROVE  AccountTypeOK' /\ tab' \in [Client -> Tabs]
  <2>1. PICK new \in Tabs : tab' = [tab EXCEPT ![c] = new] /\ UNCHANGED <<txnVars, feedVars>>
    BY <1>4, TabStep
  <2> QED
    BY <1>0, <2>1 DEF AccountTypeOK, txnVars, feedVars
<1>5. CASE UNCHANGED vars
  BY <1>0, <1>5 DEF vars, txnVars, feedVars, AccountTypeOK
<1> QED
  BY <1>0, <1>1, <1>2, <1>3, <1>4, <1>5 DEF Next, TabActs

\* Transactions, rows and tabs have their types.
THEOREM TypeCorrect == Spec => []TypeOK
BY TypeInit, TypeNext, PTL DEF Spec

----------------------------------------------------------------------------
(* The numbers.                                                            *)

\* The committed changes have the numbers up to sequence, each once.
Numbered(R, n) ==
  /\ \A r \in R : r.seq \in 1..n
  /\ \A i \in 1..n : \E r \in R : r.seq = i
  /\ \A r, s \in R : r.seq = s.seq => r = s

\* Only the holder of the cursor row has drawn numbers: those that come next.
Drawing ==
  /\ \A t, u \in Txn : "cursor" \in held[t] /\ "cursor" \in held[u] => t = u
  /\ \A t \in Txn : drawn[t] # <<>> => "cursor" \in held[t]
  /\ \A t \in Txn : \A i \in 1..Len(drawn[t]) : drawn[t][i] = sequence + i

FeedInv ==
  /\ TypeOK
  /\ Numbered(rows, sequence)
  /\ Drawing
  /\ \A c \in Client : tab[c].cursor <= sequence

LEMMA CounterValue ==
  ASSUME FeedInv, NEW t \in Txn
  PROVE  Counter(t) = sequence + Len(drawn[t])
<1>1. drawn[t] \in Seq(Nat \ {0}) /\ sequence \in Nat
  BY DEF FeedInv, TypeOK
<1>2. CASE drawn[t] = <<>>
  BY <1>1, <1>2 DEF Counter
<1>3. CASE drawn[t] # <<>>
  <2>1. Len(drawn[t]) \in 1..Len(drawn[t])
    BY <1>1, <1>3
  <2> QED
    BY <1>3, <2>1 DEF Counter, FeedInv, Drawing
<1> QED
  BY <1>2, <1>3

\* Commits number what they publish behind all that is published.
LEMMA CommitNumbers ==
  ASSUME FeedInv, NEW t \in Txn, Commit(t)
  PROVE  /\ sequence' = sequence + Len(drawn[t])
         /\ Numbered(rows', sequence')
         /\ \A r \in rows' \ rows : r.seq > sequence
<1> DEFINE n == Len(drawn[t])
           R == {[seq |-> drawn[t][i], by |-> t] : i \in 1..n}
<1>1. sequence' = sequence + n /\ rows' = rows \cup R
  BY CounterValue DEF Commit
<1>2. sequence \in Nat /\ n \in Nat
  BY DEF FeedInv, TypeOK
<1>3. \A i \in 1..n : drawn[t][i] = sequence + i
  BY DEF FeedInv, Drawing
<1>4. \A r \in R : r.by = t /\ r.seq \in (sequence + 1)..(sequence + n)
  BY <1>2, <1>3
<1>5. \A i \in (sequence + 1)..(sequence + n) : \E r \in R : r.seq = i
  <2> TAKE i \in (sequence + 1)..(sequence + n)
  <2>1. i - sequence \in 1..n /\ drawn[t][i - sequence] = i
    BY <1>2, <1>3
  <2>2. [seq |-> drawn[t][i - sequence], by |-> t] \in R
    BY <2>1
  <2> QED
    BY <2>1, <2>2
<1>6. \A r, s \in R : r.seq = s.seq => r = s
  OBVIOUS
<1>7. Numbered(rows, sequence)
  BY DEF FeedInv
<1> HIDE DEF n, R
<1>8. \A r \in rows' : r.seq \in 1..(sequence + n)
  BY <1>1, <1>2, <1>4, <1>7 DEF Numbered
<1>9. \A i \in 1..(sequence + n) : \E r \in rows' : r.seq = i
  <2> TAKE i \in 1..(sequence + n)
  <2>1. i \in 1..sequence \/ i \in (sequence + 1)..(sequence + n)
    BY <1>2
  <2> QED
    BY <1>1, <1>5, <1>7, <2>1 DEF Numbered
<1>10. \A r, s \in rows' : r.seq = s.seq => r = s
  <2> SUFFICES ASSUME NEW r \in rows', NEW s \in rows', r.seq = s.seq PROVE r = s
    OBVIOUS
  <2>1. \A x \in rows, y \in R : x.seq # y.seq
    BY <1>2, <1>4, <1>7 DEF Numbered
  <2> QED
    BY <1>1, <1>6, <1>7, <2>1 DEF Numbered
<1>11. \A r \in rows' \ rows : r.seq > sequence
  BY <1>1, <1>2, <1>4
<1> QED
  BY <1>1, <1>8, <1>9, <1>10, <1>11 DEF n, Numbered

LEMMA FeedInit == Init => FeedInv
BY TypeInit DEF Init, FeedInv, Numbered, Drawing

LEMMA FeedNext == FeedInv /\ [Next]_vars => FeedInv'
<1> SUFFICES ASSUME FeedInv, [Next]_vars
             PROVE  /\ Numbered(rows', sequence') /\ Drawing'
                    /\ \A c \in Client : tab'[c].cursor <= sequence'
  BY TypeNext DEF FeedInv
<1>0. TypeOK /\ Drawing /\ Numbered(rows, sequence)
      /\ \A c \in Client : tab[c].cursor <= sequence
  BY DEF FeedInv
<1>1. AccountTypeOK /\ tab \in [Client -> Tabs]
  BY <1>0, TypeParts
<1>2. ASSUME NEW t \in Txn, Take(t)
      PROVE  Drawing' /\ UNCHANGED <<feedVars, tab>>
  <2>1. held' = [held EXCEPT ![t] = held[t] \cup {Wanted(t)}]
        /\ UNCHANGED <<feedVars, tab>> /\ Blockers(t) = {}
    BY <1>2 DEF Take
  <2>2. CASE Wanted(t) = "cursor"
    <3>1. \A u \in Txn \ {t} : "cursor" \notin held[u]
      BY <2>1, <2>2 DEF Blockers, Conflicts
    <3>2. \A u \in Txn \ {t} : drawn[u] = <<>>
      BY <1>0, <3>1 DEF Drawing
    <3>3. drawn' = [drawn EXCEPT ![t] = Append(drawn[t], sequence + Len(drawn[t]) + 1)]
      BY <1>2, <2>2, CounterValue DEF Take
    <3>4. drawn[t] \in Seq(Nat \ {0}) /\ sequence \in Nat
      BY <1>1 DEF AccountTypeOK
    <3>5. \A i \in 1..Len(drawn'[t]) : drawn'[t][i] = sequence + i
      <4>1. drawn'[t] = Append(drawn[t], sequence + Len(drawn[t]) + 1)
        BY <1>1, <3>3 DEF AccountTypeOK
      <4>2. \A i \in 1..Len(drawn[t]) : drawn[t][i] = sequence + i
        BY <1>0 DEF Drawing
      <4> DEFINE d == drawn[t]
                 x == sequence + Len(d) + 1
      <4>3. d \in Seq(Nat \ {0}) /\ Len(d) \in Nat /\ x \in Nat \ {0}
        BY <3>4
      <4>4. \A i \in 1..Len(d) : d[i] = sequence + i
        BY <4>2
      <4>5. x = sequence + (Len(d) + 1)
        BY <3>4, <4>3
      <4> HIDE DEF d, x
      <4>6. Len(Append(d, x)) = Len(d) + 1 /\ Append(d, x)[Len(d) + 1] = x
        BY <4>3
      <4>7. ASSUME NEW i \in 1..(Len(d) + 1) PROVE Append(d, x)[i] = sequence + i
        <5>1. CASE i = Len(d) + 1
          BY <4>5, <4>6, <5>1
        <5>2. CASE i \in 1..Len(d)
          <6>1. Append(d, x)[i] = d[i]
            BY <4>3, <5>2
          <6> QED
            BY <4>4, <5>2, <6>1
        <5> QED
          BY <4>3, <5>1, <5>2
      <4>8. drawn'[t] = Append(d, x)
        BY <4>1 DEF d, x
      <4> QED
        BY <4>6, <4>7, <4>8
    <3>6. \A u \in Txn \ {t} : drawn'[u] = <<>> /\ held'[u] = held[u]
      BY <1>1, <2>1, <3>2, <3>3 DEF AccountTypeOK
    <3>7. "cursor" \in held'[t]
      BY <1>1, <2>1, <2>2 DEF AccountTypeOK
    <3> QED
      BY <2>1, <3>1, <3>5, <3>6, <3>7 DEF Drawing, feedVars
  <2>3. CASE Wanted(t) # "cursor"
    <3>1. drawn' = drawn
      BY <1>2, <2>3 DEF Take
    <3>2. \A u \in Txn : "cursor" \in held'[u] <=> "cursor" \in held[u]
      BY <1>1, <2>1, <2>3 DEF AccountTypeOK
    <3> QED
      BY <1>0, <2>1, <3>1, <3>2 DEF Drawing, feedVars
  <2> QED
    BY <2>1, <2>2, <2>3
<1>3. ASSUME NEW t \in Txn, Commit(t)
      PROVE  /\ Numbered(rows', sequence') /\ Drawing' /\ tab' = tab
             /\ sequence' >= sequence
  <2>1. sequence' = sequence + Len(drawn[t]) /\ Numbered(rows', sequence')
    BY <1>3, CommitNumbers
  <2>2. sequence \in Nat /\ Len(drawn[t]) \in Nat /\ drawn[t] \in Seq(Nat \ {0})
    BY <1>1 DEF AccountTypeOK
  <2>3. \A u \in Txn : u # t => held'[u] = held[u] /\ drawn'[u] = drawn[u]
    BY <1>1, <1>3 DEF Commit, AccountTypeOK
  <2>4. held'[t] = {} /\ drawn'[t] = <<>>
    BY <1>1, <1>3 DEF Commit, AccountTypeOK
  <2>5. ASSUME NEW u \in Txn, NEW i \in 1..Len(drawn'[u])
        PROVE  drawn'[u][i] = sequence' + i
    <3>1. u # t /\ drawn[u] # <<>>
      BY <2>3, <2>4
    <3>2. drawn[t] = <<>>
      BY <1>0, <3>1 DEF Drawing
    <3> QED
      BY <1>0, <2>1, <2>2, <2>3, <3>1, <3>2 DEF Drawing
  <2> QED
    BY <1>0, <1>3, <2>1, <2>2, <2>3, <2>4, <2>5 DEF Drawing, Commit
<1>4. ASSUME NEW t \in Txn, Rollback(t)
      PROVE  Drawing' /\ UNCHANGED <<feedVars, tab>>
  <2>1. \A u \in Txn : u # t => held'[u] = held[u] /\ drawn'[u] = drawn[u]
    BY <1>1, <1>4 DEF Rollback, Release, AccountTypeOK
  <2>2. held'[t] = {} /\ drawn'[t] = <<>> /\ UNCHANGED <<feedVars, tab>>
    BY <1>1, <1>4 DEF Rollback, Release, AccountTypeOK
  <2> QED
    BY <1>0, <2>1, <2>2 DEF Drawing, feedVars
<1>5. ASSUME NEW c \in Client, TabActs(c)
      PROVE  /\ Drawing' /\ UNCHANGED feedVars
             /\ \A d \in Client : tab'[d].cursor <= sequence
  <2>1. PICK new \in Tabs :
          /\ tab' = [tab EXCEPT ![c] = new]
          /\ new.cursor = tab[c].cursor \/ new.cursor \in NextCursor(c)
          /\ UNCHANGED <<txnVars, feedVars>>
    BY <1>0, <1>5, TabStep
  <2>2. new.cursor <= sequence
    <3>1. \A n \in Seqs : n <= sequence
      BY <1>0, <1>1 DEF Seqs, Numbered, AccountTypeOK
    <3>2. \A n \in NextCursor(c) : n \in Seqs \/ n = tab[c].cursor
      BY <1>0, CursorType
    <3> QED
      BY <1>0, <2>1, <3>1, <3>2
  <2> QED
    BY <1>0, <1>1, <2>1, <2>2 DEF Drawing, txnVars, feedVars
<1>6. CASE UNCHANGED vars
  BY <1>0, <1>6 DEF vars, txnVars, feedVars, Drawing
<1>7. ASSUME NEW t \in Txn, Fail(t) \/ Cancel(t) PROVE Rollback(t)
  BY <1>7 DEF Fail, Cancel
<1>8. \A c \in Client : tab[c].cursor \in Nat
  BY <1>1, TabFields
<1>9. ASSUME NEW t \in Txn, Commit(t) PROVE \A c \in Client : tab'[c].cursor <= sequence'
  <2>1. sequence' >= sequence /\ tab' = tab /\ sequence \in Nat
    BY <1>1, <1>3, <1>9 DEF AccountTypeOK
  <2>2. sequence' \in Nat
    BY <1>1, <1>9, CommitNumbers DEF AccountTypeOK
  <2> QED
    BY <1>0, <1>8, <2>1, <2>2
<1> QED
  BY <1>0, <1>2, <1>3, <1>4, <1>5, <1>6, <1>7, <1>9 DEF Next, TabActs, feedVars

\* No change is committed at or below a cursor that a tab has been given.
THEOREM NothingBehindCursorHolds == Spec => NothingBehindCursor
<1>1. FeedInv /\ [Next]_vars
        => [\A r \in rows' \ rows : \A c \in Client : r.seq > tab[c].cursor]_vars
  <2> SUFFICES ASSUME FeedInv, Next, NEW r \in rows' \ rows, NEW c \in Client
               PROVE  r.seq > tab[c].cursor
    BY DEF vars, feedVars
  <2>1. TypeOK /\ tab[c].cursor <= sequence /\ sequence \in Nat
    BY DEF FeedInv, TypeOK
  <2>2. tab[c].cursor \in Nat
    BY <2>1, TypeParts, TabFields
  <2>3. PICK t \in Txn : Commit(t)
    <3>1. \A d \in Client : TabActs(d)
            => rows' = rows
      BY DEF TabActs, Poll, Page, LastPage, PageFails, Fetch, FetchFails, feedVars
    <3>2. \A t \in Txn : Take(t) \/ Fail(t) \/ Cancel(t) => rows' = rows
      BY DEF Take, Fail, Cancel, Rollback, feedVars
    <3> QED
      BY <3>1, <3>2 DEF Next, TabActs
  <2>4. r.seq > sequence /\ Numbered(rows', sequence') /\ sequence' \in Nat
    BY <2>1, <2>3, CommitNumbers DEF FeedInv, TypeOK
  <2>5. r.seq \in Nat
    BY <2>4 DEF Numbered
  <2> QED
    BY <2>1, <2>2, <2>4, <2>5
<1> QED
  BY <1>1, FeedInit, FeedNext, PTL DEF Spec, NothingBehindCursor

----------------------------------------------------------------------------
(* The lists.                                                              *)

\* Between the steps of a poll a tab at rest has nothing to fetch only if its
\* lists show what the cursor has passed, or are excused.
ListsInv == FeedInv /\ \A c \in Client : Faithful(tab[c])

LEMMA ListsNext == ListsInv /\ [Next]_vars => ListsInv'
<1> SUFFICES ASSUME ListsInv, [Next]_vars PROVE \A c \in Client : Faithful(tab'[c])
  BY FeedNext DEF ListsInv, Faithful
<1>1. TypeOK /\ tab \in [Client -> Tabs] /\ \A c \in Client : tab[c].cursor <= sequence
  BY TypeParts DEF ListsInv, FeedInv
<1>2. ASSUME NEW c \in Client, TabActs(c)
      PROVE  \A d \in Client : Faithful(tab'[d])
  <2>1. PICK new \in Tabs :
          /\ tab' = [tab EXCEPT ![c] = new]
          /\ Faithful(tab[c]) /\ tab[c].cursor <= sequence => Faithful(new)
    BY <1>1, <1>2, TabStep
  <2>2. tab'[c] = new /\ \A d \in Client : d # c => tab'[d] = tab[d]
    BY <1>1, <2>1
  <2> QED
    BY <1>1, <2>1, <2>2 DEF ListsInv
<1>3. ASSUME tab' = tab PROVE \A c \in Client : Faithful(tab'[c])
  BY <1>3 DEF ListsInv
<1>4. ASSUME NEW t \in Txn, Take(t) \/ Commit(t) \/ Fail(t) \/ Cancel(t) PROVE tab' = tab
  BY <1>4 DEF Take, Commit, Fail, Cancel, Rollback
<1> QED
  BY <1>2, <1>3, <1>4 DEF Next, TabActs, vars

\* Pages, polls and fetches lose no change between them but those a failed
\* request or the tab's first poll swallowed, on pages of any size.
THEOREM ShownUnlessExcusedHolds == Spec => []ShownUnlessExcused
<1>1. Init => ListsInv
  BY FeedInit DEF Init, ListsInv, Faithful
<1>2. ListsInv => ShownUnlessExcused
  <2> SUFFICES ASSUME ListsInv, NEW c \in Client, tab[c].page = 0, ~tab[c].fetching,
                      tab[c].shown < tab[c].cursor
               PROVE  tab[c].excused >= tab[c].cursor
    BY DEF ShownUnlessExcused
  <2>1. tab[c].shown \in Nat /\ tab[c].cursor \in Nat /\ Faithful(tab[c])
    BY TypeParts, TabFields DEF ListsInv, FeedInv
  <2> QED
    BY <2>1 DEF Faithful
<1> QED
  BY <1>1, <1>2, ListsNext, PTL DEF Spec

----------------------------------------------------------------------------
(* CloudFeed implements Feed.                                              *)

LogOf(R, n) == [i \in 1..n |-> (CHOOSE r \in R : r.seq = i).by]

LEMMA LogOfEntries ==
  ASSUME NEW R, NEW n \in Nat, Numbered(R, n), \A r \in R : r.by \in Txn
  PROVE  /\ LogOf(R, n) \in Seq(Txn) /\ Len(LogOf(R, n)) = n
         /\ \A r \in R : LogOf(R, n)[r.seq] = r.by
<1>1. \A i \in 1..n : (CHOOSE r \in R : r.seq = i) \in R
  BY DEF Numbered
<1>2. LogOf(R, n) \in [1..n -> Txn]
  BY <1>1 DEF LogOf
<1>3. LogOf(R, n) \in Seq(Txn) /\ Len(LogOf(R, n)) = n
  BY <1>2, SeqDef, LenProperties
<1>4. ASSUME NEW r \in R PROVE LogOf(R, n)[r.seq] = r.by
  <2> DEFINE x == CHOOSE y \in R : y.seq = r.seq
  <2>1. x \in R /\ x.seq = r.seq
    OBVIOUS
  <2>2. x = r
    BY <2>1 DEF Numbered
  <2>3. r.seq \in 1..n
    BY DEF Numbered
  <2> QED
    BY <2>2, <2>3 DEF LogOf
<1> QED
  BY <1>3, <1>4

LEMMA LogEntries ==
  ASSUME FeedInv
  PROVE  /\ sequence \in Nat /\ Log \in Seq(Txn) /\ Len(Log) = sequence
         /\ \A r \in rows : Log[r.seq] = r.by
<1>1. sequence \in Nat /\ Numbered(rows, sequence) /\ \A r \in rows : r.by \in Txn
  BY DEF FeedInv, TypeOK
<1>2. Log = LogOf(rows, sequence)
  BY DEF Log, LogOf
<1> QED
  BY <1>1, <1>2, LogOfEntries

\* Log in the next state, when the invariant holds there.
LEMMA NextLogEntries ==
  ASSUME FeedInv'
  PROVE  /\ sequence' \in Nat /\ Log' \in Seq(Txn) /\ Len(Log') = sequence'
         /\ \A r \in rows' : Log'[r.seq] = r.by
<1>1. sequence' \in Nat /\ Numbered(rows', sequence') /\ \A r \in rows' : r.by \in Txn
  BY DEF FeedInv, TypeOK
<1>2. Log' = LogOf(rows', sequence')
  BY DEF Log, LogOf
<1> QED
  BY <1>1, <1>2, LogOfEntries

LEMMA CommitPublishes ==
  ASSUME FeedInv, FeedInv', NEW t \in Txn, Commit(t)
  PROVE  Abstract!Publish \/ UNCHANGED Abstract!vars
<1>1. sequence' = sequence + Len(drawn[t]) /\ tab' = tab
  BY CommitNumbers DEF Commit
<1>2. sequence \in Nat /\ Len(Log) = sequence /\ Len(Log') = sequence'
      /\ Len(drawn[t]) \in Nat /\ drawn[t] \in Seq(Nat \ {0})
  BY LogEntries, NextLogEntries DEF FeedInv, TypeOK
<1>3. CASE drawn[t] = <<>>
  <2>1. sequence' = sequence /\ rows' = rows
    BY <1>1, <1>2, <1>3 DEF Commit
  <2> QED
    BY <1>1, <2>1 DEF Abstract!vars, Log
<1>4. CASE drawn[t] # <<>>
  <2>1. Len(Log') > Len(Log)
    BY <1>1, <1>2, <1>4
  <2>2. ASSUME NEW i \in 1..Len(Log) PROVE Log'[i] = Log[i]
    <3>1. PICK r \in rows : r.seq = i
      BY <1>2, <2>2 DEF FeedInv, Numbered
    <3>2. r \in rows'
      BY DEF Commit
    <3> QED
      BY <3>1, <3>2, LogEntries, NextLogEntries
  <2> QED
    BY <1>1, <2>1, <2>2 DEF Abstract!Publish
<1> QED
  BY <1>3, <1>4

LEMMA TabReads ==
  ASSUME FeedInv, FeedInv', NEW c \in Client,
         TabActs(c)
  PROVE  Abstract!Read(c) \/ UNCHANGED Abstract!vars
<1>1. PICK new \in Tabs :
        /\ tab' = [tab EXCEPT ![c] = new]
        /\ new.cursor = tab[c].cursor \/ new.cursor \in NextCursor(c)
        /\ UNCHANGED <<txnVars, feedVars>>
  BY TabStep DEF FeedInv
<1>2. tab \in [Client -> Tabs] /\ Log' = Log /\ Len(Log) = sequence /\ sequence \in Nat
  BY <1>1, LogEntries, TypeParts DEF FeedInv, feedVars, Log
<1> DEFINE cursors == [d \in Client |-> tab[d].cursor]
<1>3. cursors' = [cursors EXCEPT ![c] = new.cursor]
  BY <1>1, <1>2
<1>4. new.cursor \in Nat /\ tab[c].cursor \in Nat /\ new.cursor >= tab[c].cursor
  BY <1>1, <1>2, TabFields, CursorType DEF FeedInv
<1>5. tab'[c].cursor = new.cursor /\ new.cursor <= sequence
  BY <1>1, <1>2 DEF FeedInv, feedVars
<1>6. CASE new.cursor = tab[c].cursor
  <2>1. cursors' = cursors
    BY <1>3, <1>6
  <2> QED
    BY <1>2, <2>1 DEF Abstract!vars
<1>7. CASE new.cursor # tab[c].cursor
  <2>1. new.cursor \in (cursors[c] + 1)..Len(Log)
    BY <1>2, <1>4, <1>5, <1>7
  <2> QED
    BY <1>2, <1>3, <2>1 DEF Abstract!Read
<1> QED
  BY <1>6, <1>7

\* What CloudFeed does is what Feed allows: the log of an account only grows
\* at its end, and each tab reads it from the beginning without a gap, for
\* any number of transactions and tabs and any page size.
THEOREM FeedIsFollowedHolds == Spec => FeedIsFollowed
<1>1. Init => Abstract!Init
  <2> SUFFICES ASSUME Init PROVE Abstract!Init
    OBVIOUS
  <2>1. Log \in Seq(Txn) /\ Len(Log) = 0
    BY FeedInit, LogEntries DEF Init
  <2>2. Log = <<>>
    BY <2>1
  <2>3. [c \in Client |-> tab[c].cursor] = [c \in Client |-> 0]
    BY DEF Init
  <2> QED
    BY <2>2, <2>3 DEF Abstract!Init
<1>2. FeedInv /\ FeedInv' /\ [Next]_vars => [Abstract!Next]_(Abstract!vars)
  <2> SUFFICES ASSUME FeedInv, FeedInv', [Next]_vars
               PROVE  Abstract!Next \/ UNCHANGED Abstract!vars
    OBVIOUS
  <2>1. ASSUME NEW t \in Txn, Take(t) \/ Fail(t) \/ Cancel(t) PROVE UNCHANGED Abstract!vars
    <3>1. sequence' = sequence /\ rows' = rows /\ tab' = tab
      BY <2>1 DEF Take, Fail, Cancel, Rollback, feedVars
    <3> QED
      BY <3>1 DEF Abstract!vars, Log
  <2>2. CASE UNCHANGED vars
    BY <2>2 DEF vars, feedVars, Abstract!vars, Log
  <2> QED
    BY <2>1, <2>2, CommitPublishes, TabReads DEF Next, TabActs, Abstract!Next
<1> QED
  BY <1>1, <1>2, FeedInit, FeedNext, PTL DEF Spec, FeedIsFollowed, Abstract!Spec
=============================================================================
