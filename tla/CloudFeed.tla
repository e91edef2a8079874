----------------------------- MODULE CloudFeed -----------------------------
(***************************************************************************)
(* The change feed of one account and the browsers that poll it.           *)
(*                                                                         *)
(* Every transaction that changes a file, folder or share of the account   *)
(* runs the trigger cloud_emit (003_cloud_versions.sql): it increments the *)
(* account's cloud_cursors row, which stays locked until the transaction   *)
(* ends, and inserts a cloud_changes row, whose foreign key takes a share  *)
(* of the lock on the users row.  Most handlers lock the users row first,  *)
(* the worker and a few handlers do not, and finalize locks it afterwards: *)
(* these orders can deadlock, and PostgreSQL then cancels a transaction.   *)
(*                                                                         *)
(* A browser (apps/web/src/cloud-sync.tsx) follows the feed page by page   *)
(* and has its lists fetched again when something changed.                 *)
(***************************************************************************)
EXTENDS Naturals, FiniteSets, Sequences

CONSTANTS Txn,       \* transactions of the account, each run once
          Client,    \* browser tabs
          PageSize,  \* changes per page
          MaxPages   \* pages per poll

ASSUME FeedConstants ==
  /\ IsFiniteSet(Txn)
  /\ PageSize \in Nat \ {0} /\ MaxPages \in Nat \ {0}

VARIABLES
  kind,   \* which handler a transaction belongs to
  pc,     \* the next lock it asks for
  state,  \* open, committed or aborted
  held,   \* the row locks it holds
  drawn,  \* the sequence numbers it has drawn, in order
  sequence,  \* cloud_cursors.sequence, committed
  rows,   \* cloud_changes, committed: sequence number and transaction
  tab     \* what a browser tab knows

txnVars == <<kind, pc, state, held, drawn>>
feedVars == <<sequence, rows>>
vars == <<txnVars, feedVars, tab>>

\* The locks of the handlers in the order they ask for them: "user" is SELECT
\* ... FROM users FOR UPDATE, "cursor" the increment of cloud_cursors, "key"
\* the foreign key of cloud_changes.
Program ==
  [ edit     |-> <<"user", "cursor", "key", "cursor", "key">>,  \* bulk, replace, upload, share
    pass     |-> <<"cursor", "key">>,          \* worker, moderator, revocation
    complete |-> <<"cursor", "key", "user">> ] \* finalize: then the share's allowance

Locks == {"user", "cursor", "key"}
Seqs == {r.seq : r \in rows}

TypeOK ==
  /\ kind \in [Txn -> DOMAIN Program]
  /\ pc \in [Txn -> 1..6]
  /\ state \in [Txn -> {"open", "committed", "aborted"}]
  /\ held \in [Txn -> SUBSET Locks]
  /\ drawn \in [Txn -> Seq(Nat \ {0})]
  /\ sequence \in Nat
  /\ rows \subseteq [seq : Nat \ {0}, by : Txn]
  /\ tab \in [Client -> [cursor : Nat, page : 0..MaxPages, changed : BOOLEAN,
                         initialized : BOOLEAN, fetching : BOOLEAN,
                         shown : Nat, excused : Nat]]

\* A tab starts with the lists it fetches and its first poll both to come.
Init ==
  /\ kind \in [Txn -> DOMAIN Program]
  /\ pc = [t \in Txn |-> 1]
  /\ state = [t \in Txn |-> "open"]
  /\ held = [t \in Txn |-> {}]
  /\ drawn = [t \in Txn |-> <<>>]
  /\ sequence = 0
  /\ rows = {}
  /\ tab = [c \in Client |-> [cursor |-> 0, page |-> 0, changed |-> FALSE,
                              initialized |-> FALSE, fetching |-> TRUE,
                              shown |-> 0, excused |-> 0]]

----------------------------------------------------------------------------
(* Transactions.                                                           *)

\* Mutant of Conflicts: the cursor row is read, not locked.
NoCursorLock == {<<"user", "user">>, <<"user", "key">>, <<"key", "user">>}

\* Which row lock excludes which of another transaction.
Conflicts == {<<"user", "user">>, <<"user", "key">>, <<"key", "user">>,
              <<"cursor", "cursor">>}

Asks(t) == state[t] = "open" /\ pc[t] <= Len(Program[kind[t]])
Wanted(t) == Program[kind[t]][pc[t]]

\* The transactions t waits for.
Blockers(t) ==
  {u \in Txn \ {t} : \E l \in held[u] : <<Wanted(t), l>> \in Conflicts}

\* The cursor row as t sees it: its own increments and what is committed.
Counter(t) == IF drawn[t] = <<>> THEN sequence ELSE drawn[t][Len(drawn[t])]

Take(t) ==
  /\ Asks(t) /\ Blockers(t) = {}
  /\ held' = [held EXCEPT ![t] = @ \cup {Wanted(t)}]
  /\ drawn' = IF Wanted(t) = "cursor"
                THEN [drawn EXCEPT ![t] = Append(@, Counter(t) + 1)] ELSE drawn
  /\ pc' = [pc EXCEPT ![t] = @ + 1]
  /\ UNCHANGED <<kind, state, feedVars, tab>>

Commit(t) ==
  /\ state[t] = "open" /\ ~Asks(t)
  /\ sequence' = Counter(t)
  /\ rows' = rows \cup {[seq |-> drawn[t][i], by |-> t] : i \in 1..Len(drawn[t])}
  /\ state' = [state EXCEPT ![t] = "committed"]
  /\ held' = [held EXCEPT ![t] = {}]
  /\ drawn' = [drawn EXCEPT ![t] = <<>>]
  /\ UNCHANGED <<kind, pc, tab>>

\* Mutant of Release: the connection goes back to the pool as it is.
KeepLocks(t) == held' = held /\ drawn' = drawn /\ t \in Txn

\* ROLLBACK.
Release(t) ==
  /\ held' = [held EXCEPT ![t] = {}]
  /\ drawn' = [drawn EXCEPT ![t] = <<>>]

Rollback(t) ==
  /\ state' = [state EXCEPT ![t] = "aborted"]
  /\ Release(t)
  /\ UNCHANGED <<kind, pc, feedVars, tab>>

\* The handler throws, on a check or because its connection breaks.
Fail(t) == state[t] = "open" /\ Rollback(t)

\* PostgreSQL cancels one of the transactions that wait for each other. One
\* holds the users row and the other the cursor, so a cycle has two members.
Deadlocked(t) ==
  /\ Asks(t)
  /\ \E u \in Blockers(t) : Asks(u) /\ t \in Blockers(u)

Cancel(t) == Deadlocked(t) /\ Rollback(t)

----------------------------------------------------------------------------
(* The browser.                                                            *)

\* setInterval or visibilitychange; a poll in progress is left alone.
Poll(c) ==
  /\ tab[c].page = 0
  /\ tab' = [tab EXCEPT ![c].page = 1, ![c].changed = FALSE]
  /\ UNCHANGED <<txnVars, feedVars>>

\* GET /api/cloud/changes: the first changes behind the tab's cursor.
Items(c) ==
  LET later == {n \in Seqs : n > tab[c].cursor}
  IN {n \in later : Cardinality({m \in later : m <= n}) <= PageSize}

\* Mutant of Changed: only the last page of a poll counts.
ThisPageChanged(c) == Items(c) # {}

Changed(c) == tab[c].changed \/ Items(c) # {}

HasMore(c) == Cardinality(Items(c)) = PageSize

\* Mutant of NextCursor: it moves with the last page of a poll only.
NextCursorAtTheEnd(c) == IF HasMore(c) THEN {tab[c].cursor} ELSE {tab[c].cursor} \cup Items(c)

\* The number of the page's last item, or the cursor as it was.
NextCursor(c) == {n \in Items(c) \cup {tab[c].cursor} : \A m \in Items(c) : m <= n}

\* Mutant of GoesOn: one page too many.
GoesOnTooLong(c) == HasMore(c) /\ tab[c].page <= MaxPages

GoesOn(c) == HasMore(c) /\ tab[c].page < MaxPages

\* A page that is not the last one of the poll.
Page(c) ==
  /\ tab[c].page > 0 /\ GoesOn(c)
  /\ \E n \in NextCursor(c) :
       tab' = [tab EXCEPT ![c].page = @ + 1, ![c].changed = Changed(c), ![c].cursor = n]
  /\ UNCHANGED <<txnVars, feedVars>>

\* The last page: the lists are fetched again if anything changed, except by
\* a tab's first poll. That one may swallow changes made since the lists.
LastPage(c) ==
  /\ tab[c].page > 0 /\ ~GoesOn(c)
  /\ \E n \in NextCursor(c) :
       tab' = [tab EXCEPT ![c].page = 0, ![c].changed = FALSE,
                          ![c].initialized = TRUE, ![c].cursor = n,
                          ![c].fetching = @ \/ (tab[c].initialized /\ Changed(c)),
                          ![c].excused = IF tab[c].initialized THEN @ ELSE n]
  /\ UNCHANGED <<txnVars, feedVars>>

\* A request that fails ends the poll, and what its earlier pages said about
\* changes is forgotten though the cursor has passed them.
PageFails(c) ==
  /\ tab[c].page > 0
  /\ tab' = [tab EXCEPT ![c].page = 0, ![c].changed = FALSE,
                        ![c].excused = IF tab[c].changed THEN tab[c].cursor ELSE @]
  /\ UNCHANGED <<txnVars, feedVars>>

\* The lists show what was committed when the server read them.
Fetch(c) ==
  /\ tab[c].fetching
  /\ tab' = [tab EXCEPT ![c].fetching = FALSE, ![c].shown = sequence]
  /\ UNCHANGED <<txnVars, feedVars>>

\* They show an error instead, until the user or the next change has them
\* fetched again.
FetchFails(c) ==
  /\ tab[c].fetching
  /\ tab' = [tab EXCEPT ![c].fetching = FALSE, ![c].shown = 0, ![c].excused = tab[c].cursor]
  /\ UNCHANGED <<txnVars, feedVars>>

----------------------------------------------------------------------------
Next ==
  \/ \E t \in Txn : Take(t) \/ Commit(t) \/ Fail(t) \/ Cancel(t)
  \/ \E c \in Client :
       Poll(c) \/ Page(c) \/ LastPage(c) \/ PageFails(c) \/ Fetch(c) \/ FetchFails(c)

Spec == Init /\ [][Next]_vars

(***************************************************************************)
(* Fairness: PostgreSQL grants a free lock, runs what has its locks and    *)
(* looks for deadlocks; a visible tab polls every five seconds and its     *)
(* requests do not fail for ever.  No handler is assumed to fail.          *)
(***************************************************************************)
Fairness ==
  /\ \A t \in Txn : WF_vars(Take(t)) /\ WF_vars(Commit(t)) /\ WF_vars(Cancel(t))
  /\ \A c \in Client : WF_vars(Poll(c)) /\ SF_vars(Page(c)) /\ SF_vars(LastPage(c))
                                        /\ WF_vars(Fetch(c))

FairSpec == Spec /\ Fairness

----------------------------------------------------------------------------
(* Properties.                                                             *)

\* The numbers of the committed changes order them as they were committed:
\* the rows are the log of Feed, and a tab's cursor is its place in it. A
\* transaction that commits late would otherwise put a change behind a
\* cursor that a browser has been given (003_cloud_versions.sql:11,
\* cloud.ts:21).
Log == [i \in 1..sequence |-> (CHOOSE r \in rows : r.seq = i).by]

Abstract == INSTANCE Feed WITH Reader <- Client, log <- Log,
                               seen <- [c \in Client |-> tab[c].cursor]

FeedIsFollowed == Abstract!Spec

\* No change appears at or below a cursor some tab has been given.
NothingBehindCursor ==
  [][\A r \in rows' \ rows : \A c \in Client : r.seq > tab[c].cursor]_vars

\* The lists of a tab at rest lack a change its cursor has passed only if a
\* failed request, of a page or of the lists, or the tab's first poll swallowed
\* it: pages, polls and fetches otherwise lose nothing between them
\* (cloud-sync.tsx:9, components.tsx:15).
ShownUnlessExcused ==
  \A c \in Client :
    tab[c].page = 0 /\ ~tab[c].fetching /\ tab[c].shown < tab[c].cursor
      => tab[c].excused >= tab[c].cursor

\* Every tab's cursor comes to every change, however many fit on a page and
\* whichever requests fail (cloud-sync.tsx:9, cloud.ts:21-22).
ReaderCatchesUp ==
  \A c \in Client : \A n \in 1..(2 * Cardinality(Txn)) :
    n \in Seqs ~> tab[c].cursor >= n

\* Handlers that lock the users row first and handlers that emit first do not
\* wait for each other for ever (files.ts:46, uploads.ts:50, database/index.ts:13).
EveryTransactionEnds == \A t \in Txn : <>(state[t] # "open")
============================================================================
