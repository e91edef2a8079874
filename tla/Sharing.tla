------------------------------ MODULE Sharing ------------------------------
(***************************************************************************)
(* Shares of one owner and the downloads they grant (shares.ts,            *)
(* share-capability.ts, directDownload of files.ts, bandwidth of lib.ts).  *)
(*                                                                         *)
(* A visitor presents the secret of a link and gets an access row for the  *)
(* version of the share; a password marks the row.  Every change of a      *)
(* share makes a new version.  A download locks the share, then the        *)
(* owner's users row, whose allowances it counts against.  Every file has  *)
(* one unit of size.  The owner's exemptions (own private and protected    *)
(* shares) and view_count are left out.                                    *)
(***************************************************************************)
EXTENDS Naturals, FiniteSets

CONSTANTS Share, Visitor, Password,
          Owner,          \* the owner, downloading without a share
          None,           \* no share, no password
          ShareCount,     \* policy.shareCount
          GrantLimit,     \* policy.concurrentDownloads
          BandwidthLimit, \* policy.bandwidthBytes
          DownloadLimits, \* values of max_downloads, 0 for none
          MaxVersion,     \* bound on versions, for TLC
          MaxDownloads    \* bound on downloads of a share, for TLC

ASSUME SharingConstants ==
  /\ IsFiniteSet(Share) /\ None \notin Share \cup Password /\ Owner \notin Visitor
  /\ {ShareCount, GrantLimit, BandwidthLimit, MaxDownloads} \subseteq Nat /\ MaxVersion \in Nat \ {0}
  /\ DownloadLimits \subseteq Nat

VARIABLES
  share,   \* rows of shares; version 0 before the share is created
  access,  \* the share_access row behind each visitor's cookie
  call,    \* the request each caller has in progress
  recent,  \* downloads granted in the last 15 minutes
  monthly  \* bytes authorized this month

vars == <<share, access, call, recent, monthly>>

Caller == Visitor \cup {Owner}
Passwords == Password \cup {None}

NoShare == [version |-> 0, enabled |-> FALSE, expired |-> FALSE, limit |-> 0,
            count |-> 0, password |-> None, secret |-> 0]

\* secret, entered: what the visitor presented; raced: the secret was replaced
\* between the statement that matched it and the one that read the share.
NoAccess == [version |-> 0, verified |-> FALSE, secret |-> 0, raced |-> FALSE,
             entered |-> None]

NoCall == [step |-> "idle", share |-> None, row |-> NoAccess]

Rows == [version : 0..MaxVersion, verified : BOOLEAN, secret : 0..MaxVersion,
         raced : BOOLEAN, entered : Passwords]

TypeOK ==
  /\ share \in [Share -> [version : 0..MaxVersion, enabled : BOOLEAN, expired : BOOLEAN,
                          limit : DownloadLimits \cup {0}, count : Nat,
                          password : Passwords, secret : 0..MaxVersion]]
  /\ access \in [Visitor -> [Share -> Rows]]
  /\ call \in [Caller -> {NoCall} \cup
                 [step : {"matched", "resolved", "unlocking", "locked", "granted"},
                  share : Share, row : Rows]
                 \cup [step : {"granted"}, share : {None}, row : {NoAccess}]]
  /\ recent \in Nat /\ monthly \in Nat

Init ==
  /\ share = [s \in Share |-> NoShare]
  /\ access = [v \in Visitor |-> [s \in Share |-> NoAccess]]
  /\ call = [c \in Caller |-> NoCall]
  /\ recent = 0 /\ monthly = 0

----------------------------------------------------------------------------
At(c, step) == call[c].step = step

\* Mutant of ShareFree: activeShare reads the share without its lock.
ShareNeverLocked(s) == s \in Share

\* Row locks of the downloads in progress: the share's row, then the owner's.
ShareFree(s) == \A v \in Visitor : call[v].share = s => call[v].step \notin {"locked", "granted"}

\* Mutant of UserFree: bandwidth reads the owner without FOR UPDATE.
UserNeverLocked(c) == c \in Caller \cup {None}

UserFree(c) == \A d \in Caller \ {c} : ~At(d, "granted")

\* activeShare
Open(s) ==
  /\ share[s].version > 0 /\ share[s].enabled /\ ~share[s].expired
  /\ share[s].limit = 0 \/ share[s].count < share[s].limit

\* authorize; entering the password does without its last condition.
HasAccess(v, s) == share[s].version > 0 /\ access[v][s].version = share[s].version
Authorized(v, s) ==
  HasAccess(v, s) /\ (share[s].password = None \/ access[v][s].verified)

\* shareAllowance
Allowed == Cardinality({s \in Share : share[s].enabled /\ ~share[s].expired}) < ShareCount

----------------------------------------------------------------------------
(* The owner, moderators, and the worker.                                  *)

\* createShareCapability
NewShare(p, n) ==
  [version |-> 1, enabled |-> TRUE, expired |-> FALSE, limit |-> n, count |-> 0,
   password |-> p, secret |-> 1]

Create(s) ==
  /\ share[s] = NoShare /\ UserFree(None) /\ Allowed
  /\ \E p \in Passwords, n \in DownloadLimits \cup {0} :
       share' = [share EXCEPT ![s] = NewShare(p, n)]
  /\ UNCHANGED <<access, call, recent, monthly>>

\* Mutant of NextVersion: a change keeps the version.
SameVersion(s) == share[s].version

NextVersion(s) == share[s].version + 1

\* A change of an existing share. A new secret takes away what a request that
\* matched the old one is about to be given, unless it is already past that.
Change(s, new) ==
  /\ share[s].version \in 1..(MaxVersion - 1) /\ ShareFree(s)
  /\ share' = [share EXCEPT ![s] = [new EXCEPT !.version = NextVersion(s)]]
  /\ call' = [c \in Caller |->
                IF call[c].share = s /\ At(c, "matched") /\ new.secret # share[s].secret
                  THEN [call[c] EXCEPT !.row.raced = TRUE] ELSE call[c]]
  /\ UNCHANGED <<access, recent, monthly>>

\* PATCH /api/shares/:id: any of the fields. Only a share that is switched on
\* is counted against the allowance; a later expiry revives an expired one.
Update(s) ==
  \E on, expired, regenerate \in BOOLEAN, n \in DownloadLimits \cup {0}, p \in Passwords :
    /\ UserFree(None)
    /\ on /\ ~share[s].enabled => Allowed
    /\ expired => share[s].expired
    /\ Change(s, [share[s] EXCEPT !.enabled = on, !.expired = expired, !.limit = n,
                                  !.password = p,
                                  !.secret = IF regenerate THEN @ + 1 ELSE @])

\* DELETE /api/shares/:id, and a moderator's decision on a report.
Revoke(s) == Change(s, [share[s] EXCEPT !.enabled = FALSE])

Expire(s) ==
  /\ share[s].version > 0 /\ ~share[s].expired
  /\ share' = [share EXCEPT ![s].expired = TRUE]
  /\ UNCHANGED <<access, call, recent, monthly>>

\* The worker's pass over expired shares.
ExpirePass(s) ==
  /\ share[s].enabled /\ share[s].expired
  /\ Change(s, [share[s] EXCEPT !.enabled = FALSE])

----------------------------------------------------------------------------
(* A visitor opens the link.                                               *)

\* POST /api/shares/resolve, the share found by the secret in the link.
Match(v, s) ==
  /\ At(v, "idle") /\ share[s].version > 0
  /\ call' = [call EXCEPT ![v] = [step |-> "matched", share |-> s,
                                  row |-> [NoAccess EXCEPT !.secret = share[s].secret]]]
  /\ UNCHANGED <<share, access, recent, monthly>>

\* The share read a second time, by its id.
ResolveRead(v, s) ==
  /\ At(v, "matched") /\ call[v].share = s /\ Open(s)
  /\ call' = [call EXCEPT ![v].step = "resolved",
                          ![v].row.version = share[s].version,
                          ![v].row.verified = (share[s].password = None)]
  /\ UNCHANGED <<share, access, recent, monthly>>

\* POST /api/public/shares/:id/unlock: the password of the share as it is read.
UnlockRead(v, s, p) ==
  /\ At(v, "idle") /\ Open(s) /\ HasAccess(v, s)
  /\ share[s].password = p
  /\ call' = [call EXCEPT ![v] = [step |-> "unlocking", share |-> s,
                                  row |-> [access[v][s] EXCEPT !.verified = TRUE,
                                                               !.entered = p]]]
  /\ UNCHANGED <<share, access, recent, monthly>>

\* INSERT INTO share_access for the version that was read, or the UPDATE of the
\* visitor's row, if it is still there.
WriteAccess(v, s) ==
  /\ call[v].share = s /\ call[v].step \in {"resolved", "unlocking"}
  /\ access' = IF At(v, "unlocking") /\ access[v][s] = NoAccess THEN access
               ELSE [access EXCEPT ![v][s] = call[v].row]
  /\ call' = [call EXCEPT ![v] = NoCall]
  /\ UNCHANGED <<share, recent, monthly>>

\* The hour of an access row is over, and the worker deletes it.
ForgetAccess(v, s) ==
  /\ access[v][s] # NoAccess
  /\ access' = [access EXCEPT ![v][s] = NoAccess]
  /\ UNCHANGED <<share, call, recent, monthly>>

----------------------------------------------------------------------------
(* Downloads.                                                              *)

DownloadLock(v, s) ==
  /\ At(v, "idle") /\ ShareFree(s) /\ Open(s) /\ Authorized(v, s)
  /\ share[s].count < MaxDownloads
  /\ call' = [call EXCEPT ![v] = [step |-> "locked", share |-> s, row |-> NoAccess]]
  /\ UNCHANGED <<share, access, recent, monthly>>

\* bandwidth
WithinAllowance == recent < GrantLimit /\ monthly < BandwidthLimit

Grant(v) ==
  /\ At(v, "locked") /\ UserFree(v) /\ WithinAllowance
  /\ call' = [call EXCEPT ![v].step = "granted"]
  /\ UNCHANGED <<share, access, recent, monthly>>

\* POST /api/files/:id/download
OwnerGrant ==
  /\ At(Owner, "idle") /\ UserFree(Owner) /\ WithinAllowance
  /\ call' = [call EXCEPT ![Owner] = [NoCall EXCEPT !.step = "granted"]]
  /\ UNCHANGED <<share, access, recent, monthly>>

DownloadCommit(c) ==
  /\ At(c, "granted")
  /\ share' = IF call[c].share = None THEN share
              ELSE [share EXCEPT ![call[c].share].count = @ + 1]
  /\ recent' = recent + 1
  /\ monthly' = monthly + 1
  /\ call' = [call EXCEPT ![c] = NoCall]
  /\ UNCHANGED access

\* Mutant of Dropped: the share is forgotten, its lock is not given back.
LockKept(c) == [call EXCEPT ![c].share = None]

Dropped(c) == [call EXCEPT ![c] = NoCall]

\* A refusal, at whatever check, or a broken connection.
CallFails(c) ==
  /\ ~At(c, "idle")
  /\ call' = Dropped(c)
  /\ UNCHANGED <<share, access, recent, monthly>>

Lapse ==
  /\ recent > 0
  /\ recent' \in 0..(recent - 1)
  /\ UNCHANGED <<share, access, call, monthly>>

NewMonth ==
  /\ monthly > 0
  /\ monthly' = 0
  /\ UNCHANGED <<share, access, call, recent>>

----------------------------------------------------------------------------
Next ==
  \/ \E s \in Share : Create(s) \/ Update(s) \/ Revoke(s) \/ Expire(s) \/ ExpirePass(s)
  \/ \E v \in Visitor, s \in Share :
       \/ Match(v, s) \/ ResolveRead(v, s) \/ WriteAccess(v, s) \/ ForgetAccess(v, s)
       \/ DownloadLock(v, s)
       \/ \E p \in Password : UnlockRead(v, s, p)
  \/ \E v \in Visitor : Grant(v)
  \/ \E c \in Caller : DownloadCommit(c) \/ CallFails(c)
  \/ OwnerGrant \/ Lapse \/ NewMonth

Spec == Init /\ [][Next]_vars

----------------------------------------------------------------------------
(* Properties.                                                             *)

\* A download is counted only while its share is switched on, and never past
\* the limit in force then: not by two visitors who take the last one at
\* once, nor after the owner revoked the share or lowered the limit
\* (shares.ts:56).
DownloadsWithinLimit ==
  [][\A s \in Share : share'[s].count > share[s].count /\ share[s].version > 0 =>
       /\ share[s].enabled
       /\ share[s].limit = 0 \/ share'[s].count <= share[s].limit]_vars

\* Downloads of all the owner's shares and the owner's own together stay
\* within the allowances that each of them only reads (lib.ts:35).
GrantsWithinAllowance == recent <= GrantLimit /\ monthly <= BandwidthLimit

\* An access row of the current version was given for the secret in force,
\* or for one replaced between two statements of the same request, and is
\* verified only by the password in force, whatever changed while the
\* requests that wrote it were under way (shares.ts:31, shares.ts:55).
AccessIsCurrent ==
  \A v \in Visitor, s \in Share :
    LET row == access[v][s]
    IN row.version > 0 /\ row.version = share[s].version =>
         /\ row.secret = share[s].secret \/ row.raced
         /\ row.verified => row.entered = share[s].password
============================================================================
