--------------------------- MODULE Sharing_proofs ---------------------------
(***************************************************************************)
(* Theorems about Sharing, for any shares, visitors, passwords and limits: *)
(* types, the limit of a share, the owner's allowances, and that an access *)
(* row opens only what it was given for.                                   *)
(***************************************************************************)
EXTENDS Sharing, TLAPS

\* A new secret comes with a new version.
SecretBehind == \A s \in Share : share[s].secret <= share[s].version

TypeInv == TypeOK /\ SecretBehind

Shares == [version : 0..MaxVersion, enabled : BOOLEAN, expired : BOOLEAN,
           limit : DownloadLimits \cup {0}, count : Nat,
           password : Passwords, secret : 0..MaxVersion]

Calls == {NoCall} \cup
         [step : {"matched", "resolved", "unlocking", "locked", "granted"},
          share : Share, row : Rows]
         \cup [step : {"granted"}, share : {None}, row : {NoAccess}]

\* What a change of the share s leaves as it is.
Keeps(s, new) ==
  new.count = share[s].count /\ new.secret \in {share[s].secret, share[s].secret + 1}

LEMMA NoAccessType == NoAccess \in Rows
BY SharingConstants DEF NoAccess, Rows, Passwords

LEMMA NoShareType == NoShare \in Shares
BY SharingConstants DEF NoShare, Shares, Passwords

\* The owner's changes, the moderator's and the worker's are of one form.
LEMMA ChangeForm ==
  ASSUME TypeInv, NEW s \in Share, Update(s) \/ Revoke(s) \/ ExpirePass(s)
  PROVE  \E new \in Shares : Keeps(s, new) /\ Change(s, new)
<1> share[s] \in Shares
  BY DEF TypeInv, TypeOK, Shares
<1> share[s].secret <= share[s].version
  BY DEF TypeInv, SecretBehind
<1>1. CASE Revoke(s) \/ ExpirePass(s)
  <2>1. Change(s, [share[s] EXCEPT !.enabled = FALSE])
    BY <1>1 DEF Revoke, ExpirePass
  <2> QED
    BY <2>1 DEF Shares, Keeps
<1>2. CASE Update(s)
  <2>1. PICK on \in BOOLEAN, expired \in BOOLEAN, regenerate \in BOOLEAN,
             n \in DownloadLimits \cup {0}, p \in Passwords :
           Change(s, [share[s] EXCEPT !.enabled = on, !.expired = expired, !.limit = n,
                                      !.password = p,
                                      !.secret = IF regenerate THEN @ + 1 ELSE @])
    BY <1>2 DEF Update
  <2>2. share[s].version + 1 \in 0..MaxVersion
    BY <2>1, SharingConstants DEF Change
  <2>3. share[s].secret + 1 \in 0..MaxVersion
    BY <2>2, SharingConstants DEF Shares
  <2> QED
    BY <2>1, <2>3 DEF Shares, Keeps
<1> QED
  BY <1>1, <1>2

----------------------------------------------------------------------------
(* Types.                                                                  *)

LEMMA TypeInit == Init => TypeInv
BY NoShareType, NoAccessType DEF Init, TypeInv, TypeOK, SecretBehind, Shares, NoShare

LEMMA TypeChange ==
  ASSUME TypeInv, NEW s \in Share, NEW new \in Shares, Keeps(s, new), Change(s, new)
  PROVE  TypeInv'
<1> USE SharingConstants DEF TypeInv, SecretBehind, Shares
<1>1. [new EXCEPT !.version = NextVersion(s)] \in Shares
  BY SMTT(30) DEF TypeOK, Change, NextVersion
<1>2. share' \in [Share -> Shares]
  BY <1>1 DEF TypeOK, Change
<1>3. call' \in [Caller -> Calls]
  <2> SUFFICES ASSUME NEW c \in Caller, At(c, "matched")
               PROVE  [call[c] EXCEPT !.row.raced = TRUE] \in Calls
    BY DEF TypeOK, Change, Calls
  <2>1. call[c] \in [step : {"matched"}, share : Share, row : Rows]
    BY DEF At, TypeOK, NoCall
  <2> QED
    BY <2>1 DEF Calls, Rows
<1>4. SecretBehind'
  BY <1>1 DEF TypeOK, Change, NextVersion, Keeps
<1> QED
  BY <1>2, <1>3, <1>4 DEF TypeOK, Change, Calls

LEMMA TypeNext == TypeInv /\ [Next]_vars => TypeInv'
<1> SUFFICES ASSUME TypeInv, [Next]_vars PROVE TypeInv'
  OBVIOUS
<1> USE SharingConstants, NoAccessType DEF TypeInv, TypeOK, SecretBehind, Caller
<1>1. ASSUME NEW s \in Share, Create(s) PROVE TypeInv'
  <2> NoShare.version = 0 /\ NoShare.secret = 0
    BY DEF NoShare
  <2>1. PICK p \in Passwords, n \in DownloadLimits \cup {0} :
          share' = [share EXCEPT ![s] = NewShare(p, n)]
    BY <1>1 DEF Create
  <2>2. NewShare(p, n) \in Shares /\ NewShare(p, n).secret <= NewShare(p, n).version
    BY DEF NewShare, Shares
  <2> QED
    BY <1>1, <2>1, <2>2 DEF Create, Shares
<1>2. ASSUME NEW s \in Share, Update(s) \/ Revoke(s) \/ ExpirePass(s) PROVE TypeInv'
  BY <1>2, ChangeForm, TypeChange
<1>3. ASSUME NEW s \in Share, Expire(s) PROVE TypeInv'
  <2>1. [share[s] EXCEPT !.expired = TRUE] \in Shares
    BY DEF Shares
  <2> QED
    BY <1>3, <2>1 DEF Expire, Shares
<1>4. ASSUME NEW v \in Visitor, NEW s \in Share, Match(v, s) PROVE TypeInv'
  <2>1. [NoAccess EXCEPT !.secret = share[s].secret] \in Rows
    BY DEF Rows
  <2> QED
    BY <1>4, <2>1 DEF Match
<1>5. ASSUME NEW v \in Visitor, NEW s \in Share, ResolveRead(v, s) PROVE TypeInv'
  <2>1. call[v] \in [step : {"matched"}, share : Share, row : Rows]
    BY <1>5 DEF ResolveRead, At, NoCall
  <2>2. [call[v] EXCEPT !.step = "resolved", !.row.version = share[s].version,
                        !.row.verified = (share[s].password = None)]
          \in [step : {"resolved"}, share : Share, row : Rows]
    BY <2>1 DEF Rows
  <2> QED
    BY <1>5, <2>2 DEF ResolveRead
<1>6. ASSUME NEW v \in Visitor, NEW s \in Share, NEW p \in Password, UnlockRead(v, s, p)
      PROVE  TypeInv'
  <2> DEFINE row == access[v][s]
  <2>0. row \in Rows
    OBVIOUS
  <2> HIDE DEF row
  <2>1. [row EXCEPT !.verified = TRUE, !.entered = p] \in Rows
    BY <2>0 DEF Rows, Passwords
  <2> QED
    BY <1>6, <2>1 DEF UnlockRead, row
<1>7. ASSUME NEW v \in Visitor, NEW s \in Share, WriteAccess(v, s) PROVE TypeInv'
  <2>1. call[v].row \in Rows
    BY <1>7 DEF WriteAccess, NoCall
  <2>2. access' \in [Visitor -> [Share -> Rows]]
    <3>1. CASE access' = access
      BY <3>1
    <3>2. CASE access' = [access EXCEPT ![v][s] = call[v].row]
      BY <2>1, <3>2
    <3> QED
      BY <1>7, <3>1, <3>2 DEF WriteAccess
  <2> QED
    BY <1>7, <2>2 DEF WriteAccess
<1>8. ASSUME NEW v \in Visitor, NEW s \in Share, ForgetAccess(v, s) PROVE TypeInv'
  BY <1>8 DEF ForgetAccess
<1>9. ASSUME NEW v \in Visitor, NEW s \in Share, DownloadLock(v, s) PROVE TypeInv'
  BY <1>9 DEF DownloadLock
<1>10. ASSUME NEW v \in Visitor, Grant(v) PROVE TypeInv'
  <2>1. call[v] \in [step : {"locked"}, share : Share, row : Rows]
    BY <1>10 DEF Grant, At, NoCall
  <2> QED
    BY <1>10, <2>1 DEF Grant
<1>11. CASE OwnerGrant
  BY <1>11 DEF OwnerGrant, NoCall
<1>12. ASSUME NEW c \in Caller, DownloadCommit(c) PROVE TypeInv'
  <2>1. CASE call[c].share = None
    BY <1>12, <2>1 DEF DownloadCommit
  <2>2. CASE call[c].share # None
    <3>1. call[c].share \in Share
      BY <1>12, <2>2 DEF DownloadCommit, NoCall
    <3> DEFINE old == share[call[c].share]
    <3>0. old \in Shares
      BY <3>1 DEF Shares
    <3> HIDE DEF old
    <3>2. [old EXCEPT !.count = @ + 1] \in Shares
      BY <3>0 DEF Shares
    <3>3. share' = [share EXCEPT ![call[c].share] = [old EXCEPT !.count = @ + 1]]
      BY <1>12, <2>2 DEF DownloadCommit, old
    <3>4. share' \in [Share -> Shares] /\ SecretBehind'
      BY <3>0, <3>1, <3>2, <3>3 DEF Shares, old
    <3> QED
      BY <1>12, <3>4 DEF DownloadCommit, Shares
  <2> QED
    BY <2>1, <2>2
<1>13. ASSUME NEW c \in Caller, CallFails(c) PROVE TypeInv'
  BY <1>13 DEF CallFails, Dropped
<1>14. CASE Lapse
  BY <1>14 DEF Lapse
<1>15. CASE NewMonth
  BY <1>15 DEF NewMonth
<1>16. CASE UNCHANGED vars
  BY <1>16 DEF vars
<1> QED
  BY <1>1, <1>2, <1>3, <1>4, <1>5, <1>6, <1>7, <1>8, <1>9, <1>10, <1>11, <1>12, <1>13,
     <1>14, <1>15, <1>16 DEF Next

\* Rows, requests and counters have their types.
THEOREM TypeCorrect == Spec => []TypeOK
<1>1. TypeInv => TypeOK
  BY DEF TypeInv
<1> QED
  BY <1>1, TypeInit, TypeNext, PTL DEF Spec

----------------------------------------------------------------------------
(* The limit of a share: shares.ts:56 locks the row before it reads it.    *)

Holds(c) == call[c].share # None /\ call[c].step \in {"locked", "granted"}

\* One download more is within the share's limit.
Takes(s) ==
  /\ share[s].version > 0 /\ share[s].enabled
  /\ share[s].limit = 0 \/ share[s].count < share[s].limit

LockedTakes == \A c \in Caller : Holds(c) => Takes(call[c].share)
OneLock == \A c, d \in Caller : c # d /\ Holds(c) /\ Holds(d) => call[c].share # call[d].share
OwnerApart == call[Owner].share = None

LimitInv == TypeInv /\ LockedTakes /\ OneLock /\ OwnerApart

LEMMA LimitInit == Init => LimitInv
BY TypeInit DEF Init, LimitInv, LockedTakes, OneLock, OwnerApart, Holds, NoCall, Caller

LEMMA LimitNext == LimitInv /\ [Next]_vars => LimitInv'
<1> SUFFICES ASSUME LimitInv, [Next]_vars PROVE (LockedTakes /\ OneLock /\ OwnerApart)'
  BY TypeNext DEF LimitInv
<1> DEFINE Goal == (LockedTakes /\ OneLock /\ OwnerApart)'
<1> USE SharingConstants DEF LimitInv, TypeInv, LockedTakes, OneLock, OwnerApart, Holds, Takes
<1>0. /\ call \in [Caller -> Calls] /\ share \in [Share -> Shares]
      /\ Owner \in Caller /\ \A v \in Visitor : v \in Caller /\ v # Owner
  BY DEF TypeOK, Calls, Shares, Caller
\* Nothing but a request that holds nothing and takes no share is put in place
\* of a request, and the shares stay.
<1>1. ASSUME NEW c \in Caller, NEW new, call' = [call EXCEPT ![c] = new], UNCHANGED share,
             new.share = None \/ c # Owner, new.share = None \/ new.step \notin {"locked", "granted"}
      PROVE  Goal
  BY <1>0, <1>1
<1>2. ASSUME NEW s \in Share, Create(s) PROVE Goal
  <2>1. share[s].version = 0
    BY <1>2 DEF Create, NoShare
  <2>2. \A c \in Caller : Holds(c) => call[c].share # s
    BY <2>1, <1>0 DEF Shares
  <2> QED
    BY <1>0, <1>2, <2>2 DEF Create
<1>3. ASSUME NEW s \in Share, Update(s) \/ Revoke(s) \/ ExpirePass(s) PROVE Goal
  <2>1. PICK new \in Shares : Change(s, new)
    BY <1>3, ChangeForm
  <2>2. \A c \in Caller : Holds(c) => call[c].share # s
    BY <2>1 DEF Change, ShareFree, Caller
  <2>3. \A c \in Caller : call'[c].share = call[c].share /\ call'[c].step = call[c].step
    BY <1>0, <2>1 DEF Change
  <2> QED
    BY <1>0, <2>1, <2>2, <2>3 DEF Change
<1>4. ASSUME NEW s \in Share, Expire(s) PROVE Goal
  BY <1>0, <1>4 DEF Expire, Shares
<1>5. ASSUME NEW v \in Visitor, NEW s \in Share,
             Match(v, s) \/ ResolveRead(v, s) \/ WriteAccess(v, s) \/ ForgetAccess(v, s)
               \/ \E p \in Password : UnlockRead(v, s, p)
      PROVE  Goal
  <2>1. CASE Match(v, s)
    BY <1>0, <1>1, <2>1 DEF Match
  <2>2. CASE ResolveRead(v, s)
    <3> DEFINE new == [call[v] EXCEPT !.step = "resolved", !.row.version = share[s].version,
                                      !.row.verified = (share[s].password = None)]
    <3>1. call[v] \in [step : {"matched"}, share : Share, row : Rows]
      BY <1>0, <2>2 DEF ResolveRead, At, Calls, NoCall
    <3>2. new.step = "resolved"
      BY <3>1
    <3>3. call' = [call EXCEPT ![v] = new] /\ UNCHANGED share
      BY <2>2 DEF ResolveRead
    <3> HIDE DEF new
    <3> QED
      BY <1>0, <1>1, <3>2, <3>3
  <2>3. CASE WriteAccess(v, s)
    BY <1>0, <1>1, <2>3 DEF WriteAccess, NoCall
  <2>4. CASE ForgetAccess(v, s)
    BY <1>0, <2>4 DEF ForgetAccess
  <2>5. CASE \E p \in Password : UnlockRead(v, s, p)
    BY <1>0, <1>1, <2>5 DEF UnlockRead
  <2> QED
    BY <1>5, <2>1, <2>2, <2>3, <2>4, <2>5
<1>6. ASSUME NEW v \in Visitor, NEW s \in Share, DownloadLock(v, s) PROVE Goal
  <2>0. call' = [call EXCEPT ![v] = [step |-> "locked", share |-> s, row |-> NoAccess]]
        /\ UNCHANGED share /\ s # None
    BY <1>6 DEF DownloadLock
  <2>1. Takes(s) /\ ~Holds(v)
    BY <1>0, <1>6 DEF DownloadLock, Open, At
  <2>2. \A c \in Caller : Holds(c) => call[c].share # s
    BY <1>6 DEF DownloadLock, ShareFree, Caller
  <2>3. OneLock' /\ OwnerApart'
    BY <1>0, <2>0, <2>1, <2>2
  <2>4. LockedTakes'
    BY <1>0, <2>0, <2>1, <2>2
  <2> QED
    BY <2>3, <2>4
<1>7. ASSUME NEW v \in Visitor, Grant(v) PROVE Goal
  BY <1>0, <1>7 DEF Grant, At
<1>8. CASE OwnerGrant
  BY <1>0, <1>1, <1>8 DEF OwnerGrant, NoCall
<1>9. ASSUME NEW c \in Caller, DownloadCommit(c) PROVE Goal
  <2>1. CASE call[c].share = None
    BY <1>0, <1>1, <1>9, <2>1 DEF DownloadCommit, NoCall
  <2>2. CASE call[c].share # None
    <3>1. Holds(c)
      BY <1>9, <2>2 DEF DownloadCommit, At
    <3>2. share' = [share EXCEPT ![call[c].share].count = @ + 1] /\ call' = [call EXCEPT ![c] = NoCall]
      BY <1>9, <2>2 DEF DownloadCommit
    <3> QED
      BY <1>0, <3>1, <3>2 DEF NoCall
  <2> QED
    BY <2>1, <2>2
<1>10. ASSUME NEW c \in Caller, CallFails(c) PROVE Goal
  BY <1>0, <1>1, <1>10 DEF CallFails, Dropped, NoCall
<1>11. CASE Lapse \/ NewMonth \/ UNCHANGED vars
  BY <1>0, <1>11 DEF Lapse, NewMonth, vars
<1> QED
  BY <1>2, <1>3, <1>4, <1>5, <1>6, <1>7, <1>8, <1>9, <1>10, <1>11 DEF Next

\* No download is counted past the limit in force or on a share that is
\* switched off, for any number of visitors, shares and changes.
THEOREM DownloadsWithinLimitHolds == Spec => DownloadsWithinLimit
<1> DEFINE Kept == \A s \in Share : share'[s].count > share[s].count /\ share[s].version > 0 =>
                     /\ share[s].enabled
                     /\ share[s].limit = 0 \/ share'[s].count <= share[s].limit
<1>1. ASSUME LimitInv, [Next]_vars PROVE [Kept]_vars
  <2> SUFFICES ASSUME Next, NEW s \in Share, share'[s].count > share[s].count,
                      share[s].version > 0
               PROVE  /\ share[s].enabled
                      /\ share[s].limit = 0 \/ share'[s].count <= share[s].limit
    BY <1>1
  <2>0. /\ call \in [Caller -> Calls] /\ share \in [Share -> Shares]
    BY <1>1 DEF LimitInv, TypeInv, TypeOK, Calls, Shares, Caller
  <2>1. ASSUME NEW t \in Share, Create(t) PROVE share'[s].count <= share[s].count
    BY <2>0, <2>1 DEF Create, NewShare, NoShare, Shares
  <2>2. ASSUME NEW t \in Share, Update(t) \/ Revoke(t) \/ ExpirePass(t)
        PROVE  share'[s].count <= share[s].count
    <3>1. PICK new \in Shares : Keeps(t, new) /\ Change(t, new)
      BY <1>1, <2>2, ChangeForm DEF LimitInv
    <3> QED
      BY <2>0, <3>1 DEF Keeps, Change, Shares
  <2>3. ASSUME NEW t \in Share, Expire(t) PROVE share'[s].count <= share[s].count
    BY <2>0, <2>3 DEF Expire, Shares
  <2>4. CASE UNCHANGED share
    BY <2>0, <2>4 DEF Shares
  <2>5. ASSUME NEW c \in Caller, DownloadCommit(c), share' # share
        PROVE  /\ share[s].enabled
               /\ share[s].limit = 0 \/ share'[s].count <= share[s].limit
    <3>1. Holds(c) /\ share' = [share EXCEPT ![call[c].share].count = @ + 1]
      BY <2>5 DEF DownloadCommit, At, Holds
    <3>2. s = call[c].share
      BY <2>0, <3>1 DEF Shares
    <3>3. Takes(s)
      BY <1>1, <3>1, <3>2 DEF LimitInv, LockedTakes
    <3> QED
      BY <2>0, <3>1, <3>2, <3>3, SharingConstants DEF Takes, Shares
  <2>6. \/ UNCHANGED share
        \/ \E t \in Share : Create(t) \/ Update(t) \/ Revoke(t) \/ ExpirePass(t) \/ Expire(t)
        \/ \E c \in Caller : DownloadCommit(c)
    BY DEF Next, Match, ResolveRead, WriteAccess, ForgetAccess, DownloadLock, UnlockRead, Grant,
           CallFails, OwnerGrant, Lapse, NewMonth
  <2>7. ~(share'[s].count <= share[s].count)
    <3>1. share[s].count \in Nat
      BY <2>0 DEF Shares
    <3>2. share'[s].count \in Nat
      BY <1>1, TypeNext DEF LimitInv, TypeInv, TypeOK
    <3> QED
      BY <3>1, <3>2
  <2> QED
    BY <2>1, <2>2, <2>3, <2>4, <2>5, <2>6, <2>7
<1> QED
  BY <1>1, LimitInit, LimitNext, PTL DEF Spec, DownloadsWithinLimit

----------------------------------------------------------------------------
(* The owner's allowances: each download reads them under the owner's lock *)
(* and counts in its commit (lib.ts:36-41).                                *)

AlonePastCheck ==
  \A c \in Caller : At(c, "granted") => WithinAllowance /\ UserFree(c)

AllowanceInv == TypeInv /\ GrantsWithinAllowance /\ AlonePastCheck

LEMMA AllowanceInit == Init => AllowanceInv
BY TypeInit, SharingConstants
   DEF Init, AllowanceInv, GrantsWithinAllowance, AlonePastCheck, At, NoCall

LEMMA AllowanceNext == AllowanceInv /\ [Next]_vars => AllowanceInv'
<1> SUFFICES ASSUME AllowanceInv, [Next]_vars PROVE (GrantsWithinAllowance /\ AlonePastCheck)'
  BY TypeNext DEF AllowanceInv
<1> DEFINE Goal == (GrantsWithinAllowance /\ AlonePastCheck)'
<1>0. /\ call \in [Caller -> Calls] /\ recent \in Nat /\ monthly \in Nat
      /\ GrantLimit \in Nat /\ BandwidthLimit \in Nat
      /\ Owner \in Caller /\ \A v \in Visitor : v \in Caller
  BY SharingConstants DEF AllowanceInv, TypeInv, TypeOK, Calls, Caller
<1> USE <1>0 DEF AllowanceInv, GrantsWithinAllowance, AlonePastCheck, WithinAllowance, UserFree, At
<1>1. ASSUME NEW c \in Caller, NEW new, call' = [call EXCEPT ![c] = new], new.step # "granted",
             UNCHANGED <<recent, monthly>>
      PROVE  Goal
  BY <1>1
<1>2. ASSUME \A c \in Caller : call'[c].step = call[c].step, UNCHANGED <<recent, monthly>>
      PROVE  Goal
  BY <1>2
<1>3. ASSUME NEW s \in Share, Create(s) \/ Expire(s) PROVE Goal
  BY <1>2, <1>3 DEF Create, Expire
<1>4. ASSUME NEW s \in Share, Update(s) \/ Revoke(s) \/ ExpirePass(s) PROVE Goal
  <2>1. PICK new \in Shares : Change(s, new)
    BY <1>4, ChangeForm
  <2> QED
    BY <1>2, <2>1 DEF Change
<1>5. ASSUME NEW v \in Visitor, NEW s \in Share, Match(v, s) PROVE Goal
  BY <1>1, <1>5 DEF Match
<1>6. ASSUME NEW v \in Visitor, NEW s \in Share, ResolveRead(v, s) PROVE Goal
  <2> DEFINE new == [call[v] EXCEPT !.step = "resolved", !.row.version = share[s].version,
                                    !.row.verified = (share[s].password = None)]
  <2>1. call[v] \in [step : {"matched"}, share : Share, row : Rows]
    BY <1>6 DEF ResolveRead, Calls, NoCall
  <2>2. new.step = "resolved"
    BY <2>1
  <2>3. call' = [call EXCEPT ![v] = new] /\ UNCHANGED <<recent, monthly>>
    BY <1>6 DEF ResolveRead
  <2> HIDE DEF new
  <2> QED
    BY <1>1, <2>2, <2>3
<1>7. ASSUME NEW v \in Visitor, NEW s \in Share, NEW p \in Password, UnlockRead(v, s, p) PROVE Goal
  BY <1>1, <1>7 DEF UnlockRead
<1>8. ASSUME NEW v \in Visitor, NEW s \in Share, WriteAccess(v, s) PROVE Goal
  BY <1>1, <1>8 DEF WriteAccess, NoCall
<1>9. ASSUME NEW v \in Visitor, NEW s \in Share, ForgetAccess(v, s) PROVE Goal
  BY <1>2, <1>9 DEF ForgetAccess
<1>10. ASSUME NEW v \in Visitor, NEW s \in Share, DownloadLock(v, s) PROVE Goal
  BY <1>1, <1>10 DEF DownloadLock
<1>11. ASSUME NEW v \in Visitor, Grant(v) PROVE Goal
  BY <1>11 DEF Grant
<1>12. CASE OwnerGrant
  BY <1>12 DEF OwnerGrant
<1>13. ASSUME NEW c \in Caller, DownloadCommit(c) PROVE Goal
  <2>1. call' = [call EXCEPT ![c] = NoCall] /\ recent' = recent + 1 /\ monthly' = monthly + 1
    BY <1>13 DEF DownloadCommit
  <2>2. recent < GrantLimit /\ monthly < BandwidthLimit
    BY <1>13 DEF DownloadCommit
  <2>3. \A d \in Caller : call'[d].step # "granted"
    BY <1>13, <2>1 DEF DownloadCommit, NoCall
  <2> QED
    BY <2>1, <2>2, <2>3
<1>14. ASSUME NEW c \in Caller, CallFails(c) PROVE Goal
  BY <1>1, <1>14 DEF CallFails, Dropped, NoCall
<1>15. CASE Lapse \/ NewMonth
  BY <1>15 DEF Lapse, NewMonth
<1>16. CASE UNCHANGED vars
  BY <1>16 DEF vars
<1> QED
  BY <1>3, <1>4, <1>5, <1>6, <1>7, <1>8, <1>9, <1>10, <1>11, <1>12, <1>13, <1>14, <1>15, <1>16
     DEF Next

\* The downloads of all shares and the owner's own stay within the owner's
\* allowances, whatever the limits and however many callers there are.
THEOREM GrantsWithinAllowanceHolds == Spec => []GrantsWithinAllowance
<1>1. AllowanceInv => GrantsWithinAllowance
  BY DEF AllowanceInv
<1> QED
  BY <1>1, AllowanceInit, AllowanceNext, PTL DEF Spec

----------------------------------------------------------------------------
(* Access rows: resolve and unlock write them for what they read before    *)
(* (shares.ts:31, shares.ts:55); the version they carry makes the          *)
(* difference.                                                             *)

\* No row is ahead of its share, and one of the version in force was given for
\* the secret and by the password in force.
Fits(row, s) ==
  /\ row.version <= share[s].version
  /\ row.version > 0 /\ row.version = share[s].version =>
       /\ row.secret = share[s].secret \/ row.raced
       /\ row.verified => row.entered = share[s].password

\* A request that has matched a secret: the share exists, and its secret is
\* still that one or was replaced meanwhile.
Matches(row, s) ==
  /\ share[s].version > 0 /\ row.version = 0 /\ row.entered = None
  /\ row.secret = share[s].secret \/ row.raced

AccessFits == \A v \in Visitor, s \in Share : Fits(access[v][s], s)
CallFits == \A v \in Visitor, s \in Share :
  call[v].share = s =>
    /\ call[v].step \in {"resolved", "unlocking"} => Fits(call[v].row, s)
    /\ call[v].step = "matched" => Matches(call[v].row, s)

AccessInv == TypeInv /\ AccessFits /\ CallFits

LEMMA AccessInit == Init => AccessInv
BY TypeInit DEF Init, AccessInv, AccessFits, CallFits, Fits, NoAccess, NoCall, NoShare, Caller

LEMMA AccessNext == AccessInv /\ [Next]_vars => AccessInv'
<1> SUFFICES ASSUME AccessInv, [Next]_vars PROVE (AccessFits /\ CallFits)'
  BY TypeNext DEF AccessInv
<1> DEFINE Goal == (AccessFits /\ CallFits)'
<1>0. /\ call \in [Caller -> Calls] /\ share \in [Share -> Shares]
      /\ access \in [Visitor -> [Share -> Rows]] /\ MaxVersion \in Nat
      /\ Owner \in Caller /\ \A v \in Visitor : v \in Caller /\ v # Owner
  BY SharingConstants DEF AccessInv, TypeInv, TypeOK, Calls, Shares, Caller
<1>a. AccessFits /\ CallFits
  BY DEF AccessInv
\* What a step on the shares must keep.
<1>b. ASSUME UNCHANGED access, NEW s \in Share,
             \A t \in Share : t # s => share'[t] = share[t],
             \A v \in Visitor : call'[v] # call[v] => call'[v].share = s /\ call[v].share = s,
             \A row \in Rows : Fits(row, s) => Fits(row, s)',
             \A v \in Visitor : call'[v].share = s =>
               /\ call'[v].step \in {"resolved", "unlocking"} => Fits(call[v].row, s)'
               /\ call'[v].step = "matched" => Matches(call[v].row, s)'
      PROVE  Goal
  <2>1. AccessFits'
    <3> SUFFICES ASSUME NEW v \in Visitor, NEW t \in Share PROVE Fits(access[v][t], t)'
      BY <1>b DEF AccessFits
    <3>1. access[v][t] \in Rows /\ Fits(access[v][t], t)
      BY <1>0, <1>a DEF AccessFits
    <3>2. CASE t = s
      BY <1>b, <3>1, <3>2
    <3>3. CASE t # s
      BY <1>b, <3>1, <3>3 DEF Fits
    <3> QED
      BY <3>2, <3>3
  <2>2. CallFits'
    <3> SUFFICES ASSUME NEW v \in Visitor, NEW t \in Share, call'[v].share = t
                 PROVE  /\ call'[v].step \in {"resolved", "unlocking"} => Fits(call[v].row, t)'
                        /\ call'[v].step = "matched" => Matches(call[v].row, t)'
      BY DEF CallFits
    <3>1. CASE t = s
      BY <1>b, <3>1
    <3>2. CASE t # s
      <4>1. call'[v] = call[v] /\ share'[t] = share[t]
        BY <1>b, <3>2
      <4> QED
        BY <1>a, <4>1 DEF CallFits, Fits, Matches
    <3> QED
      BY <3>1, <3>2
  <2> QED
    BY <2>1, <2>2
\* What a step on the requests and rows of one visitor must keep.
<1>c. ASSUME UNCHANGED share, NEW v \in Visitor, NEW s \in Share,
             \A w \in Visitor : w # v => access'[w] = access[w] /\ call'[w] = call[w],
             \A t \in Share : t # s => access'[v][t] = access[v][t],
             Fits(access'[v][s], s),
             \A t \in Share : call'[v].share = t =>
               /\ call'[v].step \in {"resolved", "unlocking"} => Fits(call'[v].row, t)
               /\ call'[v].step = "matched" => Matches(call'[v].row, t)
      PROVE  Goal
  <2>1. AccessFits'
    <3> SUFFICES ASSUME NEW w \in Visitor, NEW t \in Share PROVE Fits(access'[w][t], t)
      BY <1>c DEF AccessFits, Fits
    <3>1. CASE w = v /\ t = s
      BY <1>c, <3>1
    <3>2. CASE ~(w = v /\ t = s)
      <4>1. access'[w][t] = access[w][t]
        BY <1>c, <3>2
      <4> QED
        BY <1>a, <4>1 DEF AccessFits
    <3> QED
      BY <3>1, <3>2
  <2>2. CallFits'
    BY <1>a, <1>c DEF CallFits, Fits, Matches
  <2> QED
    BY <2>1, <2>2
<1>1. ASSUME NEW s \in Share, Create(s) PROVE Goal
  <2>1. share[s].version = 0 /\ share'[s].version = 1 /\ \A t \in Share : t # s => share'[t] = share[t]
    BY <1>0, <1>1 DEF Create, NoShare, NewShare
  <2>2. ASSUME NEW row \in Rows, Fits(row, s) PROVE Fits(row, s)'
    BY <2>1, <2>2 DEF Fits, Rows
  <2>3. ASSUME NEW v \in Visitor, call[v].share = s, call[v].step = "matched" PROVE FALSE
    BY <1>a, <2>1, <2>3 DEF CallFits, Matches
  <2>4. ASSUME NEW v \in Visitor, call[v].share = s, call[v].step \in {"resolved", "unlocking"}
        PROVE  Fits(call[v].row, s)'
    <3>1. call[v].row \in Rows /\ Fits(call[v].row, s)
      BY <1>0, <1>a, <2>4 DEF Calls, NoCall, CallFits
    <3>2. call' = call
      BY <1>1 DEF Create
    <3> QED
      BY <2>2, <3>1, <3>2 DEF Fits
  <2> QED
    BY <1>1, <1>b, <2>1, <2>2, <2>3, <2>4 DEF Create
<1>2. ASSUME NEW s \in Share, Update(s) \/ Revoke(s) \/ ExpirePass(s) PROVE Goal
  <2>1. PICK new \in Shares : Change(s, new)
    BY <1>2, ChangeForm DEF AccessInv
  <2>2. /\ share'[s].version = share[s].version + 1 /\ share'[s].secret = new.secret
        /\ share[s].version \in Nat
        /\ \A t \in Share : t # s => share'[t] = share[t]
    BY <1>0, <2>1 DEF Change, NextVersion, Shares
  <2>3. ASSUME NEW row \in Rows, Fits(row, s) PROVE Fits(row, s)'
    BY <2>2, <2>3 DEF Fits, Rows
  <2>4. ASSUME NEW v \in Visitor, call'[v].share = s, call'[v].step = "matched"
        PROVE  Matches(call[v].row, s)'
    <3>1. call[v] \in [step : {"matched"}, share : {s}, row : Rows] /\ Matches(call[v].row, s)
      <4>1. call[v].step = "matched" /\ call[v].share = s
        BY <1>0, <2>1, <2>4 DEF Change
      <4>2. call[v] \in [step : {"matched"}, share : {s}, row : Rows]
        BY <1>0, <4>1 DEF Calls, NoCall
      <4> QED
        BY <1>a, <4>1, <4>2 DEF CallFits
    <3>2. CASE new.secret # share[s].secret
      <4>1. call'[v].row = [call[v].row EXCEPT !.raced = TRUE]
        BY <1>0, <2>1, <3>1, <3>2 DEF Change, At
      <4> QED
        BY <2>2, <3>1, <4>1 DEF Matches, Rows
    <3>3. CASE new.secret = share[s].secret
      BY <1>0, <2>1, <2>2, <3>1, <3>3 DEF Change, At, Matches
    <3> QED
      BY <3>2, <3>3
  <2>5. ASSUME NEW v \in Visitor, call'[v].share = s, call'[v].step \in {"resolved", "unlocking"}
        PROVE  Fits(call[v].row, s)'
    <3>1. call'[v] = call[v]
      BY <1>0, <2>1, <2>5 DEF Change, At
    <3>2. call[v].row \in Rows
      BY <1>0, <2>5, <3>1 DEF Calls, NoCall
    <3> QED
      BY <1>a, <2>3, <2>5, <3>1, <3>2 DEF CallFits
  <2>6. \A v \in Visitor : call'[v] # call[v] => call'[v].share = s /\ call[v].share = s
    BY <1>0, <2>1 DEF Change
  <2> QED
    BY <1>b, <2>1, <2>2, <2>3, <2>4, <2>5, <2>6 DEF Change
<1>3. ASSUME NEW s \in Share, Expire(s) PROVE Goal
  <2>1. \A t \in Share : /\ share'[t].version = share[t].version /\ share'[t].secret = share[t].secret
                         /\ share'[t].password = share[t].password
    BY <1>0, <1>3 DEF Expire, Shares
  <2> QED
    BY <1>a, <1>3, <2>1 DEF Expire, AccessFits, CallFits, Fits, Matches
<1>4. ASSUME NEW v \in Visitor, NEW s \in Share, Match(v, s) PROVE Goal
  <2>1. call'[v] = [step |-> "matched", share |-> s, row |-> [NoAccess EXCEPT !.secret = share[s].secret]]
    BY <1>0, <1>4 DEF Match
  <2>2. Matches(call'[v].row, s)
    BY <1>4, <2>1 DEF Match, Matches, NoAccess
  <2> QED
    BY <1>0, <1>a, <1>c, <1>4, <2>1, <2>2 DEF Match, AccessFits
<1>5. ASSUME NEW v \in Visitor, NEW s \in Share, ResolveRead(v, s) PROVE Goal
  <2>1. call[v] \in [step : {"matched"}, share : {s}, row : Rows]
    BY <1>0, <1>5 DEF ResolveRead, At, Calls, NoCall
  <2>2. call'[v] = [call[v] EXCEPT !.step = "resolved", !.row.version = share[s].version,
                                   !.row.verified = (share[s].password = None)]
    BY <1>0, <1>5 DEF ResolveRead
  <2>3. /\ call'[v].step = "resolved" /\ call'[v].share = s
        /\ call'[v].row = [call[v].row EXCEPT !.version = share[s].version,
                                              !.verified = (share[s].password = None)]
    BY <2>1, <2>2
  <2>4. Matches(call[v].row, s)
    BY <1>a, <2>1 DEF CallFits
  <2>5. Fits(call'[v].row, s)
    <3> DEFINE old == call[v].row
    <3>1. old \in Rows
      BY <2>1
    <3>2. call'[v].row = [old EXCEPT !.version = share[s].version,
                                     !.verified = (share[s].password = None)]
      BY <2>3
    <3>3. Matches(old, s)
      BY <2>4
    <3> HIDE DEF old
    <3>4. call'[v].row.version = share[s].version /\ share[s].version \in Nat
      BY <1>0, <3>1, <3>2 DEF Rows, Shares
    <3>5. call'[v].row.secret = share[s].secret \/ call'[v].row.raced
      BY <3>1, <3>2, <3>3 DEF Rows, Matches
    <3>6. call'[v].row.verified => call'[v].row.entered = share[s].password
      BY <3>1, <3>2, <3>3 DEF Rows, Matches
    <3> QED
      BY <3>4, <3>5, <3>6 DEF Fits
  <2>6. UNCHANGED <<share, access>> /\ \A w \in Visitor : w # v => call'[w] = call[w]
    BY <1>0, <1>5 DEF ResolveRead
  <2> QED
    BY <1>a, <1>c, <2>3, <2>5, <2>6 DEF AccessFits
<1>6. ASSUME NEW v \in Visitor, NEW s \in Share, NEW p \in Password, UnlockRead(v, s, p) PROVE Goal
  <2> DEFINE old == access[v][s]
  <2>1. old \in Rows /\ Fits(old, s) /\ old.version > 0
    BY <1>0, <1>a, <1>6 DEF AccessFits, UnlockRead, HasAccess
  <2>2. call'[v] = [step |-> "unlocking", share |-> s,
                    row |-> [old EXCEPT !.verified = TRUE, !.entered = p]]
    BY <1>0, <1>6 DEF UnlockRead
  <2> HIDE DEF old
  <2>3. share[s].password = p
    BY <1>6 DEF UnlockRead
  <2>4. Fits(call'[v].row, s)
    <3>1. call'[v].row = [old EXCEPT !.verified = TRUE, !.entered = p]
      BY <2>2
    <3>2. call'[v].row.version = old.version /\ call'[v].row.entered = p
      BY <2>1, <3>1 DEF Rows
    <3>3. old.secret = share[s].secret \/ old.raced =>
            call'[v].row.secret = share[s].secret \/ call'[v].row.raced
      BY <2>1, <3>1 DEF Rows
    <3> QED
      BY <2>1, <2>3, <3>2, <3>3 DEF Fits
  <2>5. UNCHANGED <<share, access>> /\ \A w \in Visitor : w # v => call'[w] = call[w]
    BY <1>0, <1>6 DEF UnlockRead
  <2> QED
    BY <1>a, <1>c, <2>2, <2>4, <2>5 DEF AccessFits
<1>7. ASSUME NEW v \in Visitor, NEW s \in Share, WriteAccess(v, s) PROVE Goal
  <2>1. Fits(call[v].row, s)
    BY <1>a, <1>7 DEF WriteAccess, CallFits
  <2>2. access'[v][s] \in {access[v][s], call[v].row}
        /\ \A t \in Share : t # s => access'[v][t] = access[v][t]
    BY <1>0, <1>7 DEF WriteAccess
  <2>3. \A w \in Visitor : w # v => access'[w] = access[w] /\ call'[w] = call[w]
    BY <1>0, <1>7 DEF WriteAccess
  <2>4. call'[v].step = "idle"
    BY <1>0, <1>7 DEF WriteAccess, NoCall
  <2>5. Fits(access'[v][s], s)
    BY <1>a, <2>1, <2>2 DEF AccessFits
  <2> QED
    BY <1>7, <1>c, <2>2, <2>3, <2>4, <2>5 DEF WriteAccess
<1>8. ASSUME NEW v \in Visitor, NEW s \in Share, ForgetAccess(v, s) PROVE Goal
  <2>1. access'[v][s] = NoAccess /\ \A t \in Share : t # s => access'[v][t] = access[v][t]
    BY <1>0, <1>8 DEF ForgetAccess
  <2>2. Fits(NoAccess, s)
    BY <1>0 DEF Fits, NoAccess, Shares
  <2> QED
    BY <1>0, <1>a, <1>c, <1>8, <2>1, <2>2 DEF ForgetAccess, CallFits
<1>9. ASSUME NEW v \in Visitor, NEW s \in Share, DownloadLock(v, s) PROVE Goal
  <2>1. call'[v].step = "locked"
    BY <1>0, <1>9 DEF DownloadLock
  <2> QED
    BY <1>0, <1>a, <1>c, <1>9, <2>1 DEF DownloadLock, AccessFits
<1>10. ASSUME UNCHANGED access,
              \A t \in Share : /\ share'[t].version = share[t].version
                               /\ share'[t].secret = share[t].secret
                               /\ share'[t].password = share[t].password,
              \A w \in Visitor : call'[w] = call[w] \/ call'[w].step \in {"idle", "granted"}
       PROVE  Goal
  BY <1>a, <1>10 DEF AccessFits, CallFits, Fits, Matches
<1>11. ASSUME NEW v \in Visitor, Grant(v) PROVE Goal
  <2>1. call'[v].step = "granted" /\ \A w \in Visitor : w # v => call'[w] = call[w]
    <3>1. call[v] \in [step : {"locked"}, share : Share, row : Rows]
      BY <1>0, <1>11 DEF Grant, At, Calls, NoCall
    <3> QED
      BY <1>0, <1>11, <3>1 DEF Grant
  <2> QED
    BY <1>10, <1>11, <2>1 DEF Grant
<1>12. CASE OwnerGrant
  BY <1>0, <1>10, <1>12 DEF OwnerGrant
<1>13. ASSUME NEW c \in Caller, DownloadCommit(c) PROVE Goal
  <2>1. \A t \in Share : /\ share'[t].version = share[t].version
                         /\ share'[t].secret = share[t].secret
                         /\ share'[t].password = share[t].password
    <3>1. CASE call[c].share = None
      BY <1>13, <3>1 DEF DownloadCommit
    <3>2. CASE call[c].share # None
      <4>1. share' = [share EXCEPT ![call[c].share].count = @ + 1]
        BY <1>13, <3>2 DEF DownloadCommit
      <4> QED
        BY <1>0, <4>1 DEF Shares
    <3> QED
      BY <3>1, <3>2
  <2>2. \A w \in Visitor : call'[w] = call[w] \/ call'[w].step \in {"idle", "granted"}
    BY <1>0, <1>13 DEF DownloadCommit, NoCall
  <2> QED
    BY <1>10, <1>13, <2>1, <2>2 DEF DownloadCommit
<1>14. ASSUME NEW c \in Caller, CallFails(c) PROVE Goal
  BY <1>0, <1>10, <1>14 DEF CallFails, Dropped, NoCall
<1>15. CASE Lapse \/ NewMonth \/ UNCHANGED vars
  BY <1>0, <1>10, <1>15 DEF Lapse, NewMonth, vars
<1> QED
  BY <1>1, <1>2, <1>3, <1>4, <1>5, <1>6, <1>7, <1>8, <1>9, <1>11, <1>12, <1>13, <1>14, <1>15
     DEF Next

\* An access row opens only the version it was given for: by the secret in
\* force, or one replaced within the request, and verified by the password in
\* force.
THEOREM AccessIsCurrentHolds == Spec => []AccessIsCurrent
<1>1. AccessInv => AccessIsCurrent
  BY DEF AccessInv, AccessFits, Fits, AccessIsCurrent
<1> QED
  BY <1>1, AccessInit, AccessNext, PTL DEF Spec
=============================================================================
