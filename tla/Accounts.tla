------------------------------ MODULE Accounts ------------------------------
(***************************************************************************)
(* Accounts and their sessions (auth.ts, account-security.ts, and          *)
(* PATCH /api/admin/users of admin.ts): setup, guests, registration, login,*)
(* password reset and change, verified emails, suspension, and the rule    *)
(* that an active owner remains.                                           *)
(*                                                                         *)
(* A request is authenticated when it begins and works on what it read     *)
(* then: in between it hashes passwords and waits for locks.  A login      *)
(* checks the password and issues its session in separate statements.      *)
(* Setup, registration, verification and administration change users under *)
(* one advisory lock, each in one transaction, so each is one step here.   *)
(* Names, emails, rate limits and API keys are left out.                   *)
(***************************************************************************)
EXTENDS Naturals, FiniteSets

CONSTANTS User, Request,
          None,        \* no user, no role, no status
          MaxSessions, \* settings.maxSessions
          MaxPassword, \* bound on passwords of one user, for TLC
          MaxIssued    \* bound on sessions ever issued, for TLC

Roles == {"OWNER", "ADMIN", "USER"}
Statuses == {"PENDING", "ACTIVE", "SUSPENDED"}  \* SUSPENDED stands for DISABLED too

ASSUME AccountConstants ==
  /\ IsFiniteSet(User) /\ IsFiniteSet(Request)
  /\ None \notin User \cup Roles \cup Statuses
  /\ MaxSessions \in Nat \ {0} /\ MaxPassword \in Nat \ {0} /\ MaxIssued \in Nat \ {0}

VARIABLES
  user,     \* rows of users
  sessions, \* rows of sessions, numbered in the order of created_at
  issued,   \* how many sessions there have been
  reset,    \* users with a reset link they can use
  request   \* requests in progress and what they read

vars == <<user, sessions, issued, reset, request>>

\* overwritten: a registration that began as a guest's ended after another one
\* had made the guest an account, or after the guest was suspended. cut: a login
\* or a change of the password stopped before its last statement, which deletes
\* sessions.
NoUser == [status |-> None, anonymous |-> FALSE, role |-> "USER", password |-> 0,
           overwritten |-> FALSE, cut |-> FALSE]

\* password: the password it comes from; late: the password was replaced
\* while the request that issues the session was under way.
Session == [id : 1..MaxIssued, user : User, password : 0..MaxPassword, late : BOOLEAN]

NoRequest == [step |-> "idle", user |-> None, session |-> 0, role |-> None,
              password |-> 0, late |-> FALSE]

TypeOK ==
  /\ user \in [User -> [status : Statuses \cup {None}, anonymous : BOOLEAN,
                        role : Roles, password : 0..MaxPassword, overwritten : BOOLEAN,
                        cut : BOOLEAN]]
  /\ sessions \subseteq Session /\ issued \in 0..MaxIssued
  /\ reset \subseteq User
  /\ request \in [Request ->
       [step : {"idle", "register", "issue", "trim", "change", "changed", "admin"},
        user : User \cup {None}, session : 0..MaxIssued, role : Roles \cup {None},
        password : 0..MaxPassword, late : BOOLEAN]]
  /\ \A u \in User : user[u].status = None => \A s \in sessions : s.user # u

Init ==
  /\ user = [u \in User |-> NoUser]
  /\ sessions = {} /\ issued = 0 /\ reset = {}
  /\ request = [r \in Request |-> NoRequest]

----------------------------------------------------------------------------
Idle(r) == request[r].step = "idle"
Of(u) == {s \in sessions : s.user = u}

\* The requests, when u's password is replaced: what is about to be issued for
\* the old one is late.
Overtaken(u) ==
  [r \in Request |-> IF request[r].step = "issue" /\ request[r].user = u
                       THEN [request[r] EXCEPT !.late = TRUE] ELSE request[r]]

\* Mutant of Issuing: the id of the row that was inserted is not read.
IssuingForNobody(requests, r, u, p) ==
  [requests EXCEPT ![r] = [NoRequest EXCEPT !.step = "issue", !.password = p]]

\* The session of u that request r is going to issue.
Issuing(requests, r, u, p) ==
  [requests EXCEPT ![r] = [NoRequest EXCEPT !.step = "issue", !.user = u, !.password = p]]

\* onRequest: the session's user, if not suspended.
SignedIn(s) == user[s.user].status \in {"PENDING", "ACTIVE"}

Create(r, u, row) ==
  /\ Idle(r) \/ request[r].step = "register"
  /\ user[u].status = None
  /\ user' = [user EXCEPT ![u] = row]
  /\ request' = Issuing(request, r, u, row.password)
  /\ UNCHANGED <<sessions, issued, reset>>

----------------------------------------------------------------------------
(* Becoming a user.                                                        *)

Setup(r, u) ==
  /\ Idle(r) /\ \A v \in User : user[v].role # "OWNER"
  /\ Create(r, u, [NoUser EXCEPT !.status = "ACTIVE", !.role = "OWNER", !.password = 1])

Guest(r, u) ==
  /\ Idle(r)
  /\ Create(r, u, [NoUser EXCEPT !.status = "ACTIVE", !.anonymous = TRUE])

\* POST /api/auth/register begins, by a guest or by nobody.
RegisterRead(r, u) ==
  /\ Idle(r)
  /\ u # None => user[u].anonymous /\ Of(u) # {} /\ user[u].status # "SUSPENDED"
  /\ request' = [request EXCEPT ![r] = [NoRequest EXCEPT !.step = "register", !.user = u]]
  /\ UNCHANGED <<user, sessions, issued, reset>>

RegisterNew(r, u) ==
  /\ request[r].step = "register" /\ request[r].user = None
  /\ Create(r, u, [NoUser EXCEPT !.status = "PENDING", !.password = 1])

\* The guest becomes an account, by its id: it may be one already.
RegisterGuest(r) ==
  LET u == request[r].user
  IN /\ request[r].step = "register" /\ u # None /\ user[u].password < MaxPassword
     /\ user' = [user EXCEPT ![u].status = "PENDING", ![u].anonymous = FALSE,
                             ![u].password = @ + 1,
                             ![u].overwritten = @ \/ ~user[u].anonymous
                                                       \/ user[u].status = "SUSPENDED"]
     /\ sessions' = sessions \ Of(u)
     /\ request' = Issuing(Overtaken(u), r, u, user[u].password + 1)
     /\ UNCHANGED <<issued, reset>>

----------------------------------------------------------------------------
(* Sessions.                                                               *)

\* POST /api/auth/login finds the user and verifies the password.
LoginRead(r, u) ==
  /\ Idle(r) /\ user[u].password > 0 /\ user[u].status \in {"PENDING", "ACTIVE"}
  /\ request' = Issuing(request, r, u, user[u].password)
  /\ UNCHANGED <<user, sessions, issued, reset>>

\* issueSession
Issue(r) ==
  /\ request[r].step = "issue" /\ issued < MaxIssued
  /\ sessions' = sessions \cup {[id |-> issued + 1, user |-> request[r].user,
                                 password |-> request[r].password, late |-> request[r].late]}
  /\ issued' = issued + 1
  /\ request' = [request EXCEPT ![r] = [NoRequest EXCEPT !.step = "trim",
                                                          !.user = request[r].user]]
  /\ UNCHANGED <<user, reset>>

\* Mutant of Oldest: one session more than the setting says.
OldestButOne(u) == {s \in Of(u) : Cardinality({t \in Of(u) : t.id > s.id}) > MaxSessions}

Oldest(u) == {s \in Of(u) : Cardinality({t \in Of(u) : t.id > s.id}) >= MaxSessions}

Trim(r) ==
  /\ request[r].step = "trim"
  /\ sessions' = sessions \ Oldest(request[r].user)
  /\ request' = [request EXCEPT ![r] = NoRequest]
  /\ UNCHANGED <<user, issued, reset>>

\* Logout, a login from a browser that is signed in, DELETE /api/auth/sessions/:id.
Revoke(s) ==
  /\ sessions' = sessions \ {s}
  /\ UNCHANGED <<user, issued, reset, request>>

\* DELETE /api/auth/sessions/others
RevokeOthers(s) ==
  /\ SignedIn(s) /\ Of(s.user) # {s}
  /\ sessions' = sessions \ (Of(s.user) \ {s})
  /\ UNCHANGED <<user, issued, reset, request>>

----------------------------------------------------------------------------
(* Passwords and emails.                                                   *)

Forgot(u) ==
  /\ user[u].status # None /\ ~user[u].anonymous /\ u \notin reset
  /\ reset' = reset \cup {u}
  /\ UNCHANGED <<user, sessions, issued, request>>

\* Mutant of ResetEnds: the sessions stay.
ResetKeeps(u) == sessions \cup Of(u)

\* The sessions a reset leaves.
ResetEnds(u) == sessions \ Of(u)

\* POST /api/auth/reset, one transaction from the link to the sessions.
Reset(u) ==
  /\ u \in reset /\ user[u].password < MaxPassword
  /\ reset' = reset \ {u}
  /\ user' = [user EXCEPT ![u].password = @ + 1]
  /\ sessions' = ResetEnds(u)
  /\ request' = Overtaken(u)
  /\ UNCHANGED issued

\* POST /api/auth/password: verified, replaced, and the other sessions deleted,
\* by three statements.
ChangeRead(r, s) ==
  /\ Idle(r) /\ SignedIn(s) /\ user[s.user].password > 0
  /\ request' = [request EXCEPT ![r] = [NoRequest EXCEPT !.step = "change", !.user = s.user,
                                                         !.session = s.id]]
  /\ UNCHANGED <<user, sessions, issued, reset>>

\* The request's own session counts as one of the new password.
ChangeWrite(r) ==
  LET u == request[r].user
      new == user[u].password + 1
  IN /\ request[r].step = "change" /\ user[u].password < MaxPassword
     /\ user' = [user EXCEPT ![u].password = new]
     /\ sessions' = {IF s.id = request[r].session THEN [s EXCEPT !.password = new] ELSE s :
                       s \in sessions}
     /\ request' = [Overtaken(u) EXCEPT ![r].step = "changed"]
     /\ UNCHANGED <<issued, reset>>

ChangeDrop(r) ==
  /\ request[r].step = "changed"
  /\ sessions' = {s \in sessions : s.user # request[r].user \/ s.id = request[r].session}
  /\ request' = [request EXCEPT ![r] = NoRequest]
  /\ UNCHANGED <<user, issued, reset>>

\* Mutant of Awaits: the link activates whatever the status is.
AwaitsNothing(u) == user[u].status # None /\ ~user[u].anonymous

Awaits(u) == user[u].status = "PENDING"

\* POST /api/auth/verify with the link sent at registration.
Verify(u) ==
  /\ Awaits(u)
  /\ user' = [user EXCEPT ![u].status = "ACTIVE"]
  /\ UNCHANGED <<sessions, issued, reset, request>>

\* The same with the link for a new email.
ChangeEmail(u) ==
  /\ user[u].password > 0 /\ Of(u) # {}
  /\ sessions' = sessions \ Of(u)
  /\ UNCHANGED <<user, issued, reset, request>>

----------------------------------------------------------------------------
(* PATCH /api/admin/users/:id                                              *)

AdminRead(r, s) ==
  /\ Idle(r) /\ user[s.user].status = "ACTIVE" /\ user[s.user].role \in {"OWNER", "ADMIN"}
  /\ request' = [request EXCEPT ![r] = [NoRequest EXCEPT !.step = "admin",
                                                         !.role = user[s.user].role]]
  /\ UNCHANGED <<user, sessions, issued, reset>>

\* Mutant of Owners: suspended owners are counted.
OwnersOfAnyStatus == {u \in User : user[u].role = "OWNER"}

Owners == {u \in User : user[u].role = "OWNER" /\ user[u].status = "ACTIVE"}

\* The guards on user u, a new role and a new status, each None if not given.
Permitted(r, u, role, status) ==
  /\ user[u].status # None
  /\ role # None \/ user[u].role = "OWNER" => request[r].role = "OWNER"
  /\ user[u].role = "OWNER" /\ (role \notin {None, "OWNER"} \/ status \notin {None, "ACTIVE"})
       => Cardinality(Owners) > 1
  /\ user[u].anonymous => role \in {None, "USER"}

AdminCommit(r, u, role, status, drop) ==
  /\ request[r].step = "admin" /\ Permitted(r, u, role, status)
  /\ user' = [user EXCEPT ![u].role = IF role = None THEN @ ELSE role,
                          ![u].status = IF status = None THEN @ ELSE status]
  /\ sessions' = IF drop \/ status = "SUSPENDED" \/ role # None
                   THEN sessions \ Of(u) ELSE sessions
  /\ request' = [request EXCEPT ![r] = NoRequest]
  /\ UNCHANGED <<issued, reset>>

\* A check that fails, or a broken connection.
RequestFails(r) ==
  /\ ~Idle(r)
  /\ user' = IF request[r].step \in {"trim", "changed"}
               THEN [user EXCEPT ![request[r].user].cut = TRUE] ELSE user
  /\ request' = [request EXCEPT ![r] = NoRequest]
  /\ UNCHANGED <<sessions, issued, reset>>

----------------------------------------------------------------------------
Next ==
  \/ \E r \in Request, u \in User :
       \/ Setup(r, u) \/ Guest(r, u) \/ RegisterNew(r, u) \/ LoginRead(r, u)
       \/ \E role \in Roles \cup {None}, drop \in BOOLEAN,
             status \in Statuses \cup {None} :
            AdminCommit(r, u, role, status, drop)
  \/ \E r \in Request :
       \/ \E u \in User \cup {None} : RegisterRead(r, u)
       \/ RegisterGuest(r) \/ Issue(r) \/ Trim(r) \/ ChangeWrite(r) \/ ChangeDrop(r)
       \/ RequestFails(r)
       \/ \E s \in sessions : ChangeRead(r, s) \/ AdminRead(r, s)
  \/ \E s \in sessions : Revoke(s) \/ RevokeOthers(s)
  \/ \E u \in User : Forgot(u) \/ Reset(u) \/ Verify(u) \/ ChangeEmail(u)

Spec == Init /\ [][Next]_vars

----------------------------------------------------------------------------
(* Properties.                                                             *)

Overwritten == \E u \in User : user[u].overwritten

\* Once there is an owner there is an active one, whichever requests of
\* owners, demoted meanwhile or not, demote and suspend each other
\* (admin.ts:65); a registration that overwrites an account may undo it.
OwnerRemains ==
  (\E u \in User : user[u].role = "OWNER") =>
    Overwritten \/ \E u \in User : user[u].role = "OWNER" /\ user[u].status = "ACTIVE"

\* A user has no more sessions than the setting says, but for those whose
\* logins have still to delete the oldest (auth.ts:26), or were cut short.
SessionsWithinLimit ==
  \A u \in User :
    user[u].cut \/ Cardinality(Of(u)) <=
      MaxSessions + Cardinality({r \in Request : request[r].step = "trim" /\ request[r].user = u})

\* A session comes from the password in force, unless a login was under way
\* when the password was replaced, or a change of it has still to delete the
\* other sessions, or was cut short (auth.ts:95, auth.ts:97).
OldPasswordEnds ==
  \A s \in sessions :
    s.password = user[s.user].password \/ s.late \/ user[s.user].cut
      \/ \E r \in Request : request[r].step = "changed" /\ request[r].user = s.user

\* Only an administrator lifts a suspension: no link, registration or reset
\* does, but for a registration that overwrites the account
\* (account-security.ts:31).
SuspensionHolds ==
  [][\A u \in User : user[u].status = "SUSPENDED" /\ user'[u].status # "SUSPENDED" =>
       user'[u].overwritten \/ \E r \in Request : request[r].step = "admin" /\ request'[r] = NoRequest]_vars
=============================================================================
