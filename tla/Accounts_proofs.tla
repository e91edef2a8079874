--------------------------- MODULE Accounts_proofs ---------------------------
(***************************************************************************)
(* Accounts and sessions, for any users, requests, passwords and settings. *)
(***************************************************************************)
EXTENDS Accounts, FiniteSetTheorems, TLAPS

Row == [status : Statuses \cup {None}, anonymous : BOOLEAN, role : Roles,
        password : 0..MaxPassword, overwritten : BOOLEAN, cut : BOOLEAN]

Requests == [step : {"idle", "register", "issue", "trim", "change", "changed", "admin"},
             user : User \cup {None}, session : 0..MaxIssued, role : Roles \cup {None},
             password : 0..MaxPassword, late : BOOLEAN]

\* A request in the course of which a session of its user is written.
OfUser == {"issue", "trim", "change", "changed"}

\* TypeOK and what requests know of their users.
AccountInv ==
  /\ user \in [User -> Row]
  /\ request \in [Request -> Requests]
  /\ sessions \subseteq Session /\ issued \in 0..MaxIssued /\ reset \subseteq User
  /\ \A s \in sessions : user[s.user].status # None
  /\ \A r \in Request : request[r].user # None => user[request[r].user].status # None
  /\ \A r \in Request : request[r].step \in OfUser => request[r].user \in User

LEMMA TypeFromInv == AccountInv => TypeOK
BY DEF AccountInv, TypeOK, Row, Requests, Session

LEMMA RowFields ==
  ASSUME NEW x \in Row
  PROVE  /\ x.status \in Statuses \cup {None} /\ x.role \in Roles
         /\ x.anonymous \in BOOLEAN /\ x.overwritten \in BOOLEAN /\ x.cut \in BOOLEAN
         /\ x.password \in 0..MaxPassword
BY DEF Row

LEMMA RequestsFields ==
  ASSUME NEW x \in Requests
  PROVE  /\ x.step \in {"idle", "register", "issue", "trim", "change", "changed", "admin"}
         /\ x.user \in User \cup {None} /\ x.session \in 0..MaxIssued
         /\ x.role \in Roles \cup {None} /\ x.password \in 0..MaxPassword /\ x.late \in BOOLEAN
BY DEF Requests

LEMMA NoRequestType ==
  /\ NoRequest \in Requests /\ NoRequest.user = None /\ NoRequest.step = "idle"
  /\ NoRequest.role = None /\ NoRequest.session = 0 /\ NoRequest.late = FALSE
BY AccountConstants DEF NoRequest, Requests

LEMMA NoUserType ==
  /\ NoUser \in Row /\ NoUser.status = None /\ NoUser.role = "USER"
  /\ NoUser.overwritten = FALSE /\ NoUser.cut = FALSE /\ NoUser.anonymous = FALSE
BY AccountConstants DEF NoUser, Row, Roles

\* What Issuing makes of a request.
LEMMA IssuingType ==
  ASSUME NEW rs \in [Request -> Requests], NEW r \in Request, NEW u \in User,
         NEW p \in 0..MaxPassword
  PROVE  /\ Issuing(rs, r, u, p) \in [Request -> Requests]
         /\ \A q \in Request : q # r => Issuing(rs, r, u, p)[q] = rs[q]
         /\ LET new == Issuing(rs, r, u, p)[r]
            IN  /\ new.step = "issue" /\ new.user = u /\ new.password = p /\ new.role = None
                /\ new.session = 0
<1> DEFINE base == NoRequest
           new == [base EXCEPT !.step = "issue", !.user = u, !.password = p]
<1>1. Issuing(rs, r, u, p) = [rs EXCEPT ![r] = new]
  BY DEF Issuing
<1>2. base \in Requests /\ base.role = None /\ base.session = 0
  BY NoRequestType
<1> HIDE DEF base
<1>3. new \in Requests /\ new.step = "issue" /\ new.user = u /\ new.password = p
      /\ new.role = None /\ new.session = 0
  BY <1>2 DEF Requests
<1> HIDE DEF new
<1> QED
  BY <1>1, <1>3

\* What Overtaken makes of the requests.
LEMMA OvertakenType ==
  ASSUME request \in [Request -> Requests], NEW u \in User
  PROVE  /\ Overtaken(u) \in [Request -> Requests]
         /\ \A q \in Request :
              /\ Overtaken(u)[q].step = request[q].step /\ Overtaken(u)[q].user = request[q].user
              /\ Overtaken(u)[q].session = request[q].session
              /\ Overtaken(u)[q].role = request[q].role
              /\ Overtaken(u)[q].password = request[q].password
              /\ request[q].late => Overtaken(u)[q].late
              /\ request[q].step = "issue" /\ request[q].user = u => Overtaken(u)[q].late
<1>1. ASSUME NEW q \in Request
      PROVE  LET new == [request[q] EXCEPT !.late = TRUE]
             IN  /\ new \in Requests /\ new.late
                 /\ new.step = request[q].step /\ new.user = request[q].user
                 /\ new.session = request[q].session /\ new.role = request[q].role
                 /\ new.password = request[q].password
  <2> DEFINE old == request[q]
             yes == TRUE
             new == [old EXCEPT !.late = yes]
  <2>1. old \in Requests /\ yes \in BOOLEAN /\ yes
    OBVIOUS
  <2> HIDE DEF old, yes
  <2>2. /\ new \in Requests /\ new.late = yes /\ new.step = old.step /\ new.user = old.user
        /\ new.session = old.session /\ new.role = old.role /\ new.password = old.password
    BY <2>1 DEF Requests
  <2> QED
    BY <2>1, <2>2 DEF old, yes
<1> QED
  BY <1>1 DEF Overtaken

----------------------------------------------------------------------------
(* Types.                                                                  *)

LEMMA InitInv == Init => AccountInv
BY NoRequestType, NoUserType, AccountConstants DEF Init, AccountInv, OfUser

LEMMA CreateDoes ==
  ASSUME AccountInv, NEW r \in Request, NEW u \in User, NEW row \in Row, row.status # None,
         Create(r, u, row)
  PROVE  /\ user[u].status = None /\ user' = [user EXCEPT ![u] = row]
         /\ user'[u] = row /\ \A v \in User : v # u => user'[v] = user[v]
         /\ request' = Issuing(request, r, u, row.password)
         /\ \A q \in Request : q # r => request'[q] = request[q]
         /\ request'[r].step = "issue" /\ request'[r].user = u /\ request'[r].role = None
         /\ request'[r].password = row.password /\ request'[r].session = 0
         /\ UNCHANGED <<sessions, issued, reset>>
         /\ AccountInv'
<1>1. user' = [user EXCEPT ![u] = row] /\ user' \in [User -> Row] /\ user'[u] = row
      /\ (\A v \in User : v # u => user'[v] = user[v]) /\ user[u].status = None
  BY DEF Create, AccountInv
<1>2. row.password \in 0..MaxPassword /\ request' = Issuing(request, r, u, row.password)
  BY RowFields DEF Create
<1>3. /\ request' \in [Request -> Requests]
      /\ \A q \in Request : q # r => request'[q] = request[q]
      /\ request'[r].step = "issue" /\ request'[r].user = u /\ request'[r].role = None
      /\ request'[r].password = row.password /\ request'[r].session = 0
  BY <1>2, IssuingType DEF AccountInv
<1>4. UNCHANGED <<sessions, issued, reset>>
  BY DEF Create
<1>5. AccountInv'
  BY <1>1, <1>3, <1>4 DEF AccountInv, Session
<1> QED
  BY <1>1, <1>2, <1>3, <1>4, <1>5

\* What a registration makes of a guest.
LEMMA RegisterGuestDoes ==
  ASSUME AccountInv, NEW r \in Request, RegisterGuest(r)
  PROVE  LET u == request[r].user
         IN  /\ u \in User /\ user' \in [User -> Row]
             /\ \A v \in User : v # u => user'[v] = user[v]
             /\ user'[u].status = "PENDING" /\ user'[u].anonymous = FALSE
             /\ user'[u].role = user[u].role /\ user'[u].cut = user[u].cut
             /\ user'[u].password = user[u].password + 1
             /\ user[u].overwritten \/ ~user[u].anonymous \/ user[u].status = "SUSPENDED"
                  => user'[u].overwritten
<1> DEFINE u == request[r].user
           old == user[u]
           no == FALSE
           pending == "PENDING"
           password == old.password + 1
           over == old.overwritten \/ ~old.anonymous \/ old.status = "SUSPENDED"
           new == [old EXCEPT !.status = pending, !.anonymous = no, !.password = password,
                              !.overwritten = over]
<1>1. u \in User
  BY RequestsFields DEF AccountInv, RegisterGuest
<1>2. old \in Row /\ no \in BOOLEAN /\ over \in BOOLEAN /\ pending \in Statuses
  BY <1>1, RowFields DEF AccountInv, Statuses
<1>3. password \in 0..MaxPassword
  <2>1. old.password \in 0..MaxPassword /\ old.password < MaxPassword
    BY <1>2, RowFields DEF RegisterGuest
  <2> HIDE DEF old
  <2> QED
    BY <2>1, AccountConstants
<1>4. user' = [user EXCEPT ![u] = new]
  BY DEF RegisterGuest
<1>5. new \in Row /\ new.status = pending /\ new.anonymous = no /\ new.role = old.role
      /\ new.cut = old.cut /\ new.password = password /\ new.overwritten = over
  <2> HIDE DEF old, no, over, pending, password
  <2> QED
    BY <1>2, <1>3 DEF Row
<1> HIDE DEF new
<1>6. user' \in [User -> Row] /\ user'[u] = new /\ \A v \in User : v # u => user'[v] = user[v]
  BY <1>1, <1>4, <1>5 DEF AccountInv
<1> QED
  BY <1>1, <1>5, <1>6

\* A replaced password leaves the rest of the row.
LEMMA PasswordDoes ==
  ASSUME AccountInv, NEW u \in User, user[u].password < MaxPassword,
         \/ user' = [user EXCEPT ![u].password = @ + 1]
         \/ user' = [user EXCEPT ![u].password = user[u].password + 1]
  PROVE  /\ user' \in [User -> Row] /\ \A v \in User : v # u => user'[v] = user[v]
         /\ user'[u].status = user[u].status /\ user'[u].role = user[u].role
         /\ user'[u].anonymous = user[u].anonymous /\ user'[u].cut = user[u].cut
         /\ user'[u].overwritten = user[u].overwritten
         /\ user'[u].password = user[u].password + 1
<1> DEFINE old == user[u]
           password == old.password + 1
           new == [old EXCEPT !.password = password]
<1>1. old \in Row
  BY DEF AccountInv
<1>2. password \in 0..MaxPassword
  <2>1. old.password \in 0..MaxPassword /\ old.password < MaxPassword
    BY <1>1, RowFields
  <2> HIDE DEF old
  <2> QED
    BY <2>1, AccountConstants
<1>3. user' = [user EXCEPT ![u] = new]
  OBVIOUS
<1>4. new \in Row /\ new.status = old.status /\ new.anonymous = old.anonymous
      /\ new.role = old.role /\ new.cut = old.cut /\ new.password = password
      /\ new.overwritten = old.overwritten
  <2> HIDE DEF old, password
  <2> QED
    BY <1>1, <1>2 DEF Row
<1> HIDE DEF new
<1>5. user' \in [User -> Row] /\ user'[u] = new /\ \A v \in User : v # u => user'[v] = user[v]
  BY <1>3, <1>4 DEF AccountInv
<1> QED
  BY <1>4, <1>5

\* The rows of a first owner, a guest and a registered user.
OwnerRow == [NoUser EXCEPT !.status = "ACTIVE", !.role = "OWNER", !.password = 1]
GuestRow == [NoUser EXCEPT !.status = "ACTIVE", !.anonymous = TRUE]
PendingRow == [NoUser EXCEPT !.status = "PENDING", !.password = 1]

LEMMA CreatedRows ==
  /\ OwnerRow \in Row /\ OwnerRow.status = "ACTIVE" /\ OwnerRow.role = "OWNER"
  /\ GuestRow \in Row /\ GuestRow.status = "ACTIVE" /\ GuestRow.role = "USER"
  /\ PendingRow \in Row /\ PendingRow.status = "PENDING" /\ PendingRow.role = "USER"
  /\ ~OwnerRow.anonymous /\ ~PendingRow.anonymous
<1> DEFINE base == NoUser
           active == "ACTIVE"
           pending == "PENDING"
           owner == "OWNER"
           yes == TRUE
           one == 1
<1>1. base \in Row /\ base.role = "USER" /\ ~base.anonymous
  BY NoUserType
<1>2. active \in Statuses /\ pending \in Statuses /\ owner \in Roles /\ yes \in BOOLEAN
      /\ one \in 0..MaxPassword
  BY AccountConstants DEF Statuses, Roles
<1>3. /\ OwnerRow = [base EXCEPT !.status = active, !.role = owner, !.password = one]
      /\ GuestRow = [base EXCEPT !.status = active, !.anonymous = yes]
      /\ PendingRow = [base EXCEPT !.status = pending, !.password = one]
  BY DEF OwnerRow, GuestRow, PendingRow
<1> HIDE DEF base, active, pending, owner, yes, one
<1>4. /\ OwnerRow \in Row /\ OwnerRow.status = active /\ OwnerRow.role = owner
      /\ OwnerRow.anonymous = base.anonymous
  BY <1>1, <1>2, <1>3 DEF Row
<1>5. GuestRow \in Row /\ GuestRow.status = active /\ GuestRow.role = base.role
  BY <1>1, <1>2, <1>3 DEF Row
<1>6. /\ PendingRow \in Row /\ PendingRow.status = pending /\ PendingRow.role = base.role
      /\ PendingRow.anonymous = base.anonymous
  BY <1>1, <1>2, <1>3 DEF Row
<1> QED
  BY <1>1, <1>4, <1>5, <1>6 DEF active, pending, owner

\* The requests that begin with a read, and those that end their login.
LEMMA BegunRequests ==
  ASSUME NEW u \in User \cup {None}, NEW role \in Roles \cup {None}
  PROVE  /\ LET x == [NoRequest EXCEPT !.step = "register", !.user = u]
            IN  x \in Requests /\ x.step = "register" /\ x.user = u /\ x.role = None
         /\ LET x == [NoRequest EXCEPT !.step = "trim", !.user = u]
            IN  x \in Requests /\ x.step = "trim" /\ x.user = u /\ x.role = None
         /\ LET x == [NoRequest EXCEPT !.step = "admin", !.role = role]
            IN  x \in Requests /\ x.step = "admin" /\ x.user = None /\ x.role = role
<1> DEFINE base == NoRequest
<1>1. base \in Requests /\ base.role = None /\ base.user = None
  BY NoRequestType
<1> HIDE DEF base
<1>2. LET x == [base EXCEPT !.step = "register", !.user = u]
      IN  x \in Requests /\ x.step = "register" /\ x.user = u /\ x.role = None
  BY <1>1 DEF Requests
<1>3. LET x == [base EXCEPT !.step = "trim", !.user = u]
      IN  x \in Requests /\ x.step = "trim" /\ x.user = u /\ x.role = None
  BY <1>1 DEF Requests
<1>5. LET x == [base EXCEPT !.step = "admin", !.role = role]
      IN  x \in Requests /\ x.step = "admin" /\ x.user = None /\ x.role = role
  BY <1>1 DEF Requests
<1> QED
  BY <1>2, <1>3, <1>5 DEF base

\* A step of one request that leaves the users and does not add a session.
LEMMA RequestStep ==
  ASSUME AccountInv, NEW r \in Request, NEW x \in Requests,
         request' = [request EXCEPT ![r] = x], user' = user,
         x.user # None => user[x.user].status # None,
         x.step \in OfUser => x.user \in User,
         sessions' \subseteq sessions, issued' = issued, reset' = reset
  PROVE  AccountInv' /\ request'[r] = x /\ \A q \in Request : q # r => request'[q] = request[q]
BY DEF AccountInv

\* A step of the users that leaves the requests their users.
LEMMA UserStep ==
  ASSUME AccountInv, user' \in [User -> Row], request' \in [Request -> Requests],
         \A u \in User : user[u].status # None => user'[u].status # None,
         \A q \in Request :
           \/ request'[q] = NoRequest
           \/ /\ request'[q].user = request[q].user
              /\ request'[q].step \in OfUser => request'[q].user \in User,
         sessions' \subseteq Session,
         \A s \in sessions' : \E t \in sessions : s.user = t.user,
         issued' = issued, reset' \subseteq User
  PROVE  AccountInv'
<1>1. ASSUME NEW q \in Request, request'[q].user # None
      PROVE  user'[request'[q].user].status # None
  <2>1. request'[q].user = request[q].user
    BY <1>1, NoRequestType
  <2>2. request[q].user \in User
    BY <1>1, <2>1, RequestsFields DEF AccountInv
  <2> QED
    BY <1>1, <2>1, <2>2 DEF AccountInv
<1>2. \A q \in Request : request'[q].step \in OfUser => request'[q].user \in User
  BY NoRequestType DEF OfUser
<1>3. \A s \in sessions' : user'[s.user].status # None
  BY SMTT(30) DEF AccountInv, Session
<1> QED
  BY <1>1, <1>2, <1>3 DEF AccountInv

\* POST /api/auth/register, by a guest.
LEMMA RegisterGuestInv ==
  ASSUME AccountInv, NEW r \in Request, RegisterGuest(r)
  PROVE  /\ AccountInv'
         /\ LET u == request[r].user
            IN  /\ sessions' = sessions \ Of(u) /\ UNCHANGED <<issued, reset>>
                /\ request'[r].step = "issue" /\ request'[r].user = u /\ request'[r].role = None
                /\ request'[r].password = user[u].password + 1 /\ request'[r].session = 0
                /\ \A q \in Request : q # r => request'[q] = Overtaken(u)[q]
<1> DEFINE u == request[r].user
<1>1. /\ u \in User /\ user' \in [User -> Row]
      /\ \A v \in User : v # u => user'[v] = user[v]
      /\ user'[u].status = "PENDING" /\ user'[u].password = user[u].password + 1
  BY RegisterGuestDoes
<1>2. user'[u].password \in 0..MaxPassword
  BY <1>1, RowFields
<1>3. /\ Overtaken(u) \in [Request -> Requests]
      /\ \A q \in Request : Overtaken(u)[q].step = request[q].step
                            /\ Overtaken(u)[q].user = request[q].user
  BY <1>1, OvertakenType DEF AccountInv
<1>4. request' = Issuing(Overtaken(u), r, u, user[u].password + 1)
      /\ sessions' = sessions \ Of(u) /\ UNCHANGED <<issued, reset>>
  BY DEF RegisterGuest
<1>5. /\ request' \in [Request -> Requests]
      /\ \A q \in Request : q # r => request'[q] = Overtaken(u)[q]
      /\ request'[r].step = "issue" /\ request'[r].user = u /\ request'[r].role = None
      /\ request'[r].password = user[u].password + 1 /\ request'[r].session = 0
  BY <1>1, <1>2, <1>3, <1>4, IssuingType
<1>6. \A v \in User : user[v].status # None => user'[v].status # None
  BY SMTT(30), <1>1, AccountConstants DEF Statuses
<1>7. AccountInv'
  <2>1. \A q \in Request : request'[q].user = request[q].user
    BY <1>3, <1>5
  <2>2. \A q \in Request : request'[q].step \in OfUser => request'[q].user \in User
    BY <1>1, <1>3, <1>5 DEF AccountInv
  <2>3. sessions' \subseteq Session /\ \A s \in sessions' : \E t \in sessions : s.user = t.user
    BY <1>4 DEF AccountInv
  <2> QED
    BY <1>1, <1>4, <1>5, <1>6, <2>1, <2>2, <2>3, UserStep DEF AccountInv
<1> QED
  BY <1>4, <1>5, <1>7

LEMMA LoginReadInv ==
  ASSUME AccountInv, NEW r \in Request, NEW u \in User, LoginRead(r, u)
  PROVE  /\ AccountInv' /\ UNCHANGED <<user, sessions, issued, reset>>
         /\ \A q \in Request : q # r => request'[q] = request[q]
         /\ request'[r].step = "issue" /\ request'[r].user = u /\ request'[r].role = None
         /\ request'[r].password = user[u].password /\ request'[r].session = 0
<1>1. user[u].password \in 0..MaxPassword /\ user[u].status # None
  BY RowFields, AccountConstants DEF AccountInv, LoginRead, Statuses
<1>2. /\ request' \in [Request -> Requests]
      /\ \A q \in Request : q # r => request'[q] = request[q]
      /\ request'[r].step = "issue" /\ request'[r].user = u /\ request'[r].role = None
      /\ request'[r].password = user[u].password /\ request'[r].session = 0
  BY <1>1, IssuingType DEF AccountInv, LoginRead
<1>3. UNCHANGED <<user, sessions, issued, reset>>
  BY DEF LoginRead
<1>4. AccountInv'
  BY <1>1, <1>2, <1>3 DEF AccountInv
<1> QED
  BY <1>2, <1>3, <1>4

LEMMA IssueInv ==
  ASSUME AccountInv, NEW r \in Request, Issue(r)
  PROVE  /\ AccountInv' /\ UNCHANGED <<user, reset>> /\ issued' = issued + 1
         /\ request[r].user \in User
         /\ sessions' = sessions \cup
              {[id |-> issued + 1, user |-> request[r].user,
                password |-> request[r].password, late |-> request[r].late]}
         /\ request'[r].step = "trim" /\ request'[r].user = request[r].user
         /\ request'[r].role = None
         /\ \A q \in Request : q # r => request'[q] = request[q]
<1> DEFINE u == request[r].user
           new == [id |-> issued + 1, user |-> u,
                   password |-> request[r].password, late |-> request[r].late]
           x == [NoRequest EXCEPT !.step = "trim", !.user = u]
<1>1. u \in User /\ u # None /\ request[r] \in Requests
  BY AccountConstants DEF AccountInv, Issue, OfUser
<1>2. issued + 1 \in 1..MaxIssued /\ issued + 1 \in 0..MaxIssued
  BY AccountConstants DEF AccountInv, Issue
<1>3. new \in Session
  BY <1>1, <1>2, RequestsFields DEF Session
<1>4. sessions' = sessions \cup {new} /\ issued' = issued + 1 /\ UNCHANGED <<user, reset>>
      /\ request' = [request EXCEPT ![r] = x]
  BY SMTT(30) DEF Issue
<1>5. x \in Requests /\ x.step = "trim" /\ x.user = u /\ x.role = None
  <2>1. u \in User \cup {None} /\ 0 \in 0..MaxIssued /\ None \in Roles \cup {None}
    BY <1>1, AccountConstants
  <2> HIDE DEF u
  <2> QED
    BY <2>1, BegunRequests
<1>6. user[new.user].status # None
  BY <1>1 DEF AccountInv
<1> HIDE DEF new, x
<1>7. /\ request' \in [Request -> Requests] /\ request'[r] = x
      /\ \A q \in Request : q # r => request'[q] = request[q]
  BY <1>4, <1>5 DEF AccountInv
<1>8. AccountInv'
  <2>1. sessions' \subseteq Session /\ \A s \in sessions' : user'[s.user].status # None
    BY <1>3, <1>4, <1>6 DEF AccountInv
  <2>2. \A q \in Request : request'[q].user # None => user'[request'[q].user].status # None
    BY <1>1, <1>4, <1>5, <1>7 DEF AccountInv
  <2>3. \A q \in Request : request'[q].step \in OfUser => request'[q].user \in User
    BY <1>1, <1>5, <1>7 DEF AccountInv
  <2> QED
    BY <1>2, <1>4, <1>7, <2>1, <2>2, <2>3 DEF AccountInv
<1> QED
  BY <1>1, <1>4, <1>5, <1>7, <1>8 DEF new

LEMMA TrimInv ==
  ASSUME AccountInv, NEW r \in Request, Trim(r)
  PROVE  /\ AccountInv' /\ UNCHANGED <<user, issued, reset>> /\ request'[r] = NoRequest
         /\ \A q \in Request : q # r => request'[q] = request[q]
BY RequestStep, NoRequestType DEF Trim, OfUser

\* POST /api/auth/password: the new password is written.
LEMMA ChangeWriteInv ==
  ASSUME AccountInv, NEW r \in Request, ChangeWrite(r)
  PROVE  LET u == request[r].user
         IN  /\ AccountInv' /\ u \in User /\ UNCHANGED <<issued, reset>>
             /\ \A v \in User : v # u => user'[v] = user[v]
             /\ user'[u].status = user[u].status /\ user'[u].role = user[u].role
             /\ user'[u].anonymous = user[u].anonymous /\ user'[u].cut = user[u].cut
             /\ user'[u].overwritten = user[u].overwritten
             /\ user'[u].password = user[u].password + 1
             /\ sessions' =
                  {IF s.id = request[r].session
                     THEN [s EXCEPT !.password = user[u].password + 1] ELSE s : s \in sessions}
             /\ request'[r].step = "changed" /\ request'[r].user = u
             /\ request'[r].session = request[r].session /\ request'[r].role = request[r].role
             /\ \A q \in Request : q # r => request'[q] = Overtaken(u)[q]
<1> DEFINE u == request[r].user
           password == user[u].password + 1
           old == Overtaken(u)[r]
           new == [old EXCEPT !.step = "changed"]
           written(s) == IF s.id = request[r].session
                           THEN [s EXCEPT !.password = password] ELSE s
<1>1. u \in User
  BY DEF AccountInv, ChangeWrite, OfUser
<1>2. /\ user' \in [User -> Row] /\ \A v \in User : v # u => user'[v] = user[v]
      /\ user'[u].status = user[u].status /\ user'[u].role = user[u].role
      /\ user'[u].anonymous = user[u].anonymous /\ user'[u].cut = user[u].cut
      /\ user'[u].overwritten = user[u].overwritten
      /\ user'[u].password = password
  BY <1>1, PasswordDoes DEF ChangeWrite
<1>3. password \in 0..MaxPassword
  BY <1>1, <1>2, RowFields
<1>4. /\ Overtaken(u) \in [Request -> Requests]
      /\ \A q \in Request : Overtaken(u)[q].step = request[q].step
                            /\ Overtaken(u)[q].user = request[q].user
                            /\ Overtaken(u)[q].session = request[q].session
                            /\ Overtaken(u)[q].role = request[q].role
  BY <1>1, OvertakenType DEF AccountInv
<1>5. request' = [Overtaken(u) EXCEPT ![r] = new]
  BY DEF ChangeWrite
<1>6. new \in Requests /\ new.step = "changed" /\ new.user = u
      /\ new.session = request[r].session /\ new.role = request[r].role
  <2>1. old \in Requests /\ old.user = u /\ old.session = request[r].session
        /\ old.role = request[r].role
    BY <1>4
  <2> HIDE DEF old
  <2>2. new \in Requests /\ new.step = "changed" /\ new.user = old.user
        /\ new.session = old.session /\ new.role = old.role
    BY <2>1 DEF Requests
  <2> QED
    BY <2>1, <2>2
<1> HIDE DEF new
<1>7. /\ request' \in [Request -> Requests] /\ request'[r] = new
      /\ \A q \in Request : q # r => request'[q] = Overtaken(u)[q]
  BY <1>4, <1>5, <1>6
<1>8. sessions' = {written(s) : s \in sessions} /\ UNCHANGED <<issued, reset>>
  BY DEF ChangeWrite
<1>9. \A s \in sessions : written(s) \in Session /\ written(s).user = s.user
  <2> SUFFICES ASSUME NEW s \in sessions
               PROVE  written(s) \in Session /\ written(s).user = s.user
    OBVIOUS
  <2>1. s \in Session
    BY DEF AccountInv
  <2> HIDE DEF password
  <2> QED
    BY <1>3, <2>1 DEF Session
<1> HIDE DEF written
<1>10. AccountInv'
  <2>1. \A q \in Request : request'[q].user = request[q].user
    BY <1>4, <1>6, <1>7
  <2>2. \A q \in Request : request'[q].step \in OfUser => request'[q].user \in User
    BY <1>1, <1>4, <1>6, <1>7 DEF AccountInv
  <2>3. sessions' \subseteq Session /\ \A s \in sessions' : \E t \in sessions : s.user = t.user
    BY <1>8, <1>9
  <2>4. \A v \in User : user[v].status # None => user'[v].status # None
    BY <1>2
  <2> QED
    BY <1>2, <1>7, <1>8, <2>1, <2>2, <2>3, <2>4, UserStep DEF AccountInv
<1> QED
  BY <1>1, <1>2, <1>6, <1>7, <1>8, <1>10 DEF written

\* POST /api/auth/reset.
LEMMA ResetInv ==
  ASSUME AccountInv, NEW u \in User, Reset(u)
  PROVE  /\ AccountInv' /\ sessions' = sessions \ Of(u) /\ request' = Overtaken(u)
         /\ issued' = issued
         /\ \A v \in User : v # u => user'[v] = user[v]
         /\ user'[u].status = user[u].status /\ user'[u].role = user[u].role
         /\ user'[u].anonymous = user[u].anonymous /\ user'[u].cut = user[u].cut
         /\ user'[u].overwritten = user[u].overwritten
<1>1. /\ user' \in [User -> Row] /\ \A v \in User : v # u => user'[v] = user[v]
      /\ user'[u].status = user[u].status /\ user'[u].role = user[u].role
      /\ user'[u].anonymous = user[u].anonymous /\ user'[u].cut = user[u].cut
      /\ user'[u].overwritten = user[u].overwritten
  BY PasswordDoes DEF Reset
<1>2. /\ sessions' = sessions \ Of(u) /\ request' = Overtaken(u) /\ issued' = issued
      /\ reset' = reset \ {u}
  BY DEF Reset, ResetEnds
<1>3. /\ request' \in [Request -> Requests]
      /\ \A q \in Request : request'[q].step = request[q].step
                            /\ request'[q].user = request[q].user
  BY <1>2, OvertakenType DEF AccountInv
<1>4. AccountInv'
  <2>1. \A q \in Request : request'[q].step \in OfUser => request'[q].user \in User
    BY <1>3 DEF AccountInv
  <2>2. sessions' \subseteq Session /\ \A s \in sessions' : \E t \in sessions : s.user = t.user
    BY <1>2 DEF AccountInv
  <2>3. \A v \in User : user[v].status # None => user'[v].status # None
    BY <1>1
  <2> QED
    BY <1>1, <1>2, <1>3, <2>1, <2>2, <2>3, UserStep DEF AccountInv
<1> QED
  BY <1>1, <1>2, <1>4

LEMMA ChangeDropInv ==
  ASSUME AccountInv, NEW r \in Request, ChangeDrop(r)
  PROVE  /\ AccountInv' /\ UNCHANGED <<user, issued, reset>> /\ request'[r] = NoRequest
         /\ \A q \in Request : q # r => request'[q] = request[q]
BY RequestStep, NoRequestType DEF ChangeDrop, OfUser

\* PATCH /api/admin/users/:id.
LEMMA AdminCommitInv ==
  ASSUME AccountInv, NEW r \in Request, NEW u \in User, NEW role \in Roles \cup {None},
         NEW status \in Statuses \cup {None}, NEW drop \in BOOLEAN,
         AdminCommit(r, u, role, status, drop)
  PROVE  /\ AccountInv' /\ UNCHANGED <<issued, reset>> /\ sessions' \subseteq sessions
         /\ request'[r] = NoRequest /\ \A q \in Request : q # r => request'[q] = request[q]
         /\ \A v \in User : v # u => user'[v] = user[v]
         /\ user'[u].status = (IF status = None THEN user[u].status ELSE status)
         /\ user'[u].role = (IF role = None THEN user[u].role ELSE role)
         /\ user'[u].anonymous = user[u].anonymous /\ user'[u].cut = user[u].cut
         /\ user'[u].overwritten = user[u].overwritten
         /\ user'[u].password = user[u].password
<1> DEFINE st == IF status = None THEN user[u].status ELSE status
           ro == IF role = None THEN user[u].role ELSE role
           old == user[u]
           new == [old EXCEPT !.role = ro, !.status = st]
<1>1. st \in Statuses \cup {None} /\ ro \in Roles /\ st # None
  BY RowFields DEF AccountInv, AdminCommit, Permitted
<1>2. old \in Row /\ user' = [user EXCEPT ![u] = new]
  BY DEF AdminCommit, AccountInv
<1>7. /\ new \in Row /\ new.status = st /\ new.role = ro /\ new.cut = old.cut
      /\ new.anonymous = old.anonymous /\ new.overwritten = old.overwritten
      /\ new.password = old.password
  <2> HIDE DEF st, ro, old
  <2> QED
    BY <1>1, <1>2 DEF Row
<1> HIDE DEF st, ro, new
<1>3. /\ user' \in [User -> Row] /\ \A v \in User : v # u => user'[v] = user[v]
      /\ user'[u].status = st /\ user'[u].role = ro /\ user'[u].cut = user[u].cut
      /\ user'[u].anonymous = user[u].anonymous
      /\ user'[u].overwritten = user[u].overwritten
      /\ user'[u].password = user[u].password
  BY <1>2, <1>7 DEF AccountInv
<1>4. /\ request' \in [Request -> Requests] /\ request'[r] = NoRequest
      /\ \A q \in Request : q # r => request'[q] = request[q]
  BY NoRequestType DEF AdminCommit, AccountInv
<1>5. sessions' \subseteq sessions /\ UNCHANGED <<issued, reset>>
  BY DEF AdminCommit
<1>6. AccountInv'
  <2>1. \A v \in User : user[v].status # None => user'[v].status # None
    BY <1>1, <1>3
  <2>2. sessions' \subseteq Session /\ \A s \in sessions' : \E t \in sessions : s.user = t.user
    BY <1>5 DEF AccountInv
  <2>3. \A q \in Request :
          \/ request'[q] = NoRequest
          \/ /\ request'[q].user = request[q].user
             /\ request'[q].step \in OfUser => request'[q].user \in User
    BY <1>4 DEF AccountInv
  <2> QED
    BY <1>3, <1>4, <1>5, <2>1, <2>2, <2>3, UserStep DEF AccountInv
<1> QED
  BY <1>3, <1>4, <1>5, <1>6 DEF st, ro

\* A request that stops where it is.
LEMMA RequestFailsInv ==
  ASSUME AccountInv, NEW r \in Request, RequestFails(r)
  PROVE  LET u == request[r].user
         IN  /\ AccountInv' /\ UNCHANGED <<sessions, issued, reset>>
             /\ request'[r] = NoRequest
             /\ \A q \in Request : q # r => request'[q] = request[q]
             /\ request[r].step \in {"trim", "changed"} => u \in User /\ user'[u].cut
             /\ \A v \in User :
                  /\ user'[v].status = user[v].status /\ user'[v].role = user[v].role
                  /\ user'[v].anonymous = user[v].anonymous
                  /\ user'[v].overwritten = user[v].overwritten
                  /\ user'[v].password = user[v].password
                  /\ user[v].cut => user'[v].cut
<1> DEFINE u == request[r].user
           yes == TRUE
<1>1. /\ request' \in [Request -> Requests] /\ request'[r] = NoRequest
      /\ \A q \in Request : q # r => request'[q] = request[q]
  BY NoRequestType DEF RequestFails, AccountInv
<1>2. UNCHANGED <<sessions, issued, reset>>
  BY DEF RequestFails
<1>3. request[r].step \in {"trim", "changed"} => u \in User
  BY DEF AccountInv, OfUser
<1>4. /\ user' \in [User -> Row]
      /\ request[r].step \in {"trim", "changed"} => user'[u].cut
      /\ \A v \in User :
           /\ user'[v].status = user[v].status /\ user'[v].role = user[v].role
           /\ user'[v].anonymous = user[v].anonymous
           /\ user'[v].overwritten = user[v].overwritten
           /\ user'[v].password = user[v].password
           /\ user[v].cut => user'[v].cut
  <2>1. CASE request[r].step \in {"trim", "changed"}
    <3> DEFINE old == user[u]
               new == [old EXCEPT !.cut = yes]
    <3>1. user' = [user EXCEPT ![u] = new] /\ old \in Row /\ yes \in BOOLEAN
      BY <1>3, <2>1 DEF RequestFails, AccountInv
    <3>2. /\ new \in Row /\ new.status = old.status /\ new.role = old.role
          /\ new.cut = yes /\ new.anonymous = old.anonymous
          /\ new.overwritten = old.overwritten /\ new.password = old.password
      <4> HIDE DEF yes, old
      <4> QED
        BY <3>1 DEF Row
    <3> HIDE DEF new
    <3>3. user' \in [User -> Row] /\ user'[u] = new
          /\ \A v \in User : v # u => user'[v] = user[v]
      BY <1>3, <2>1, <3>1, <3>2 DEF AccountInv
    <3> QED
      BY <2>1, <3>2, <3>3
  <2>2. CASE request[r].step \notin {"trim", "changed"}
    BY <2>2 DEF RequestFails, AccountInv
  <2> QED
    BY <2>1, <2>2
<1>5. AccountInv'
  <2>1. \A v \in User : user[v].status # None => user'[v].status # None
    BY <1>4
  <2>2. sessions' \subseteq Session /\ \A s \in sessions' : \E t \in sessions : s.user = t.user
    BY <1>2 DEF AccountInv
  <2>3. \A q \in Request :
          \/ request'[q] = NoRequest
          \/ /\ request'[q].user = request[q].user
             /\ request'[q].step \in OfUser => request'[q].user \in User
    BY <1>1 DEF AccountInv
  <2> QED
    BY <1>1, <1>2, <1>4, <2>1, <2>2, <2>3, UserStep DEF AccountInv
<1> QED
  BY <1>1, <1>2, <1>3, <1>4, <1>5

LEMMA VerifyInv ==
  ASSUME AccountInv, NEW u \in User, Verify(u)
  PROVE  /\ AccountInv' /\ UNCHANGED <<sessions, issued, reset, request>>
         /\ \A v \in User : v # u => user'[v] = user[v]
         /\ user[u].status = "PENDING" /\ user'[u].status = "ACTIVE"
         /\ user'[u].role = user[u].role /\ user'[u].cut = user[u].cut
         /\ user'[u].anonymous = user[u].anonymous
         /\ user'[u].overwritten = user[u].overwritten
         /\ user'[u].password = user[u].password
<1> DEFINE active == "ACTIVE"
           old == user[u]
           new == [old EXCEPT !.status = active]
<1>1. active \in Statuses /\ user' = [user EXCEPT ![u] = new] /\ old \in Row
  BY DEF Statuses, Verify, AccountInv
<1>5. /\ new \in Row /\ new.status = active /\ new.role = old.role
      /\ new.cut = old.cut /\ new.anonymous = old.anonymous
      /\ new.overwritten = old.overwritten /\ new.password = old.password
  <2> HIDE DEF active, old
  <2> QED
    BY <1>1 DEF Row
<1> HIDE DEF active, new
<1>2. /\ user' \in [User -> Row] /\ \A v \in User : v # u => user'[v] = user[v]
      /\ user'[u].status = active /\ user'[u].role = user[u].role
      /\ user'[u].cut = user[u].cut /\ user'[u].anonymous = user[u].anonymous
      /\ user'[u].overwritten = user[u].overwritten
      /\ user'[u].password = user[u].password
  BY <1>1, <1>5 DEF AccountInv
<1>3. UNCHANGED <<sessions, issued, reset, request>> /\ user[u].status = "PENDING"
  BY DEF Verify, Awaits
<1>4. AccountInv'
  <2>1. \A v \in User : user[v].status # None => user'[v].status # None
    BY <1>2, AccountConstants DEF active, Statuses
  <2>2. sessions' \subseteq Session /\ \A s \in sessions' : \E t \in sessions : s.user = t.user
    BY <1>3 DEF AccountInv
  <2> QED
    BY <1>2, <1>3, <2>1, <2>2, UserStep DEF AccountInv
<1> QED
  BY <1>2, <1>3, <1>4 DEF active

\* A request that begins: it has read its user, and no session changes.
LEMMA ReadInv ==
  ASSUME AccountInv, NEW r \in Request,
         \/ \E u \in User \cup {None} : RegisterRead(r, u)
         \/ \E s \in sessions : ChangeRead(r, s) \/ AdminRead(r, s)
  PROVE  /\ AccountInv' /\ UNCHANGED <<user, sessions, issued, reset>>
         /\ \A q \in Request : q # r => request'[q] = request[q]
         /\ request'[r].step \in {"register", "change", "admin"}
         /\ request'[r].role # None =>
              \E v \in User : user[v].role = request'[r].role /\ user[v].status = "ACTIVE"
         /\ request'[r].step = "change" =>
              \E s \in sessions : s.id = request'[r].session /\ s.user = request'[r].user
<1>0. /\ \A s \in sessions : s \in Session /\ s.user \in User /\ s.id \in 0..MaxIssued
      /\ \A s \in sessions : user[s.user].role \in Roles /\ user[s.user].status # None
  BY RowFields, AccountConstants DEF AccountInv, Session
<1>1. ASSUME NEW u \in User \cup {None}, RegisterRead(r, u)
      PROVE  \E x \in Requests :
               /\ request' = [request EXCEPT ![r] = x] /\ x.step = "register" /\ x.role = None
               /\ x.user # None => user[x.user].status # None
  <2> DEFINE x == [NoRequest EXCEPT !.step = "register", !.user = u]
  <2>1. request' = [request EXCEPT ![r] = x]
    BY <1>1 DEF RegisterRead
  <2>2. 0 \in 0..MaxIssued /\ None \in Roles \cup {None}
    BY SMTT(30), AccountConstants
  <2>3. x \in Requests /\ x.step = "register" /\ x.user = u /\ x.role = None
    BY <2>2, BegunRequests
  <2>4. u # None => user[u].status # None
    BY <1>0, <1>1 DEF RegisterRead, Of
  <2> QED
    BY <2>1, <2>3, <2>4
<1>2. ASSUME NEW s \in sessions, ChangeRead(r, s)
      PROVE  \E x \in Requests :
               /\ request' = [request EXCEPT ![r] = x] /\ x.step = "change" /\ x.role = None
               /\ x.user = s.user /\ x.session = s.id
  <2> DEFINE u == s.user
             n == s.id
             base == NoRequest
             x == [base EXCEPT !.step = "change", !.user = u, !.session = n]
  <2>1. request' = [request EXCEPT ![r] = x]
    BY <1>2 DEF ChangeRead
  <2>2. n \in 0..MaxIssued /\ None \in Roles \cup {None} /\ u \in User \cup {None}
    BY <1>0
  <2>4. base \in Requests /\ base.role = None
    BY NoRequestType
  <2> HIDE DEF u, n, base
  <2>3. x \in Requests /\ x.step = "change" /\ x.user = u /\ x.role = None /\ x.session = n
    BY <2>2, <2>4 DEF Requests
  <2> QED
    BY <2>1, <2>3 DEF u, n, base
<1>3. ASSUME NEW s \in sessions, AdminRead(r, s)
      PROVE  \E x \in Requests :
               /\ request' = [request EXCEPT ![r] = x] /\ x.step = "admin" /\ x.user = None
               /\ x.role = user[s.user].role /\ user[s.user].status = "ACTIVE"
  <2> DEFINE role == user[s.user].role
             x == [NoRequest EXCEPT !.step = "admin", !.role = role]
  <2>1. request' = [request EXCEPT ![r] = x] /\ user[s.user].status = "ACTIVE"
    BY <1>3 DEF AdminRead
  <2>2. 0 \in 0..MaxIssued /\ None \in User \cup {None} /\ role \in Roles \cup {None}
    BY SMTT(30), <1>0, AccountConstants
  <2> HIDE DEF role
  <2>3. x \in Requests /\ x.step = "admin" /\ x.user = None /\ x.role = role
    BY <2>2, BegunRequests
  <2> QED
    BY <2>1, <2>3 DEF role
<1>4. UNCHANGED <<user, sessions, issued, reset>>
  BY DEF RegisterRead, ChangeRead, AdminRead
<1>5. PICK x \in Requests :
        /\ request' = [request EXCEPT ![r] = x] /\ x.step \in {"register", "change", "admin"}
        /\ x.user # None => user[x.user].status # None
        /\ x.step = "change" => x.user \in User
        /\ x.role # None => \E v \in User : user[v].role = x.role /\ user[v].status = "ACTIVE"
        /\ x.step = "change" => \E s \in sessions : s.id = x.session /\ s.user = x.user
  BY <1>0, <1>1, <1>2, <1>3
<1> QED
  BY <1>4, <1>5, RequestStep DEF OfUser

LEMMA AccountNext == AccountInv /\ [Next]_vars => AccountInv'
<1> SUFFICES ASSUME AccountInv, [Next]_vars PROVE AccountInv'
  OBVIOUS
<1>1. ASSUME NEW r \in Request, NEW u \in User, Setup(r, u) \/ Guest(r, u) \/ RegisterNew(r, u)
      PROVE  AccountInv'
  BY <1>1, CreateDoes, CreatedRows, AccountConstants
     DEF Setup, Guest, RegisterNew, OwnerRow, GuestRow, PendingRow, Statuses
<1>2. ASSUME NEW r \in Request, NEW u \in User, LoginRead(r, u) PROVE AccountInv'
  BY <1>2, LoginReadInv
<1>3. ASSUME NEW r \in Request, NEW u \in User, NEW role \in Roles \cup {None},
             NEW drop \in BOOLEAN, NEW status \in Statuses \cup {None},
             AdminCommit(r, u, role, status, drop)
      PROVE  AccountInv'
  BY <1>3, AdminCommitInv
<1>4. ASSUME NEW r \in Request,
             \/ RegisterGuest(r) \/ Issue(r) \/ Trim(r) \/ ChangeWrite(r) \/ ChangeDrop(r)
             \/ RequestFails(r)
      PROVE  AccountInv'
  BY <1>4, RegisterGuestInv, IssueInv, TrimInv, ChangeWriteInv, ChangeDropInv, RequestFailsInv
<1>5. ASSUME NEW r \in Request,
             \/ \E u \in User \cup {None} : RegisterRead(r, u)
             \/ \E s \in sessions : ChangeRead(r, s) \/ AdminRead(r, s)
      PROVE  AccountInv'
  BY <1>5, ReadInv
<1>6. ASSUME NEW s \in sessions, Revoke(s) \/ RevokeOthers(s) PROVE AccountInv'
  BY <1>6 DEF Revoke, RevokeOthers, AccountInv
<1>7. ASSUME NEW u \in User, Forgot(u) PROVE AccountInv'
  BY <1>7 DEF Forgot, AccountInv
<1>8. ASSUME NEW u \in User, Reset(u) \/ Verify(u) PROVE AccountInv'
  BY <1>8, ResetInv, VerifyInv
<1>9. ASSUME NEW u \in User, ChangeEmail(u) PROVE AccountInv'
  BY <1>9 DEF ChangeEmail, AccountInv
<1>10. CASE UNCHANGED vars
  BY <1>10 DEF vars, AccountInv
<1> QED
  BY <1>1, <1>2, <1>3, <1>4, <1>5, <1>6, <1>7, <1>8, <1>9, <1>10 DEF Next

\* Users, sessions, reset links and requests have their types.
THEOREM TypeCorrect == Spec => []TypeOK
BY InitInv, AccountNext, TypeFromInv, PTL DEF Spec

----------------------------------------------------------------------------
(* Suspension.                                                             *)

\* Only a PATCH of an administrator, and a registration that overwrites the
\* account, end a suspension.
THEOREM SuspensionHoldsAlways == Spec => SuspensionHolds
<1> DEFINE Step ==
      \A u \in User : user[u].status = "SUSPENDED" /\ user'[u].status # "SUSPENDED" =>
        user'[u].overwritten
          \/ \E r \in Request : request[r].step = "admin" /\ request'[r] = NoRequest
<1>1. AccountInv /\ [Next]_vars => [Step]_vars
  <2> SUFFICES ASSUME AccountInv, Next, NEW u \in User,
                      user[u].status = "SUSPENDED", user'[u].status # "SUSPENDED"
               PROVE  user'[u].overwritten
                        \/ \E r \in Request : request[r].step = "admin" /\ request'[r] = NoRequest
    OBVIOUS
  <2>1. ASSUME NEW r \in Request, NEW v \in User, Setup(r, v) \/ Guest(r, v) \/ RegisterNew(r, v)
        PROVE  FALSE
    <3>1. \E row \in Row : row.status # None /\ Create(r, v, row)
      BY <2>1, CreatedRows, AccountConstants
         DEF Setup, Guest, RegisterNew, OwnerRow, GuestRow, PendingRow, Statuses
    <3>2. user[v].status = None /\ \A w \in User : w # v => user'[w] = user[w]
      BY <3>1, CreateDoes
    <3> QED
      BY <3>2, AccountConstants DEF Statuses
  <2>2. ASSUME NEW r \in Request, RegisterGuest(r) PROVE user'[u].overwritten
    BY <2>2, RegisterGuestDoes
  <2>3. ASSUME NEW r \in Request, NEW v \in User, NEW role \in Roles \cup {None},
               NEW drop \in BOOLEAN, NEW status \in Statuses \cup {None},
               AdminCommit(r, v, role, status, drop)
        PROVE  request[r].step = "admin" /\ request'[r] = NoRequest
    BY <2>3, AdminCommitInv DEF AdminCommit
  <2>4. ASSUME NEW r \in Request, ChangeWrite(r) PROVE FALSE
    BY <2>4, ChangeWriteInv
  <2>5. ASSUME NEW r \in Request, RequestFails(r) PROVE FALSE
    BY <2>5, RequestFailsInv
  <2>6. ASSUME NEW v \in User, Reset(v) \/ Verify(v) PROVE FALSE
    BY <2>6, ResetInv, VerifyInv
  <2>7. user' # user
    OBVIOUS
  <2> QED
    BY <2>1, <2>2, <2>3, <2>4, <2>5, <2>6, <2>7
       DEF Next, RegisterRead, LoginRead, Issue, Trim, ChangeDrop, ChangeRead, AdminRead,
           Revoke, RevokeOthers, Forgot, ChangeEmail
<1> QED
  BY <1>1, InitInv, AccountNext, PTL DEF Spec, SuspensionHolds

----------------------------------------------------------------------------
(* The owner.                                                              *)

OwnerExists == \E u \in User : user[u].role = "OWNER"

\* No owner is a guest, and who acts as an owner knows that there was one.
OwnerInv ==
  /\ AccountInv
  /\ \A u \in User : user[u].status = None => user[u].role = "USER" /\ ~user[u].overwritten
  /\ \A u \in User : user[u].anonymous => user[u].role = "USER"
  /\ \A r \in Request : request[r].role = "OWNER" => OwnerExists
  /\ OwnerRemains

LEMMA OwnerInit == Init => OwnerInv
BY InitInv, NoUserType, NoRequestType, AccountConstants
   DEF Init, OwnerInv, OwnerRemains, OwnerExists, Roles

\* A step that gives no user a role or status and begins no administration.
LEMMA OwnerKept ==
  ASSUME OwnerInv, AccountInv',
         \A u \in User : /\ user'[u].status = user[u].status /\ user'[u].role = user[u].role
                         /\ user'[u].anonymous = user[u].anonymous
                         /\ user'[u].overwritten = user[u].overwritten,
         \A r \in Request : request'[r].role \in {request[r].role, None}
  PROVE  OwnerInv'
<1>1. None # "OWNER"
  BY AccountConstants DEF Roles
<1> QED
  BY <1>1 DEF OwnerInv, OwnerExists, OwnerRemains, Overwritten

LEMMA OwnerNext == OwnerInv /\ [Next]_vars => OwnerInv'
<1> SUFFICES ASSUME OwnerInv, [Next]_vars PROVE OwnerInv'
  OBVIOUS
<1>0. AccountInv /\ AccountInv' /\ None # "OWNER" /\ NoRequest.role = None
      /\ None \notin Statuses
  BY AccountNext, NoRequestType, AccountConstants DEF OwnerInv, Roles
<1>1. ASSUME NEW r \in Request, NEW u \in User, Setup(r, u) PROVE OwnerInv'
  <2>1. Create(r, u, OwnerRow)
    BY <1>1 DEF Setup, OwnerRow
  <2>2. OwnerRow.status # None
    BY <1>0, CreatedRows DEF Statuses
  <2>3. /\ user'[u] = OwnerRow /\ \A v \in User : v # u => user'[v] = user[v]
        /\ request'[r].role = None /\ \A q \in Request : q # r => request'[q] = request[q]
    BY <1>0, <2>1, <2>2, CreatedRows, CreateDoes
  <2>4. user'[u].role = "OWNER" /\ user'[u].status = "ACTIVE" /\ ~user'[u].anonymous
    BY <2>3, CreatedRows
  <2>5. OwnerExists' /\ OwnerRemains'
    BY <2>4 DEF OwnerExists, OwnerRemains
  <2> QED
    BY <1>0, <2>2, <2>3, <2>4, <2>5, CreatedRows DEF OwnerInv
<1>2. ASSUME NEW r \in Request, NEW u \in User, Guest(r, u) \/ RegisterNew(r, u)
      PROVE  OwnerInv'
  <2>1. PICK row \in {GuestRow, PendingRow} : Create(r, u, row)
    BY <1>2 DEF Guest, RegisterNew, GuestRow, PendingRow
  <2>2. row \in Row /\ row.status # None /\ row.role = "USER" 
    BY <1>0, CreatedRows DEF Statuses
  <2>3. /\ user[u].status = None /\ user'[u] = row
        /\ \A v \in User : v # u => user'[v] = user[v]
        /\ request'[r].role = None /\ \A q \in Request : q # r => request'[q] = request[q]
    BY <1>0, <2>1, <2>2, CreateDoes
  <2>4. user[u].role = "USER" /\ ~user[u].overwritten
    BY <2>3 DEF OwnerInv
  <2>5. OwnerExists <=> OwnerExists'
    BY <2>2, <2>3, <2>4 DEF OwnerExists
  <2>6. OwnerRemains'
    BY <2>2, <2>3, <2>4 DEF OwnerRemains, OwnerInv, Overwritten
  <2> QED
    BY <1>0, <2>2, <2>3, <2>5, <2>6 DEF OwnerInv
<1>3. ASSUME NEW r \in Request, RegisterGuest(r) PROVE OwnerInv'
  <2> DEFINE u == request[r].user
  <2>1. /\ u \in User /\ \A v \in User : v # u => user'[v] = user[v]
        /\ user'[u].status = "PENDING" /\ ~user'[u].anonymous
        /\ user'[u].role = user[u].role
        /\ user[u].overwritten \/ ~user[u].anonymous => user'[u].overwritten
    BY <1>0, <1>3, RegisterGuestDoes
  <2>2. /\ request'[r].role = None
        /\ \A q \in Request : q # r => request'[q].role = request[q].role
    <3>1. /\ request'[r].role = None
          /\ \A q \in Request : q # r => request'[q] = Overtaken(u)[q]
      BY <1>0, <1>3, RegisterGuestInv
    <3>2. \A q \in Request : Overtaken(u)[q].role = request[q].role
      BY <1>0, <2>1, OvertakenType DEF AccountInv
    <3> QED
      BY <3>1, <3>2
  <2>3. OwnerExists <=> OwnerExists'
    BY <2>1 DEF OwnerExists
  <2>4. OwnerRemains'
    <3>1. CASE user[u].anonymous
      <4>1. user[u].role = "USER"
        BY <2>1, <3>1 DEF OwnerInv
      <4> QED
        BY <2>1, <4>1 DEF OwnerInv, OwnerRemains, Overwritten
    <3>2. CASE ~user[u].anonymous
      BY <2>1, <3>2 DEF OwnerRemains, Overwritten
    <3> QED
      BY <3>1, <3>2
  <2>5. user'[u].status # None
    BY <1>0, <2>1 DEF Statuses
  <2> QED
    BY <1>0, <2>1, <2>2, <2>3, <2>4, <2>5 DEF OwnerInv
<1>4. ASSUME NEW r \in Request, NEW u \in User, NEW role \in Roles \cup {None},
             NEW drop \in BOOLEAN, NEW status \in Statuses \cup {None},
             AdminCommit(r, u, role, status, drop)
      PROVE  OwnerInv'
  <2>1. /\ request'[r] = NoRequest /\ \A q \in Request : q # r => request'[q] = request[q]
        /\ \A v \in User : v # u => user'[v] = user[v]
        /\ user'[u].status = (IF status = None THEN user[u].status ELSE status)
        /\ user'[u].role = (IF role = None THEN user[u].role ELSE role)
        /\ user'[u].anonymous = user[u].anonymous
        /\ user'[u].overwritten = user[u].overwritten
    BY <1>0, <1>4, AdminCommitInv
  <2>2. Permitted(r, u, role, status)
    BY <1>4 DEF AdminCommit
  <2>3. user[u].status # None /\ user'[u].status # None
    BY <2>1, <2>2 DEF Permitted
  <2>4. user[u].anonymous => user'[u].role = "USER"
    BY <2>1, <2>2 DEF Permitted, OwnerInv
  <2>5. ASSUME user[u].role = "OWNER", user'[u].role # "OWNER" \/ user'[u].status # user[u].status
        PROVE  \/ user'[u].role = "OWNER" /\ user'[u].status = "ACTIVE"
               \/ \E v \in User : v # u /\ user[v].role = "OWNER" /\ user[v].status = "ACTIVE"
    <3>1. CASE role \notin {None, "OWNER"} \/ status \notin {None, "ACTIVE"}
      <4>1. Cardinality(Owners) > 1
        BY <2>2, <2>5, <3>1 DEF Permitted
      <4>2. Owners # {} /\ ~(Owners \subseteq {u})
        <5>1. IsFiniteSet(Owners)
          BY AccountConstants, FS_Subset DEF Owners
        <5>2. Cardinality({u}) = 1 /\ IsFiniteSet({u}) /\ Cardinality({}) = 0
          BY FS_Singleton, FS_EmptySet
        <5>3. Owners \subseteq {u} => Cardinality(Owners) <= 1
          BY <5>2, FS_Subset
        <5>4. Cardinality(Owners) \in Nat
          BY <5>1, FS_CardinalityType
        <5> QED
          BY <4>1, <5>2, <5>3, <5>4
      <4> QED
        BY <4>2 DEF Owners
    <3>2. CASE role \in {None, "OWNER"} /\ status \in {None, "ACTIVE"}
      BY <2>1, <2>5, <3>2
    <3> QED
      BY <3>1, <3>2
  <2>6. OwnerExists => OwnerExists'
    BY <2>1, <2>5 DEF OwnerExists
  <2>7. OwnerExists' => OwnerExists
    <3>1. CASE role = "OWNER" /\ user[u].role # "OWNER"
      <4>1. request[r].role = "OWNER"
        BY <1>0, <2>2, <3>1 DEF Permitted
      <4> QED
        BY <4>1 DEF OwnerInv
    <3>2. CASE role # "OWNER" \/ user[u].role = "OWNER"
      BY <2>1, <3>2 DEF OwnerExists
    <3> QED
      BY <3>1, <3>2
  <2>8. OwnerRemains'
    <3> SUFFICES ASSUME OwnerExists', ~Overwritten'
                 PROVE  \E v \in User : user'[v].role = "OWNER" /\ user'[v].status = "ACTIVE"
      BY DEF OwnerRemains, OwnerExists
    <3>1. ~Overwritten /\ OwnerExists
      BY <2>1, <2>7 DEF Overwritten
    <3>2. PICK v \in User : user[v].role = "OWNER" /\ user[v].status = "ACTIVE"
      BY <3>1 DEF OwnerInv, OwnerRemains, OwnerExists
    <3>3. CASE v # u
      BY <2>1, <3>2, <3>3
    <3>4. CASE v = u /\ user'[u].role = "OWNER" /\ user'[u].status = user[u].status
      BY <3>2, <3>4
    <3>5. CASE v = u /\ (user'[u].role # "OWNER" \/ user'[u].status # user[u].status)
      BY <2>1, <2>5, <3>2, <3>5
    <3> QED
      BY <3>3, <3>4, <3>5
  <2> QED
    BY <1>0, <2>1, <2>3, <2>4, <2>6, <2>8 DEF OwnerInv
<1>5. ASSUME NEW u \in User, Verify(u) PROVE OwnerInv'
  <2>1. /\ UNCHANGED request /\ \A v \in User : v # u => user'[v] = user[v]
        /\ user[u].status = "PENDING" /\ user'[u].status = "ACTIVE"
        /\ user'[u].role = user[u].role /\ user'[u].anonymous = user[u].anonymous
        /\ user'[u].overwritten = user[u].overwritten
    BY <1>0, <1>5, VerifyInv
  <2>2. user'[u].status # None
    BY <1>0, <2>1 DEF Statuses
  <2>3. OwnerExists <=> OwnerExists'
    BY <2>1 DEF OwnerExists
  <2>4. OwnerRemains'
    BY <2>1 DEF OwnerInv, OwnerRemains, Overwritten
  <2> QED
    BY <1>0, <2>1, <2>2, <2>3, <2>4 DEF OwnerInv
<1>6. ASSUME NEW r \in Request,
             \/ \E u \in User : LoginRead(r, u)
             \/ Issue(r) \/ Trim(r) \/ ChangeWrite(r) \/ ChangeDrop(r) \/ RequestFails(r)
      PROVE  OwnerInv'
  <2>1. \A u \in User : /\ user'[u].status = user[u].status /\ user'[u].role = user[u].role
                        /\ user'[u].anonymous = user[u].anonymous
                        /\ user'[u].overwritten = user[u].overwritten
    BY <1>0, <1>6, LoginReadInv, IssueInv, TrimInv, ChangeWriteInv, ChangeDropInv,
       RequestFailsInv
  <2>2. \A q \in Request : request'[q].role \in {request[q].role, None}
    <3>1. CASE ChangeWrite(r)
      <4>1. request[r].user \in User /\ request'[r].role = request[r].role
            /\ \A q \in Request : q # r => request'[q] = Overtaken(request[r].user)[q]
        BY <1>0, <3>1, ChangeWriteInv
      <4>2. \A q \in Request : Overtaken(request[r].user)[q].role = request[q].role
        BY <1>0, <4>1, OvertakenType DEF AccountInv
      <4> QED
        BY <4>1, <4>2
    <3>2. CASE ~ChangeWrite(r)
      BY <1>0, <1>6, <3>2, LoginReadInv, IssueInv, TrimInv, ChangeDropInv, RequestFailsInv
    <3> QED
      BY <3>1, <3>2
  <2> QED
    BY <1>0, <2>1, <2>2, OwnerKept
<1>7. ASSUME NEW r \in Request,
             \/ \E u \in User \cup {None} : RegisterRead(r, u)
             \/ \E s \in sessions : ChangeRead(r, s) \/ AdminRead(r, s)
      PROVE  OwnerInv'
  <2>1. /\ user' = user /\ \A q \in Request : q # r => request'[q] = request[q]
        /\ request'[r].role # None => \E v \in User : user[v].role = request'[r].role
    BY <1>0, <1>7, ReadInv
  <2>2. request'[r].role = "OWNER" => OwnerExists'
    BY <1>0, <2>1 DEF OwnerExists
  <2> QED
    BY <1>0, <2>1, <2>2 DEF OwnerInv, OwnerExists, OwnerRemains, Overwritten
<1>8. ASSUME NEW u \in User, Reset(u) PROVE OwnerInv'
  <2>1. /\ request' = Overtaken(u)
        /\ \A v \in User : /\ user'[v].status = user[v].status /\ user'[v].role = user[v].role
                           /\ user'[v].anonymous = user[v].anonymous
                           /\ user'[v].overwritten = user[v].overwritten
    BY <1>0, <1>8, ResetInv
  <2>2. \A q \in Request : Overtaken(u)[q].role = request[q].role
    BY <1>0, OvertakenType DEF AccountInv
  <2> QED
    BY <1>0, <2>1, <2>2, OwnerKept
<1>9. ASSUME UNCHANGED <<user, request>> PROVE OwnerInv'
  BY <1>0, <1>9, OwnerKept
<1>10. ASSUME \/ \E s \in sessions : Revoke(s) \/ RevokeOthers(s)
              \/ \E u \in User : Forgot(u) \/ ChangeEmail(u)
              \/ UNCHANGED vars
       PROVE  OwnerInv'
  BY <1>9, <1>10 DEF Revoke, RevokeOthers, Forgot, ChangeEmail, vars
<1> QED
  BY <1>1, <1>2, <1>3, <1>4, <1>5, <1>6, <1>7, <1>8, <1>10 DEF Next

\* Whichever requests demote and suspend owners at once, an active one remains.
THEOREM OwnerRemainsHolds == Spec => []OwnerRemains
<1>1. OwnerInv => OwnerRemains
  BY DEF OwnerInv
<1> QED
  BY <1>1, OwnerInit, OwnerNext, PTL DEF Spec

----------------------------------------------------------------------------
(* Passwords.                                                              *)

\* A session of the password in force, or one of those OldPasswordEnds excuses;
\* a request that has changed the password is no excuse for its own session.
Explained(s) ==
  \/ s.password = user[s.user].password \/ s.late \/ user[s.user].cut
  \/ \E r \in Request : /\ request[r].step = "changed" /\ request[r].user = s.user
                        /\ request[r].session # s.id

\* What request r does to a session: its change keeps a session of its user,
\* and it issues one for the password in force or for a replaced one.
Justified(r) ==
  /\ request[r].step \in {"change", "changed"} =>
       /\ request[r].session <= issued
       /\ \A s \in sessions : s.id = request[r].session => s.user = request[r].user
  /\ request[r].step = "issue" =>
       request[r].password = user[request[r].user].password \/ request[r].late

PasswordInv ==
  /\ AccountInv
  /\ \A s \in sessions : s.id <= issued
  /\ \A s, t \in sessions : s.id = t.id => s.user = t.user
  /\ \A r \in Request : Justified(r)
  /\ \A s \in sessions : Explained(s)

LEMMA PasswordInit == Init => PasswordInv
BY InitInv, NoRequestType DEF Init, PasswordInv, Justified

\* What most steps do: they replace no password and undo no cut, leave what
\* each request is about to do justified, and explain the sessions that stay
\* when the change of a password ends.
PasswordsStay ==
  \A u \in User : user[u].status # None =>
    /\ user'[u].password = user[u].password
    /\ user[u].cut => user'[u].cut

RequestsJustified ==
  \A r \in Request : request'[r] = request[r] \/ Justified(r)'

DropsExplained ==
  \A r \in Request, s \in sessions' :
    request[r].step = "changed" /\ s.user = request[r].user
      => request'[r] = request[r] \/ Explained(s)'

\* A step that replaces no password of a user that there is, and issues no
\* session.
LEMMA PasswordKept ==
  ASSUME PasswordInv, AccountInv', issued' = issued, sessions' \subseteq sessions,
         PasswordsStay, RequestsJustified, DropsExplained
  PROVE  PasswordInv'
<1>1. \A s \in sessions : s.user \in User /\ user[s.user].status # None
  BY DEF PasswordInv, AccountInv, Session
<1>2. ASSUME NEW r \in Request PROVE Justified(r)'
  <2>1. CASE request'[r] = request[r]
    <3>1. request[r].step = "issue" =>
            request[r].user \in User /\ user[request[r].user].status # None
      BY AccountConstants DEF PasswordInv, AccountInv, OfUser
    <3> QED
      BY <2>1, <3>1 DEF PasswordInv, PasswordsStay, Justified
  <2> QED
    BY <2>1 DEF RequestsJustified
<1>3. ASSUME NEW s \in sessions' PROVE Explained(s)'
  <2>1. s \in sessions /\ Explained(s)
    BY DEF PasswordInv
  <2>2. CASE s.password = user[s.user].password \/ s.late \/ user[s.user].cut
    BY <1>1, <2>1, <2>2 DEF Explained, PasswordsStay
  <2>3. ASSUME NEW r \in Request, request[r].step = "changed", request[r].user = s.user,
               request[r].session # s.id
        PROVE  Explained(s)'
    BY <2>1, <2>3 DEF Explained, DropsExplained
  <2> QED
    BY <2>1, <2>2, <2>3 DEF Explained
<1> QED
  BY <1>2, <1>3 DEF PasswordInv

LEMMA PasswordNext == PasswordInv /\ [Next]_vars => PasswordInv'
<1> SUFFICES ASSUME PasswordInv, [Next]_vars PROVE PasswordInv'
  OBVIOUS
<1>0. AccountInv /\ AccountInv'
  BY AccountNext DEF PasswordInv
<1>1. ASSUME NEW r \in Request, NEW u \in User, Setup(r, u) \/ Guest(r, u) \/ RegisterNew(r, u)
      PROVE  PasswordInv'
  <2>1. PICK row \in {OwnerRow, GuestRow, PendingRow} : Create(r, u, row)
    BY <1>1 DEF Setup, Guest, RegisterNew, OwnerRow, GuestRow, PendingRow
  <2>2. row \in Row /\ row.status # None
    BY CreatedRows, AccountConstants DEF Statuses
  <2>3. /\ user[u].status = None /\ user'[u] = row
        /\ \A v \in User : v # u => user'[v] = user[v]
        /\ \A q \in Request : q # r => request'[q] = request[q]
        /\ request'[r].step = "issue" /\ request'[r].user = u
        /\ request'[r].password = row.password
        /\ UNCHANGED <<sessions, issued>>
    BY <1>0, <2>1, <2>2, CreateDoes
  <2>4. request[r].step # "changed"
    BY <2>1 DEF Create, Idle
  <2>5. Justified(r)'
    BY <2>3 DEF Justified
  <2>7. PasswordsStay
    BY <1>0, <2>3, <2>4, <2>5 DEF PasswordsStay
  <2>8. RequestsJustified
    BY <2>3, <2>4, <2>5 DEF RequestsJustified
  <2>9. DropsExplained
    BY <2>3, <2>4, <2>5 DEF DropsExplained
  <2>10. issued' = issued /\ sessions' \subseteq sessions
    BY <2>1, <2>3
  <2> QED
    BY <1>0, <2>7, <2>8, <2>9, <2>10, PasswordKept
<1>2. ASSUME NEW r \in Request, NEW u \in User, LoginRead(r, u) PROVE PasswordInv'
  <2>1. /\ UNCHANGED <<user, sessions, issued>>
        /\ \A q \in Request : q # r => request'[q] = request[q]
        /\ request'[r].step = "issue" /\ request'[r].user = u
        /\ request'[r].password = user[u].password
    BY <1>0, <1>2, LoginReadInv
  <2>2. request[r].step # "changed" /\ Justified(r)'
    BY <1>2, <2>1 DEF LoginRead, Idle, Justified
  <2>7. PasswordsStay
    BY <1>0, <2>1, <2>2 DEF PasswordsStay
  <2>8. RequestsJustified
    BY <2>1, <2>2 DEF RequestsJustified
  <2>9. DropsExplained
    BY <2>1, <2>2 DEF DropsExplained
  <2>10. issued' = issued /\ sessions' \subseteq sessions
    BY <2>1
  <2> QED
    BY <1>0, <2>7, <2>8, <2>9, <2>10, PasswordKept
<1>3. ASSUME NEW r \in Request, RegisterGuest(r) PROVE PasswordInv'
  <2> DEFINE u == request[r].user
  <2>1. /\ u \in User /\ \A v \in User : v # u => user'[v] = user[v]
        /\ user'[u].password = user[u].password + 1
    BY <1>0, <1>3, RegisterGuestDoes
  <2>2. /\ sessions' = sessions \ Of(u) /\ issued' = issued
        /\ request'[r].step = "issue" /\ request'[r].user = u
        /\ request'[r].password = user[u].password + 1
        /\ \A q \in Request : q # r => request'[q] = Overtaken(u)[q]
    BY <1>0, <1>3, RegisterGuestInv
  <2>3. \A q \in Request :
          /\ Overtaken(u)[q].step = request[q].step /\ Overtaken(u)[q].user = request[q].user
          /\ Overtaken(u)[q].session = request[q].session
          /\ Overtaken(u)[q].password = request[q].password
          /\ request[q].late => Overtaken(u)[q].late
          /\ request[q].step = "issue" /\ request[q].user = u => Overtaken(u)[q].late
    BY <1>0, <2>1, OvertakenType DEF AccountInv
  <2>4. request[r].step = "register"
    BY <1>3 DEF RegisterGuest
  <2>5. ASSUME NEW q \in Request PROVE Justified(q)'
    <3>1. CASE q = r
      BY <2>1, <2>2, <3>1 DEF Justified
    <3>2. CASE q # r
      <4>1. request[q].step = "issue" => request[q].user \in User
        BY <1>0 DEF AccountInv, OfUser
      <4> QED
        BY <2>1, <2>2, <2>3, <3>2, <4>1 DEF PasswordInv, Justified
    <3> QED
      BY <3>1, <3>2
  <2>6. ASSUME NEW s \in sessions' PROVE Explained(s)'
    <3>1. s \in sessions /\ s.user # u /\ s.user \in User /\ Explained(s)
      BY <1>0, <2>2 DEF Of, PasswordInv, AccountInv, Session
    <3> QED
      BY <2>1, <2>2, <2>3, <2>4, <3>1 DEF Explained
  <2> QED
    BY <1>0, <2>2, <2>5, <2>6 DEF PasswordInv
<1>4. ASSUME NEW r \in Request, Issue(r) PROVE PasswordInv'
  <2> DEFINE new == [id |-> issued + 1, user |-> request[r].user,
                     password |-> request[r].password, late |-> request[r].late]
  <2>1. /\ user' = user /\ issued' = issued + 1 /\ sessions' = sessions \cup {new}
        /\ request'[r].step = "trim" /\ request[r].step = "issue"
        /\ \A q \in Request : q # r => request'[q] = request[q]
    BY <1>0, <1>4, IssueInv DEF Issue
  <2>2. issued \in Nat /\ \A s \in sessions : s.id <= issued /\ s.id \in Nat
    BY <1>0 DEF PasswordInv, AccountInv, Session
  <2>3. new.id = issued + 1 /\ new.user = request[r].user
        /\ (new.password = user[new.user].password \/ new.late)
    BY <2>1 DEF PasswordInv, Justified
  <2> HIDE DEF new
  <2>4. \A s \in sessions' : s.id <= issued'
    BY <2>1, <2>2, <2>3
  <2>5. \A s, t \in sessions' : s.id = t.id => s.user = t.user
    BY <2>1, <2>2, <2>3 DEF PasswordInv
  <2>6. ASSUME NEW q \in Request PROVE Justified(q)'
    <3>1. request[q].session \in Nat
      BY <1>0, RequestsFields, AccountConstants DEF AccountInv
    <3> QED
      BY <2>1, <2>2, <2>3, <3>1 DEF PasswordInv, Justified
  <2>7. \A s \in sessions' : Explained(s)'
    BY <2>1, <2>3 DEF PasswordInv, Explained
  <2> QED
    BY <1>0, <2>4, <2>5, <2>6, <2>7 DEF PasswordInv
<1>5. ASSUME NEW r \in Request, Trim(r) PROVE PasswordInv'
  <2>1. /\ UNCHANGED <<user, issued>> /\ request'[r] = NoRequest /\ sessions' \subseteq sessions
        /\ request[r].step = "trim" /\ \A q \in Request : q # r => request'[q] = request[q]
    BY <1>0, <1>5, TrimInv DEF Trim
  <2>2. Justified(r)'
    BY <2>1, NoRequestType DEF Justified
  <2>7. PasswordsStay
    BY <1>0, <2>1, <2>2 DEF PasswordsStay
  <2>8. RequestsJustified
    BY <2>1, <2>2 DEF RequestsJustified
  <2>9. DropsExplained
    BY <2>1, <2>2 DEF DropsExplained
  <2>10. issued' = issued /\ sessions' \subseteq sessions
    BY <2>1
  <2> QED
    BY <1>0, <2>7, <2>8, <2>9, <2>10, PasswordKept
<1>6. ASSUME NEW r \in Request, ChangeWrite(r) PROVE PasswordInv'
  <2> DEFINE u == request[r].user
             written(s) == IF s.id = request[r].session
                             THEN [s EXCEPT !.password = user[u].password + 1] ELSE s
  <2>1. /\ u \in User /\ issued' = issued
        /\ \A v \in User : v # u => user'[v] = user[v]
        /\ user'[u].cut = user[u].cut /\ user'[u].password = user[u].password + 1
        /\ sessions' = {written(s) : s \in sessions}
        /\ request'[r].step = "changed" /\ request'[r].user = u
        /\ request'[r].session = request[r].session
        /\ \A q \in Request : q # r => request'[q] = Overtaken(u)[q]
    BY <1>0, <1>6, ChangeWriteInv
  <2>2. \A q \in Request :
          /\ Overtaken(u)[q].step = request[q].step /\ Overtaken(u)[q].user = request[q].user
          /\ Overtaken(u)[q].session = request[q].session
          /\ Overtaken(u)[q].password = request[q].password
          /\ request[q].late => Overtaken(u)[q].late
          /\ request[q].step = "issue" /\ request[q].user = u => Overtaken(u)[q].late
    BY <1>0, <2>1, OvertakenType DEF AccountInv
  <2>3. request[r].step = "change"
    BY <1>6 DEF ChangeWrite
  <2>4. \A s \in sessions : written(s).id = s.id /\ written(s).user = s.user
          /\ (s.id = request[r].session => written(s).password = user'[u].password)
          /\ (s.id # request[r].session => written(s) = s)
    <3>1. \A s \in sessions : s \in Session
      BY <1>0 DEF AccountInv
    <3> QED
      BY <2>1, <3>1 DEF Session
  <2>5. \A s \in sessions : s.user \in User /\ (s.id = request[r].session => s.user = u)
    BY <1>0, <2>3 DEF PasswordInv, AccountInv, Session, Justified
  <2> HIDE DEF written, u
  <2>6. ASSUME NEW q \in Request PROVE Justified(q)'
    <3>1. CASE q = r
      <4>1. request[r].session <= issued
            /\ \A s \in sessions : s.id = request[r].session => s.user = u
        BY <2>3 DEF PasswordInv, Justified, u
      <4> QED
        BY <2>1, <2>4, <3>1, <4>1 DEF Justified
    <3>2. CASE q # r
      <4>1. request[q].step = "issue" => request[q].user \in User
        BY <1>0 DEF AccountInv, OfUser
      <4>2. Justified(q)
        BY DEF PasswordInv
      <4>3. request'[q].step = "issue" =>
              request'[q].password = user'[request'[q].user].password \/ request'[q].late
        BY <2>1, <2>2, <3>2, <4>1, <4>2 DEF Justified
      <4>4. request'[q].step \in {"change", "changed"} =>
              /\ request'[q].session <= issued'
              /\ \A s \in sessions' : s.id = request'[q].session => s.user = request'[q].user
        BY <2>1, <2>2, <2>4, <3>2, <4>2 DEF Justified
      <4> QED
        BY <4>3, <4>4 DEF Justified
    <3> QED
      BY <3>1, <3>2
  <2>7. ASSUME NEW t \in sessions' PROVE Explained(t)'
    <3>1. PICK s \in sessions : t = written(s)
      BY <2>1
    <3>2. Explained(s)
      BY DEF PasswordInv
    <3>3. CASE s.id = request[r].session
      BY <2>4, <2>5, <3>1, <3>3 DEF Explained
    <3>4. CASE s.id # request[r].session /\ s.user = u
      BY <2>1, <2>4, <3>1, <3>4 DEF Explained
    <3>5. CASE s.id # request[r].session /\ s.user # u
      <4>1. t = s /\ user'[s.user] = user[s.user]
        BY <2>1, <2>4, <2>5, <3>1, <3>5
      <4>2. \A q \in Request : request[q].step = "changed" =>
              /\ request'[q].step = "changed" /\ request'[q].user = request[q].user
              /\ request'[q].session = request[q].session
        BY <2>1, <2>2, <2>3
      <4> QED
        BY <3>2, <4>1, <4>2 DEF Explained
    <3> QED
      BY <3>3, <3>4, <3>5
  <2>8. /\ \A s \in sessions' : s.id <= issued'
        /\ \A s, t \in sessions' : s.id = t.id => s.user = t.user
    BY <2>1, <2>4 DEF PasswordInv
  <2> QED
    BY <1>0, <2>6, <2>7, <2>8 DEF PasswordInv
<1>7. ASSUME NEW r \in Request, ChangeDrop(r) PROVE PasswordInv'
  <2>1. /\ UNCHANGED <<user, issued>> /\ request'[r] = NoRequest
        /\ sessions' = {s \in sessions : s.user # request[r].user \/ s.id = request[r].session}
        /\ \A q \in Request : q # r => request'[q] = request[q]
    BY <1>0, <1>7, ChangeDropInv DEF ChangeDrop
  <2>2. Justified(r)'
    BY <2>1, NoRequestType DEF Justified
  <2>3. ASSUME NEW s \in sessions', s.user = request[r].user PROVE Explained(s)'
    <3>1. s \in sessions /\ s.id = request[r].session /\ Explained(s)
      BY <2>1, <2>3 DEF PasswordInv
    <3> QED
      BY <2>1, <3>1 DEF Explained
  <2>7. PasswordsStay
    BY <1>0, <2>1, <2>2, <2>3 DEF PasswordsStay
  <2>8. RequestsJustified
    BY <2>1, <2>2, <2>3 DEF RequestsJustified
  <2>9. DropsExplained
    BY <2>1, <2>2, <2>3 DEF DropsExplained
  <2>10. issued' = issued /\ sessions' \subseteq sessions
    BY <2>1, <2>3
  <2> QED
    BY <1>0, <2>7, <2>8, <2>9, <2>10, PasswordKept
<1>8. ASSUME NEW r \in Request, RequestFails(r) PROVE PasswordInv'
  <2>1. /\ UNCHANGED <<sessions, issued>> /\ request'[r] = NoRequest
        /\ \A q \in Request : q # r => request'[q] = request[q]
        /\ request[r].step \in {"trim", "changed"} => user'[request[r].user].cut
        /\ \A v \in User : user'[v].password = user[v].password
                           /\ (user[v].cut => user'[v].cut)
    BY <1>0, <1>8, RequestFailsInv
  <2>2. Justified(r)'
    BY <2>1, NoRequestType DEF Justified
  <2>3. request[r].step = "changed" =>
          \A s \in sessions' : s.user = request[r].user => Explained(s)'
    BY <2>1 DEF Explained
  <2>7. PasswordsStay
    BY <1>0, <2>1, <2>2, <2>3 DEF PasswordsStay
  <2>8. RequestsJustified
    BY <2>1, <2>2, <2>3 DEF RequestsJustified
  <2>9. DropsExplained
    BY <2>1, <2>2, <2>3 DEF DropsExplained
  <2>10. issued' = issued /\ sessions' \subseteq sessions
    BY <2>1, <2>3
  <2> QED
    BY <1>0, <2>7, <2>8, <2>9, <2>10, PasswordKept
<1>9. ASSUME NEW r \in Request, NEW u \in User, NEW role \in Roles \cup {None},
             NEW drop \in BOOLEAN, NEW status \in Statuses \cup {None},
             AdminCommit(r, u, role, status, drop)
      PROVE  PasswordInv'
  <2>1. /\ issued' = issued /\ sessions' \subseteq sessions /\ request'[r] = NoRequest
        /\ request[r].step = "admin"
        /\ \A q \in Request : q # r => request'[q] = request[q]
        /\ \A v \in User : v # u => user'[v] = user[v]
        /\ user'[u].cut = user[u].cut /\ user'[u].password = user[u].password
    BY <1>0, <1>9, AdminCommitInv DEF AdminCommit
  <2>2. Justified(r)'
    BY <2>1, NoRequestType DEF Justified
  <2>7. PasswordsStay
    BY <1>0, <2>1, <2>2 DEF PasswordsStay
  <2>8. RequestsJustified
    BY <2>1, <2>2 DEF RequestsJustified
  <2>9. DropsExplained
    BY <2>1, <2>2 DEF DropsExplained
  <2>10. issued' = issued /\ sessions' \subseteq sessions
    BY <2>1
  <2> QED
    BY <1>0, <2>7, <2>8, <2>9, <2>10, PasswordKept
<1>10. ASSUME NEW r \in Request,
              \/ \E u \in User \cup {None} : RegisterRead(r, u)
              \/ \E s \in sessions : ChangeRead(r, s) \/ AdminRead(r, s)
       PROVE  PasswordInv'
  <2>1. /\ UNCHANGED <<user, sessions, issued>>
        /\ \A q \in Request : q # r => request'[q] = request[q]
        /\ request'[r].step \in {"register", "change", "admin"}
        /\ request'[r].step = "change" =>
              \E s \in sessions : s.id = request'[r].session /\ s.user = request'[r].user
    BY SMTT(30), <1>0, <1>10, ReadInv
  <2>2. request[r].step # "changed"
    BY <1>10 DEF RegisterRead, ChangeRead, AdminRead, Idle
  <2>3. Justified(r)'
    BY <2>1 DEF Justified, PasswordInv
  <2>7. PasswordsStay
    BY <1>0, <2>1, <2>2, <2>3 DEF PasswordsStay
  <2>8. RequestsJustified
    BY <2>1, <2>2, <2>3 DEF RequestsJustified
  <2>9. DropsExplained
    BY <2>1, <2>2, <2>3 DEF DropsExplained
  <2>10. issued' = issued /\ sessions' \subseteq sessions
    BY <2>1, <2>3
  <2> QED
    BY <1>0, <2>7, <2>8, <2>9, <2>10, PasswordKept
<1>11. ASSUME NEW u \in User, Reset(u) PROVE PasswordInv'
  <2>1. /\ sessions' = sessions \ Of(u) /\ request' = Overtaken(u) /\ issued' = issued
        /\ \A v \in User : v # u => user'[v] = user[v]
    BY <1>0, <1>11, ResetInv
  <2>2. \A q \in Request :
          /\ Overtaken(u)[q].step = request[q].step /\ Overtaken(u)[q].user = request[q].user
          /\ Overtaken(u)[q].session = request[q].session
          /\ Overtaken(u)[q].password = request[q].password
          /\ request[q].late => Overtaken(u)[q].late
          /\ request[q].step = "issue" /\ request[q].user = u => Overtaken(u)[q].late
    BY <1>0, OvertakenType DEF AccountInv
  <2>3. ASSUME NEW q \in Request PROVE Justified(q)'
    <3>1. request[q].step = "issue" => request[q].user \in User
      BY <1>0 DEF AccountInv, OfUser
    <3> QED
      BY <2>1, <2>2, <3>1 DEF PasswordInv, Justified
  <2>4. ASSUME NEW s \in sessions' PROVE Explained(s)'
    <3>1. s \in sessions /\ s.user # u /\ s.user \in User /\ Explained(s)
      BY <1>0, <2>1 DEF Of, PasswordInv, AccountInv, Session
    <3> QED
      BY <2>1, <2>2, <3>1 DEF Explained
  <2> QED
    BY <1>0, <2>1, <2>3, <2>4 DEF PasswordInv
<1>12. ASSUME NEW u \in User, Verify(u) PROVE PasswordInv'
  <2>1. /\ UNCHANGED <<sessions, issued, request>>
        /\ \A v \in User : user'[v].password = user[v].password /\ user'[v].cut = user[v].cut
    BY <1>0, <1>12, VerifyInv
  <2>7. PasswordsStay
    BY <1>0, <2>1 DEF PasswordsStay
  <2>8. RequestsJustified
    BY <2>1 DEF RequestsJustified
  <2>9. DropsExplained
    BY <2>1 DEF DropsExplained
  <2>10. issued' = issued /\ sessions' \subseteq sessions
    BY <2>1
  <2> QED
    BY <1>0, <2>7, <2>8, <2>9, <2>10, PasswordKept
<1>13. ASSUME \/ \E s \in sessions : Revoke(s) \/ RevokeOthers(s)
              \/ \E u \in User : Forgot(u) \/ ChangeEmail(u)
              \/ UNCHANGED vars
       PROVE  PasswordInv'
  <2>1. UNCHANGED <<user, request, issued>> /\ sessions' \subseteq sessions
    BY <1>13 DEF Revoke, RevokeOthers, Forgot, ChangeEmail, vars
  <2>7. PasswordsStay
    BY <1>0, <2>1 DEF PasswordsStay
  <2>8. RequestsJustified
    BY <2>1 DEF RequestsJustified
  <2>9. DropsExplained
    BY <2>1 DEF DropsExplained
  <2>10. issued' = issued /\ sessions' \subseteq sessions
    BY <2>1
  <2> QED
    BY <1>0, <2>7, <2>8, <2>9, <2>10, PasswordKept
<1> QED
  BY <1>1, <1>2, <1>3, <1>4, <1>5, <1>6, <1>7, <1>8, <1>9, <1>10, <1>11, <1>12, <1>13 DEF Next

\* When a password is replaced, the sessions of the old one end, whatever
\* logins, resets and changes overlap.
THEOREM OldPasswordEndsHolds == Spec => []OldPasswordEnds
<1>1. PasswordInv => OldPasswordEnds
  BY DEF PasswordInv, Explained, OldPasswordEnds
<1> QED
  BY <1>1, PasswordInit, PasswordNext, PTL DEF Spec

----------------------------------------------------------------------------
(* The limit of sessions.                                                  *)

\* Whose login has still to delete the oldest sessions.
Trimming(u) == {r \in Request : request[r].step = "trim" /\ request[r].user = u}

\* Sessions are told apart by their numbers, so that those behind which there
\* are fewer than the limit are no more than the limit.
LimitInv ==
  /\ AccountInv
  /\ IsFiniteSet(sessions)
  /\ \A s \in sessions : s.id <= issued
  /\ \A s, t \in sessions : s.id = t.id => s = t
  /\ SessionsWithinLimit

\* Of the sessions S, numbered one by one, those with fewer than m later ones
\* are at most m.
LEMMA NewestFew ==
  ASSUME NEW S, IsFiniteSet(S), \A s \in S : s.id \in Nat,
         \A s, t \in S : s.id = t.id => s = t, NEW m \in Nat \ {0}
  PROVE  LET older == {s \in S : Cardinality({t \in S : t.id > s.id}) >= m}
         IN  Cardinality(S \ older) <= m
<1> DEFINE later(s) == {t \in S : t.id > s.id}
           older == {s \in S : Cardinality(later(s)) >= m}
           kept == S \ older
           Numbers == {n \in Nat : \E s \in kept : s.id = n}
<1>1. \A s \in S : IsFiniteSet(later(s)) /\ Cardinality(later(s)) \in Nat
  <2> TAKE s \in S
  <2>1. later(s) \in SUBSET S
    OBVIOUS
  <2> QED
    BY <2>1, FS_Subset, FS_CardinalityType
<1>2. CASE kept = {}
  <2>1. Cardinality({}) = 0
    BY FS_EmptySet
  <2> HIDE DEF kept
  <2>2. Cardinality(kept) <= m
    BY <1>2, <2>1
  <2> QED
    BY <2>2 DEF kept
<1>3. CASE kept # {}
  <2>1. Numbers \in SUBSET Nat /\ Numbers # {}
    BY <1>3
  <2>2. PICK n \in Numbers : \A k \in Numbers : ~(<<k, n>> \in OpToRel(<, Nat))
    BY <2>1, WFMin, NatLessThanWellFounded
  <2>3. PICK s \in kept : s.id = n
    OBVIOUS
  <2>4. ASSUME NEW t \in kept PROVE t.id >= n
    <3>1. t.id \in Nat /\ t.id \in Numbers
      OBVIOUS
    <3>2. ~(<<t.id, n>> \in OpToRel(<, Nat))
      BY <2>2, <3>1
    <3> HIDE DEF Numbers, kept
    <3>3. n \in Nat
      BY <2>1
    <3> QED
      BY <3>1, <3>2, <3>3 DEF OpToRel
  <2>5. kept \in SUBSET (later(s) \cup {s})
    BY <2>3, <2>4
  <2>6. Cardinality(later(s)) \in Nat /\ Cardinality(later(s)) < m
    <3>1. Cardinality(later(s)) \in Nat /\ ~(Cardinality(later(s)) >= m)
      BY <1>1, <2>3
    <3> HIDE DEF later
    <3> QED
      BY <3>1
  <2>7. IsFiniteSet(later(s) \cup {s}) /\ Cardinality(later(s) \cup {s}) <= Cardinality(later(s)) + 1
    <3> DEFINE L == later(s)
    <3>1. IsFiniteSet(L) /\ Cardinality(L) \in Nat
      BY <1>1, <2>3
    <3> HIDE DEF L
    <3>2. IsFiniteSet(L \cup {s})
          /\ Cardinality(L \cup {s}) \in {Cardinality(L), Cardinality(L) + 1}
      BY <3>1, FS_AddElement
    <3>3. Cardinality(L \cup {s}) <= Cardinality(L) + 1
      BY <3>1, <3>2
    <3> QED
      BY <3>2, <3>3 DEF L
  <2>8. Cardinality(kept) <= Cardinality(later(s) \cup {s})
    BY <2>5, <2>7, FS_Subset
  <2>9. Cardinality(kept) \in Nat /\ Cardinality(later(s) \cup {s}) \in Nat
    BY <2>5, <2>7, FS_Subset, FS_CardinalityType
  <2>10. Cardinality(kept) <= m
    <3> HIDE DEF later, kept
    <3> QED
      BY <2>6, <2>7, <2>8, <2>9
  <2> QED
    BY <2>10
<1> QED
  BY <1>2, <1>3

\* Counts of sessions and of logins are natural numbers, and grow with the sets.
LEMMA LimitCounts ==
  ASSUME IsFiniteSet(sessions), NEW u \in User
  PROVE  /\ IsFiniteSet(Of(u)) /\ Cardinality(Of(u)) \in Nat
         /\ IsFiniteSet(Trimming(u)) /\ Cardinality(Trimming(u)) \in Nat
BY AccountConstants, FS_Subset, FS_CardinalityType DEF Of, Trimming

LEMMA LimitInit == Init => LimitInv
<1> SUFFICES ASSUME Init PROVE LimitInv
  OBVIOUS
<1>1. sessions = {} /\ IsFiniteSet(sessions)
  BY FS_EmptySet DEF Init
<1>2. ASSUME NEW u \in User PROVE Cardinality(Of(u)) <= MaxSessions + Cardinality(Trimming(u))
  <2>1. Of(u) = {} /\ Cardinality(Of(u)) = 0
    BY <1>1, FS_EmptySet DEF Of
  <2> QED
    BY <1>1, <2>1, LimitCounts, AccountConstants
<1> QED
  BY <1>1, <1>2, InitInv DEF LimitInv, SessionsWithinLimit, Trimming

\* The limit of one user is kept by a step that adds no session of the user and
\* ends no trimming of them without leaving a cut.
LEMMA LimitOfUser ==
  ASSUME LimitInv, NEW u \in User, IsFiniteSet(sessions'),
         Cardinality(Of(u)') <= Cardinality(Of(u)),
         user[u].cut => user'[u].cut,
         user'[u].cut \/ Trimming(u) \subseteq Trimming(u)'
  PROVE  user'[u].cut \/ Cardinality(Of(u)') <= MaxSessions + Cardinality(Trimming(u)')
<1> SUFFICES ASSUME ~user'[u].cut
             PROVE  Cardinality(Of(u)') <= MaxSessions + Cardinality(Trimming(u)')
  OBVIOUS
<1>1. Cardinality(Of(u)) <= MaxSessions + Cardinality(Trimming(u))
  BY DEF LimitInv, SessionsWithinLimit, Trimming
<1>2. /\ Cardinality(Of(u)) \in Nat /\ Cardinality(Trimming(u)) \in Nat
  BY LimitCounts DEF LimitInv
<1>3. IsFiniteSet(Trimming(u)') /\ Cardinality(Trimming(u)') \in Nat
      /\ IsFiniteSet(Of(u)') /\ Cardinality(Of(u)') \in Nat
  BY AccountConstants, FS_Subset, FS_CardinalityType DEF Of, Trimming
<1>4. Cardinality(Trimming(u)) <= Cardinality(Trimming(u)')
  BY <1>3, FS_Subset
<1> QED
  BY <1>1, <1>2, <1>3, <1>4, AccountConstants

\* What most steps do: they lift no cut, and end no trimming.
CutsStay ==
  \A u \in User : user[u].status # None /\ user[u].cut => user'[u].cut

TrimmingsStay ==
  \A r \in Request : request[r].step = "trim" =>
    \/ request'[r].step = "trim" /\ request'[r].user = request[r].user
    \/ user'[request[r].user].cut

LEMMA LimitKept ==
  ASSUME LimitInv, AccountInv', issued' = issued, sessions' \subseteq sessions,
         CutsStay, TrimmingsStay
  PROVE  LimitInv'
<1>1. IsFiniteSet(sessions')
  BY FS_Subset DEF LimitInv
<1>2. ASSUME NEW u \in User
      PROVE  user'[u].cut \/ Cardinality(Of(u)') <= MaxSessions + Cardinality(Trimming(u)')
  <2>1. IsFiniteSet(Of(u)) /\ Of(u)' \subseteq Of(u)
    BY LimitCounts DEF LimitInv, Of
  <2>2. Cardinality(Of(u)') <= Cardinality(Of(u))
    BY <2>1, FS_Subset
  <2>3. CASE user[u].status # None
    <3>1. user'[u].cut \/ Trimming(u) \subseteq Trimming(u)'
      BY DEF TrimmingsStay, Trimming
    <3> QED
      BY <1>1, <2>2, <2>3, <3>1, LimitOfUser DEF CutsStay
  <2>4. CASE user[u].status = None
    <3>1. Of(u)' = {}
      BY <2>1, <2>4 DEF LimitInv, AccountInv, Of
    <3>2. Cardinality(Of(u)') = 0
      BY <3>1, FS_EmptySet
    <3>3. Cardinality(Trimming(u)') \in Nat
      BY AccountConstants, FS_Subset, FS_CardinalityType DEF Trimming
    <3> QED
      BY <3>2, <3>3, AccountConstants
  <2> QED
    BY <2>3, <2>4
<1> QED
  BY <1>1, <1>2 DEF LimitInv, SessionsWithinLimit, Trimming

LEMMA IssueLimit == ASSUME LimitInv, NEW r \in Request, Issue(r) PROVE LimitInv'
<1>0. PICK u \in User : u = request[r].user
  BY IssueInv DEF LimitInv
<1> DEFINE new == [id |-> issued + 1, user |-> u, password |-> request[r].password,
                   late |-> request[r].late]
<1>1. /\ AccountInv' /\ user' = user /\ issued' = issued + 1
      /\ sessions' = sessions \cup {new}
      /\ request'[r].step = "trim" /\ request'[r].user = u
      /\ \A q \in Request : q # r => request'[q] = request[q]
  BY <1>0, IssueInv DEF LimitInv
<1>2. request[r].step = "issue" /\ issued \in Nat /\ \A s \in sessions : s.id \in Nat
  BY DEF Issue, LimitInv, AccountInv, Session
<1>3. new.id = issued + 1 /\ new.user = u
  OBVIOUS
<1> HIDE DEF new
<1>4. IsFiniteSet(sessions')
  BY <1>1, FS_AddElement DEF LimitInv
<1>5. (\A s \in sessions' : s.id <= issued') /\ \A s, t \in sessions' : s.id = t.id => s = t
  BY <1>1, <1>2, <1>3 DEF LimitInv
<1>6. ASSUME NEW v \in User, v # u
      PROVE  user'[v].cut \/ Cardinality(Of(v)') <= MaxSessions + Cardinality(Trimming(v)')
  <2>1. Of(v)' = Of(v)
    BY <1>1, <1>3, <1>6 DEF Of
  <2>2. Trimming(v) \subseteq Trimming(v)'
    BY <1>1, <1>2 DEF Trimming
  <2>3. Cardinality(Of(v)') <= Cardinality(Of(v))
    BY <2>1, LimitCounts DEF LimitInv
  <2> QED
    BY <1>1, <1>4, <2>2, <2>3, LimitOfUser
<1>7. user'[u].cut \/ Cardinality(Of(u)') <= MaxSessions + Cardinality(Trimming(u)')
  <2>1. Of(u)' = Of(u) \cup {new}
    BY <1>1, <1>3 DEF Of
  <2>2. Trimming(u)' = Trimming(u) \cup {r} /\ r \notin Trimming(u)
    BY <1>1, <1>2 DEF Trimming
  <2>3. /\ IsFiniteSet(Of(u)) /\ Cardinality(Of(u)) \in Nat
        /\ IsFiniteSet(Trimming(u)) /\ Cardinality(Trimming(u)) \in Nat
    BY <1>1, LimitCounts DEF LimitInv
  <2>4. Cardinality(Of(u)') <= Cardinality(Of(u)) + 1
    <3>1. Cardinality(Of(u) \cup {new}) \in {Cardinality(Of(u)), Cardinality(Of(u)) + 1}
      BY <2>3, FS_AddElement
    <3> QED
      BY <2>1, <2>3, <3>1
  <2>5. Cardinality(Trimming(u)') = Cardinality(Trimming(u)) + 1
    BY <2>2, <2>3, FS_AddElement
  <2>6. user[u].cut \/ Cardinality(Of(u)) <= MaxSessions + Cardinality(Trimming(u))
    BY <1>1 DEF LimitInv, SessionsWithinLimit, Trimming
  <2>7. Cardinality(Of(u)') \in Nat
    BY <1>4, FS_Subset, FS_CardinalityType DEF Of
  <2> QED
    BY <1>1, <2>3, <2>4, <2>5, <2>6, <2>7, AccountConstants
<1> QED
  BY <1>1, <1>4, <1>5, <1>6, <1>7 DEF LimitInv, SessionsWithinLimit, Trimming

LEMMA TrimLimit == ASSUME LimitInv, NEW r \in Request, Trim(r) PROVE LimitInv'
<1>0. PICK u \in User : u = request[r].user
  BY DEF Trim, LimitInv, AccountInv, OfUser
<1>1. /\ AccountInv' /\ user' = user /\ issued' = issued /\ request'[r] = NoRequest
      /\ \A q \in Request : q # r => request'[q] = request[q]
  BY TrimInv DEF LimitInv
<1>2. request[r].step = "trim" /\ sessions' = sessions \ Oldest(u)
  BY <1>0 DEF Trim
<1>3. Oldest(u) \subseteq Of(u)
  BY DEF Oldest
<1>4. IsFiniteSet(sessions')
  BY <1>2, FS_Difference DEF LimitInv
<1>5. ASSUME NEW v \in User, v # u
      PROVE  user'[v].cut \/ Cardinality(Of(v)') <= MaxSessions + Cardinality(Trimming(v)')
  <2>1. Of(v)' = Of(v)
    BY <1>2, <1>3, <1>5 DEF Of
  <2>2. Trimming(v) \subseteq Trimming(v)'
    BY <1>0, <1>1, <1>5 DEF Trimming
  <2>3. Cardinality(Of(v)') <= Cardinality(Of(v))
    BY <2>1, LimitCounts DEF LimitInv
  <2> QED
    BY <1>1, <1>4, <2>2, <2>3, LimitOfUser
<1>6. Cardinality(Of(u)') <= MaxSessions + Cardinality(Trimming(u)')
  <2>1. Of(u)' = Of(u) \ Oldest(u)
    BY <1>2 DEF Of
  <2>2. IsFiniteSet(Of(u)) /\ (\A s \in Of(u) : s.id \in Nat)
        /\ \A s, t \in Of(u) : s.id = t.id => s = t
    <3>1. IsFiniteSet(Of(u))
      BY LimitCounts DEF LimitInv
    <3>2. \A s \in Of(u) : s \in sessions /\ s.id \in Nat
      BY DEF LimitInv, AccountInv, Session, Of
    <3> QED
      BY <3>1, <3>2 DEF LimitInv
  <2>3. Cardinality(Of(u) \ Oldest(u)) <= MaxSessions
    <3> DEFINE S == Of(u)
    <3>1. S \ Oldest(u) = S \ {s \in S : Cardinality({t \in S : t.id > s.id}) >= MaxSessions}
      BY DEF Oldest
    <3> HIDE DEF S
    <3> QED
      BY <2>2, <3>1, NewestFew, AccountConstants DEF S
  <2>4. Cardinality(Trimming(u)') \in Nat /\ Cardinality(Of(u)') \in Nat
    BY <1>4, AccountConstants, FS_Subset, FS_CardinalityType DEF Trimming, Of
  <2> QED
    BY <2>1, <2>3, <2>4, AccountConstants
<1> QED
  BY <1>1, <1>2, <1>4, <1>5, <1>6 DEF LimitInv, SessionsWithinLimit, Trimming

\* A session whose password is replaced stays one session of its user.
LEMMA ChangeWriteLimit == ASSUME LimitInv, NEW r \in Request, ChangeWrite(r) PROVE LimitInv'
<1> DEFINE u == request[r].user
           password == user[u].password + 1
           written == [s \in sessions |-> IF s.id = request[r].session
                                            THEN [s EXCEPT !.password = password] ELSE s]
<1>1. /\ AccountInv' /\ u \in User /\ issued' = issued
      /\ (\A v \in User : user'[v].cut = user[v].cut)
      /\ sessions' = {written[s] : s \in sessions}
      /\ \A q \in Request : /\ request[q].step = "trim" => request'[q].step = "trim"
                            /\ request'[q].user = request[q].user
  <2>1. /\ AccountInv' /\ u \in User /\ issued' = issued
        /\ \A v \in User : v # u => user'[v] = user[v]
        /\ user'[u].cut = user[u].cut
        /\ sessions' = {IF s.id = request[r].session
                          THEN [s EXCEPT !.password = password] ELSE s : s \in sessions}
        /\ request'[r].step = "changed" /\ request'[r].user = u
        /\ \A q \in Request : q # r => request'[q] = Overtaken(u)[q]
    BY ChangeWriteInv DEF LimitInv
  <2>2. \A q \in Request : Overtaken(u)[q].step = request[q].step
                           /\ Overtaken(u)[q].user = request[q].user
    BY <2>1, OvertakenType DEF LimitInv, AccountInv
  <2>3. request[r].step = "change"
    BY DEF ChangeWrite
  <2> HIDE DEF password
  <2> QED
    BY <2>1, <2>2, <2>3
<1>2. \A s \in sessions : written[s].id = s.id /\ written[s].user = s.user
  <2> SUFFICES ASSUME NEW s \in sessions PROVE written[s].id = s.id /\ written[s].user = s.user
    OBVIOUS
  <2>1. s \in Session
    BY DEF LimitInv, AccountInv
  <2> HIDE DEF password
  <2> QED
    BY <2>1 DEF Session
<1>3. DOMAIN written = sessions
  OBVIOUS
<1> HIDE DEF written
<1>4. (\A s \in sessions' : s.id <= issued') /\ \A s, t \in sessions' : s.id = t.id => s = t
  BY <1>1, <1>2 DEF LimitInv
<1>5. ASSUME NEW v \in User
      PROVE  IsFiniteSet(Of(v)') /\ Cardinality(Of(v)') <= Cardinality(Of(v))
  <2> DEFINE f == [s \in Of(v) |-> written[s]]
  <2>1. f \in Surjection(Of(v), Of(v)')
    <3>1. \A s \in Of(v) : written[s] \in Of(v)'
      BY <1>1, <1>2 DEF Of
    <3>2. \A t \in Of(v)' : \E s \in Of(v) : written[s] = t
      BY <1>1, <1>2 DEF Of
    <3> QED
      BY <3>1, <3>2 DEF Surjection
  <2>2. IsFiniteSet(Of(v))
    BY LimitCounts DEF LimitInv
  <2> QED
    BY <2>1, <2>2, FS_Surjection
<1>6. IsFiniteSet(sessions')
  <2> DEFINE f == [s \in sessions |-> written[s]]
  <2>1. f \in Surjection(sessions, sessions')
    BY <1>1 DEF Surjection
  <2> QED
    BY <2>1, FS_Surjection DEF LimitInv
<1>7. ASSUME NEW v \in User
      PROVE  user'[v].cut \/ Cardinality(Of(v)') <= MaxSessions + Cardinality(Trimming(v)')
  <2>1. Trimming(v) \subseteq Trimming(v)'
    BY <1>1 DEF Trimming
  <2> QED
    BY <1>1, <1>5, <1>6, <2>1, LimitOfUser
<1> QED
  BY <1>1, <1>4, <1>6, <1>7 DEF LimitInv, SessionsWithinLimit, Trimming

LEMMA LimitNext == LimitInv /\ [Next]_vars => LimitInv'
<1> SUFFICES ASSUME LimitInv, [Next]_vars PROVE LimitInv'
  OBVIOUS
<1>0. AccountInv /\ AccountInv' /\ NoRequest.step = "idle"
  BY AccountNext, NoRequestType DEF LimitInv
<1>1. ASSUME NEW r \in Request, NEW u \in User, Setup(r, u) \/ Guest(r, u) \/ RegisterNew(r, u)
      PROVE  LimitInv'
  <2>1. PICK row \in Row : row.status # None /\ Create(r, u, row)
    BY <1>1, CreatedRows, AccountConstants
       DEF Setup, Guest, RegisterNew, OwnerRow, GuestRow, PendingRow, Statuses
  <2>2. /\ user[u].status = None /\ (\A v \in User : v # u => user'[v] = user[v])
        /\ (\A q \in Request : q # r => request'[q] = request[q])
        /\ UNCHANGED <<sessions, issued>>
    BY <1>0, <2>1, CreateDoes
  <2>3. request[r].step # "trim"
    BY <2>1 DEF Create, Idle
  <2> QED
    BY <1>0, <2>2, <2>3, LimitKept DEF CutsStay, TrimmingsStay
<1>2. ASSUME NEW r \in Request, RegisterGuest(r) PROVE LimitInv'
  <2> DEFINE u == request[r].user
  <2>1. /\ u \in User /\ (\A v \in User : v # u => user'[v] = user[v])
        /\ user'[u].cut = user[u].cut
    BY <1>0, <1>2, RegisterGuestDoes
  <2>2. /\ sessions' = sessions \ Of(u) /\ issued' = issued
        /\ \A q \in Request : q # r => request'[q] = Overtaken(u)[q]
    BY <1>0, <1>2, RegisterGuestInv
  <2>3. \A q \in Request : Overtaken(u)[q].step = request[q].step
                           /\ Overtaken(u)[q].user = request[q].user
    BY <1>0, <2>1, OvertakenType DEF AccountInv
  <2>4. request[r].step = "register"
    BY <1>2 DEF RegisterGuest
  <2> QED
    BY <1>0, <2>1, <2>2, <2>3, <2>4, LimitKept DEF CutsStay, TrimmingsStay
<1>3. ASSUME NEW r \in Request, Issue(r) \/ Trim(r) \/ ChangeWrite(r) PROVE LimitInv'
  BY <1>3, IssueLimit, TrimLimit, ChangeWriteLimit
<1>4. ASSUME NEW r \in Request, RequestFails(r) PROVE LimitInv'
  <2>1. /\ UNCHANGED <<sessions, issued>> /\ request'[r] = NoRequest
        /\ \A q \in Request : q # r => request'[q] = request[q]
        /\ request[r].step = "trim" => user'[request[r].user].cut
        /\ \A v \in User : user[v].cut => user'[v].cut
    BY <1>0, <1>4, RequestFailsInv
  <2> QED
    BY <1>0, <2>1, LimitKept DEF CutsStay, TrimmingsStay
<1>5. ASSUME NEW r \in Request, NEW u \in User, NEW role \in Roles \cup {None},
             NEW drop \in BOOLEAN, NEW status \in Statuses \cup {None},
             AdminCommit(r, u, role, status, drop)
      PROVE  LimitInv'
  <2>1. /\ issued' = issued /\ sessions' \subseteq sessions
        /\ \A q \in Request : q # r => request'[q] = request[q]
        /\ user'[u].cut = user[u].cut /\ \A v \in User : v # u => user'[v] = user[v]
    BY <1>0, <1>5, AdminCommitInv
  <2>2. request[r].step = "admin"
    BY <1>5 DEF AdminCommit
  <2> QED
    BY <1>0, <2>1, <2>2, LimitKept DEF CutsStay, TrimmingsStay
<1>6. ASSUME NEW r \in Request,
             \/ \E u \in User : LoginRead(r, u)
             \/ \E u \in User \cup {None} : RegisterRead(r, u)
             \/ \E s \in sessions : ChangeRead(r, s) \/ AdminRead(r, s)
             \/ ChangeDrop(r)
      PROVE  LimitInv'
  <2>1. /\ UNCHANGED <<user, issued>> /\ sessions' \subseteq sessions
        /\ \A q \in Request : q # r => request'[q] = request[q]
    BY SMTT(30), <1>0, <1>6, LoginReadInv, ReadInv, ChangeDropInv DEF ChangeDrop
  <2>2. request[r].step # "trim"
    BY <1>6 DEF LoginRead, RegisterRead, ChangeRead, AdminRead, ChangeDrop, Idle
  <2> QED
    BY <1>0, <2>1, <2>2, LimitKept DEF CutsStay, TrimmingsStay
<1>7. ASSUME NEW u \in User, Reset(u) PROVE LimitInv'
  <2>1. /\ sessions' = sessions \ Of(u) /\ request' = Overtaken(u) /\ issued' = issued
        /\ \A v \in User : user'[v].cut = user[v].cut
    BY <1>0, <1>7, ResetInv
  <2>2. \A q \in Request : Overtaken(u)[q].step = request[q].step
                           /\ Overtaken(u)[q].user = request[q].user
    BY <1>0, OvertakenType DEF AccountInv
  <2> QED
    BY <1>0, <2>1, <2>2, LimitKept DEF CutsStay, TrimmingsStay
<1>8. ASSUME NEW u \in User, Verify(u) PROVE LimitInv'
  <2>1. /\ UNCHANGED <<sessions, issued, request>>
        /\ \A v \in User : user'[v].cut = user[v].cut
    BY <1>0, <1>8, VerifyInv
  <2> QED
    BY <1>0, <2>1, LimitKept DEF CutsStay, TrimmingsStay
<1>9. ASSUME \/ \E s \in sessions : Revoke(s) \/ RevokeOthers(s)
             \/ \E u \in User : Forgot(u) \/ ChangeEmail(u)
             \/ UNCHANGED vars
      PROVE  LimitInv'
  <2>1. UNCHANGED <<user, issued, request>> /\ sessions' \subseteq sessions
    BY <1>9 DEF Revoke, RevokeOthers, Forgot, ChangeEmail, vars
  <2> QED
    BY <1>0, <2>1, LimitKept DEF CutsStay, TrimmingsStay
<1> QED
  BY <1>1, <1>2, <1>3, <1>4, <1>5, <1>6, <1>7, <1>8, <1>9 DEF Next

\* However many logins of one user overlap, no more sessions stay than the
\* setting allows once each has deleted the oldest.
THEOREM SessionsWithinLimitHolds == Spec => []SessionsWithinLimit
<1>1. LimitInv => SessionsWithinLimit
  BY DEF LimitInv
<1> QED
  BY <1>1, LimitInit, LimitNext, PTL DEF Spec
=============================================================================
