--------------------------- MODULE AccountsProofs ---------------------------
(***************************************************************************)
(* AccountsInv is preserved by every step of the auth module, for every    *)
(* value of the constants.                                                 *)
(***************************************************************************)
EXTENDS Accounts, TLAPS

\* A handler's state by its stage.
LEMMA PendingByStage ==
    ASSUME NEW q \in Pending \cup {Waiting}
    PROVE  /\ Creating(q) =>
                q \in [stage : {"locking", "creating"}, user : Users, row : User,
                       role : GlobalRole, onlyOne : BOOLEAN, seen : BOOLEAN]
           /\ q.stage = "delivering" => q \in [stage : {"delivering"}, session : Session]
           /\ WritesBack(q) =>
                q \in [stage : {"updating", "changing_password"}, user : Users,
                       row : User, signOut : BOOLEAN]
           /\ q.stage = "granting" =>
                q \in [stage : {"granting"}, actor : Users, user : Users,
                       role : GlobalRole]
  BY DEF Pending, Waiting, Creating, WritesBack

\* What the other components do leaves the accounts as they are.
LEMMA AccountsKept ==
    ASSUME AccountsInv, UNCHANGED accountVars, accepted' \in Nat
    PROVE  AccountsInv'
  BY DEF AccountsInv, accountVars, AccountsTypeOK, AccountsSound, Accounts,
         RequestSound, CreationsApart, VersionsOrdered, HistoryKept, Succeeds

-----------------------------------------------------------------------------
(* Requests that read *)

\* The two rows remember the same passwords.
SamePasswords(row, old) ==
    /\ row.password = old.password
    /\ row.previous1 = old.previous1 /\ row.previous2 = old.previous2

\* A handler reads and remembers q; pairs are issued for accounts at a version
\* they have.
Reading(r, q) ==
    /\ request' = [request EXCEPT ![r] = q]
    /\ q \in Pending \cup {Waiting}
    /\ RequestSound(q)
    /\ Creating(q) => \A s \in Requests \ {r} :
                        Creating(request[s]) => request[s].user # q.user
    /\ q.stage = "delivering" => q.session.version <= users[q.session.user].version
    /\ WritesBack(q)
         => /\ q.row.version = users[q.user].version + (IF q.signOut THEN 1 ELSE 0)
            /\ WritingBack(q.user) => q.user \in overlapped'
            /\ Succeeds(q, users[q.user])
    /\ overlapped \subseteq overlapped' /\ overlapped' \subseteq Users
    /\ sessions \subseteq sessions' /\ sessions' \subseteq Session
    /\ \A s \in sessions' \ sessions :
         s.user \in Accounts /\ s.version <= users[s.user].version
    /\ creationLock' \in Requests \cup {Null}
    /\ accepted' \in Nat
    /\ UNCHANGED <<users, roles, revoked, former>>

\* A step that only changes a request's own record keeps the invariant.
LEMMA ReadingKeeps ==
    ASSUME AccountsInv, NEW r \in Requests, NEW q, Reading(r, q)
    PROVE  AccountsInv'
  <1>T. AccountsTypeOK
    BY DEF AccountsInv
  <1>A. Accounts' = Accounts
    BY DEF Reading, Accounts
  <1>Q. /\ request'[r] = q
        /\ \A s \in Requests \ {r} : request'[s] = request[s]
    BY <1>T DEF Reading, AccountsTypeOK
  <1>1. AccountsTypeOK'
    BY <1>T DEF AccountsTypeOK, Reading
  <1>2. /\ AccountsSound'
        /\ \A u \in Users \ Accounts' : former'[u].first = Null /\ former'[u].second = Null
    BY <1>A DEF AccountsInv, AccountsSound, Reading
  <1>3. \A s \in sessions' : s.user \in Accounts'
    BY <1>A DEF AccountsInv, Reading
  <1>4. ASSUME NEW s \in Requests PROVE RequestSound(request[s])'
    <2>1. RequestSound(request'[s])
      BY <1>Q DEF AccountsInv, Reading
    <2> QED
      BY <2>1, <1>A DEF RequestSound, Reading
  <1>5. CreationsApart'
    BY <1>Q DEF CreationsApart, AccountsInv, Reading, Creating
  <1>6. ASSUME NEW u \in Accounts', u \notin overlapped' PROVE VersionsOrdered(u)'
    <2>0. u \in Accounts /\ u \notin overlapped /\ VersionsOrdered(u) /\ users' = users
          /\ revoked' = revoked
      BY <1>6, <1>A DEF AccountsInv, Reading
    <2>1. \A s \in sessions' : s.user = u => s.version <= users[u].version
      BY <2>0 DEF VersionsOrdered, Reading
    <2>2. ASSUME NEW s \in Requests
          PROVE  /\ request'[s].stage = "delivering" /\ request'[s].session.user = u
                      => request'[s].session.version <= users[u].version
                 /\ WritesBack(request'[s]) /\ request'[s].user = u
                      => request'[s].row.version =
                           users[u].version + (IF request'[s].signOut THEN 1 ELSE 0)
      <3>1. CASE s = r
        BY <3>1, <1>Q DEF Reading
      <3>2. CASE s # r
        BY <3>2, <1>Q, <2>0 DEF VersionsOrdered
      <3> QED
        BY <3>1, <3>2
    <2>3. ASSUME NEW s \in Requests, NEW t \in Requests,
                 WritesBack(request'[s]), request'[s].user = u,
                 WritesBack(request'[t]), request'[t].user = u
          PROVE  s = t
      <3>1. CASE s # r /\ t # r
        BY <3>1, <2>3, <1>Q, <2>0 DEF VersionsOrdered
      <3>2. ASSUME NEW x \in Requests \ {r}, WritesBack(request[x]), request[x].user = u,
                   WritesBack(q), q.user = u
            PROVE  FALSE
        <4>1. WritingBack(u)
          BY <3>2 DEF WritingBack, WritesBack
        <4> QED
          BY <4>1, <3>2, <1>6 DEF Reading
      <3> QED
        BY <3>1, <3>2, <2>3, <1>Q
    <2> QED
      BY <2>0, <2>1, <2>2, <2>3 DEF VersionsOrdered, WritesBack
  <1>7. ASSUME NEW u \in Accounts', u \notin overlapped' PROVE HistoryKept(u)'
    <2>0. u \in Accounts /\ HistoryKept(u) /\ users' = users /\ former' = former
      BY <1>7, <1>A DEF AccountsInv, Reading
    <2>1. ASSUME NEW s \in Requests, WritesBack(request'[s]), request'[s].user = u
          PROVE  Succeeds(request'[s], users[u])
      <3>1. CASE s = r
        BY <3>1, <2>1, <1>Q DEF Reading
      <3>2. CASE s # r
        BY <3>2, <2>1, <1>Q, <2>0 DEF HistoryKept
      <3> QED
        BY <3>1, <3>2
    <2> QED
      BY <2>0, <2>1 DEF HistoryKept, WritesBack, Succeeds
  <1> QED
    BY <1>1, <1>2, <1>3, <1>4, <1>5, <1>6, <1>7 DEF AccountsInv

\* An answer without a write.
LEMMA AnswerReads ==
    ASSUME AccountsInv, NEW r \in Requests, Answer(r), UnlockCreation(r),
           UNCHANGED <<users, roles, sessions, revoked, former, overlapped, accepted>>
    PROVE  Reading(r, Waiting)
  BY DEF AccountsInv, AccountsTypeOK, Answer, UnlockCreation, Reading, RequestSound,
         Creating, WritesBack, Waiting, Accounts

\* CreateUser only accepts a request, for an identifier nobody else is
\* creating.
LEMMA CreateUserReads ==
    ASSUME AccountsInv, NEW r \in Requests, NEW u \in Users, NEW e \in Emails,
           NEW p \in Passwords, NEW role \in GlobalRole, NEW onlyOne \in BOOLEAN,
           CreateUser(r, u, e, p, role, onlyOne)
    PROVE  \E q : Reading(r, q)
  <1> DEFINE row == NewUser(e, p)
             q == [stage |-> "locking", user |-> u, row |-> row, role |-> role,
                   onlyOne |-> onlyOne, seen |-> HasAnyUser]
  <1>1. row \in User /\ row.previous1 = Null /\ row.previous2 = Null
    BY DEF NewUser, User, AccountStatus
  <1>2. HasAnyUser \in BOOLEAN
    BY DEF HasAnyUser
  <1>3. /\ q.stage = "locking" /\ q.user = u /\ q.row = row
        /\ q \in Pending \cup {Waiting}
    <2> HIDE DEF row
    <2> QED
      BY <1>1, <1>2 DEF Pending
  <1>4. request' = [request EXCEPT ![r] = q] /\ accepted' = accepted + 1
    BY DEF CreateUser, Accept
  <1>5. /\ u \notin Accounts
        /\ \A s \in Requests : Creating(request[s]) => request[s].user # u
        /\ UNCHANGED <<users, roles, sessions, revoked, former, overlapped, creationLock>>
    BY DEF CreateUser, Creating, account
  <1> HIDE DEF q, row
  <1>6. RequestSound(q) /\ ~ WritesBack(q)
    BY <1>1, <1>3, <1>5 DEF RequestSound, WritesBack
  <1>7. Reading(r, q)
    BY <1>3, <1>4, <1>5, <1>6 DEF Reading, AccountsInv, AccountsTypeOK
  <1> QED
    BY <1>7

\* The pair issued for an account carries its version and role.
LEMMA SessionType ==
    ASSUME AccountsInv, NEW u \in Accounts
    PROVE  /\ SessionOf(u, users[u], roles[u]) \in Session
           /\ SessionOf(u, users[u], roles[u]).user = u
           /\ SessionOf(u, users[u], roles[u]).version = users[u].version
           /\ users[u].version \in Nat \ {0}
           /\ users[u] \in User /\ roles[u] \in GlobalRole
  <1>1. users[u] \in User /\ roles[u] \in GlobalRole /\ u \in Users
    BY DEF AccountsInv, AccountsTypeOK, AccountsSound, Accounts
  <1> QED
    BY <1>1 DEF SessionOf, Session, User

\* SignIn and Refresh issue a pair in one step.
LEMMA IssueReads ==
    ASSUME AccountsInv, NEW r \in Requests, NEW u \in Accounts, request[r] = Waiting,
           Issue(SessionOf(u, users[u], roles[u])), accepted' = accepted + 1,
           UNCHANGED <<users, roles, revoked, former, overlapped, creationLock, request>>
    PROVE  Reading(r, Waiting)
  <1> DEFINE s == SessionOf(u, users[u], roles[u])
  <1>1. s \in Session /\ s.user = u /\ s.version <= users[u].version
    BY SessionType
  <1>2. sessions' = sessions \cup {s}
    BY DEF Issue
  <1> HIDE DEF s
  <1>3. request' = [request EXCEPT ![r] = Waiting]
    BY DEF AccountsInv, AccountsTypeOK
  <1>4. RequestSound(Waiting) /\ ~ Creating(Waiting) /\ ~ WritesBack(Waiting)
        /\ Waiting.stage # "delivering"
    BY DEF RequestSound, Creating, WritesBack, Waiting
  <1>5. /\ sessions \subseteq sessions' /\ sessions' \subseteq Session
        /\ \A x \in sessions' \ sessions :
             x.user \in Accounts /\ x.version <= users[x.user].version
    BY <1>1, <1>2 DEF AccountsInv, AccountsTypeOK
  <1>6. /\ overlapped \subseteq overlapped' /\ overlapped' \subseteq Users
        /\ creationLock' \in Requests \cup {Null}
        /\ accepted' \in Nat
    BY DEF AccountsInv, AccountsTypeOK
  <1> QED
    BY <1>3, <1>4, <1>5, <1>6 DEF Reading

\* SignIn up to its delivery: the session is made from the row as it is.
LEMMA DeliveringReads ==
    ASSUME AccountsInv, NEW r \in Requests, NEW u \in Users, NEW p,
           SignInDelivering(r, u, p)
    PROVE  \E q : Reading(r, q)
  <1> DEFINE s == SessionOf(u, users[u], roles[u])
             q == [stage |-> "delivering", session |-> s]
  <1>0. u \in Accounts
    BY DEF SignInDelivering, CanSignIn
  <1>1. s \in Session /\ s.user = u /\ s.version <= users[u].version
    BY <1>0, SessionType
  <1>2. /\ request' = [request EXCEPT ![r] = q] /\ accepted' = accepted + 1
        /\ UNCHANGED <<users, roles, sessions, revoked, former, overlapped, creationLock>>
    BY DEF SignInDelivering, Accept, account
  <1> HIDE DEF s
  <1>3. q \in Pending \cup {Waiting} /\ q.stage = "delivering" /\ q.session = s
    BY <1>1 DEF Pending
  <1> HIDE DEF q
  <1>4. RequestSound(q) /\ ~ Creating(q) /\ ~ WritesBack(q)
    BY <1>0, <1>1, <1>3 DEF RequestSound, Creating, WritesBack
  <1>5. Reading(r, q)
    BY <1>1, <1>2, <1>3, <1>4 DEF Reading, AccountsInv, AccountsTypeOK
  <1> QED
    BY <1>5

\* SignOutAllDevices, UpdateFullName, UpdateStatus and ChangePassword read the
\* account and remember what they will write.
LEMMA LoadReads ==
    ASSUME AccountsInv, NEW r \in Requests, NEW u \in Users,
           NEW stage \in {"updating", "changing_password"}, NEW row,
           NEW signOut \in BOOLEAN, Load(r, u, stage, row, signOut),
           users[u] \in User =>
             /\ row \in User
             /\ row.email = users[u].email
             /\ row.version = users[u].version + (IF signOut THEN 1 ELSE 0)
             /\ \A q : q.stage = stage /\ q.row = row => Succeeds(q, users[u])
    PROVE  \E q : Reading(r, q)
  <1> DEFINE q == [stage |-> stage, user |-> u, row |-> row, signOut |-> signOut]
  <1>0. u \in Accounts
    BY DEF Load, Authenticated, AccountsInv
  <1>1. users[u] \in User
    BY <1>0, SessionType
  <1>2. /\ request' = [request EXCEPT ![r] = q] /\ accepted' = accepted + 1
        /\ overlapped' = IF WritingBack(u) THEN overlapped \cup {u} ELSE overlapped
        /\ UNCHANGED <<users, roles, sessions, revoked, former, creationLock>>
    BY DEF Load, Accept, account
  <1>3. /\ q \in Pending \cup {Waiting} /\ q.stage = stage /\ q.user = u
        /\ q.row = row /\ q.signOut = signOut
    BY <1>1 DEF Pending
  <1> HIDE DEF q
  <1>4. RequestSound(q) /\ ~ Creating(q) /\ WritesBack(q) /\ q.stage # "delivering"
    BY <1>0, <1>1, <1>3 DEF RequestSound, Creating, WritesBack
  <1>5. /\ overlapped \subseteq overlapped' /\ overlapped' \subseteq Users
        /\ WritingBack(u) => u \in overlapped'
    BY <1>2 DEF AccountsInv, AccountsTypeOK
  <1>6. Reading(r, q)
    BY <1>1, <1>2, <1>3, <1>4, <1>5 DEF Reading, AccountsInv, AccountsTypeOK
  <1> QED
    BY <1>6

\* ChangePassword refuses the passwords the row remembers, and remembers the
\* one it replaces.
LEMMA ChangePasswordReads ==
    ASSUME AccountsInv, NEW r \in Requests, NEW u \in Users,
           NEW current \in Passwords, NEW next \in Passwords,
           NEW signOutAll \in BOOLEAN, ChangePassword(r, u, current, next, signOutAll)
    PROVE  \E q : Reading(r, q)
  <1> DEFINE old == users[u]
             row == [old EXCEPT !.password = next, !.previous1 = old.password,
                                !.previous2 = old.previous1,
                                !.version = IF signOutAll THEN @ + 1 ELSE @]
  <1>1. ~ Reused(old, next) /\ Load(r, u, "changing_password", row, signOutAll)
    BY DEF ChangePassword
  <1>2. ASSUME old \in User
        PROVE  /\ row \in User
               /\ row.email = old.email
               /\ row.version = old.version + (IF signOutAll THEN 1 ELSE 0)
               /\ \A q : q.stage = "changing_password" /\ q.row = row
                          => Succeeds(q, old)
    <2> HIDE DEF old
    <2> DEFINE v == IF signOutAll THEN old.version + 1 ELSE old.version
    <2>v. v \in Nat \ {0} /\ v = old.version + (IF signOutAll THEN 1 ELSE 0)
      BY <1>2 DEF User
    <2>r. row = [old EXCEPT !.password = next, !.previous1 = old.password,
                            !.previous2 = old.previous1, !.version = v]
      OBVIOUS
    <2> HIDE DEF v, row
    <2>1. /\ row.email = old.email /\ row.password = next
          /\ row.previous1 = old.password /\ row.previous2 = old.previous1
          /\ row.version = v
          /\ row \in User
      BY <1>2, <2>v, <2>r DEF User
    <2> QED
      BY <1>1, <2>v, <2>1 DEF Succeeds
  <1> HIDE DEF row
  <1> QED
    BY <1>1, <1>2, LoadReads

\* UpdateRole checks its author and its target.
LEMMA UpdateRoleReads ==
    ASSUME AccountsInv, NEW r \in Requests, NEW actor \in Users, NEW target \in Users,
           NEW role \in GlobalRole, UpdateRole(r, actor, target, role)
    PROVE  \E q : Reading(r, q)
  <1> DEFINE q == [stage |-> "granting", actor |-> actor, user |-> target, role |-> role]
  <1>1. /\ request' = [request EXCEPT ![r] = q] /\ accepted' = accepted + 1
        /\ actor # target /\ target \in Accounts
        /\ UNCHANGED <<users, roles, sessions, revoked, former, overlapped, creationLock>>
    BY DEF UpdateRole, Accept, account
  <1>2. /\ q \in Pending \cup {Waiting} /\ q.stage = "granting"
        /\ q.actor = actor /\ q.user = target
    BY DEF Pending
  <1> HIDE DEF q
  <1>3. RequestSound(q) /\ ~ Creating(q) /\ ~ WritesBack(q)
    BY <1>1, <1>2 DEF RequestSound, Creating, WritesBack
  <1>4. Reading(r, q)
    BY <1>1, <1>2, <1>3 DEF Reading, AccountsInv, AccountsTypeOK
  <1> QED
    BY <1>4

\* Being granted the creation lock changes the request's stage only.
LEMMA LockReads ==
    ASSUME AccountsInv, NEW r \in Requests, LockInitialAccountCreation(r)
    PROVE  \E q : Reading(r, q)
  <1> DEFINE p == request[r]
             q == [p EXCEPT !.stage = "creating"]
  <1>1. p \in Pending \cup {Waiting} /\ p.stage = "locking"
    BY DEF AccountsInv, AccountsTypeOK, LockInitialAccountCreation
  <1>2. p \in [stage : {"locking", "creating"}, user : Users, row : User,
               role : GlobalRole, onlyOne : BOOLEAN, seen : BOOLEAN]
    BY <1>1, PendingByStage DEF Creating
  <1>3. /\ request' = [request EXCEPT ![r] = q] /\ creationLock' = r
        /\ UNCHANGED <<users, roles, sessions, revoked, former, overlapped, accepted>>
    BY DEF LockInitialAccountCreation, account
  <1>4. RequestSound(p) /\ Creating(p)
    BY <1>1 DEF AccountsInv, Creating
  <1>5. \A s \in Requests \ {r} : Creating(request[s]) => request[s].user # p.user
    BY <1>4 DEF AccountsInv, CreationsApart
  <1> HIDE DEF p
  <1>6. q \in Pending \cup {Waiting} /\ q.stage = "creating" /\ q.user = p.user
        /\ q.row = p.row
    BY <1>2 DEF Pending
  <1> HIDE DEF q
  <1>7. RequestSound(q) /\ ~ WritesBack(q)
    BY <1>4, <1>6 DEF RequestSound, Creating, WritesBack
  <1>8. Reading(r, q)
    BY <1>3, <1>5, <1>6, <1>7 DEF Reading, AccountsInv, AccountsTypeOK
  <1> QED
    BY <1>8

\* Every first step of a request reads.
LEMMA BeginReads ==
    ASSUME AccountsInv, NEW r \in Requests, Begin(r)
    PROVE  \E q : Reading(r, q)
  <1>1. ASSUME NEW u \in Users, NEW e \in Emails, NEW p \in Passwords,
               SignUp(r, u, e, p) \/ CreateSuperadmin(r, u, e, p)
        PROVE  \E q : Reading(r, q)
    <2>1. \E role \in GlobalRole, onlyOne \in BOOLEAN : CreateUser(r, u, e, p, role, onlyOne)
      BY <1>1 DEF SignUp, CreateSuperadmin, GlobalRole
    <2> QED
      BY <2>1, CreateUserReads
  <1>2. ASSUME NEW u \in Users, NEW p \in Passwords, SignIn(r, u, p)
        PROVE  \E q : Reading(r, q)
    BY <1>2, IssueReads DEF SignIn, CanSignIn, account
  <1>3. ASSUME NEW u \in Users, NEW p \in Passwords, SignInDelivering(r, u, p)
        PROVE  \E q : Reading(r, q)
    BY <1>3, DeliveringReads
  <1>4. ASSUME NEW u \in Users, SignOutAllDevices(r, u)
        PROVE  \E q : Reading(r, q)
    <2> DEFINE row == [users[u] EXCEPT !.version = @ + 1]
    <2>1. users[u] \in User =>
            /\ row \in User
            /\ row.email = users[u].email
            /\ row.version = users[u].version + 1
            /\ SamePasswords(row, users[u])
      BY DEF User, SamePasswords
    <2>2. Load(r, u, "updating", row, TRUE)
      BY <1>4 DEF SignOutAllDevices
    <2> HIDE DEF row
    <2> QED
      BY <2>1, <2>2, LoadReads DEF SamePasswords, Succeeds
  <1>5. ASSUME NEW u \in Users, UpdateFullName(r, u)
        PROVE  \E q : Reading(r, q)
    <2>1. users[u] \in User => users[u].version = users[u].version + 0
      BY DEF User
    <2> QED
      BY <1>5, <2>1, LoadReads DEF UpdateFullName, Succeeds
  <1>6. ASSUME NEW u \in Users, NEW status \in AccountStatus, UpdateStatus(r, u, status)
        PROVE  \E q : Reading(r, q)
    <2> DEFINE row == [users[u] EXCEPT !.status = status]
    <2>1. users[u] \in User =>
            /\ row \in User
            /\ row.email = users[u].email
            /\ row.version = users[u].version + 0
            /\ SamePasswords(row, users[u])
      BY DEF User, SamePasswords
    <2>2. Load(r, u, "updating", row, FALSE)
      BY <1>6 DEF UpdateStatus
    <2> HIDE DEF row
    <2> QED
      BY <2>1, <2>2, LoadReads DEF SamePasswords, Succeeds
  <1>7. ASSUME NEW s \in sessions, Refresh(r, s)
        PROVE  \E q : Reading(r, q)
    BY <1>7, IssueReads DEF Refresh, CanSignIn, account
  <1> QED
    BY <1>1, <1>2, <1>3, <1>4, <1>5, <1>6, <1>7, ChangePasswordReads, UpdateRoleReads
    DEF Begin

-----------------------------------------------------------------------------
(* Requests that write *)

\* A handler that answers is Waiting, and the others are where they were.
LEMMA AnswerOne ==
    ASSUME AccountsInv, NEW r \in Requests, Answer(r)
    PROVE  /\ request'[r] = Waiting
           /\ \A s \in Requests \ {r} : request'[s] = request[s]
           /\ request' \in [Requests -> Pending \cup {Waiting}]
           /\ \A s \in Requests : RequestSound(request'[s])
           /\ CreationsApart'
  <1>1. /\ request'[r] = Waiting
        /\ \A s \in Requests \ {r} : request'[s] = request[s]
        /\ request' \in [Requests -> Pending \cup {Waiting}]
    BY DEF AccountsInv, AccountsTypeOK, Answer
  <1>2. RequestSound(Waiting) /\ ~ Creating(Waiting)
    BY DEF RequestSound, Creating, WritesBack, Waiting
  <1>3. CreationsApart'
    BY <1>1, <1>2 DEF AccountsInv, CreationsApart, Creating
  <1> QED
    BY <1>1, <1>2, <1>3 DEF AccountsInv

\* The row of an existing account is replaced by one with the same address;
\* as long as nothing else was writing it, the version does not go back and the
\* row tells the truth about the passwords before its own.
Replacing(r, u, row) ==
    /\ u \in Accounts
    /\ users' = [users EXCEPT ![u] = row]
    /\ row \in User
    /\ row.email = users[u].email
    /\ Answer(r)
    /\ sessions \subseteq sessions' /\ sessions' \subseteq Session
    /\ revoked \subseteq revoked' /\ revoked' \subseteq sessions'
    /\ \A s \in sessions' : s.user \in Accounts
    /\ u \notin overlapped =>
         /\ users[u].version <= row.version
         /\ \A s \in sessions' : s.user = u => s.version <= row.version
         /\ \A s \in revoked' \ revoked : s.user = u => s.version < row.version
         /\ row.version # users[u].version => WritesBack(request[r]) /\ request[r].user = u
         /\ former'[u].first = row.previous1 /\ former'[u].second = row.previous2
         /\ SamePasswords(row, users[u]) \/ (WritesBack(request[r]) /\ request[r].user = u)
    /\ former' \in [Users -> Former]
    /\ \A v \in Users \ {u} : former'[v] = former[v]
    /\ \A s \in (sessions' \ sessions) \cup (revoked' \ revoked) : s.user = u
    /\ UNCHANGED <<roles, overlapped, creationLock, accepted>>

\* A write-back keeps the invariant.
LEMMA ReplacingKeeps ==
    ASSUME AccountsInv, NEW r \in Requests, NEW u, NEW row, Replacing(r, u, row)
    PROVE  AccountsInv'
  <1>T. AccountsTypeOK
    BY DEF AccountsInv
  <1>R. /\ u \in Users /\ row # Null /\ users'[u] = row
        /\ \A v \in Users \ {u} : users'[v] = users[v]
        /\ users' \in [Users -> User \cup {Null}]
    BY <1>T, AccountsAssumption DEF AccountsTypeOK, Replacing, Accounts
  <1>A. Accounts' = Accounts
    BY <1>R DEF Replacing, Accounts
  <1>E. \A v \in Accounts : users'[v].email = users[v].email
    BY <1>R DEF Replacing, Accounts
  <1>Q. /\ request'[r] = Waiting
        /\ \A s \in Requests \ {r} : request'[s] = request[s]
        /\ request' \in [Requests -> Pending \cup {Waiting}]
        /\ \A s \in Requests : RequestSound(request'[s])
        /\ CreationsApart'
    BY AnswerOne DEF Replacing
  <1>1. AccountsTypeOK'
    BY <1>T, <1>R, <1>Q DEF AccountsTypeOK, Replacing
  <1>2. AccountsSound'
    BY <1>A, <1>E DEF AccountsInv, AccountsSound, Replacing
  <1>3. \A v \in Users \ Accounts' : former'[v].first = Null /\ former'[v].second = Null
    BY <1>A, <1>R DEF AccountsInv, Replacing
  <1>4. ASSUME NEW s \in Requests PROVE RequestSound(request[s])'
    <2>1. RequestSound(request'[s])
      BY <1>Q
    <2> QED
      BY <2>1, <1>A, <1>E DEF RequestSound
  <1>5. ASSUME NEW v \in Accounts', v \notin overlapped' PROVE VersionsOrdered(v)'
    <2>0. v \in Accounts /\ v \notin overlapped /\ VersionsOrdered(v)
      BY <1>5, <1>A DEF AccountsInv, Replacing
    <2>W. ~ WritesBack(Waiting) /\ Waiting.stage # "delivering"
      BY DEF WritesBack, Waiting
    <2>1. CASE v # u
      <3>1. users'[v] = users[v]
        BY <2>1, <2>0, <1>R DEF Accounts
      <3>2. /\ \A s \in sessions' : s.user = v => s \in sessions
            /\ \A s \in revoked' : s.user = v => s \in revoked
        BY <2>1 DEF Replacing
      <3> QED
        BY <3>1, <3>2, <2>0, <2>W, <1>Q DEF VersionsOrdered, WritesBack
    <2>2. CASE v = u
      <3>0. users'[v] = row /\ users[v].version \in Nat /\ row.version \in Nat
        BY <2>2, <2>0, <1>R, SessionType DEF Replacing, User
      <3>1. users[v].version <= row.version
        BY <2>2, <2>0 DEF Replacing
      <3>2. \A s \in sessions' : s.user = v => s.version <= row.version
        BY <2>2, <2>0 DEF Replacing
      <3>3. ASSUME NEW s \in revoked', s.user = v PROVE s.version < row.version
        <4>1. CASE s \in revoked
          <5>1. s.version < users[v].version /\ s.version \in Nat
            BY <4>1, <3>3, <2>0, <1>T DEF VersionsOrdered, AccountsTypeOK, Session
          <5> QED
            BY <5>1, <3>0, <3>1
        <4>2. CASE s \notin revoked
          BY <4>2, <3>3, <2>2, <2>0 DEF Replacing
        <4> QED
          BY <4>1, <4>2
      <3>4. ASSUME NEW s \in Requests, request'[s].stage = "delivering",
                   request'[s].session.user = v
            PROVE  request'[s].session.version <= row.version
        <4>1. s # r /\ request'[s] = request[s]
          BY <3>4, <1>Q, <2>W
        <4>2. request[s].session.version <= users[v].version
              /\ request[s].session.version \in Nat
          <5>1. request[s] \in Pending \cup {Waiting}
            BY <1>T DEF AccountsTypeOK
          <5>2. request[s].session \in Session
            BY <5>1, <4>1, <3>4, PendingByStage
          <5> QED
            BY <5>2, <4>1, <3>4, <2>0 DEF VersionsOrdered, Session
        <4> QED
          BY <4>1, <4>2, <3>0, <3>1
      <3>5. ASSUME NEW s \in Requests, WritesBack(request'[s]), request'[s].user = v
            PROVE  request'[s].row.version =
                     row.version + (IF request'[s].signOut THEN 1 ELSE 0)
        <4>1. s # r /\ request'[s] = request[s]
          BY <3>5, <1>Q, <2>W
        <4>2. row.version = users[v].version
          BY <4>1, <3>5, <2>2, <2>0 DEF Replacing, VersionsOrdered
        <4> QED
          BY <4>1, <4>2, <3>5, <2>0 DEF VersionsOrdered
      <3>6. ASSUME NEW s \in Requests, NEW x \in Requests,
                   WritesBack(request'[s]), request'[s].user = v,
                   WritesBack(request'[x]), request'[x].user = v
            PROVE  s = x
        BY <3>6, <2>0, <2>W, <1>Q DEF VersionsOrdered
      <3> QED
        BY <3>0, <3>2, <3>3, <3>4, <3>5, <3>6 DEF VersionsOrdered, WritesBack
    <2> QED
      BY <2>1, <2>2
  <1>6. ASSUME NEW v \in Accounts', v \notin overlapped' PROVE HistoryKept(v)'
    <2>0. v \in Accounts /\ v \in Users /\ v \notin overlapped
          /\ HistoryKept(v) /\ VersionsOrdered(v)
      BY <1>6, <1>A DEF AccountsInv, Replacing, Accounts
    <2>W. ~ WritesBack(Waiting)
      BY DEF WritesBack, Waiting
    <2>1. former'[v].first = users'[v].previous1 /\ former'[v].second = users'[v].previous2
      <3>1. CASE v # u
        BY <3>1, <2>0, <1>R DEF HistoryKept, Replacing
      <3>2. CASE v = u
        BY <3>2, <2>0, <1>R DEF Replacing
      <3> QED
        BY <3>1, <3>2
    <2>2. ASSUME NEW s \in Requests, WritesBack(request'[s]), request'[s].user = v
          PROVE  Succeeds(request'[s], users'[v])
      <3>1. s # r /\ request'[s] = request[s] /\ Succeeds(request[s], users[v])
        BY <2>2, <2>0, <2>W, <1>Q DEF HistoryKept
      <3>2. SamePasswords(users'[v], users[v])
        BY <3>1, <2>0, <2>2, <1>R DEF Replacing, SamePasswords, VersionsOrdered
      <3> QED
        BY <3>1, <3>2 DEF Succeeds, SamePasswords, Reused
    <2> QED
      BY <2>1, <2>2 DEF HistoryKept, WritesBack, Succeeds
  <1> QED
    BY <1>1, <1>2, <1>3, <1>4, <1>5, <1>6, <1>Q, <1>A DEF AccountsInv, Replacing

\* Storing the delivery address replaces the row as it is now.
LEMMA StoreReplaces ==
    ASSUME AccountsInv, NEW r \in Requests, StoreDeliveryEmail(r)
    PROVE  \E u, row : Replacing(r, u, row)
  <1> DEFINE q == request[r]
             x == q.session
             u == x.user
             old == users[u]
             row == [old EXCEPT !.delivery = TRUE]
  <1>1. q.stage = "delivering" /\ q \in Pending \cup {Waiting} /\ RequestSound(q)
    BY DEF StoreDeliveryEmail, AccountsInv, AccountsTypeOK
  <1>2. x \in Session /\ u \in Accounts
    BY <1>1, PendingByStage DEF RequestSound
  <1>3. /\ old \in User
        /\ u \notin overlapped => /\ former[u].first = old.previous1
                                  /\ former[u].second = old.previous2
    BY <1>2, SessionType DEF AccountsInv, HistoryKept
  <1>4. /\ users' = [users EXCEPT ![u] = row]
        /\ sessions' = sessions \cup {x}
        /\ Answer(r)
        /\ UNCHANGED <<roles, revoked, former, overlapped, creationLock, accepted>>
    BY DEF StoreDeliveryEmail, Issue
  <1>5. /\ sessions \subseteq Session /\ revoked \subseteq sessions
        /\ \A s \in sessions : s.user \in Accounts
        /\ former \in [Users -> Former]
    BY DEF AccountsInv, AccountsTypeOK
  <1>6. u \notin overlapped =>
          /\ x.version <= old.version
          /\ \A s \in sessions : s.user = u => s.version <= old.version
    BY <1>1, <1>2 DEF AccountsInv, VersionsOrdered
  <1> HIDE DEF q, old
  <1>7. /\ row \in User /\ row.email = old.email /\ SamePasswords(row, old)
        /\ row.version = old.version /\ row.version \in Nat
    BY <1>3 DEF User, SamePasswords
  <1> HIDE DEF x, row
  <1>8. u \notin overlapped => former'[u].first = row.previous1 /\ former'[u].second = row.previous2
    BY <1>3, <1>4, <1>7 DEF SamePasswords
  <1>9. Replacing(r, u, row)
    BY <1>2, <1>4, <1>5, <1>6, <1>7, <1>8 DEF Replacing, old
  <1> QED
    BY <1>9

\* Update and UpdatePassword write the row that was read, with the columns
\* they leave alone as they are now.
LEMMA WriteBackReplaces ==
    ASSUME AccountsInv, NEW r \in Requests, WritesBack(request[r]), NEW row,
           users' = [users EXCEPT ![request[r].user] = row],
           request[r].row \in User /\ users[request[r].user] \in User =>
             /\ row \in User
             /\ row.email = request[r].row.email
             /\ row.version = request[r].row.version
             /\ SamePasswords(row, request[r].row),
           Revoke(request[r]), Remember(request[r].user, request[r].row.password), Answer(r),
           UNCHANGED <<roles, sessions, overlapped, creationLock, accepted>>
    PROVE  \E u : Replacing(r, u, row)
  <1> DEFINE q == request[r]
             u == q.user
  <1>1. q \in Pending \cup {Waiting} /\ RequestSound(q)
    BY DEF AccountsInv, AccountsTypeOK
  <1>2. /\ u \in Accounts /\ q.row \in User /\ q.signOut \in BOOLEAN
        /\ q.row.email = users[u].email
    BY <1>1, PendingByStage DEF RequestSound
  <1>3. users[u] \in User /\ users[u].version \in Nat
    BY <1>2, SessionType
  <1>4. /\ row \in User /\ row.email = users[u].email /\ SamePasswords(row, q.row)
        /\ row.version = q.row.version
    BY <1>2, <1>3
  <1>5. /\ sessions \subseteq Session /\ revoked \subseteq sessions
        /\ \A s \in sessions : s.user \in Accounts
        /\ \A s \in sessions : s.version \in Nat
    BY DEF AccountsInv, AccountsTypeOK, Session
  <1>6. revoked' = IF q.signOut THEN revoked \cup {s \in sessions : s.user = u} ELSE revoked
    BY DEF Revoke
  <1>7. u \notin overlapped =>
          /\ row.version = users[u].version + (IF q.signOut THEN 1 ELSE 0)
          /\ \A s \in sessions : s.user = u => s.version <= users[u].version
    BY <1>2, <1>4 DEF AccountsInv, VersionsOrdered
  <1>8. u \notin overlapped =>
         /\ users[u].version <= row.version
         /\ \A s \in sessions : s.user = u => s.version <= row.version
         /\ \A s \in revoked' \ revoked : s.user = u => s.version < row.version
    <2> HIDE DEF u, q
    <2>1. CASE q.signOut
      BY <2>1, <1>3, <1>5, <1>6, <1>7
    <2>2. CASE ~ q.signOut
      BY <2>2, <1>2, <1>3, <1>5, <1>6, <1>7
    <2> QED
      BY <2>1, <2>2
  <1>9. /\ revoked \subseteq revoked' /\ revoked' \subseteq sessions
        /\ \A s \in revoked' \ revoked : s.user = u
    BY <1>5, <1>6
  <1>10. /\ former' \in [Users -> Former]
         /\ \A v \in Users \ {u} : former'[v] = former[v]
         /\ q.row.password = users[u].password => former' = former
         /\ q.row.password # users[u].password =>
              /\ former'[u].first = users[u].password
              /\ former'[u].second = former[u].first
    <2>1. former \in [Users -> Former] /\ u \in Users
          /\ former[u].first \in Passwords \cup {Null} /\ users[u].password \in Passwords
      BY <1>2, <1>3 DEF AccountsInv, AccountsTypeOK, Former, Accounts, User
    <2> DEFINE pair == [first |-> users[u].password, second |-> former[u].first]
    <2>2. pair \in Former /\ pair.first = users[u].password /\ pair.second = former[u].first
      BY <2>1 DEF Former
    <2>3. former' = IF q.row.password = users[u].password
                    THEN former ELSE [former EXCEPT ![u] = pair]
      BY DEF Remember
    <2> HIDE DEF pair, u, q
    <2> QED
      BY <2>1, <2>2, <2>3
  <1>11. u \notin overlapped =>
           former'[u].first = row.previous1 /\ former'[u].second = row.previous2
    <2> SUFFICES ASSUME u \notin overlapped
                 PROVE  former'[u].first = row.previous1 /\ former'[u].second = row.previous2
      OBVIOUS
    <2>1. /\ former[u].first = users[u].previous1 /\ former[u].second = users[u].previous2
          /\ Succeeds(q, users[u])
      BY <1>2 DEF AccountsInv, HistoryKept
    <2> HIDE DEF u, q
    <2> QED
      BY <2>1, <1>4, <1>10 DEF Succeeds, SamePasswords, Reused
  <1>12. Replacing(r, u, row)
    BY <1>2, <1>4, <1>5, <1>8, <1>9, <1>10, <1>11 DEF Replacing
  <1> QED
    BY <1>12

\* Update and UpdatePassword write back the row their request read.
LEMMA UpdatesReplace ==
    ASSUME AccountsInv, NEW r \in Requests, Update(r) \/ UpdatePassword(r)
    PROVE  \E u, row : Replacing(r, u, row)
  <1> DEFINE old == request[r].row
             now == users[request[r].user]
  <1>1. CASE Update(r)
    <2> DEFINE row == [old EXCEPT !.delivery = now.delivery]
    <2>1. old \in User /\ now \in User =>
            /\ row \in User
            /\ row.email = old.email
            /\ row.version = old.version
            /\ SamePasswords(row, old)
      <3> HIDE DEF old, now
      <3> QED
        BY DEF User, SamePasswords
    <2>2. /\ WritesBack(request[r])
          /\ users' = [users EXCEPT ![request[r].user] = row]
          /\ Revoke(request[r]) /\ Remember(request[r].user, request[r].row.password)
          /\ Answer(r)
          /\ UNCHANGED <<roles, sessions, overlapped, creationLock, accepted>>
      BY <1>1 DEF Update, WritesBack
    <2> HIDE DEF row
    <2>3. \E u : Replacing(r, u, row)
      BY <2>1, <2>2, WriteBackReplaces
    <2> QED
      BY <2>3
  <1>2. CASE UpdatePassword(r)
    <2> DEFINE row == [old EXCEPT !.delivery = now.delivery, !.status = now.status]
    <2>1. old \in User /\ now \in User =>
            /\ row \in User
            /\ row.email = old.email
            /\ row.version = old.version
            /\ SamePasswords(row, old)
      <3> HIDE DEF old, now
      <3> QED
        BY DEF User, SamePasswords
    <2>2. /\ WritesBack(request[r])
          /\ users' = [users EXCEPT ![request[r].user] = row]
          /\ Revoke(request[r]) /\ Remember(request[r].user, request[r].row.password)
          /\ Answer(r)
          /\ UNCHANGED <<roles, sessions, overlapped, creationLock, accepted>>
      BY <1>2 DEF UpdatePassword, WritesBack
    <2> HIDE DEF row
    <2>3. \E u : Replacing(r, u, row)
      BY <2>1, <2>2, WriteBackReplaces
    <2> QED
      BY <2>3
  <1> QED
    BY <1>1, <1>2

\* An account and its role appear together, for a UUID nobody else knows.
LEMMA CreateWithRoleKeeps ==
    ASSUME AccountsInv, NEW r \in Requests, CreateWithRole(r)
    PROVE  AccountsInv'
  <1> DEFINE q == request[r]
             n == q.user
             row == q.row
             role == q.role
  <1>T. AccountsTypeOK
    BY DEF AccountsInv
  <1>1. q.stage = "creating" /\ q \in Pending \cup {Waiting} /\ RequestSound(q)
    BY DEF CreateWithRole, AccountsInv, AccountsTypeOK
  <1>2. /\ n \in Users /\ n \notin Accounts /\ row \in User /\ role \in GlobalRole
        /\ row.previous1 = Null /\ row.previous2 = Null
        /\ former[n].first = Null /\ former[n].second = Null
    BY <1>1, PendingByStage DEF RequestSound, Creating, AccountsInv
  <1>3. /\ ~ EmailTaken(row.email)
        /\ users' = [users EXCEPT ![n] = row]
        /\ roles' = [roles EXCEPT ![n] = role]
        /\ UnlockCreation(r) /\ Answer(r)
        /\ UNCHANGED <<sessions, revoked, former, overlapped, accepted>>
    BY DEF CreateWithRole
  <1>Q. /\ request'[r] = Waiting
        /\ \A s \in Requests \ {r} : request'[s] = request[s]
        /\ request' \in [Requests -> Pending \cup {Waiting}]
        /\ \A s \in Requests : RequestSound(request'[s])
        /\ CreationsApart'
    BY <1>3, AnswerOne
  <1>F. \A s \in Requests \ {r} : Creating(request[s]) => request[s].user # n
    BY <1>1 DEF AccountsInv, CreationsApart, Creating
  <1> HIDE DEF q, n, row, role
  <1>R. /\ users'[n] = row /\ \A v \in Users \ {n} : users'[v] = users[v]
        /\ users' \in [Users -> User \cup {Null}]
        /\ roles'[n] = role /\ \A v \in Users \ {n} : roles'[v] = roles[v]
        /\ roles' \in [Users -> GlobalRole \cup {Null}]
        /\ row # Null /\ role # Null
    BY <1>T, <1>2, <1>3, AccountsAssumption DEF AccountsTypeOK
  <1>A. Accounts' = Accounts \cup {n}
    BY <1>2, <1>R DEF Accounts
  <1>4. AccountsTypeOK'
    BY <1>T, <1>3, <1>R, <1>Q DEF AccountsTypeOK, UnlockCreation
  <1>5. AccountsSound'
    <2>1. \A u, v \in Accounts' : u # v => users'[u].email # users'[v].email
      BY <1>A, <1>2, <1>3, <1>R DEF AccountsInv, AccountsSound, EmailTaken, Accounts
    <2>2. \A u \in Users : u \in Accounts' <=> roles'[u] # Null
      BY <1>A, <1>2, <1>R DEF AccountsInv, AccountsSound
    <2> QED
      BY <2>1, <2>2 DEF AccountsSound
  <1>6. \A u \in Users \ Accounts' : former'[u].first = Null /\ former'[u].second = Null
    BY <1>A, <1>3 DEF AccountsInv
  <1>7. ASSUME NEW s \in Requests PROVE RequestSound(request[s])'
    <2>1. RequestSound(request'[s]) /\ (Creating(request'[s]) => request'[s].user # n)
      BY <1>Q, <1>F DEF Creating, Waiting
    <2>2. \A v \in Accounts : v \in Accounts' /\ users'[v] = users[v]
      BY <1>A, <1>2, <1>R DEF Accounts
    <2> QED
      BY <2>1, <2>2, <1>A DEF RequestSound, Creating, WritesBack
  <1>8. ASSUME NEW v \in Accounts', v \notin overlapped' PROVE VersionsOrdered(v)'
    <2>W. ~ WritesBack(Waiting) /\ Waiting.stage # "delivering"
      BY DEF WritesBack, Waiting
    <2>1. CASE v = n
      <3>1. \A s \in sessions : s.user # v
        BY <2>1, <1>2 DEF AccountsInv
      <3>2. \A s \in revoked : s.user # v
        BY <3>1, <1>T DEF AccountsTypeOK
      <3>3. \A s \in Requests :
              /\ request'[s].stage = "delivering" => request'[s].session.user # v
              /\ WritesBack(request'[s]) => request'[s].user # v
        BY <2>1, <2>W, <1>2, <1>Q DEF RequestSound
      <3> QED
        BY <3>1, <3>2, <3>3, <1>3 DEF VersionsOrdered, WritesBack
    <2>2. CASE v # n
      <3>1. v \in Accounts /\ v \notin overlapped /\ users'[v] = users[v] /\ VersionsOrdered(v)
        BY <2>2, <1>8, <1>3, <1>A, <1>R DEF Accounts, AccountsInv
      <3> QED
        BY <3>1, <2>W, <1>3, <1>Q DEF VersionsOrdered, WritesBack
    <2> QED
      BY <2>1, <2>2
  <1>9. ASSUME NEW v \in Accounts', v \notin overlapped' PROVE HistoryKept(v)'
    <2>W. ~ WritesBack(Waiting)
      BY DEF WritesBack, Waiting
    <2>1. CASE v = n
      <3>1. \A s \in Requests : WritesBack(request'[s]) => request'[s].user # v
        BY <2>1, <2>W, <1>2, <1>Q DEF RequestSound
      <3> QED
        BY <2>1, <3>1, <1>2, <1>3, <1>R DEF HistoryKept, WritesBack
    <2>2. CASE v # n
      <3>1. v \in Accounts /\ v \notin overlapped /\ users'[v] = users[v] /\ HistoryKept(v)
        BY <2>2, <1>9, <1>3, <1>A, <1>R DEF Accounts, AccountsInv
      <3>2. \A s \in Requests : WritesBack(request'[s]) => request'[s] = request[s]
        BY <2>W, <1>Q
      <3> QED
        BY <3>1, <3>2, <1>3 DEF HistoryKept, WritesBack, Succeeds, Reused
    <2> QED
      BY <2>1, <2>2
  <1> QED
    BY <1>4, <1>5, <1>6, <1>7, <1>8, <1>9, <1>Q, <1>A, <1>3 DEF AccountsInv

\* A role is replaced by another; the account keeps one.
LEMMA CreateUserRoleKeeps ==
    ASSUME AccountsInv, NEW r \in Requests, CreateUserRole(r)
    PROVE  AccountsInv'
  <1> DEFINE q == request[r]
  <1>T. AccountsTypeOK
    BY DEF AccountsInv
  <1>1. q.stage = "granting" /\ q \in Pending \cup {Waiting} /\ RequestSound(q)
    BY DEF CreateUserRole, AccountsInv, AccountsTypeOK
  <1>2. q.user \in Accounts /\ q.user \in Users /\ q.role \in GlobalRole
    BY <1>1, PendingByStage DEF RequestSound
  <1>3. /\ roles' = [roles EXCEPT ![q.user] = q.role] /\ Answer(r)
        /\ UNCHANGED <<users, sessions, revoked, former, overlapped, creationLock, accepted>>
    BY DEF CreateUserRole
  <1>Q. /\ request'[r] = Waiting
        /\ \A s \in Requests \ {r} : request'[s] = request[s]
        /\ request' \in [Requests -> Pending \cup {Waiting}]
        /\ \A s \in Requests : RequestSound(request'[s])
        /\ CreationsApart'
    BY <1>3, AnswerOne
  <1>A. Accounts' = Accounts
    BY <1>3 DEF Accounts
  <1>4. roles' \in [Users -> GlobalRole \cup {Null}]
        /\ \A u \in Users : roles'[u] # Null <=> roles[u] # Null
    BY <1>T, <1>2, <1>3, AccountsAssumption DEF AccountsTypeOK, AccountsInv, AccountsSound
  <1> HIDE DEF q
  <1>5. /\ AccountsTypeOK' /\ AccountsSound'
        /\ \A u \in Users \ Accounts' : former'[u].first = Null /\ former'[u].second = Null
    BY <1>T, <1>3, <1>4, <1>Q, <1>A DEF AccountsTypeOK, AccountsInv, AccountsSound
  <1>6. ASSUME NEW s \in Requests PROVE RequestSound(request[s])'
    <2>1. RequestSound(request'[s])
      BY <1>Q
    <2> QED
      BY <2>1, <1>3, <1>A DEF RequestSound
  <1>7. ASSUME NEW v \in Accounts', v \notin overlapped' PROVE VersionsOrdered(v)'
    <2>W. ~ WritesBack(Waiting) /\ Waiting.stage # "delivering"
      BY DEF WritesBack, Waiting
    <2>1. v \in Accounts /\ v \notin overlapped /\ VersionsOrdered(v)
      BY <1>7, <1>3, <1>A DEF AccountsInv
    <2> QED
      BY <2>1, <2>W, <1>3, <1>Q DEF VersionsOrdered, WritesBack
  <1>8. ASSUME NEW v \in Accounts', v \notin overlapped' PROVE HistoryKept(v)'
    <2>1. v \in Accounts /\ HistoryKept(v)
      BY <1>8, <1>3, <1>A DEF AccountsInv
    <2>2. \A s \in Requests : WritesBack(request'[s]) => request'[s] = request[s]
      BY <1>Q DEF WritesBack, Waiting
    <2> QED
      BY <2>1, <2>2, <1>3 DEF HistoryKept, WritesBack, Succeeds, Reused
  <1> QED
    BY <1>5, <1>6, <1>7, <1>8, <1>Q, <1>A, <1>3 DEF AccountsInv

-----------------------------------------------------------------------------
\* AccountsInv is inductive: every step of the auth module reads, replaces a
\* row, creates an account or replaces a role.
LEMMA AccountsStep ==
    ASSUME AccountsInv, AccountsNext
    PROVE  AccountsInv'
  <1>1. PICK r \in Requests : \/ Begin(r) \/ LockInitialAccountCreation(r)
                              \/ Finish(r) \/ Abandon(r)
    BY DEF AccountsNext
  <1>2. CASE Begin(r)
    BY <1>2, BeginReads, ReadingKeeps
  <1>3. CASE LockInitialAccountCreation(r)
    BY <1>3, LockReads, ReadingKeeps
  <1>4. CASE CreateRefused(r) \/ Abandon(r)
    <2>1. Reading(r, Waiting)
      BY <1>4, AnswerReads DEF CreateRefused, Abandon, account
    <2> QED
      BY <2>1, ReadingKeeps
  <1>5. CASE StoreDeliveryEmail(r)
    BY <1>5, StoreReplaces, ReplacingKeeps
  <1>6. CASE Update(r) \/ UpdatePassword(r)
    BY <1>6, UpdatesReplace, ReplacingKeeps
  <1>7. CASE CreateWithRole(r)
    BY <1>7, CreateWithRoleKeeps
  <1>8. CASE CreateUserRole(r)
    BY <1>8, CreateUserRoleKeeps
  <1> QED
    BY <1>1, <1>2, <1>3, <1>4, <1>5, <1>6, <1>7, <1>8 DEF Finish

\* The tables a behaviour starts with, with everybody signed in.
LEMMA AccountsStart ==
    ASSUME NEW created \in [Users -> User \cup {Null}],
           NEW assigned \in [Users -> GlobalRole \cup {Null}],
           \A u \in Users : created[u] # Null <=> assigned[u] # Null,
           \A u, v \in Users : u # v /\ created[u] # Null /\ created[v] # Null
                                 => created[u].email # created[v].email,
           AccountsInit(created, assigned), accepted \in Nat
    PROVE  AccountsInv
  <1>1. /\ users = created /\ roles = assigned /\ revoked = {} /\ overlapped = {}
        /\ creationLock = Null
        /\ sessions = {SessionOf(u, users[u], roles[u]) : u \in Accounts}
        /\ \A r \in Requests : request[r] = Waiting
        /\ request \in [Requests -> Pending \cup {Waiting}]
    BY DEF AccountsInit
  <1>2. AccountsSound
    BY <1>1 DEF AccountsSound, Accounts
  <1>H. /\ former \in [Users -> Former]
        /\ \A u \in Accounts : former[u].first = users[u].previous1
                              /\ former[u].second = users[u].previous2
        /\ \A u \in Users \ Accounts : former[u].first = Null /\ former[u].second = Null
    BY <1>1 DEF AccountsInit, Former, Accounts, User
  <1>3. ASSUME NEW s \in sessions
        PROVE  s \in Session /\ s.user \in Accounts /\ s.version = users[s.user].version
               /\ s.version \in Nat
    <2>1. PICK u \in Accounts : s = SessionOf(u, users[u], roles[u])
      BY <1>1
    <2>2. u \in Users /\ users[u] \in User /\ roles[u] \in GlobalRole
      BY <1>1, <2>1 DEF Accounts
    <2> QED
      BY <2>1, <2>2 DEF SessionOf, Session, User
  <1>4. AccountsTypeOK
    BY <1>1, <1>3, <1>H DEF AccountsTypeOK
  <1>W. ~ WritesBack(Waiting) /\ Waiting.stage # "delivering" /\ ~ Creating(Waiting)
        /\ RequestSound(Waiting)
    BY DEF WritesBack, Waiting, Creating, RequestSound
  <1>5. ASSUME NEW u \in Accounts PROVE VersionsOrdered(u)
    <2>1. \A s \in sessions : s.user = u => s.version <= users[u].version
      BY <1>3
    <2>2. revoked = {} /\ \A r \in Requests : request[r] = Waiting
      BY <1>1
    <2> QED
      BY <2>1, <2>2, <1>W DEF VersionsOrdered
  <1>6. \A u \in Accounts : HistoryKept(u)
    BY <1>1, <1>H, <1>W DEF HistoryKept, Accounts
  <1> QED
    BY <1>1, <1>2, <1>3, <1>4, <1>5, <1>6, <1>H, <1>W DEF AccountsInv, CreationsApart

\* What the proofs of the other components need of the accounts: an account
\* never disappears.
LEMMA AccountsGrow ==
    ASSUME AccountsInv, AccountsNext
    PROVE  Accounts \subseteq Accounts'
  <1>1. PICK r \in Requests : \/ Begin(r) \/ LockInitialAccountCreation(r)
                              \/ Finish(r) \/ Abandon(r)
    BY DEF AccountsNext
  <1>2. ASSUME NEW q, Reading(r, q) PROVE Accounts \subseteq Accounts'
    BY <1>2 DEF Reading, Accounts
  <1>3. ASSUME NEW u, NEW row, Replacing(r, u, row) PROVE Accounts \subseteq Accounts'
    BY <1>3, AccountsAssumption DEF Replacing, Accounts, AccountsInv, AccountsTypeOK
  <1>4. CASE Begin(r)
    BY <1>4, <1>2, BeginReads
  <1>5. CASE LockInitialAccountCreation(r) \/ CreateRefused(r) \/ Abandon(r)
             \/ CreateUserRole(r)
    BY <1>5 DEF LockInitialAccountCreation, CreateRefused, Abandon, CreateUserRole,
                Accounts, account
  <1>6. CASE StoreDeliveryEmail(r) \/ Update(r) \/ UpdatePassword(r)
    BY <1>6, <1>3, StoreReplaces, UpdatesReplace
  <1>7. CASE CreateWithRole(r)
    <2>1. request[r].row \in User /\ request[r].user \in Users
      <3>1. request[r] \in Pending \cup {Waiting} /\ Creating(request[r])
        BY <1>7 DEF AccountsInv, AccountsTypeOK, CreateWithRole, Creating
      <3> QED
        BY <3>1, PendingByStage
    <2> QED
      BY <2>1, <1>7, AccountsAssumption DEF CreateWithRole, Accounts, AccountsInv, AccountsTypeOK
  <1> QED
    BY <1>1, <1>4, <1>5, <1>6, <1>7 DEF Finish

\* Without overlapping write-backs no password change repeats a password: the
\* columns it was compared with are the passwords that were in force.
LEMMA ReuseStep ==
    ASSUME AccountsInv, AccountsNext, NEW r \in Requests, RepeatsPassword(r)
    PROVE  request[r].user \in overlapped
  <1> DEFINE q == request[r]
             u == q.user
  <1>1. /\ q.stage = "changing_password" /\ request'[r] # q
        /\ users'[u].password # users[u].password
        /\ users'[u].password \in {former[u].first, former[u].second}
    BY DEF RepeatsPassword
  <1>2. WritesBack(q) /\ u \in Accounts /\ q \in Pending \cup {Waiting} /\ q.row \in User
    BY <1>1, PendingByStage DEF AccountsInv, AccountsTypeOK, RequestSound, WritesBack
  <1>3. PICK s \in Requests : \/ Begin(s) \/ LockInitialAccountCreation(s)
                              \/ Finish(s) \/ Abandon(s)
    BY DEF AccountsNext
  <1>4. ASSUME NEW x, Reading(s, x) PROVE FALSE
    BY <1>4, <1>1 DEF Reading
  <1>5. ~ (Begin(s) \/ LockInitialAccountCreation(s) \/ CreateRefused(s) \/ Abandon(s)
           \/ CreateUserRole(s))
    BY <1>1, <1>4, BeginReads
    DEF LockInitialAccountCreation, CreateRefused, Abandon, CreateUserRole, account
  <1>6. StoreDeliveryEmail(s) \/ Update(s) \/ UpdatePassword(s) \/ CreateWithRole(s)
    BY <1>3, <1>5 DEF Finish
  <1>7. s = r
    <2>1. Answer(s)
      BY <1>6 DEF StoreDeliveryEmail, Update, UpdatePassword, CreateWithRole
    <2> QED
      BY <2>1, <1>1 DEF Answer, AccountsInv, AccountsTypeOK
  <1>8. UpdatePassword(r)
    BY <1>1, <1>6, <1>7 DEF StoreDeliveryEmail, Update, CreateWithRole
  <1>9. users'[u].password = q.row.password
    <2> DEFINE old == q.row
               now == users[u]
               row == [old EXCEPT !.delivery = now.delivery, !.status = now.status]
    <2>1. users' = [users EXCEPT ![u] = row]
      BY <1>8 DEF UpdatePassword
    <2>2. row.password = old.password
      <3> HIDE DEF old, now
      <3> QED
        BY <1>2 DEF User, old
    <2> HIDE DEF row
    <2> QED
      BY <2>1, <2>2, <1>2 DEF AccountsInv, AccountsTypeOK, Accounts
  <1>10. ASSUME u \notin overlapped PROVE FALSE
    <2>1. /\ former[u].first = users[u].previous1 /\ former[u].second = users[u].previous2
          /\ Succeeds(q, users[u])
      BY <1>2, <1>10 DEF AccountsInv, HistoryKept
    <2> HIDE DEF u, q
    <2> QED
      BY <2>1, <1>1, <1>9 DEF Succeeds, Reused
  <1> QED
    BY <1>10

\* Without overlapping write-backs a revoked pair is older than its account.
LEMMA VersionsRevoke ==
    ASSUME AccountsInv
    PROVE  RevivalNeedsOverlap
  <1> SUFFICES ASSUME NEW s \in revoked, s.user \notin overlapped
               PROVE  users[s.user].version # s.version
    BY DEF RevivalNeedsOverlap
  <1>1. s \in sessions /\ s \in Session /\ s.user \in Accounts
    BY DEF AccountsInv, AccountsTypeOK
  <1>2. s.version < users[s.user].version /\ users[s.user].version \in Nat
        /\ s.version \in Nat
    BY <1>1, SessionType DEF AccountsInv, VersionsOrdered, Session
  <1> QED
    BY <1>2
=============================================================================
