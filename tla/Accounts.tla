------------------------------ MODULE Accounts ------------------------------
(***************************************************************************)
(* The auth module: creation of accounts under its advisory lock, sign-in, *)
(* refresh and revocation of sessions, password history, account status    *)
(* and global roles.  Account creation is one REPEATABLE READ transaction; *)
(* every other operation reads a row in one statement and writes it back   *)
(* in a later one, with nothing that notices a change in between.          *)
(* Full names, which no other operation reads, are left out of the rows.   *)
(***************************************************************************)
EXTENDS Integers

CONSTANTS
    Users,          \* the UUIDs uuid.New() can draw
    Emails,         \* normalized addresses; their keyed lookups are distinct
    Passwords,      \* passwords that match the required pattern
    Requests,       \* concurrent auth handlers
    MaxRequests,    \* bound: requests accepted in one behaviour
    Null            \* no row, no password, an unheld lock

VARIABLES
    users,          \* auth.users: [Users -> row or Null]
    roles,          \* auth.user_roles: [Users -> role or Null]
    sessions,       \* the token pairs issued so far
    revoked,        \* history: the pairs a confirmed sign-out has covered
    former,         \* history: the two passwords last in force before this one
    overlapped,     \* history: accounts two write-backs were under way for
    creationLock,   \* pg_advisory_xact_lock(48201945): its holder or Null
    request,        \* [Requests -> state of the handler]
    accepted        \* requests so far, capped by MaxRequests

account == <<users, roles>>
accountVars == <<users, roles, sessions, revoked, former, overlapped,
                 creationLock, request>>

GlobalRole == {"superadmin", "admin", "user"}
AccountStatus == {"active", "disabled", "deleted"}
User == [email : Emails, password : Passwords,
         previous1 : Passwords \cup {Null}, previous2 : Passwords \cup {Null},
         version : Nat \ {0}, status : AccountStatus, delivery : BOOLEAN]
Former == [first : Passwords \cup {Null}, second : Passwords \cup {Null}]
Session == [user : Users, version : Nat \ {0}, role : GlobalRole]

Pending ==
    [stage : {"locking", "creating"}, user : Users, row : User, role : GlobalRole,
     onlyOne : BOOLEAN, seen : BOOLEAN]
      \cup [stage : {"delivering"}, session : Session]
      \cup [stage : {"updating", "changing_password"}, user : Users, row : User,
            signOut : BOOLEAN]
      \cup [stage : {"granting"}, actor : Users, user : Users, role : GlobalRole]
Waiting == [stage |-> "waiting"]

\* Null is neither a row, nor a role, nor a password.
ASSUME AccountsAssumption ==
    /\ Null \notin User
    /\ Null \notin GlobalRole
    /\ Null \notin Passwords

Accounts == {u \in Users : users[u] # Null}
SessionOf(u, row, role) == [user |-> u, version |-> row.version, role |-> role]

Accept(r, pending) ==
    /\ request[r] = Waiting
    /\ accepted < MaxRequests
    /\ accepted' = accepted + 1
    /\ request' = [request EXCEPT ![r] = pending]

Answer(r) == request' = [request EXCEPT ![r] = Waiting]

-----------------------------------------------------------------------------
(* Creation of accounts *)

\* NewUser: active, first token version, no previous passwords.
NewUser(e, p) ==
    [email |-> e, password |-> p, previous1 |-> Null, previous2 |-> Null,
     version |-> 1, status |-> "active", delivery |-> FALSE]

HasAnyUser == Accounts # {}

\* createUser validates, hashes and opens the transaction.  Its first
\* statement asks for the advisory lock; under REPEATABLE READ the snapshot of
\* the whole transaction is the one that statement takes before it waits.
CreateUser(r, u, e, p, role, onlyOne) ==
    /\ u \notin Accounts
    /\ \A s \in Requests : request[s].stage \in {"locking", "creating"}
                             => request[s].user # u
    /\ Accept(r, [stage |-> "locking", user |-> u, row |-> NewUser(e, p),
                  role |-> role, onlyOne |-> onlyOne, seen |-> HasAnyUser])
    /\ UNCHANGED <<account, sessions, revoked, former, overlapped, creationLock>>

SignUp(r, u, e, p) == CreateUser(r, u, e, p, "user", FALSE)
CreateSuperadmin(r, u, e, p) == CreateUser(r, u, e, p, "superadmin", TRUE)

LockInitialAccountCreation(r) ==
    /\ request[r].stage = "locking"
    /\ creationLock = Null
    /\ creationLock' = r
    /\ request' = [request EXCEPT ![r].stage = "creating"]
    /\ UNCHANGED <<account, sessions, revoked, former, overlapped, accepted>>

\* The transaction ends; so does its advisory lock.
UnlockCreation(r) ==
    creationLock' = IF creationLock = r THEN Null ELSE creationLock

\* users_email_lookup_uq: another account has the address.
EmailTaken(e) == \E u \in Accounts : users[u].email = e

\* Mutants of CreateWithRole.
CreateWithoutRole(r) ==
    LET q == request[r]
    IN  /\ q.stage = "creating"
        /\ ~ (q.onlyOne /\ q.seen)
        /\ ~ EmailTaken(q.row.email)
        /\ users' = [users EXCEPT ![q.user] = q.row]
        /\ UnlockCreation(r) /\ Answer(r)
        /\ UNCHANGED <<roles, sessions, revoked, former, overlapped, accepted>>

CreateHoldingLock(r) ==
    LET q == request[r]
    IN  /\ q.stage = "creating"
        /\ ~ (q.onlyOne /\ q.seen)
        /\ ~ EmailTaken(q.row.email)
        /\ users' = [users EXCEPT ![q.user] = q.row]
        /\ roles' = [roles EXCEPT ![q.user] = q.role]
        /\ Answer(r)
        /\ UNCHANGED <<creationLock, sessions, revoked, former, overlapped, accepted>>

\* createWithRole, lock held: the account and its role commit together.
CreateWithRole(r) ==
    LET q == request[r]
    IN  /\ q.stage = "creating"
        /\ ~ (q.onlyOne /\ q.seen)
        /\ ~ EmailTaken(q.row.email)
        /\ users' = [users EXCEPT ![q.user] = q.row]
        /\ roles' = [roles EXCEPT ![q.user] = q.role]
        /\ UnlockCreation(r) /\ Answer(r)
        /\ UNCHANGED <<sessions, revoked, former, overlapped, accepted>>

\* 409: HasAnyUser was true in the snapshot, or the unique index refuses the
\* address (it sees rows the snapshot does not).
CreateRefused(r) ==
    LET q == request[r]
    IN  /\ q.stage = "creating"
        /\ (q.onlyOne /\ q.seen) \/ EmailTaken(q.row.email)
        /\ UnlockCreation(r) /\ Answer(r)
        /\ UNCHANGED <<account, sessions, revoked, former, overlapped, accepted>>

\* The request's context ends before it has committed or written anything.
Abandon(r) ==
    /\ request[r] # Waiting
    /\ UnlockCreation(r) /\ Answer(r)
    /\ UNCHANGED <<account, sessions, revoked, former, overlapped, accepted>>

-----------------------------------------------------------------------------
(* Sessions *)

CanSignIn(u) == u \in Accounts /\ users[u].status = "active"

Issue(s) == sessions' = sessions \cup {s}

\* SignIn without delivery consent: one joined read, then the tokens.
SignIn(r, u, p) ==
    /\ CanSignIn(u) /\ users[u].password = p
    /\ request[r] = Waiting /\ accepted < MaxRequests
    /\ accepted' = accepted + 1
    /\ Issue(SessionOf(u, users[u], roles[u]))
    /\ UNCHANGED <<account, revoked, former, overlapped, creationLock, request>>

\* SignIn with delivery consent stores the address between the read and the
\* issue of the tokens.
SignInDelivering(r, u, p) ==
    /\ CanSignIn(u) /\ users[u].password = p
    /\ Accept(r, [stage |-> "delivering",
                  session |-> SessionOf(u, users[u], roles[u])])
    /\ UNCHANGED <<account, sessions, revoked, former, overlapped, creationLock>>

StoreDeliveryEmail(r) ==
    /\ request[r].stage = "delivering"
    /\ users' = [users EXCEPT ![request[r].session.user].delivery = TRUE]
    /\ Issue(request[r].session)
    /\ Answer(r)
    /\ UNCHANGED <<roles, revoked, former, overlapped, creationLock, accepted>>

\* Refresh: the token's version must be the stored one.
Refresh(r, s) ==
    /\ s \in sessions
    /\ CanSignIn(s.user) /\ users[s.user].version = s.version
    /\ request[r] = Waiting /\ accepted < MaxRequests
    /\ accepted' = accepted + 1
    /\ Issue(SessionOf(s.user, users[s.user], roles[s.user]))
    /\ UNCHANGED <<account, revoked, former, overlapped, creationLock, request>>

\* requireIdentity: an access token of the account.
Authenticated(u) == \E s \in sessions : s.user = u

-----------------------------------------------------------------------------
(* Read, change, write back *)

WritingBack(u) ==
    \E r \in Requests : /\ request[r].stage \in {"updating", "changing_password"}
                        /\ request[r].user = u

Load(r, u, stage, row, signOut) ==
    /\ Authenticated(u)
    /\ Accept(r, [stage |-> stage, user |-> u, row |-> row, signOut |-> signOut])
    /\ overlapped' = IF WritingBack(u) THEN overlapped \cup {u} ELSE overlapped
    /\ UNCHANGED <<account, sessions, revoked, former, creationLock>>

\* Mutant of SignOutAllDevices: the version stays.
SignOutNothing(r, u) == Load(r, u, "updating", users[u], TRUE)

\* SignOutAllDevices: RevokeRefreshTokens on the row FindByID returned.
SignOutAllDevices(r, u) ==
    Load(r, u, "updating", [users[u] EXCEPT !.version = @ + 1], TRUE)

\* UpdateFullName and UpdateStatus write back every mutable column.
UpdateFullName(r, u) == Load(r, u, "updating", users[u], FALSE)
UpdateStatus(r, u, status) ==
    Load(r, u, "updating", [users[u] EXCEPT !.status = status], FALSE)

\* Mutant of Reused: only the password in force is compared.
ReusedNow(row, p) == p = row.password

\* ErrPasswordReused: the current password and the two before it.
Reused(row, p) == p \in {row.password, row.previous1, row.previous2}

\* ChangePassword: the caller knows the current password.
ChangePassword(r, u, current, next, signOutAll) ==
    LET row == users[u]
    IN  /\ u \in Accounts /\ row.password = current /\ ~ Reused(row, next)
        /\ Load(r, u, "changing_password",
                [row EXCEPT !.password = next, !.previous1 = row.password,
                            !.previous2 = row.previous1,
                            !.version = IF signOutAll THEN @ + 1 ELSE @],
                signOutAll)

\* A confirmed sign-out covers every pair issued so far.
Revoke(q) ==
    revoked' = IF q.signOut THEN revoked \cup {s \in sessions : s.user = q.user}
                            ELSE revoked

\* A password that replaces another one in force is remembered, whatever the
\* columns of the row say about it.
Remember(u, next) ==
    former' = IF next = users[u].password
              THEN former
              ELSE [former EXCEPT ![u] = [first |-> users[u].password,
                                          second |-> former[u].first]]

\* UpdateUser: passwords, token version and status, as they were read.
Update(r) ==
    LET q == request[r]
    IN  /\ q.stage = "updating"
        /\ users' = [users EXCEPT ![q.user] =
             [q.row EXCEPT !.delivery = users[q.user].delivery]]
        /\ Revoke(q) /\ Remember(q.user, q.row.password) /\ Answer(r)
        /\ UNCHANGED <<roles, sessions, overlapped, creationLock, accepted>>

\* UpdateUserPassword: the status column stays as it is.
UpdatePassword(r) ==
    LET q == request[r]
    IN  /\ q.stage = "changing_password"
        /\ users' = [users EXCEPT ![q.user] =
             [q.row EXCEPT !.delivery = users[q.user].delivery,
                           !.status = users[q.user].status]]
        /\ Revoke(q) /\ Remember(q.user, q.row.password) /\ Answer(r)
        /\ UNCHANGED <<roles, sessions, overlapped, creationLock, accepted>>

-----------------------------------------------------------------------------
(* Roles *)

\* UpdateRole reads the caller's stored role and looks up the target...
UpdateRole(r, actor, target, role) ==
    /\ Authenticated(actor)
    /\ actor # target
    /\ roles[actor] = "superadmin"
    /\ target \in Accounts
    /\ Accept(r, [stage |-> "granting", actor |-> actor, user |-> target,
                  role |-> role])
    /\ UNCHANGED <<account, sessions, revoked, former, overlapped, creationLock>>

\* ... and upserts the assignment in a statement of its own.
CreateUserRole(r) ==
    /\ request[r].stage = "granting"
    /\ roles' = [roles EXCEPT ![request[r].user] = request[r].role]
    /\ Answer(r)
    /\ UNCHANGED <<users, sessions, revoked, former, overlapped, creationLock, accepted>>

-----------------------------------------------------------------------------
\* The tables a behaviour starts with; the accounts in them are signed in.
AccountsInit(created, assigned) ==
    /\ users = created
    /\ roles = assigned
    /\ sessions = {SessionOf(u, users[u], roles[u]) : u \in Accounts}
    /\ revoked = {}
    /\ former = [u \in Users |->
         IF u \in Accounts
         THEN [first |-> users[u].previous1, second |-> users[u].previous2]
         ELSE [first |-> Null, second |-> Null]]
    /\ overlapped = {}
    /\ creationLock = Null
    /\ request = [r \in Requests |-> Waiting]

Begin(r) ==
    \/ \E u \in Users :
         \/ \E e \in Emails, p \in Passwords :
              SignUp(r, u, e, p) \/ CreateSuperadmin(r, u, e, p)
         \/ \E p \in Passwords : SignIn(r, u, p) \/ SignInDelivering(r, u, p)
         \/ SignOutAllDevices(r, u) \/ UpdateFullName(r, u)
         \/ \E status \in AccountStatus : UpdateStatus(r, u, status)
         \/ \E current, next \in Passwords, signOutAll \in BOOLEAN :
              ChangePassword(r, u, current, next, signOutAll)
         \/ \E v \in Users, role \in GlobalRole : UpdateRole(r, u, v, role)
    \/ \E s \in sessions : Refresh(r, s)

Finish(r) ==
    \/ CreateWithRole(r) \/ CreateRefused(r)
    \/ StoreDeliveryEmail(r) \/ Update(r) \/ UpdatePassword(r)
    \/ CreateUserRole(r)

AccountsNext ==
    \E r \in Requests :
        \/ Begin(r) \/ LockInitialAccountCreation(r) \/ Finish(r) \/ Abandon(r)

-----------------------------------------------------------------------------
\* Type correctness of the tables, the tokens and the handlers' states.
AccountsTypeOK ==
    /\ users \in [Users -> User \cup {Null}]
    /\ roles \in [Users -> GlobalRole \cup {Null}]
    /\ sessions \subseteq Session
    /\ revoked \subseteq sessions
    /\ former \in [Users -> Former]
    /\ overlapped \subseteq Users
    /\ creationLock \in Requests \cup {Null}
    /\ request \in [Requests -> Pending \cup {Waiting}]
    /\ accepted \in Nat

\* One address names one account, and every account has a role: whatever
\* sign-ups race, a sign-in finds at most one row and that row has a role to
\* issue tokens for (createWithRole, users_email_lookup_uq).
AccountsSound ==
    /\ \A u, v \in Accounts : u # v => users[u].email # users[v].email
    /\ \A u \in Users : u \in Accounts <=> roles[u] # Null

\* This step of a password change puts a password in force that was so one or
\* two passwords ago.
RepeatsPassword(r) ==
    LET q == request[r]
    IN  /\ q.stage = "changing_password" /\ request'[r] # q
        /\ users'[q.user].password # users[q.user].password
        /\ users'[q.user].password \in {former[q.user].first, former[q.user].second}

\* "new password must differ from the previous three passwords"
\* (ErrPasswordReused, domain/user.go:17) holds of the passwords that really
\* were in force as long as no two write-backs of the account have overlapped:
\* losing an entry of the history to an overlap is the only way to a repeated
\* password.
ReuseNeedsOverlap ==
    [][\A r \in Requests : RepeatsPassword(r) => request[r].user \in overlapped]_accountVars

\* Every accepted account creation is answered: the advisory lock is given
\* back however its transaction ends, so no creation waits for ever.
CreationAnswered ==
    \A r \in Requests :
        request[r].stage \in {"locking", "creating"} ~> request[r] = Waiting

\* "A single bootstrap superadmin can be created" (1.
\* IMPLEMETATION_DEFINITION.md:21): a setup request only creates its account
\* while there is none.
FirstAccountOnly ==
    [][\A r \in Requests :
         /\ request[r].stage = "creating" /\ request[r].onlyOne
         /\ users'[request[r].user] # users[request[r].user]
         => ~ HasAnyUser]_accountVars

\* "RevokeRefreshTokens increments the token version, invalidating all refresh
\* tokens issued against the previous version" (domain/user.go:111): a pair a
\* confirmed sign-out has covered is never accepted by Refresh again.
RevokedStayRevoked == \A s \in revoked : users[s.user].version # s.version

\* Two write-backs of the account that overlapped are the only way back for a
\* revoked pair: the later one may restore the version the pair carries.
RevivalNeedsOverlap ==
    \A s \in revoked : users[s.user].version = s.version => s.user \in overlapped

-----------------------------------------------------------------------------
(* What holds between the steps of the handlers, and makes the above         *)
(* inductive.                                                              *)

Creating(q) == q.stage \in {"locking", "creating"}
WritesBack(q) == q.stage \in {"updating", "changing_password"}

\* An account under creation does not exist yet; every other one a handler
\* has read exists and has kept its address.
RequestSound(q) ==
    /\ Creating(q) => /\ q.user \notin Accounts
                      /\ q.row.previous1 = Null /\ q.row.previous2 = Null
    /\ q.stage = "delivering" => q.session.user \in Accounts
    /\ WritesBack(q) => /\ q.user \in Accounts
                        /\ q.row.email = users[q.user].email
    /\ q.stage = "granting" => q.user \in Accounts

\* Two creations under way are never about the same new UUID.
CreationsApart ==
    \A r, s \in Requests :
        r # s /\ Creating(request[r]) /\ Creating(request[s])
          => request[r].user # request[s].user

\* As long as no two write-backs of the account have overlapped, its version
\* is at least that of every pair issued or about to be, and more than that of
\* the revoked ones; the one write-back under way adds one, or nothing.
VersionsOrdered(u) ==
    /\ \A s \in sessions : s.user = u => s.version <= users[u].version
    /\ \A s \in revoked : s.user = u => s.version < users[u].version
    /\ \A r \in Requests :
         /\ request[r].stage = "delivering" /\ request[r].session.user = u
              => request[r].session.version <= users[u].version
         /\ WritesBack(request[r]) /\ request[r].user = u
              => request[r].row.version =
                   users[u].version + (IF request[r].signOut THEN 1 ELSE 0)
    /\ \A r, s \in Requests :
         /\ WritesBack(request[r]) /\ request[r].user = u
         /\ WritesBack(request[s]) /\ request[s].user = u
         => r = s

\* The row a write-back has ready, seen from the row it is going to replace:
\* the same passwords, or a new one that none of them is.
Succeeds(q, row) ==
    \/ /\ q.stage = "updating"
       /\ q.row.password = row.password
       /\ q.row.previous1 = row.previous1 /\ q.row.previous2 = row.previous2
    \/ /\ q.stage = "changing_password"
       /\ q.row.previous1 = row.password /\ q.row.previous2 = row.previous1
       /\ ~ Reused(row, q.row.password)

\* As long as no two write-backs of the account have overlapped, the columns
\* tell the truth about the passwords that were in force.
HistoryKept(u) ==
    /\ former[u].first = users[u].previous1
    /\ former[u].second = users[u].previous2
    /\ \A r \in Requests :
         WritesBack(request[r]) /\ request[r].user = u => Succeeds(request[r], users[u])

AccountsInv ==
    /\ AccountsTypeOK
    /\ AccountsSound
    /\ \A u \in Users \ Accounts : former[u].first = Null /\ former[u].second = Null
    /\ \A s \in sessions : s.user \in Accounts
    /\ \A r \in Requests : RequestSound(request[r])
    /\ CreationsApart
    /\ \A u \in Accounts \ overlapped : VersionsOrdered(u) /\ HistoryKept(u)
=============================================================================
