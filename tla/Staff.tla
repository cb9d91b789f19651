------------------------------- MODULE Staff -------------------------------
(***************************************************************************)
(* Dealerships and their employees: CreateDealership, CreateDealershipAdmin *)
(* and CreateDealershipUser.  A request is authorised by the role in its   *)
(* access token or by the caller's own membership, reads the target's      *)
(* account from the auth module and only then opens the REPEATABLE READ    *)
(* transaction that adds the membership.  No operation removes a           *)
(* dealership or a membership, or moves one.                               *)
(***************************************************************************)
EXTENDS Accounts

CONSTANTS
    Dealerships,    \* the UUIDs newID() can draw for a dealership
    Codes           \* dealership codes, trimmed and upper-cased

VARIABLES
    dealerships,    \* [Dealerships -> code or Null]
    members,        \* users with their one role, one record per membership
    staffing        \* [Requests -> state of the handler]

staffVars == <<dealerships, members, staffing>>

ASSUME StaffAssumption == Null \notin Codes

EmployeeRole == {"admin", "dealer", "staff", "technician"}

\* A membership and, as history, the caller and the role its token claimed.
Member == [account : Users, dealership : Dealerships, role : EmployeeRole,
           by : Users, claim : GlobalRole]

Assignment ==
    [stage : {"resolving"}, email : Emails, dealership : Dealerships,
     role : EmployeeRole, by : Users, claim : GlobalRole]
      \cup [stage : {"checking", "inserting"}, account : Users,
            dealership : Dealerships, role : EmployeeRole, by : Users,
            claim : GlobalRole]
      \cup [stage : {"founding"}, dealership : Dealerships, code : Codes]

\* requireIdentity: the caller of a request is the subject of an access
\* token, with the role the account had when the token was issued.
Caller(u, claim) == \E s \in sessions : s.user = u /\ s.role = claim

GlobalAdmin(claim) == claim \in {"superadmin", "admin"}

IsActiveSchedulerAdmin(u) ==
    \E m \in members : m.account = u /\ m.role = "admin"

IsActiveSchedulerAdminForDealership(u, d) ==
    \E m \in members : m.account = u /\ m.dealership = d /\ m.role = "admin"

GetActiveDealership(d) == dealerships[d] # Null

AcceptStaffing(r, pending) ==
    /\ staffing[r] = Waiting
    /\ accepted < MaxRequests
    /\ accepted' = accepted + 1
    /\ staffing' = [staffing EXCEPT ![r] = pending]
    /\ UNCHANGED <<accountVars, dealerships, members>>

AnswerStaffing(r) == staffing' = [staffing EXCEPT ![r] = Waiting]

-----------------------------------------------------------------------------
(* CreateDealership *)

\* CreateDealership: authorizeCreate looks at the claim alone.
CreateDealership(r, u, claim, d, code) ==
    /\ Caller(u, claim) /\ GlobalAdmin(claim)
    /\ dealerships[d] = Null
    /\ \A s \in Requests : staffing[s].stage = "founding" => staffing[s].dealership # d
    /\ AcceptStaffing(r, [stage |-> "founding", dealership |-> d, code |-> code])

\* Create: the row, or 409 when the code is taken.
InsertDealership(r) ==
    LET q == staffing[r]
    IN  /\ q.stage = "founding"
        /\ dealerships' =
             IF \E d \in Dealerships : dealerships[d] = q.code
             THEN dealerships
             ELSE [dealerships EXCEPT ![q.dealership] = q.code]
        /\ AnswerStaffing(r)
        /\ UNCHANGED <<accountVars, accepted, members>>

-----------------------------------------------------------------------------
(* CreateDealershipAdmin and CreateDealershipUser *)

Assign(r, u, claim, e, d, role) ==
    AcceptStaffing(r, [stage |-> "resolving", email |-> e, dealership |-> d,
                       role |-> role, by |-> u, claim |-> claim])

CreateDealershipAdmin(r, u, claim, e, d) ==
    /\ Caller(u, claim) /\ GlobalAdmin(claim)
    /\ Assign(r, u, claim, e, d, "admin")

\* Mutant of AuthorizeCreateDealershipUser: an admin of any dealership.
AuthorizeAnySchedulerAdmin(u, claim, d) ==
    GlobalAdmin(claim) \/ IsActiveSchedulerAdmin(u)

AuthorizeCreateDealershipUser(u, claim, d) ==
    GlobalAdmin(claim) \/ IsActiveSchedulerAdminForDealership(u, d)

CreateDealershipUser(r, u, claim, e, d, role) ==
    /\ Caller(u, claim) /\ AuthorizeCreateDealershipUser(u, claim, d)
    /\ Assign(r, u, claim, e, d, role)

\* requireActiveTargetAuthUser: 404 for an unknown address, 400 for an account
\* that is not active.
RequireActiveTargetAuthUser(r) ==
    LET q == staffing[r]
        found == {u \in Accounts : users[u].email = q.email /\
                                   users[u].status = "active"}
    IN  /\ q.stage = "resolving"
        /\ \/ found = {} /\ AnswerStaffing(r)
           \/ \E u \in found :
                staffing' = [staffing EXCEPT ![r] =
                  [stage |-> "checking", account |-> u, dealership |-> q.dealership,
                   role |-> q.role, by |-> q.by, claim |-> q.claim]]
        /\ UNCHANGED <<accountVars, accepted, dealerships, members>>

GetSchedulerUserByAuthUserID(u) == {m \in members : m.account = u}

\* The transaction's reads, in one snapshot: 404 without an active dealership,
\* 409 for an account that has a membership.
CheckAssignment(r) ==
    LET q == staffing[r]
    IN  /\ q.stage = "checking"
        /\ IF /\ GetActiveDealership(q.dealership)
              /\ GetSchedulerUserByAuthUserID(q.account) = {}
           THEN staffing' = [staffing EXCEPT ![r].stage = "inserting"]
           ELSE AnswerStaffing(r)
        /\ UNCHANGED <<accountVars, accepted, dealerships, members>>

MemberOf(q) == [account |-> q.account, dealership |-> q.dealership,
                role |-> q.role, by |-> q.by, claim |-> q.claim]

\* Mutant of CreateSchedulerUser: the snapshot's answer is trusted.
CreateSchedulerUserUnchecked(r) ==
    LET q == staffing[r]
    IN  /\ q.stage = "inserting"
        /\ members' = members \cup {MemberOf(q)}
        /\ AnswerStaffing(r)
        /\ UNCHANGED <<accountVars, accepted, dealerships>>

\* The user and its role in one statement, and the commit.
\* users_auth_user_id_unique_when_present sees rows the snapshot does not: 409.
CreateSchedulerUser(r) ==
    LET q == staffing[r]
    IN  /\ q.stage = "inserting"
        /\ members' = IF GetSchedulerUserByAuthUserID(q.account) = {}
                      THEN members \cup {MemberOf(q)}
                      ELSE members
        /\ AnswerStaffing(r)
        /\ UNCHANGED <<accountVars, accepted, dealerships>>

\* The request ends before its write.
AbandonStaffing(r) ==
    /\ staffing[r] # Waiting
    /\ AnswerStaffing(r)
    /\ UNCHANGED <<accountVars, accepted, dealerships, members>>

-----------------------------------------------------------------------------
StaffInit(founded, employed) ==
    /\ dealerships = founded
    /\ members = employed
    /\ staffing = [r \in Requests |-> Waiting]

StaffNext ==
    \E r \in Requests :
        \/ \E u \in Users, claim \in GlobalRole, d \in Dealerships :
             \/ \E code \in Codes : CreateDealership(r, u, claim, d, code)
             \/ \E e \in Emails :
                  \/ CreateDealershipAdmin(r, u, claim, e, d)
                  \/ \E role \in EmployeeRole :
                       CreateDealershipUser(r, u, claim, e, d, role)
        \/ InsertDealership(r)
        \/ RequireActiveTargetAuthUser(r) \/ CheckAssignment(r)
        \/ CreateSchedulerUser(r) \/ AbandonStaffing(r)

-----------------------------------------------------------------------------
\* Type correctness of the dealerships, the memberships and the handlers.
StaffTypeOK ==
    /\ dealerships \in [Dealerships -> Codes \cup {Null}]
    /\ members \subseteq Member
    /\ staffing \in [Requests -> Assignment \cup {Waiting}]

\* An account works for one dealership: whatever assignments race, it has at
\* most one membership, whose dealership and account exist, and no two
\* dealerships share a code (CreateDealershipUser's reads see a snapshot, so
\* only the unique index stands between two concurrent assignments).
AssignedOnce ==
    /\ \A m, n \in members : m.account = n.account => m = n
    /\ \A m \in members : m.account \in Accounts /\ dealerships[m.dealership] # Null
    /\ \A c, d \in Dealerships :
         c # d /\ dealerships[c] # Null => dealerships[c] # dealerships[d]

\* "scheduler-admin authority is never global" (dealership_repository.go:87):
\* who was added by a caller without a global role was added by an admin of
\* the same dealership, and that admin is one still.
AuthorityLocal ==
    \A m \in members :
        GlobalAdmin(m.claim) \/ IsActiveSchedulerAdminForDealership(m.by, m.dealership)

-----------------------------------------------------------------------------
\* What an assignment under way relies on from one of its steps to the next:
\* the account and the dealership it has read exist, and who was authorised to
\* add the member is so still.  It holds because none of them is ever removed.
AssignmentSound(q) ==
    /\ q.stage \in {"checking", "inserting"} => q.account \in Accounts
    /\ q.stage = "inserting" => dealerships[q.dealership] # Null
    /\ q.stage \in {"resolving", "checking", "inserting"}
         => AuthorizeCreateDealershipUser(q.by, q.claim, q.dealership)

StaffInv ==
    /\ StaffTypeOK
    /\ AssignedOnce
    /\ AuthorityLocal
    /\ \A r \in Requests : AssignmentSound(staffing[r])
=============================================================================
