---------------------------- MODULE StaffProofs ----------------------------
(***************************************************************************)
(* StaffInv is preserved by every step of dealership and staff             *)
(* provisioning and by every step of the auth module, for every value of   *)
(* the constants.                                                          *)
(***************************************************************************)
EXTENDS Staff, AccountsProofs

\* A handler's state by its stage.
LEMMA AssignmentByStage ==
    ASSUME NEW q \in Assignment \cup {Waiting}
    PROVE  /\ q.stage = "resolving" =>
                q \in [stage : {"resolving"}, email : Emails, dealership : Dealerships,
                       role : EmployeeRole, by : Users, claim : GlobalRole]
           /\ q.stage \in {"checking", "inserting"} =>
                q \in [stage : {"checking", "inserting"}, account : Users,
                       dealership : Dealerships, role : EmployeeRole, by : Users,
                       claim : GlobalRole]
           /\ q.stage = "founding" =>
                q \in [stage : {"founding"}, dealership : Dealerships, code : Codes]
  BY DEF Assignment, Waiting

\* Steps of the other components: accounts may appear, staff stays.
LEMMA StaffKept ==
    ASSUME StaffInv, UNCHANGED staffVars, Accounts \subseteq Accounts'
    PROVE  StaffInv'
  <1>1. dealerships' = dealerships /\ members' = members /\ staffing' = staffing
    BY DEF staffVars
  <1>2. StaffTypeOK'
    BY <1>1 DEF StaffInv, StaffTypeOK
  <1>3. AssignedOnce'
    BY <1>1 DEF StaffInv, AssignedOnce
  <1>4. AuthorityLocal'
    BY <1>1 DEF StaffInv, AuthorityLocal, IsActiveSchedulerAdminForDealership
  <1>5. ASSUME NEW r \in Requests PROVE AssignmentSound(staffing[r])'
    <2>1. AssignmentSound(staffing[r])
      BY DEF StaffInv
    <2> QED
      BY <2>1, <1>1 DEF AssignmentSound, AuthorizeCreateDealershipUser,
                        IsActiveSchedulerAdminForDealership
  <1> QED
    BY <1>2, <1>3, <1>4, <1>5 DEF StaffInv

\* A handler moves to the state q; dealerships and members are only added.
Staffing(r, q) ==
    /\ staffing' = [staffing EXCEPT ![r] = q]
    /\ q \in Assignment \cup {Waiting}
    /\ AssignmentSound(q)
    /\ dealerships' \in [Dealerships -> Codes \cup {Null}]
    /\ \A d \in Dealerships : dealerships[d] # Null => dealerships'[d] # Null
    /\ members \subseteq members'
    /\ accepted' \in Nat
    /\ UNCHANGED accountVars

\* Such a step keeps what the requests under way rely on.
LEMMA StaffingKeeps ==
    ASSUME StaffInv, NEW r \in Requests, NEW q, Staffing(r, q)
    PROVE  /\ staffing' \in [Requests -> Assignment \cup {Waiting}]
           /\ \A s \in Requests : AssignmentSound(staffing[s])'
  <1>A. Accounts' = Accounts
    BY DEF Staffing, accountVars, Accounts
  <1>1. staffing' \in [Requests -> Assignment \cup {Waiting}]
    BY DEF StaffInv, StaffTypeOK, Staffing
  <1>2. ASSUME NEW s \in Requests PROVE AssignmentSound(staffing[s])'
    <2>1. AssignmentSound(staffing'[s]) /\ staffing'[s] \in Assignment \cup {Waiting}
      BY <1>1 DEF StaffInv, StaffTypeOK, Staffing
    <2>2. staffing'[s].stage \in {"resolving", "checking", "inserting"}
            => staffing'[s].dealership \in Dealerships
      BY <2>1, AssignmentByStage
    <2> QED
      BY <2>1, <2>2, <1>A DEF AssignmentSound, AuthorizeCreateDealershipUser,
                              IsActiveSchedulerAdminForDealership, Staffing
  <1> QED
    BY <1>1, <1>2

\* Steps that change neither dealerships nor members.
LEMMA ReadingStaffKeeps ==
    ASSUME StaffInv, NEW r \in Requests, NEW q, Staffing(r, q),
           UNCHANGED <<dealerships, members>>
    PROVE  StaffInv'
  <1>A. Accounts' = Accounts
    BY DEF Staffing, accountVars, Accounts
  <1>1. StaffTypeOK'
    BY StaffingKeeps DEF StaffInv, StaffTypeOK
  <1>2. AssignedOnce'
    BY <1>A DEF StaffInv, AssignedOnce
  <1>3. AuthorityLocal'
    BY DEF StaffInv, AuthorityLocal, IsActiveSchedulerAdminForDealership
  <1> QED
    BY <1>1, <1>2, <1>3, StaffingKeeps DEF StaffInv

\* An answer without a write.
LEMMA AnswerStaffs ==
    ASSUME AccountsInv, StaffInv, NEW r \in Requests, AnswerStaffing(r),
           UNCHANGED <<accountVars, accepted, dealerships, members>>
    PROVE  Staffing(r, Waiting)
  <1>1. AssignmentSound(Waiting)
    BY DEF AssignmentSound, Waiting
  <1> QED
    BY <1>1 DEF Staffing, AnswerStaffing, AccountsInv, AccountsTypeOK, StaffInv, StaffTypeOK

-----------------------------------------------------------------------------
\* CreateDealership accepts a request of a global administrator.
LEMMA CreateDealershipStaffs ==
    ASSUME AccountsInv, StaffInv, NEW r \in Requests, NEW u, NEW claim,
           NEW d \in Dealerships, NEW code \in Codes, CreateDealership(r, u, claim, d, code)
    PROVE  \E q : Staffing(r, q) /\ UNCHANGED <<dealerships, members>>
  <1> DEFINE q == [stage |-> "founding", dealership |-> d, code |-> code]
  <1>1. q \in Assignment \cup {Waiting} /\ q.stage = "founding"
    BY DEF Assignment
  <1>2. /\ staffing' = [staffing EXCEPT ![r] = q] /\ accepted' = accepted + 1
        /\ UNCHANGED <<accountVars, dealerships, members>>
    BY DEF CreateDealership, AcceptStaffing
  <1> HIDE DEF q
  <1>3. AssignmentSound(q)
    BY <1>1 DEF AssignmentSound
  <1>4. accepted' \in Nat
    BY <1>2 DEF AccountsInv, AccountsTypeOK
  <1>5. Staffing(r, q)
    BY <1>1, <1>2, <1>3, <1>4 DEF Staffing, StaffInv, StaffTypeOK
  <1> QED
    BY <1>2, <1>5

\* Both operations that assign an employee authorise their caller first.
LEMMA AssignStaffs ==
    ASSUME AccountsInv, StaffInv, NEW r \in Requests, NEW u \in Users,
           NEW claim \in GlobalRole, NEW e \in Emails, NEW d \in Dealerships,
           NEW role \in EmployeeRole, AuthorizeCreateDealershipUser(u, claim, d),
           Assign(r, u, claim, e, d, role)
    PROVE  \E q : Staffing(r, q) /\ UNCHANGED <<dealerships, members>>
  <1> DEFINE q == [stage |-> "resolving", email |-> e, dealership |-> d,
                   role |-> role, by |-> u, claim |-> claim]
  <1>1. /\ q \in Assignment \cup {Waiting} /\ q.stage = "resolving"
        /\ q.by = u /\ q.claim = claim /\ q.dealership = d
    BY DEF Assignment
  <1>2. /\ staffing' = [staffing EXCEPT ![r] = q] /\ accepted' = accepted + 1
        /\ UNCHANGED <<accountVars, dealerships, members>>
    BY DEF Assign, AcceptStaffing
  <1> HIDE DEF q
  <1>3. AssignmentSound(q)
    BY <1>1 DEF AssignmentSound
  <1>4. accepted' \in Nat
    BY <1>2 DEF AccountsInv, AccountsTypeOK
  <1>5. Staffing(r, q)
    BY <1>1, <1>2, <1>3, <1>4 DEF Staffing, StaffInv, StaffTypeOK
  <1> QED
    BY <1>2, <1>5

\* Asking auth about the target: an account it returns exists.
LEMMA ResolveStaffs ==
    ASSUME AccountsInv, StaffInv, NEW r \in Requests, RequireActiveTargetAuthUser(r)
    PROVE  \E q : Staffing(r, q) /\ UNCHANGED <<dealerships, members>>
  <1> DEFINE p == staffing[r]
  <1>1. p.stage = "resolving" /\ p \in Assignment \cup {Waiting} /\ AssignmentSound(p)
    BY DEF RequireActiveTargetAuthUser, StaffInv, StaffTypeOK
  <1>2. p \in [stage : {"resolving"}, email : Emails, dealership : Dealerships,
               role : EmployeeRole, by : Users, claim : GlobalRole]
    BY <1>1, AssignmentByStage
  <1>3. UNCHANGED <<accountVars, accepted, dealerships, members>>
    BY DEF RequireActiveTargetAuthUser
  <1>4. CASE AnswerStaffing(r)
    BY <1>4, <1>3, AnswerStaffs
  <1>5. CASE \E u \in Accounts : staffing' = [staffing EXCEPT ![r] =
                [stage |-> "checking", account |-> u, dealership |-> p.dealership,
                 role |-> p.role, by |-> p.by, claim |-> p.claim]]
    <2>1. PICK u \in Accounts : staffing' = [staffing EXCEPT ![r] =
                [stage |-> "checking", account |-> u, dealership |-> p.dealership,
                 role |-> p.role, by |-> p.by, claim |-> p.claim]]
      BY <1>5
    <2> DEFINE q == [stage |-> "checking", account |-> u, dealership |-> p.dealership,
                     role |-> p.role, by |-> p.by, claim |-> p.claim]
    <2>2. staffing' = [staffing EXCEPT ![r] = q]
      BY <2>1
    <2> HIDE DEF p
    <2>3. /\ q \in Assignment \cup {Waiting} /\ q.stage = "checking" /\ q.account = u
          /\ q.by = p.by /\ q.claim = p.claim /\ q.dealership = p.dealership
      BY <2>1, <1>2 DEF Assignment, Accounts
    <2> HIDE DEF q
    <2>4. AssignmentSound(q)
      BY <2>3, <1>1 DEF AssignmentSound
    <2>5. Staffing(r, q)
      BY <2>2, <2>3, <2>4, <1>3
      DEF Staffing, StaffInv, StaffTypeOK, AccountsInv, AccountsTypeOK
    <2> QED
      BY <2>5, <1>3
  <1> QED
    BY <1>4, <1>5 DEF RequireActiveTargetAuthUser

\* The transaction's checks before the insert.
LEMMA CheckStaffs ==
    ASSUME AccountsInv, StaffInv, NEW r \in Requests, CheckAssignment(r)
    PROVE  \E q : Staffing(r, q) /\ UNCHANGED <<dealerships, members>>
  <1> DEFINE p == staffing[r]
             q == [p EXCEPT !.stage = "inserting"]
  <1>1. p.stage = "checking" /\ p \in Assignment \cup {Waiting} /\ AssignmentSound(p)
    BY DEF CheckAssignment, StaffInv, StaffTypeOK
  <1>2. p \in [stage : {"checking", "inserting"}, account : Users,
               dealership : Dealerships, role : EmployeeRole, by : Users,
               claim : GlobalRole]
    BY <1>1, AssignmentByStage
  <1>3. UNCHANGED <<accountVars, accepted, dealerships, members>>
    BY DEF CheckAssignment
  <1>4. CASE AnswerStaffing(r)
    BY <1>4, <1>3, AnswerStaffs
  <1>5. CASE GetActiveDealership(p.dealership) /\ staffing' = [staffing EXCEPT ![r] = q]
    <2> HIDE DEF p
    <2>1. /\ q \in Assignment \cup {Waiting} /\ q.stage = "inserting"
          /\ q.account = p.account
          /\ q.by = p.by /\ q.claim = p.claim /\ q.dealership = p.dealership
      BY <1>2 DEF Assignment
    <2> HIDE DEF q
    <2>2. AssignmentSound(q)
      BY <2>1, <1>1, <1>5 DEF AssignmentSound, GetActiveDealership
    <2>3. Staffing(r, q)
      BY <2>1, <2>2, <1>3, <1>5
      DEF Staffing, StaffInv, StaffTypeOK, AccountsInv, AccountsTypeOK
    <2> QED
      BY <2>3, <1>3
  <1> QED
    BY <1>4, <1>5 DEF CheckAssignment

\* Inserting a dealership meets the unique code.
LEMMA InsertDealershipKeeps ==
    ASSUME AccountsInv, StaffInv, NEW r \in Requests, InsertDealership(r)
    PROVE  StaffInv' /\ Staffing(r, Waiting)
  <1> DEFINE q == staffing[r]
  <1>1. q.stage = "founding" /\ q \in Assignment \cup {Waiting}
    BY DEF InsertDealership, StaffInv, StaffTypeOK
  <1>2. q.dealership \in Dealerships /\ q.code \in Codes /\ q.code # Null
    BY <1>1, AssignmentByStage, StaffAssumption
  <1>3. /\ dealerships' = IF \E d \in Dealerships : dealerships[d] = q.code
                          THEN dealerships
                          ELSE [dealerships EXCEPT ![q.dealership] = q.code]
        /\ AnswerStaffing(r)
        /\ UNCHANGED <<accountVars, accepted, members>>
    BY DEF InsertDealership
  <1> HIDE DEF q
  <1>4. /\ dealerships' \in [Dealerships -> Codes \cup {Null}]
        /\ \A d \in Dealerships : dealerships[d] # Null => dealerships'[d] # Null
        /\ \A c, d \in Dealerships :
             c # d /\ dealerships'[c] # Null => dealerships'[c] # dealerships'[d]
    BY <1>2, <1>3 DEF StaffInv, StaffTypeOK, AssignedOnce
  <1>5. AssignmentSound(Waiting)
    BY DEF AssignmentSound, Waiting
  <1>6. Staffing(r, Waiting)
    BY <1>3, <1>4, <1>5 DEF Staffing, AnswerStaffing, AccountsInv, AccountsTypeOK
  <1>7. StaffTypeOK'
    BY <1>3, <1>4, <1>6, StaffingKeeps DEF StaffInv, StaffTypeOK
  <1>8. AssignedOnce'
    <2>1. Accounts' = Accounts
      BY <1>3 DEF accountVars, Accounts
    <2> QED
      BY <2>1, <1>3, <1>4 DEF StaffInv, StaffTypeOK, AssignedOnce, Member
  <1>9. AuthorityLocal'
    BY <1>3 DEF StaffInv, AuthorityLocal, IsActiveSchedulerAdminForDealership
  <1> QED
    BY <1>6, <1>7, <1>8, <1>9, StaffingKeeps DEF StaffInv

\* Inserting a member meets the unique account, and its author was entitled
\* when the request was accepted and still is: members are never removed.
LEMMA CreateSchedulerUserKeeps ==
    ASSUME AccountsInv, StaffInv, NEW r \in Requests, CreateSchedulerUser(r)
    PROVE  StaffInv' /\ Staffing(r, Waiting)
  <1> DEFINE q == staffing[r]
             m == MemberOf(q)
  <1>1. q.stage = "inserting" /\ q \in Assignment \cup {Waiting} /\ AssignmentSound(q)
    BY DEF CreateSchedulerUser, StaffInv, StaffTypeOK
  <1>2. q \in [stage : {"checking", "inserting"}, account : Users,
               dealership : Dealerships, role : EmployeeRole, by : Users,
               claim : GlobalRole]
    BY <1>1, AssignmentByStage
  <1>3. /\ members' = IF GetSchedulerUserByAuthUserID(q.account) = {}
                      THEN members \cup {m} ELSE members
        /\ AnswerStaffing(r)
        /\ UNCHANGED <<accountVars, accepted, dealerships>>
    BY DEF CreateSchedulerUser
  <1>S. /\ q.account \in Accounts /\ dealerships[q.dealership] # Null
        /\ AuthorizeCreateDealershipUser(q.by, q.claim, q.dealership)
    BY <1>1 DEF AssignmentSound
  <1> HIDE DEF q
  <1>4. /\ m \in Member /\ m.account = q.account /\ m.dealership = q.dealership
        /\ m.by = q.by /\ m.claim = q.claim
    BY <1>2 DEF MemberOf, Member
  <1> HIDE DEF m
  <1>5. AssignmentSound(Waiting)
    BY DEF AssignmentSound, Waiting
  <1>6. members \subseteq members' /\ members' \subseteq members \cup {m}
    BY <1>3
  <1>7. Staffing(r, Waiting)
    BY <1>3, <1>5, <1>6 DEF Staffing, AnswerStaffing, AccountsInv, AccountsTypeOK,
                            StaffInv, StaffTypeOK
  <1>8. StaffTypeOK'
    BY <1>3, <1>4, <1>6, <1>7, StaffingKeeps DEF StaffInv, StaffTypeOK
  <1>9. AssignedOnce'
    <2>1. Accounts' = Accounts
      BY <1>3 DEF accountVars, Accounts
    <2>2. m \in members' /\ m \notin members => \A n \in members : n.account # m.account
      BY <1>3, <1>4 DEF GetSchedulerUserByAuthUserID
    <2> QED
      BY <2>1, <2>2, <1>3, <1>4, <1>6, <1>S DEF StaffInv, AssignedOnce
  <1>10. AuthorityLocal'
    BY <1>4, <1>6, <1>S DEF StaffInv, AuthorityLocal, IsActiveSchedulerAdminForDealership,
                            AuthorizeCreateDealershipUser
  <1> QED
    BY <1>7, <1>8, <1>9, <1>10, StaffingKeeps DEF StaffInv

-----------------------------------------------------------------------------
\* StaffInv is inductive; its steps change no account, and remove no member
\* and no dealership.
LEMMA StaffStep ==
    ASSUME AccountsInv, StaffInv, StaffNext
    PROVE  /\ StaffInv'
           /\ UNCHANGED accountVars
           /\ accepted' \in Nat
           /\ members \subseteq members'
  <1>1. PICK r \in Requests :
        \/ \E u \in Users, claim \in GlobalRole, d \in Dealerships :
             \/ \E code \in Codes : CreateDealership(r, u, claim, d, code)
             \/ \E e \in Emails :
                  \/ CreateDealershipAdmin(r, u, claim, e, d)
                  \/ \E role \in EmployeeRole :
                       CreateDealershipUser(r, u, claim, e, d, role)
        \/ InsertDealership(r)
        \/ RequireActiveTargetAuthUser(r) \/ CheckAssignment(r)
        \/ CreateSchedulerUser(r) \/ AbandonStaffing(r)
    BY DEF StaffNext
  <1>2. ASSUME NEW q, Staffing(r, q), UNCHANGED <<dealerships, members>> \/ StaffInv'
        PROVE  StaffInv' /\ UNCHANGED accountVars /\ accepted' \in Nat /\ members \subseteq members'
    BY <1>2, ReadingStaffKeeps DEF Staffing
  <1>3. ASSUME NEW u \in Users, NEW claim \in GlobalRole, NEW d \in Dealerships,
               NEW code \in Codes, CreateDealership(r, u, claim, d, code)
        PROVE  \E q : Staffing(r, q) /\ UNCHANGED <<dealerships, members>>
    BY <1>3, CreateDealershipStaffs
  <1>4. ASSUME NEW u \in Users, NEW claim \in GlobalRole, NEW d \in Dealerships,
               NEW e \in Emails, CreateDealershipAdmin(r, u, claim, e, d)
        PROVE  \E q : Staffing(r, q) /\ UNCHANGED <<dealerships, members>>
    BY <1>4, AssignStaffs
    DEF CreateDealershipAdmin, AuthorizeCreateDealershipUser, EmployeeRole
  <1>5. ASSUME NEW u \in Users, NEW claim \in GlobalRole, NEW d \in Dealerships,
               NEW e \in Emails, NEW role \in EmployeeRole,
               CreateDealershipUser(r, u, claim, e, d, role)
        PROVE  \E q : Staffing(r, q) /\ UNCHANGED <<dealerships, members>>
    BY <1>5, AssignStaffs DEF CreateDealershipUser
  <1>6. CASE AbandonStaffing(r)
    <2>1. Staffing(r, Waiting) /\ UNCHANGED <<dealerships, members>>
      BY <1>6, AnswerStaffs DEF AbandonStaffing
    <2> QED
      BY <2>1, <1>2
  <1>7. CASE InsertDealership(r) \/ CreateSchedulerUser(r)
    BY <1>7, <1>2, InsertDealershipKeeps, CreateSchedulerUserKeeps
  <1>8. CASE RequireActiveTargetAuthUser(r) \/ CheckAssignment(r)
    BY <1>8, <1>2, ResolveStaffs, CheckStaffs
  <1> QED
    BY <1>1, <1>2, <1>3, <1>4, <1>5, <1>6, <1>7, <1>8

\* The tables a behaviour starts with.
LEMMA StaffStart ==
    ASSUME NEW founded \in [Dealerships -> Codes \cup {Null}],
           NEW employed \in SUBSET Member,
           \A c, d \in Dealerships : c # d /\ founded[c] # Null => founded[c] # founded[d],
           \A m, n \in employed : m.account = n.account => m = n,
           \A m \in employed :
             /\ m.account \in Accounts
             /\ founded[m.dealership] # Null
             /\ \/ GlobalAdmin(m.claim)
                \/ \E n \in employed : n.account = m.by /\ n.dealership = m.dealership
                                         /\ n.role = "admin",
           StaffInit(founded, employed)
    PROVE  StaffInv
  <1>1. dealerships = founded /\ members = employed
        /\ staffing \in [Requests -> Assignment \cup {Waiting}]
        /\ \A r \in Requests : staffing[r] = Waiting
    BY DEF StaffInit
  <1>2. AssignmentSound(Waiting)
    BY DEF AssignmentSound, Waiting
  <1>3. StaffTypeOK
    BY <1>1 DEF StaffTypeOK
  <1>4. AssignedOnce
    BY <1>1 DEF AssignedOnce
  <1>5. AuthorityLocal
    BY <1>1 DEF AuthorityLocal, IsActiveSchedulerAdminForDealership
  <1> QED
    BY <1>1, <1>2, <1>3, <1>4, <1>5 DEF StaffInv
=============================================================================
