----------------------------- MODULE BackOffice -----------------------------
(***************************************************************************)
(* Accounts, staff, garage and catalogue as one system, and the layers of  *)
(* the HTTP interface: the memberships that staff requests add authorise   *)
(* the garage and catalogue requests, and the accounts' tokens and status  *)
(* decide over staff requests.  Which parts of the API are called in a     *)
(* behaviour is part of its initial state, so that an instance can         *)
(* exercise one part, some or all of them.                                 *)
(***************************************************************************)
EXTENDS Garage, Catalogue, Contract

CONSTANT Starts     \* the initial states: which parts are called, and the rows

VARIABLE parts      \* the parts of the API called in this behaviour

Parts == {"accounts", "staff", "garage", "entities", "withdrawals", "links", "slots",
          "contract"}

\* The rows there are satisfy the schema's constraints (addresses, codes,
\* contacts, VINs, names and assigned values are unique, a member has its
\* account and its dealership, no interval is empty or overlaps another), and
\* what the operations that wrote them leave behind: an account has its role, a
\* member an author who was entitled, an owned customer a vehicle.
ASSUME StartsAssumption ==
    \A s \in Starts :
        /\ s.parts \subseteq Parts
        /\ s.accepted \in Nat
        /\ s.users \in [Users -> User \cup {Null}]
        /\ s.roles \in [Users -> GlobalRole \cup {Null}]
        /\ \A u \in Users : s.users[u] # Null <=> s.roles[u] # Null
        /\ \A u, v \in Users : u # v /\ s.users[u] # Null /\ s.users[v] # Null
             => s.users[u].email # s.users[v].email
        /\ s.dealerships \in [Dealerships -> Codes \cup {Null}]
        /\ \A c, d \in Dealerships : c # d /\ s.dealerships[c] # Null
             => s.dealerships[c] # s.dealerships[d]
        /\ s.members \subseteq Member
        /\ \A m, n \in s.members : m.account = n.account => m = n
        /\ \A m \in s.members :
             /\ s.users[m.account] # Null
             /\ s.dealerships[m.dealership] # Null
             /\ \/ GlobalAdmin(m.claim)
                \/ \E n \in s.members : n.account = m.by /\ n.dealership = m.dealership
                                         /\ n.role = "admin"
        /\ s.customers \in [Customers -> Customer \cup {Null}]
        /\ s.owners \in [Customers -> Dealerships \cup {Null}]
        /\ s.vehicles \in [VehicleIDs -> Vehicle \cup {Null}]
        /\ \A c, d \in Customers : c # d /\ s.customers[c] # Null /\ s.customers[d] # Null
             => /\ s.customers[c].phone # s.customers[d].phone
                /\ s.customers[c].email # Null => s.customers[c].email # s.customers[d].email
        /\ \A c \in Customers : s.owners[c] # Null
             => \E v \in VehicleIDs : s.vehicles[v] # Null /\ s.vehicles[v].customer = c
        /\ \A v \in VehicleIDs : s.vehicles[v] # Null
             => /\ s.owners[s.vehicles[v].customer] = s.vehicles[v].by
                /\ Identified(s.vehicles[v].vin, s.vehicles[v].plate)
                /\ \A o \in VehicleIDs \ {v} : s.vehicles[o] # Null /\ s.vehicles[v].vin # Null
                     => s.vehicles[o].vin # s.vehicles[v].vin
        /\ s.entities \in [Entities -> Entity \cup {Null}]
        /\ s.links \in [LinkIDs -> Link \cup {Null}]
        /\ s.slots \in [SlotIDs -> Slot \cup {Null}]
        /\ \A e, o \in Entities :
             /\ e # o /\ s.entities[e] # Null /\ s.entities[o] # Null
             /\ ~ s.entities[e].gone /\ ~ s.entities[o].gone
             /\ s.entities[e].kind = s.entities[o].kind
             /\ s.entities[e].dealership = s.entities[o].dealership
             /\ s.entities[e].name = s.entities[o].name
             => s.entities[e].kind = "technician"
        /\ \A l, o \in LinkIDs : l # o /\ s.links[l] # Null => s.links[l] # s.links[o]
        /\ \A x \in SlotIDs : s.slots[x] # Null => s.slots[x].starts < s.slots[x].ends
        /\ \A x, o \in SlotIDs :
             /\ x # o /\ s.slots[x] # Null /\ s.slots[o] # Null
             /\ s.slots[x].of = s.slots[o].of /\ s.slots[x].day = s.slots[o].day
             => s.slots[x].ends <= s.slots[o].starts \/ s.slots[o].ends <= s.slots[x].starts

vars == <<accountVars, staffVars, garageVars, catalogueVars, accepted, parts, call>>

Init ==
    \E s \in Starts :
        /\ parts = s.parts
        /\ accepted = s.accepted
        /\ call = NoCall
        /\ AccountsInit(s.users, s.roles)
        /\ StaffInit(s.dealerships, s.members)
        /\ GarageInit(s.customers, s.owners, s.vehicles)
        /\ CatalogueInit(s.entities, s.links, s.slots)

Next ==
    /\ UNCHANGED parts
    /\ \/ /\ "accounts" \in parts
          /\ AccountsNext
          /\ UNCHANGED <<staffVars, garageVars, catalogueVars, call>>
       \/ /\ "staff" \in parts
          /\ StaffNext
          /\ UNCHANGED <<garageVars, catalogueVars, call>>
       \/ /\ "garage" \in parts
          /\ GarageNext
          /\ UNCHANGED <<catalogueVars, call>>
       \/ /\ UNCHANGED <<garageVars, call>>
          /\ \/ "entities" \in parts /\ EntitiesNext
             \/ "withdrawals" \in parts /\ WithdrawalsNext
             \/ "links" \in parts /\ LinksNext
             \/ "slots" \in parts /\ SlotsNext
             \/ \E r \in Requests : AbandonOffice(r)
       \/ /\ "contract" \in parts
          /\ ContractNext
          /\ UNCHANGED <<accountVars, staffVars, garageVars, catalogueVars, accepted>>

\* A handler takes its next step, and PostgreSQL's queue for the advisory lock
\* reaches every waiter.  New requests and their ends before time are never
\* forced.
Fairness ==
    \A r \in Requests :
        /\ SF_vars(LockInitialAccountCreation(r) /\ UNCHANGED <<staffVars, garageVars, catalogueVars, parts, call>>)
        /\ WF_vars(Finish(r) /\ UNCHANGED <<staffVars, garageVars, catalogueVars, parts, call>>)

Spec == Init /\ [][Next]_vars
FairSpec == Spec /\ Fairness

-----------------------------------------------------------------------------
\* Type correctness of every part.
TypeOK ==
    /\ AccountsTypeOK
    /\ StaffTypeOK
    /\ GarageTypeOK
    /\ CatalogueTypeOK
    /\ ContractTypeOK
    /\ parts \subseteq Parts

\* The inductive invariant, one part for each component.
BackOfficeInv ==
    /\ AccountsInv
    /\ StaffInv
    /\ GarageInv
    /\ CatalogueInv
    /\ ContractInv
    /\ parts \subseteq Parts
=============================================================================
