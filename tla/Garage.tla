------------------------------- MODULE Garage -------------------------------
(***************************************************************************)
(* Customers and their vehicles.  Customers are shared by all dealerships  *)
(* until the first vehicle is registered for one: that transaction claims  *)
(* the customer for its dealership with INSERT ... ON CONFLICT DO NOTHING  *)
(* and reads the owner back, under REPEATABLE READ.  Names, makes, models  *)
(* and years, which no other operation reads, are left out of the rows.    *)
(***************************************************************************)
EXTENDS Staff

CONSTANTS
    Customers,      \* the UUIDs newID() can draw for a customer
    VehicleIDs,     \* ... and for a vehicle
    Contacts,       \* normalized phones and e-mail addresses
    VINs            \* normalized VINs and plates

VARIABLES
    customers,      \* [Customers -> row or Null]
    owner,          \* customer_dealerships: [Customers -> dealership or Null]
    vehicles,       \* [VehicleIDs -> row or Null]
    desk            \* [Requests -> state of the handler]

garageVars == <<customers, owner, vehicles, desk>>

Customer == [phone : Contacts, email : Contacts \cup {Null}]

\* by: as history, the dealership that registered the vehicle.
Vehicle == [customer : Customers, vin : VINs \cup {Null},
            plate : VINs \cup {Null}, deleted : BOOLEAN, by : Dealerships]

ASSUME GarageAssumption ==
    /\ Null \notin Customer
    /\ Null \notin Vehicle
    /\ Null \notin Dealerships

GarageTx ==
    [stage : {"add_customer", "update_customer"}, customer : Customers, row : Customer]
      \cup [stage : {"begin", "claim", "register"}, vehicle : VehicleIDs,
            row : Vehicle, seen : Dealerships \cup {Null}, claimed : BOOLEAN,
            retries : Nat]
      \cup [stage : {"update_vehicle", "delete_vehicle"}, vehicle : VehicleIDs,
            row : Vehicle]

AcceptDesk(r, pending) ==
    /\ desk[r] = Waiting
    /\ accepted < MaxRequests
    /\ accepted' = accepted + 1
    /\ desk' = [desk EXCEPT ![r] = pending]
    /\ UNCHANGED <<accountVars, staffVars, customers, owner, vehicles>>

Proceed(r, pending) ==
    /\ desk' = [desk EXCEPT ![r] = pending]
    /\ UNCHANGED <<accountVars, staffVars, accepted>>

-----------------------------------------------------------------------------
(* Customers *)

IsActiveCustomerEmployee(u) == \E m \in members : m.account = u

\* authorizeCustomers, the caller being authenticated.
AuthorizeCustomers(u) == u \in Accounts /\ IsActiveCustomerEmployee(u)

NewCustomer(phone, email) == [phone |-> phone, email |-> email]

CreateCustomer(r, u, c, phone, email) ==
    /\ AuthorizeCustomers(u)
    /\ customers[c] = Null
    /\ \A s \in Requests : desk[s].stage = "add_customer" => desk[s].customer # c
    /\ AcceptDesk(r, [stage |-> "add_customer", customer |-> c,
                      row |-> NewCustomer(phone, email)])

\* Merges the caller's fields into the row it reads; a field that is not sent
\* keeps the value read.  The e-mail address alone can be cleared.
UpdateCustomer(r, u, c, phone, email) ==
    /\ AuthorizeCustomers(u)
    /\ customers[c] # Null
    /\ AcceptDesk(r, [stage |-> "update_customer", customer |-> c,
                      row |-> [phone |-> phone, email |-> email]])

\* customers_phone_key, customers_email_unique_when_present.
ContactTaken(c, row) ==
    \E o \in Customers \ {c} :
        /\ customers[o] # Null
        /\ \/ customers[o].phone = row.phone
           \/ row.email # Null /\ customers[o].email = row.email

\* Mutant of WriteCustomer: only the phone is unique.
WriteCustomerPhone(r, stage) ==
    LET q == desk[r]
    IN  /\ q.stage = stage
        /\ customers' = IF \E o \in Customers \ {q.customer} :
                             customers[o] # Null /\ customers[o].phone = q.row.phone
                        THEN customers
                        ELSE [customers EXCEPT ![q.customer] = q.row]
        /\ Proceed(r, Waiting)
        /\ UNCHANGED <<owner, vehicles>>

\* INSERT or UPDATE of the whole row; 409 when a contact is taken.
WriteCustomer(r, stage) ==
    LET q == desk[r]
    IN  /\ q.stage = stage
        /\ customers' = IF ContactTaken(q.customer, q.row)
                        THEN customers
                        ELSE [customers EXCEPT ![q.customer] = q.row]
        /\ Proceed(r, Waiting)
        /\ UNCHANGED <<owner, vehicles>>

InsertCustomer(r) == WriteCustomer(r, "add_customer")
UpdateCustomerRow(r) == WriteCustomer(r, "update_customer")

-----------------------------------------------------------------------------
(* Registration of vehicles *)

\* GetActiveVehicleManagerDealership: the caller's one membership.
ManagerOf(u, d) == \E m \in members : m.account = u /\ m.dealership = d

\* validate: a vehicle has a VIN or a plate.
Identified(vin, plate) == vin # Null \/ plate # Null

NewVehicle(c, vin, plate, d) ==
    [customer |-> c, vin |-> vin, plate |-> plate, deleted |-> FALSE, by |-> d]

CreateVehicle(r, u, d, v, c, vin, plate) ==
    /\ ManagerOf(u, d)
    /\ Identified(vin, plate)
    /\ vehicles[v] = Null
    /\ \A s \in Requests : desk[s].stage \in {"begin", "claim", "register"}
                             => desk[s].vehicle # v
    /\ AcceptDesk(r, [stage |-> "begin", vehicle |-> v,
                      row |-> NewVehicle(c, vin, plate, d), seen |-> Null,
                      claimed |-> FALSE, retries |-> 0])

\* GetCustomerByID takes the snapshot of the attempt; 404 without the row.
CreateVehicleBegin(r) ==
    LET q == desk[r]
    IN  /\ q.stage = "begin"
        /\ Proceed(r, IF customers[q.row.customer] = Null THEN Waiting
                      ELSE [q EXCEPT !.stage = "claim", !.seen = owner[q.row.customer]])
        /\ UNCHANGED <<customers, owner, vehicles>>

\* Another transaction has inserted the customer's claim and is still open:
\* the insert waits for its end.
ClaimPending(r) ==
    \E s \in Requests \ {r} : /\ desk[s].stage = "register"
                              /\ desk[s].claimed
                              /\ desk[s].row.customer = desk[r].row.customer

\* Mutants of ClaimCustomerDealership: the owner that was found is not
\* compared; a claim the snapshot cannot see counts as the caller's own.
ClaimAnyway(r) ==
    LET q == desk[r]
    IN  /\ q.stage = "claim" /\ ~ ClaimPending(r)
        /\ Proceed(r, [q EXCEPT !.stage = "register", !.claimed = q.seen = Null])
        /\ UNCHANGED <<customers, owner, vehicles>>

ClaimAgainLater(r) ==
    LET q == desk[r]
    IN  /\ q.stage = "claim" /\ ~ ClaimPending(r)
        /\ Proceed(r, [q EXCEPT !.stage = "begin", !.retries = @ + 1])
        /\ UNCHANGED <<customers, owner, vehicles>>

\* ClaimCustomerDealership and GetCustomerDealership.  With an owner in the
\* snapshot the claim does nothing: 403 unless it is the caller's dealership.
\* An owner committed since is a serialization failure: updateInTx starts over.
ClaimCustomerDealership(r) ==
    LET q == desk[r]
        c == q.row.customer
    IN  /\ q.stage = "claim" /\ ~ ClaimPending(r)
        /\ Proceed(r,
             IF q.seen # Null
             THEN IF q.seen = q.row.by THEN [q EXCEPT !.stage = "register"]
                                       ELSE Waiting
             ELSE IF owner[c] = Null
                  THEN [q EXCEPT !.stage = "register", !.claimed = TRUE]
                  ELSE [q EXCEPT !.stage = "begin", !.retries = @ + 1])
        /\ UNCHANGED <<customers, owner, vehicles>>

\* vehicles_vin_unique_when_present ranges over deleted vehicles too.
VINTaken(v, row) ==
    /\ row.vin # Null
    /\ \E o \in VehicleIDs \ {v} : vehicles[o] # Null /\ vehicles[o].vin = row.vin

\* The insert of the vehicle and the commit, claim included; or 409 and
\* nothing of either.
CreateVehicleCommit(r) ==
    LET q == desk[r]
    IN  /\ q.stage = "register"
        /\ IF VINTaken(q.vehicle, q.row)
           THEN UNCHANGED <<owner, vehicles>>
           ELSE /\ vehicles' = [vehicles EXCEPT ![q.vehicle] = q.row]
                /\ owner' = IF q.claimed
                            THEN [owner EXCEPT ![q.row.customer] = q.row.by]
                            ELSE owner
        /\ Proceed(r, Waiting)
        /\ UNCHANGED customers

-----------------------------------------------------------------------------
(* Changes to vehicles *)

GetVehicle(v) == vehicles[v] # Null /\ ~ vehicles[v].deleted

\* authorizeVehicleCustomer through CustomerBelongsToDealership.
AuthorizeVehicleCustomer(u, v) ==
    \E d \in Dealerships : ManagerOf(u, d) /\ owner[vehicles[v].customer] = d

\* Sent fields replace the ones that were read.
UpdateVehicle(r, u, v, vin, plate) ==
    /\ GetVehicle(v) /\ AuthorizeVehicleCustomer(u, v)
    /\ Identified(vin, plate)
    /\ AcceptDesk(r, [stage |-> "update_vehicle", vehicle |-> v,
                      row |-> [vehicles[v] EXCEPT !.vin = vin, !.plate = plate]])

\* UPDATE ... WHERE deleted_at IS NULL: 404 once deleted, 409 for the VIN.
UpdateVehicleRow(r) ==
    LET q == desk[r]
    IN  /\ q.stage = "update_vehicle"
        /\ vehicles' = IF GetVehicle(q.vehicle) /\ ~ VINTaken(q.vehicle, q.row)
                       THEN [vehicles EXCEPT ![q.vehicle].vin = q.row.vin,
                                             ![q.vehicle].plate = q.row.plate]
                       ELSE vehicles
        /\ Proceed(r, Waiting)
        /\ UNCHANGED <<customers, owner>>

DeleteVehicle(r, u, v) ==
    /\ GetVehicle(v) /\ AuthorizeVehicleCustomer(u, v)
    /\ AcceptDesk(r, [stage |-> "delete_vehicle", vehicle |-> v, row |-> vehicles[v]])

DeleteVehicleRow(r) ==
    LET q == desk[r]
    IN  /\ q.stage = "delete_vehicle"
        /\ vehicles' = [vehicles EXCEPT ![q.vehicle].deleted = TRUE]
        /\ Proceed(r, Waiting)
        /\ UNCHANGED <<customers, owner>>

AbandonDesk(r) ==
    /\ desk[r] # Waiting
    /\ Proceed(r, Waiting)
    /\ UNCHANGED <<customers, owner, vehicles>>

-----------------------------------------------------------------------------
GarageInit(known, owners, registered) ==
    /\ customers = known
    /\ owner = owners
    /\ vehicles = registered
    /\ desk = [r \in Requests |-> Waiting]

DeskStep(r) ==
    \/ InsertCustomer(r) \/ UpdateCustomerRow(r)
    \/ CreateVehicleBegin(r) \/ ClaimCustomerDealership(r) \/ CreateVehicleCommit(r)
    \/ UpdateVehicleRow(r) \/ DeleteVehicleRow(r)

GarageNext ==
    \E r \in Requests :
        \/ \E u \in Users :
             \/ \E c \in Customers, email \in Contacts \cup {Null} :
                  \E phone \in Contacts :
                       \/ CreateCustomer(r, u, c, phone, email)
                       \/ UpdateCustomer(r, u, c, phone, email)
             \/ \E v \in VehicleIDs, vin, plate \in VINs \cup {Null} :
                  \/ \E d \in Dealerships, c \in Customers :
                       CreateVehicle(r, u, d, v, c, vin, plate)
                  \/ UpdateVehicle(r, u, v, vin, plate)
             \/ \E v \in VehicleIDs : DeleteVehicle(r, u, v)
        \/ DeskStep(r) \/ AbandonDesk(r)

-----------------------------------------------------------------------------
\* Type correctness of customers, owners, vehicles and handlers.
GarageTypeOK ==
    /\ customers \in [Customers -> Customer \cup {Null}]
    /\ owner \in [Customers -> Dealerships \cup {Null}]
    /\ vehicles \in [VehicleIDs -> Vehicle \cup {Null}]
    /\ desk \in [Requests -> GarageTx \cup {Waiting}]

\* "customer_dealerships" gives a customer to one dealership (2.
\* SYSTEM_DESIGN.md:73): every vehicle was registered by the dealership that
\* owns its customer, even when two dealerships register the customer's first
\* vehicles at once, and a customer that is owned has a vehicle.
VehiclesByOwner ==
    /\ \A v \in VehicleIDs : vehicles[v] # Null
         => owner[vehicles[v].customer] = vehicles[v].by
    /\ \A c \in Customers : owner[c] # Null
         => \E v \in VehicleIDs : vehicles[v] # Null /\ vehicles[v].customer = c

\* A contact names one customer and a VIN one vehicle, deleted ones included;
\* a vehicle keeps a VIN or a plate through updates that race.
IdentitiesDistinct ==
    /\ \A c, d \in Customers :
         c # d /\ customers[c] # Null /\ customers[d] # Null
           => /\ customers[c].phone # customers[d].phone
              /\ customers[c].email # Null => customers[c].email # customers[d].email
    /\ \A v \in VehicleIDs : vehicles[v] # Null
         => /\ Identified(vehicles[v].vin, vehicles[v].plate)
            /\ ~ VINTaken(v, vehicles[v])

\* A registration starts over at most once for its claim: the row that makes
\* the first attempt fail is in the snapshot of the second, so updateInTx's
\* ten attempts are never used up by rivals for the same customer.
ClaimSettled ==
    \A r \in Requests :
        desk[r].stage \in {"begin", "claim", "register"} => desk[r].retries <= 1

-----------------------------------------------------------------------------
Registers(q) == q.stage \in {"begin", "claim", "register"}

\* What a handler has read still holds when it writes: a new vehicle does not
\* exist yet, a vehicle that was found has not gone, an owner that was seen is
\* the owner still, and a customer whose claim is being inserted has none.  A
\* registration only starts over for a customer that is owned by then.
DeskSound(q) ==
    /\ Registers(q) =>
         /\ vehicles[q.vehicle] = Null
         /\ Identified(q.row.vin, q.row.plate)
         /\ q.claimed => q.stage = "register" /\ owner[q.row.customer] = Null
         /\ q.stage = "register" /\ ~ q.claimed => owner[q.row.customer] = q.row.by
         /\ q.stage = "claim" /\ q.seen # Null => owner[q.row.customer] = q.seen
         /\ q.retries <= 1
         /\ q.retries = 1 => owner[q.row.customer] # Null
         /\ q.retries = 1 /\ q.stage = "claim" => q.seen # Null
    /\ q.stage \in {"update_vehicle", "delete_vehicle"} => vehicles[q.vehicle] # Null
    /\ q.stage = "update_vehicle" => Identified(q.row.vin, q.row.plate)

\* Two registrations under way have vehicles of their own, and at most one of
\* them has inserted the claim of a customer.
RegistrationsApart ==
    \A r, s \in Requests :
        r # s /\ Registers(desk[r]) /\ Registers(desk[s])
          => /\ desk[r].vehicle # desk[s].vehicle
             /\ desk[r].claimed /\ desk[s].claimed
                  => desk[r].row.customer # desk[s].row.customer

GarageInv ==
    /\ GarageTypeOK
    /\ VehiclesByOwner
    /\ IdentitiesDistinct
    /\ \A r \in Requests : DeskSound(desk[r])
    /\ RegistrationsApart
=============================================================================
