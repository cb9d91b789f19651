---------------------------- MODULE GarageProofs ----------------------------
(***************************************************************************)
(* GarageInv is preserved by every step of the customers and vehicles      *)
(* operations, for every value of the constants.                           *)
(***************************************************************************)
EXTENDS Garage, StaffProofs

\* A handler's state by its stage.
LEMMA GarageByStage ==
    ASSUME NEW q \in GarageTx \cup {Waiting}
    PROVE  /\ q.stage \in {"add_customer", "update_customer"} =>
                q \in [stage : {"add_customer", "update_customer"}, customer : Customers,
                       row : Customer]
           /\ Registers(q) =>
                q \in [stage : {"begin", "claim", "register"}, vehicle : VehicleIDs,
                       row : Vehicle, seen : Dealerships \cup {Null}, claimed : BOOLEAN,
                       retries : Nat]
           /\ q.stage \in {"update_vehicle", "delete_vehicle"} =>
                q \in [stage : {"update_vehicle", "delete_vehicle"}, vehicle : VehicleIDs,
                       row : Vehicle]
  BY DEF GarageTx, Waiting, Registers

\* What the other components do leaves the garage as it is.
LEMMA GarageKept ==
    ASSUME GarageInv, UNCHANGED garageVars
    PROVE  GarageInv'
  <1>1. customers' = customers /\ owner' = owner /\ vehicles' = vehicles /\ desk' = desk
    BY DEF garageVars
  <1>2. GarageTypeOK' /\ VehiclesByOwner'
    BY <1>1 DEF GarageInv, GarageTypeOK, VehiclesByOwner
  <1>3. IdentitiesDistinct'
    BY <1>1 DEF GarageInv, IdentitiesDistinct, VINTaken
  <1>4. \A r \in Requests : DeskSound(desk[r])'
    BY <1>1 DEF GarageInv, DeskSound
  <1>5. RegistrationsApart'
    BY <1>1 DEF GarageInv, RegistrationsApart
  <1> QED
    BY <1>2, <1>3, <1>4, <1>5 DEF GarageInv

\* A desk without a request owes nothing.
LEMMA WaitingSound ==
    DeskSound(Waiting) /\ ~ Registers(Waiting)
  BY DEF DeskSound, Registers, Waiting

-----------------------------------------------------------------------------
(* Steps that only read *)

\* A handler reads and remembers q.
Serving(r, q) ==
    /\ desk' = [desk EXCEPT ![r] = q]
    /\ q \in GarageTx \cup {Waiting}
    /\ DeskSound(q)
    /\ Registers(q) => \A s \in Requests \ {r} :
         Registers(desk[s]) =>
           /\ desk[s].vehicle # q.vehicle
           /\ desk[s].claimed /\ q.claimed => desk[s].row.customer # q.row.customer
    /\ UNCHANGED <<customers, owner, vehicles>>

\* A step that only changes a request's own record keeps the invariant.
LEMMA ServingKeeps ==
    ASSUME GarageInv, NEW r \in Requests, NEW q, Serving(r, q)
    PROVE  GarageInv'
  <1>Q. /\ desk' \in [Requests -> GarageTx \cup {Waiting}]
        /\ desk'[r] = q
        /\ \A s \in Requests \ {r} : desk'[s] = desk[s]
    BY DEF GarageInv, GarageTypeOK, Serving
  <1>1. customers' = customers /\ owner' = owner /\ vehicles' = vehicles
    BY DEF Serving
  <1>2. GarageTypeOK' /\ VehiclesByOwner'
    BY <1>1, <1>Q DEF GarageInv, GarageTypeOK, VehiclesByOwner
  <1>3. IdentitiesDistinct'
    BY <1>1 DEF GarageInv, IdentitiesDistinct, VINTaken
  <1>4. ASSUME NEW s \in Requests PROVE DeskSound(desk[s])'
    <2>1. DeskSound(desk'[s])
      BY <1>Q DEF GarageInv, Serving
    <2> QED
      BY <2>1, <1>1 DEF DeskSound
  <1>5. RegistrationsApart'
    BY <1>Q DEF GarageInv, RegistrationsApart, Serving, Registers
  <1> QED
    BY <1>2, <1>3, <1>4, <1>5 DEF GarageInv

\* An answer without a write.
LEMMA AnswerServes ==
    ASSUME NEW r, desk' = [desk EXCEPT ![r] = Waiting],
           UNCHANGED <<customers, owner, vehicles>>
    PROVE  Serving(r, Waiting)
  BY WaitingSound DEF Serving

\* Accepting the creation or the update of a customer.
LEMMA CustomerServes ==
    ASSUME NEW r, NEW stage \in {"add_customer", "update_customer"},
           NEW c \in Customers, NEW row \in Customer,
           AcceptDesk(r, [stage |-> stage, customer |-> c, row |-> row])
    PROVE  \E q : Serving(r, q)
  <1> DEFINE q == [stage |-> stage, customer |-> c, row |-> row]
  <1>1. q \in GarageTx \cup {Waiting} /\ q.stage = stage
    BY DEF GarageTx
  <1>2. desk' = [desk EXCEPT ![r] = q] /\ UNCHANGED <<customers, owner, vehicles>>
    BY DEF AcceptDesk
  <1> HIDE DEF q
  <1>3. DeskSound(q) /\ ~ Registers(q)
    BY <1>1 DEF DeskSound, Registers
  <1> QED
    BY <1>1, <1>2, <1>3 DEF Serving

\* Accepting a registration for a vehicle identifier that is free.
LEMMA CreateVehicleServes ==
    ASSUME NEW r, NEW u, NEW d \in Dealerships, NEW v \in VehicleIDs, NEW c \in Customers,
           NEW vin \in VINs \cup {Null}, NEW plate \in VINs \cup {Null},
           CreateVehicle(r, u, d, v, c, vin, plate)
    PROVE  \E q : Serving(r, q)
  <1> DEFINE row == NewVehicle(c, vin, plate, d)
             q == [stage |-> "begin", vehicle |-> v, row |-> row, seen |-> Null,
                   claimed |-> FALSE, retries |-> 0]
  <1>1. row \in Vehicle /\ row.vin = vin /\ row.plate = plate
    BY DEF NewVehicle, Vehicle
  <1>2. /\ desk' = [desk EXCEPT ![r] = q] /\ UNCHANGED <<customers, owner, vehicles>>
        /\ Identified(vin, plate) /\ vehicles[v] = Null
        /\ \A s \in Requests : Registers(desk[s]) => desk[s].vehicle # v
    BY DEF CreateVehicle, AcceptDesk, Registers
  <1> HIDE DEF row
  <1>3. /\ q \in GarageTx \cup {Waiting} /\ q.stage = "begin" /\ q.vehicle = v
        /\ q.row = row /\ q.claimed = FALSE /\ q.retries = 0
    BY <1>1 DEF GarageTx
  <1> HIDE DEF q
  <1>4. DeskSound(q)
    BY <1>1, <1>2, <1>3 DEF DeskSound, Registers
  <1> QED
    BY <1>2, <1>3, <1>4 DEF Serving

\* UpdateVehicle and DeleteVehicle have found the vehicle.
LEMMA VehicleServes ==
    ASSUME NEW r, NEW stage \in {"update_vehicle", "delete_vehicle"}, NEW v \in VehicleIDs,
           NEW row \in Vehicle, vehicles[v] # Null,
           stage = "update_vehicle" => Identified(row.vin, row.plate),
           AcceptDesk(r, [stage |-> stage, vehicle |-> v, row |-> row])
    PROVE  \E q : Serving(r, q)
  <1> DEFINE q == [stage |-> stage, vehicle |-> v, row |-> row]
  <1>1. q \in GarageTx \cup {Waiting} /\ q.stage = stage /\ q.vehicle = v /\ q.row = row
    BY DEF GarageTx
  <1>2. desk' = [desk EXCEPT ![r] = q] /\ UNCHANGED <<customers, owner, vehicles>>
    BY DEF AcceptDesk
  <1> HIDE DEF q
  <1>3. DeskSound(q) /\ ~ Registers(q)
    BY <1>1 DEF DeskSound, Registers
  <1> QED
    BY <1>1, <1>2, <1>3 DEF Serving

\* UpdateVehicle reads the vehicle and validates what it is going to write.
LEMMA UpdateVehicleServes ==
    ASSUME GarageInv, NEW r, NEW u, NEW v \in VehicleIDs,
           NEW vin \in VINs \cup {Null}, NEW plate \in VINs \cup {Null},
           UpdateVehicle(r, u, v, vin, plate)
    PROVE  \E q : Serving(r, q)
  <1> DEFINE old == vehicles[v]
             row == [old EXCEPT !.vin = vin, !.plate = plate]
  <1>1. old \in Vehicle /\ old # Null /\ Identified(vin, plate)
    BY DEF UpdateVehicle, GetVehicle, GarageInv, GarageTypeOK
  <1>2. AcceptDesk(r, [stage |-> "update_vehicle", vehicle |-> v, row |-> row])
    BY DEF UpdateVehicle
  <1>3. row \in Vehicle /\ row.vin = vin /\ row.plate = plate
    <2> HIDE DEF old
    <2> QED
      BY <1>1 DEF Vehicle
  <1> HIDE DEF row
  <1> QED
    BY <1>1, <1>2, <1>3, VehicleServes

\* A registration moves on: to another stage, with what it has seen or claimed
\* and how often it has started over.
LEMMA RegistrationServes ==
    ASSUME GarageInv, NEW r \in Requests, Registers(desk[r]), NEW q,
           q \in GarageTx \cup {Waiting}, Registers(q), DeskSound(q),
           q.vehicle = desk[r].vehicle, q.row = desk[r].row,
           q.claimed => \A s \in Requests \ {r} :
             Registers(desk[s]) /\ desk[s].claimed => desk[s].row.customer # q.row.customer,
           desk' = [desk EXCEPT ![r] = q], UNCHANGED <<customers, owner, vehicles>>
    PROVE  Serving(r, q)
  <1>1. \A s \in Requests \ {r} : Registers(desk[s]) => desk[s].vehicle # q.vehicle
    BY DEF GarageInv, RegistrationsApart
  <1> QED
    BY <1>1 DEF Serving

\* The registration's first read: the owner it sees is the snapshot's.
LEMMA BeginServes ==
    ASSUME GarageInv, NEW r \in Requests, CreateVehicleBegin(r)
    PROVE  \E q : Serving(r, q)
  <1> DEFINE p == desk[r]
             own == owner[p.row.customer]
             q == [p EXCEPT !.stage = "claim", !.seen = own]
  <1>1. p.stage = "begin" /\ p \in GarageTx \cup {Waiting} /\ DeskSound(p) /\ Registers(p)
    BY DEF CreateVehicleBegin, GarageInv, GarageTypeOK, Registers
  <1>2. p \in [stage : {"begin", "claim", "register"}, vehicle : VehicleIDs,
               row : Vehicle, seen : Dealerships \cup {Null}, claimed : BOOLEAN,
               retries : Nat]
    BY <1>1, GarageByStage
  <1>3. own \in Dealerships \cup {Null}
    BY <1>2 DEF GarageInv, GarageTypeOK, Vehicle
  <1>4. /\ UNCHANGED <<customers, owner, vehicles>>
        /\ desk' = [desk EXCEPT ![r] = Waiting] \/ desk' = [desk EXCEPT ![r] = q]
    BY DEF CreateVehicleBegin, Proceed
  <1>5. CASE desk' = [desk EXCEPT ![r] = Waiting]
    BY <1>4, <1>5, AnswerServes
  <1>6. CASE desk' = [desk EXCEPT ![r] = q]
    <2>0. /\ vehicles[p.vehicle] = Null /\ Identified(p.row.vin, p.row.plate)
          /\ ~ p.claimed /\ p.retries <= 1 /\ (p.retries = 1 => own # Null)
      BY <1>1 DEF DeskSound, Registers
    <2> DEFINE c == p.row.customer
    <2>o. own = owner[c]
      OBVIOUS
    <2> HIDE DEF p, own
    <2>1. /\ q \in GarageTx \cup {Waiting} /\ q.stage = "claim" /\ q.seen = own
          /\ q.vehicle = p.vehicle /\ q.row = p.row /\ q.claimed = p.claimed
          /\ q.retries = p.retries
      BY <1>2, <1>3 DEF GarageTx
    <2> HIDE DEF q
    <2>2. DeskSound(q) /\ Registers(q)
      BY <2>0, <2>1, <2>o DEF DeskSound, Registers
    <2>3. Serving(r, q)
      BY <1>1, <1>4, <1>6, <2>0, <2>1, <2>2, RegistrationServes DEF p
    <2> QED
      BY <2>3
  <1> QED
    BY <1>4, <1>5, <1>6

\* The three ways on from the claim: the customer is ours, or nobody's and no
\* other claim is under way, or has been claimed since, once.
LEMMA ClaimServes ==
    ASSUME GarageInv, NEW r \in Requests, ClaimCustomerDealership(r)
    PROVE  \E q : Serving(r, q)
  <1> DEFINE p == desk[r]
             c == p.row.customer
             ours == [p EXCEPT !.stage = "register"]
             claim == [p EXCEPT !.stage = "register", !.claimed = TRUE]
             again == [p EXCEPT !.stage = "begin", !.retries = @ + 1]
  <1>1. p.stage = "claim" /\ p \in GarageTx \cup {Waiting} /\ DeskSound(p) /\ Registers(p)
    BY DEF ClaimCustomerDealership, GarageInv, GarageTypeOK, Registers
  <1>2. p \in [stage : {"begin", "claim", "register"}, vehicle : VehicleIDs,
               row : Vehicle, seen : Dealerships \cup {Null}, claimed : BOOLEAN,
               retries : Nat]
    BY <1>1, GarageByStage
  <1>3. /\ UNCHANGED <<customers, owner, vehicles>>
        /\ ~ ClaimPending(r)
        /\ \/ desk' = [desk EXCEPT ![r] = Waiting]
           \/ p.seen # Null /\ p.seen = p.row.by /\ desk' = [desk EXCEPT ![r] = ours]
           \/ p.seen = Null /\ owner[c] = Null /\ desk' = [desk EXCEPT ![r] = claim]
           \/ p.seen = Null /\ owner[c] # Null /\ desk' = [desk EXCEPT ![r] = again]
    BY DEF ClaimCustomerDealership, Proceed
  <1>4. /\ vehicles[p.vehicle] = Null /\ Identified(p.row.vin, p.row.plate)
        /\ ~ p.claimed /\ p.retries <= 1
        /\ p.seen # Null => owner[c] = p.seen
        /\ p.retries = 1 => owner[c] # Null /\ p.seen # Null
    BY <1>1 DEF DeskSound, Registers
  <1>5. \A s \in Requests \ {r} :
          Registers(desk[s]) /\ desk[s].claimed => desk[s].row.customer # c
    <2>1. \A s \in Requests : Registers(desk[s]) /\ desk[s].claimed
                                => desk[s].stage = "register"
      BY DEF GarageInv, DeskSound
    <2> QED
      BY <2>1, <1>3 DEF ClaimPending
  <1>6. CASE desk' = [desk EXCEPT ![r] = Waiting]
    BY <1>3, <1>6, AnswerServes
  <1>7. CASE p.seen # Null /\ p.seen = p.row.by /\ desk' = [desk EXCEPT ![r] = ours]
    <2>1. Serving(r, ours)
      <3> HIDE DEF p
      <3>1. /\ ours \in GarageTx \cup {Waiting} /\ ours.stage = "register"
            /\ ours.vehicle = p.vehicle /\ ours.row = p.row /\ ours.claimed = p.claimed
            /\ ours.retries = p.retries
        BY <1>2 DEF GarageTx
      <3> HIDE DEF ours
      <3>2. DeskSound(ours) /\ Registers(ours)
        BY <3>1, <1>4, <1>7 DEF DeskSound, Registers
      <3> QED
        BY <3>1, <3>2, <1>1, <1>3, <1>4, <1>7, RegistrationServes DEF p
    <2> QED
      BY <2>1
  <1>8. CASE p.seen = Null /\ owner[c] = Null /\ desk' = [desk EXCEPT ![r] = claim]
    <2>1. Serving(r, claim)
      <3> HIDE DEF p
      <3>1. /\ claim \in GarageTx \cup {Waiting} /\ claim.stage = "register"
            /\ claim.vehicle = p.vehicle /\ claim.row = p.row /\ claim.claimed = TRUE
            /\ claim.retries = p.retries
        BY <1>2 DEF GarageTx
      <3> HIDE DEF claim
      <3>2. DeskSound(claim) /\ Registers(claim)
        BY <3>1, <1>4, <1>8 DEF DeskSound, Registers
      <3> QED
        BY <3>1, <3>2, <1>1, <1>3, <1>5, <1>8, RegistrationServes DEF p
    <2> QED
      BY <2>1
  <1>9. CASE p.seen = Null /\ owner[c] # Null /\ desk' = [desk EXCEPT ![r] = again]
    <2>1. Serving(r, again)
      <3> HIDE DEF p
      <3>0. p.retries = 0
        BY <1>2, <1>4, <1>9
      <3>a. again = [p EXCEPT !.stage = "begin", !.retries = 1]
        BY <3>0
      <3> HIDE DEF again
      <3>1. /\ again \in GarageTx \cup {Waiting} /\ again.stage = "begin"
            /\ again.vehicle = p.vehicle /\ again.row = p.row /\ again.claimed = p.claimed
            /\ again.retries = 1
        BY <1>2, <3>a DEF GarageTx
      <3>2. DeskSound(again) /\ Registers(again)
        BY <3>1, <1>4, <1>9 DEF DeskSound, Registers
      <3> QED
        BY <3>1, <3>2, <1>1, <1>3, <1>4, <1>9, RegistrationServes DEF p
    <2> QED
      BY <2>1
  <1> QED
    BY <1>3, <1>6, <1>7, <1>8, <1>9

-----------------------------------------------------------------------------
(* Steps that write *)

\* A handler that answers is Waiting, and the others are where they were.
LEMMA AnswerDesk ==
    ASSUME GarageInv, NEW r \in Requests, desk' = [desk EXCEPT ![r] = Waiting]
    PROVE  /\ desk' \in [Requests -> GarageTx \cup {Waiting}]
           /\ desk'[r] = Waiting
           /\ \A s \in Requests \ {r} : desk'[s] = desk[s]
           /\ \A s \in Requests : DeskSound(desk'[s])
           /\ RegistrationsApart'
  <1>1. /\ desk' \in [Requests -> GarageTx \cup {Waiting}]
        /\ desk'[r] = Waiting
        /\ \A s \in Requests \ {r} : desk'[s] = desk[s]
    BY DEF GarageInv, GarageTypeOK
  <1>2. RegistrationsApart'
    BY <1>1, WaitingSound DEF GarageInv, RegistrationsApart, Registers
  <1> QED
    BY <1>1, <1>2, WaitingSound DEF GarageInv

\* The statement that writes a customer meets the unique contacts.
LEMMA WriteCustomerKeeps ==
    ASSUME GarageInv, NEW r \in Requests, NEW stage \in {"add_customer", "update_customer"},
           WriteCustomer(r, stage)
    PROVE  GarageInv'
  <1> DEFINE q == desk[r]
             n == q.customer
             row == q.row
  <1>1. q \in GarageTx \cup {Waiting} /\ q.stage = stage
    BY DEF WriteCustomer, GarageInv, GarageTypeOK
  <1>2. n \in Customers /\ row \in Customer /\ row # Null
    BY <1>1, GarageByStage, GarageAssumption
  <1>3. /\ customers' = IF ContactTaken(n, row) THEN customers
                        ELSE [customers EXCEPT ![n] = row]
        /\ owner' = owner /\ vehicles' = vehicles
        /\ desk' = [desk EXCEPT ![r] = Waiting]
    BY DEF WriteCustomer, Proceed
  <1> HIDE DEF q, n, row
  <1>4. customers' \in [Customers -> Customer \cup {Null}]
    BY <1>2, <1>3 DEF GarageInv, GarageTypeOK
  <1>5. GarageTypeOK' /\ VehiclesByOwner'
    BY <1>3, <1>4, AnswerDesk DEF GarageInv, GarageTypeOK, VehiclesByOwner
  <1>6. ASSUME NEW c \in Customers, NEW d \in Customers, c # d,
               customers'[c] # Null, customers'[d] # Null
        PROVE  /\ customers'[c].phone # customers'[d].phone
               /\ customers'[c].email # Null => customers'[c].email # customers'[d].email
    <2>1. CASE ContactTaken(n, row)
      BY <2>1, <1>3, <1>6 DEF GarageInv, IdentitiesDistinct
    <2>2. CASE ~ ContactTaken(n, row)
      <3>1. /\ customers'[n] = row
            /\ \A x \in Customers \ {n} : customers'[x] = customers[x]
        BY <2>2, <1>2, <1>3 DEF GarageInv, GarageTypeOK
      <3>2. CASE c # n /\ d # n
        BY <3>1, <3>2, <1>6 DEF GarageInv, IdentitiesDistinct
      <3>3. CASE c = n
        BY <3>1, <3>3, <2>2, <1>6 DEF ContactTaken
      <3>4. CASE d = n
        BY <3>1, <3>4, <2>2, <1>6 DEF ContactTaken
      <3> QED
        BY <3>2, <3>3, <3>4
    <2> QED
      BY <2>1, <2>2
  <1>7. IdentitiesDistinct'
    BY <1>3, <1>6 DEF GarageInv, IdentitiesDistinct, VINTaken
  <1>8. ASSUME NEW s \in Requests PROVE DeskSound(desk[s])'
    <2>1. DeskSound(desk'[s])
      BY <1>3, AnswerDesk
    <2> QED
      BY <2>1, <1>3 DEF DeskSound
  <1> QED
    BY <1>3, <1>5, <1>7, <1>8, AnswerDesk DEF GarageInv

\* A vehicle of a known customer changes its identification or is deleted.
LEMMA VehicleChanged ==
    ASSUME GarageInv, NEW r \in Requests, NEW v \in VehicleIDs, vehicles[v] # Null,
           NEW row \in Vehicle, row.customer = vehicles[v].customer,
           row.by = vehicles[v].by, Identified(row.vin, row.plate), ~ VINTaken(v, row),
           vehicles' = [vehicles EXCEPT ![v] = row],
           desk' = [desk EXCEPT ![r] = Waiting], UNCHANGED <<customers, owner>>
    PROVE  GarageInv'
  <1>0. row # Null
    BY GarageAssumption
  <1>1. /\ vehicles' \in [VehicleIDs -> Vehicle \cup {Null}]
        /\ vehicles'[v] = row
        /\ \A w \in VehicleIDs \ {v} : vehicles'[w] = vehicles[w]
    BY DEF GarageInv, GarageTypeOK
  <1>2. GarageTypeOK'
    BY <1>1, AnswerDesk DEF GarageInv, GarageTypeOK
  <1>3. VehiclesByOwner'
    <2>1. \A w \in VehicleIDs : /\ vehicles'[w] # Null <=> vehicles[w] # Null
                                /\ vehicles[w] # Null =>
                                     /\ vehicles'[w].customer = vehicles[w].customer
                                     /\ vehicles'[w].by = vehicles[w].by
      BY <1>0, <1>1
    <2> QED
      BY <2>1 DEF GarageInv, VehiclesByOwner
  <1>4. ASSUME NEW w \in VehicleIDs, vehicles'[w] # Null
        PROVE  Identified(vehicles'[w].vin, vehicles'[w].plate) /\ ~ VINTaken(w, vehicles[w])'
    <2>1. CASE w = v
      BY <2>1, <1>1 DEF VINTaken
    <2>2. CASE w # v
      <3>1. vehicles'[w] = vehicles[w]
        BY <2>2, <1>1
      <3>2. Identified(vehicles[w].vin, vehicles[w].plate) /\ ~ VINTaken(w, vehicles[w])
        BY <3>1, <1>4 DEF GarageInv, IdentitiesDistinct
      <3> QED
        BY <3>1, <3>2, <1>1, <1>4 DEF VINTaken
    <2> QED
      BY <2>1, <2>2
  <1>5. IdentitiesDistinct'
    BY <1>4 DEF GarageInv, IdentitiesDistinct
  <1>6. ASSUME NEW s \in Requests PROVE DeskSound(desk[s])'
    <2>1. DeskSound(desk'[s]) /\ desk'[s] \in GarageTx \cup {Waiting}
      BY AnswerDesk
    <2>2. \A w \in VehicleIDs : vehicles'[w] = Null <=> vehicles[w] = Null
      BY <1>0, <1>1
    <2>3. Registers(desk'[s]) \/ desk'[s].stage \in {"update_vehicle", "delete_vehicle"}
            => desk'[s].vehicle \in VehicleIDs
      BY <2>1, GarageByStage
    <2> QED
      BY <2>1, <2>2, <2>3 DEF DeskSound
  <1> QED
    BY <1>2, <1>3, <1>5, <1>6, AnswerDesk DEF GarageInv

\* The statement that updates a vehicle meets the unique VIN and leaves the
\* vehicle with its customer.
LEMMA UpdateVehicleRowKeeps ==
    ASSUME GarageInv, NEW r \in Requests, UpdateVehicleRow(r)
    PROVE  GarageInv'
  <1> DEFINE q == desk[r]
             v == q.vehicle
             old == vehicles[v]
             row == [old EXCEPT !.vin = q.row.vin, !.plate = q.row.plate]
  <1>1. q \in GarageTx \cup {Waiting} /\ q.stage = "update_vehicle" /\ DeskSound(q)
    BY DEF UpdateVehicleRow, GarageInv, GarageTypeOK
  <1>2. /\ v \in VehicleIDs /\ q.row \in Vehicle
        /\ old # Null /\ Identified(q.row.vin, q.row.plate)
    BY <1>1, GarageByStage DEF DeskSound
  <1>3. old \in Vehicle
    BY <1>2 DEF GarageInv, GarageTypeOK
  <1>4. /\ desk' = [desk EXCEPT ![r] = Waiting] /\ UNCHANGED <<customers, owner>>
        /\ \/ vehicles' = vehicles
           \/ /\ ~ VINTaken(v, q.row)
              /\ vehicles' = [vehicles EXCEPT ![v].vin = q.row.vin, ![v].plate = q.row.plate]
    BY DEF UpdateVehicleRow, Proceed
  <1>5. CASE vehicles' = vehicles
    BY <1>4, <1>5, AnswerServes, ServingKeeps
  <1>6. CASE /\ ~ VINTaken(v, q.row)
             /\ vehicles' = [vehicles EXCEPT ![v].vin = q.row.vin, ![v].plate = q.row.plate]
    <2>1. vehicles' = [vehicles EXCEPT ![v] = row]
      BY <1>2, <1>3, <1>6 DEF GarageInv, GarageTypeOK, Vehicle
    <2>2. /\ row \in Vehicle /\ row.customer = old.customer /\ row.by = old.by
          /\ row.vin = q.row.vin /\ row.plate = q.row.plate
      <3> HIDE DEF old, q
      <3> QED
        BY <1>2, <1>3 DEF Vehicle
    <2> HIDE DEF row
    <2>3. ~ VINTaken(v, row)
      BY <2>2, <1>6 DEF VINTaken
    <2> QED
      BY <2>1, <2>2, <2>3, <1>2, <1>4, VehicleChanged
  <1> QED
    BY <1>4, <1>5, <1>6

\* A deleted vehicle stays with its customer and keeps its VIN.
LEMMA DeleteVehicleRowKeeps ==
    ASSUME GarageInv, NEW r \in Requests, DeleteVehicleRow(r)
    PROVE  GarageInv'
  <1> DEFINE q == desk[r]
             v == q.vehicle
             old == vehicles[v]
             row == [old EXCEPT !.deleted = TRUE]
  <1>1. q \in GarageTx \cup {Waiting} /\ q.stage = "delete_vehicle" /\ DeskSound(q)
    BY DEF DeleteVehicleRow, GarageInv, GarageTypeOK
  <1>2. v \in VehicleIDs /\ old # Null
    BY <1>1, GarageByStage DEF DeskSound
  <1>3. old \in Vehicle /\ Identified(old.vin, old.plate) /\ ~ VINTaken(v, old)
    BY <1>2 DEF GarageInv, GarageTypeOK, IdentitiesDistinct
  <1>4. /\ desk' = [desk EXCEPT ![r] = Waiting] /\ UNCHANGED <<customers, owner>>
        /\ vehicles' = [vehicles EXCEPT ![v] = row]
    BY DEF DeleteVehicleRow, Proceed
  <1>5. /\ row \in Vehicle /\ row.customer = old.customer /\ row.by = old.by
        /\ row.vin = old.vin /\ row.plate = old.plate
    <2> HIDE DEF old
    <2> QED
      BY <1>3 DEF Vehicle
  <1> HIDE DEF row
  <1>6. ~ VINTaken(v, row)
    BY <1>3, <1>5 DEF VINTaken
  <1> QED
    BY <1>2, <1>3, <1>4, <1>5, <1>6, VehicleChanged

\* The vehicle and the claim commit together: the customer had no owner, hence
\* no vehicle, and no other registration relies on its having none.
LEMMA CommitKeeps ==
    ASSUME GarageInv, NEW r \in Requests, CreateVehicleCommit(r)
    PROVE  GarageInv'
  <1> DEFINE q == desk[r]
             v == q.vehicle
             row == q.row
             c == row.customer
  <1>1. q \in GarageTx \cup {Waiting} /\ q.stage = "register" /\ DeskSound(q) /\ Registers(q)
    BY DEF CreateVehicleCommit, GarageInv, GarageTypeOK, Registers
  <1>2. /\ v \in VehicleIDs /\ row \in Vehicle /\ row # Null /\ q.claimed \in BOOLEAN
        /\ c \in Customers /\ row.by \in Dealerships /\ row.by # Null
    BY <1>1, GarageByStage, GarageAssumption DEF Vehicle
  <1>3. /\ vehicles[v] = Null /\ Identified(row.vin, row.plate)
        /\ q.claimed => owner[c] = Null
        /\ ~ q.claimed => owner[c] = row.by
    BY <1>1 DEF DeskSound
  <1>4. desk' = [desk EXCEPT ![r] = Waiting] /\ customers' = customers
    BY DEF CreateVehicleCommit, Proceed
  <1>5. CASE VINTaken(v, row)
    <2>1. UNCHANGED <<customers, owner, vehicles>>
      BY <1>5 DEF CreateVehicleCommit
    <2> QED
      BY <2>1, <1>4, AnswerServes, ServingKeeps
  <1>6. CASE ~ VINTaken(v, row)
    <2>1. /\ vehicles' = [vehicles EXCEPT ![v] = row]
          /\ owner' = IF q.claimed THEN [owner EXCEPT ![c] = row.by] ELSE owner
      BY <1>6 DEF CreateVehicleCommit
    <2>A. \A s \in Requests \ {r} : Registers(desk[s]) =>
            /\ desk[s].vehicle # v
            /\ q.claimed /\ desk[s].claimed => desk[s].row.customer # c
      BY <1>1 DEF GarageInv, RegistrationsApart
    <2> HIDE DEF q, v, row
    <2>2. /\ vehicles' \in [VehicleIDs -> Vehicle \cup {Null}]
          /\ vehicles'[v] = row
          /\ \A w \in VehicleIDs \ {v} : vehicles'[w] = vehicles[w]
      BY <2>1, <1>2 DEF GarageInv, GarageTypeOK
    <2>3. /\ owner' \in [Customers -> Dealerships \cup {Null}]
          /\ owner'[c] = row.by
          /\ \A x \in Customers \ {c} : owner'[x] = owner[x]
          /\ \A x \in Customers : owner[x] # Null => owner'[x] = owner[x]
      BY <2>1, <1>2, <1>3 DEF GarageInv, GarageTypeOK
    <2>4. GarageTypeOK'
      BY <2>2, <2>3, <1>4, AnswerDesk DEF GarageInv, GarageTypeOK
    <2>5. VehiclesByOwner'
      <3>1. ASSUME NEW w \in VehicleIDs, vehicles'[w] # Null
            PROVE  owner'[vehicles'[w].customer] = vehicles'[w].by
        <4>1. CASE w = v
          BY <4>1, <2>2, <2>3
        <4>2. CASE w # v
          <5>1. vehicles'[w] = vehicles[w] /\ vehicles[w] \in Vehicle
            BY <4>2, <3>1, <2>2 DEF GarageInv, GarageTypeOK
          <5>2. owner[vehicles[w].customer] = vehicles[w].by /\ vehicles[w].by # Null
                /\ vehicles[w].customer \in Customers
            BY <5>1, <3>1, GarageAssumption DEF GarageInv, VehiclesByOwner, Vehicle
          <5> QED
            BY <5>1, <5>2, <2>3
        <4> QED
          BY <4>1, <4>2
      <3>2. ASSUME NEW x \in Customers, owner'[x] # Null
            PROVE  \E w \in VehicleIDs : vehicles'[w] # Null /\ vehicles'[w].customer = x
        <4>1. CASE x = c
          BY <4>1, <2>2, <1>2
        <4>2. CASE x # c
          <5>1. PICK w \in VehicleIDs : vehicles[w] # Null /\ vehicles[w].customer = x
            BY <4>2, <3>2, <2>3 DEF GarageInv, VehiclesByOwner
          <5>2. w # v /\ vehicles'[w] = vehicles[w]
            BY <5>1, <2>2, <1>3
          <5> QED
            BY <5>1, <5>2
        <4> QED
          BY <4>1, <4>2
      <3> QED
        BY <3>1, <3>2 DEF VehiclesByOwner
    <2>6. ASSUME NEW w \in VehicleIDs, vehicles'[w] # Null
          PROVE  Identified(vehicles'[w].vin, vehicles'[w].plate) /\ ~ VINTaken(w, vehicles[w])'
      <3>1. CASE w = v
        BY <3>1, <2>2, <1>3, <1>6 DEF VINTaken
      <3>2. CASE w # v
        <4>1. vehicles'[w] = vehicles[w]
          BY <3>2, <2>2
        <4>2. Identified(vehicles[w].vin, vehicles[w].plate) /\ ~ VINTaken(w, vehicles[w])
          BY <4>1, <2>6 DEF GarageInv, IdentitiesDistinct
        <4> QED
          BY <4>1, <4>2, <2>2, <2>6, <1>6 DEF VINTaken
      <3> QED
        BY <3>1, <3>2
    <2>7. IdentitiesDistinct'
      BY <2>6, <1>4 DEF GarageInv, IdentitiesDistinct
    <2>8. ASSUME NEW s \in Requests PROVE DeskSound(desk[s])'
      <3>1. CASE s = r
        BY <3>1, <1>4, AnswerDesk DEF DeskSound, Registers, Waiting
      <3>2. CASE s # r
        <4> DEFINE p == desk[s]
        <4>1. desk'[s] = p /\ DeskSound(p) /\ p \in GarageTx \cup {Waiting}
          BY <3>2, <1>4, AnswerDesk DEF GarageInv, GarageTypeOK
        <4>2. Registers(p) => /\ p.vehicle \in VehicleIDs /\ p.vehicle # v
                              /\ p.row.customer \in Customers /\ p.row.by \in Dealerships
                              /\ q.claimed /\ p.claimed => p.row.customer # c
                              /\ p.seen \in Dealerships \cup {Null}
          BY <4>1, <3>2, <2>A, GarageByStage DEF Vehicle
        <4>3. p.stage \in {"update_vehicle", "delete_vehicle"} => p.vehicle \in VehicleIDs
          BY <4>1, GarageByStage
        <4>4. Registers(p) => vehicles'[p.vehicle] = Null
          BY <4>1, <4>2, <2>2 DEF DeskSound
        <4>5. Registers(p) /\ p.claimed => owner'[p.row.customer] = Null
          <5>1. CASE q.claimed
            BY <5>1, <4>1, <4>2, <2>3 DEF DeskSound
          <5>2. CASE ~ q.claimed
            BY <5>2, <4>1, <4>2, <2>1 DEF DeskSound
          <5> QED
            BY <5>1, <5>2
        <4>6. /\ Registers(p) /\ p.stage = "register" /\ ~ p.claimed
                   => owner'[p.row.customer] = p.row.by
              /\ Registers(p) /\ p.stage = "claim" /\ p.seen # Null
                   => owner'[p.row.customer] = p.seen
              /\ Registers(p) /\ p.retries = 1 => owner'[p.row.customer] # Null
          BY <4>1, <4>2, <2>3, GarageAssumption DEF DeskSound
        <4>7. p.stage \in {"update_vehicle", "delete_vehicle"} => vehicles'[p.vehicle] # Null
          BY <4>1, <4>3, <2>2, <1>2, <1>3 DEF DeskSound
        <4> QED
          BY <4>1, <4>4, <4>5, <4>6, <4>7 DEF DeskSound, Registers
      <3> QED
        BY <3>1, <3>2
    <2> QED
      BY <2>4, <2>5, <2>7, <2>8, <1>4, AnswerDesk DEF GarageInv
  <1> QED
    BY <1>5, <1>6

-----------------------------------------------------------------------------
\* GarageInv is inductive.
LEMMA GarageStep ==
    ASSUME GarageInv, GarageNext
    PROVE  GarageInv'
  <1>1. PICK r \in Requests :
        \/ \E u \in Users :
             \/ \E c \in Customers, email \in Contacts \cup {Null} :
                  \E phone \in Contacts :
                       \/ CreateCustomer(r, u, c, phone, email)
                       \/ UpdateCustomer(r, u, c, phone, email)
             \/ \E v \in VehicleIDs, vin, plate \in VINs \cup {Null} :
                  \/ \E d \in Dealerships, c \in Customers :
                       CreateVehicle(r, u, d, v, c, vin, plate)
                  \/ UpdateVehicle(r, u, v, vin, plate)
             \/ \E v \in VehicleIDs : DeleteVehicle(r, u, v)
        \/ DeskStep(r) \/ AbandonDesk(r)
    BY DEF GarageNext
  <1>2. ASSUME NEW u \in Users, NEW c \in Customers, NEW email \in Contacts \cup {Null},
               NEW phone \in Contacts,
               \/ CreateCustomer(r, u, c, phone, email)
               \/ UpdateCustomer(r, u, c, phone, email)
        PROVE  \E q : Serving(r, q)
    <2> DEFINE row == [phone |-> phone, email |-> email]
    <2>1. row \in Customer
      BY DEF Customer
    <2>2. \E stage \in {"add_customer", "update_customer"} :
            AcceptDesk(r, [stage |-> stage, customer |-> c, row |-> row])
      BY <1>2 DEF CreateCustomer, UpdateCustomer, NewCustomer
    <2> HIDE DEF row
    <2> QED
      BY <2>1, <2>2, CustomerServes
  <1>3. ASSUME NEW u \in Users, NEW v \in VehicleIDs, NEW vin \in VINs \cup {Null},
               NEW plate \in VINs \cup {Null}, UpdateVehicle(r, u, v, vin, plate)
        PROVE  \E q : Serving(r, q)
    BY <1>3, UpdateVehicleServes
  <1>4. ASSUME NEW u \in Users, NEW v \in VehicleIDs, DeleteVehicle(r, u, v)
        PROVE  \E q : Serving(r, q)
    <2>1. /\ vehicles[v] # Null /\ vehicles[v] \in Vehicle
          /\ AcceptDesk(r, [stage |-> "delete_vehicle", vehicle |-> v, row |-> vehicles[v]])
      BY <1>4 DEF DeleteVehicle, GetVehicle, GarageInv, GarageTypeOK
    <2> QED
      BY <2>1, VehicleServes
  <1>5. CASE AbandonDesk(r)
    BY <1>5, AnswerServes, ServingKeeps DEF AbandonDesk, Proceed
  <1>6. CASE InsertCustomer(r) \/ UpdateCustomerRow(r)
    BY <1>6, WriteCustomerKeeps DEF InsertCustomer, UpdateCustomerRow
  <1>7. CASE DeskStep(r)
    BY <1>6, <1>7, BeginServes, ClaimServes, ServingKeeps, CommitKeeps,
       UpdateVehicleRowKeeps, DeleteVehicleRowKeeps DEF DeskStep
  <1> QED
    BY <1>1, <1>2, <1>3, <1>4, <1>5, <1>7, CreateVehicleServes, ServingKeeps

\* Its steps change nothing else, and count the requests.
LEMMA GarageApart ==
    ASSUME AccountsInv, GarageNext
    PROVE  UNCHANGED <<accountVars, staffVars>> /\ accepted' \in Nat
  <1> DEFINE Apart == UNCHANGED <<accountVars, staffVars>> /\ accepted' \in Nat
  <1>1. accepted \in Nat
    BY DEF AccountsInv, AccountsTypeOK
  <1>2. ASSUME NEW r, NEW q, AcceptDesk(r, q) \/ Proceed(r, q) PROVE Apart
    BY <1>1, <1>2 DEF AcceptDesk, Proceed
  <1> HIDE DEF Apart
  <1>3. ASSUME NEW r, NEW u, NEW c, NEW phone, NEW email,
               \/ CreateCustomer(r, u, c, phone, email)
               \/ UpdateCustomer(r, u, c, phone, email)
        PROVE  Apart
    BY <1>2, <1>3 DEF CreateCustomer, UpdateCustomer
  <1>4. ASSUME NEW r, NEW u, NEW v, NEW vin, NEW plate, NEW d, NEW c,
               \/ CreateVehicle(r, u, d, v, c, vin, plate)
               \/ UpdateVehicle(r, u, v, vin, plate)
               \/ DeleteVehicle(r, u, v)
        PROVE  Apart
    BY <1>2, <1>4 DEF CreateVehicle, UpdateVehicle, DeleteVehicle
  <1>5. ASSUME NEW r, DeskStep(r) \/ AbandonDesk(r) PROVE Apart
    BY <1>2, <1>5 DEF DeskStep, InsertCustomer, UpdateCustomerRow, WriteCustomer,
       CreateVehicleBegin, ClaimCustomerDealership, CreateVehicleCommit,
       UpdateVehicleRow, DeleteVehicleRow, AbandonDesk
  <1>6. Apart
    BY <1>3, <1>4, <1>5 DEF GarageNext
  <1> QED
    BY <1>6 DEF Apart

\* The tables a behaviour starts with.
LEMMA GarageStart ==
    ASSUME NEW known \in [Customers -> Customer \cup {Null}],
           NEW owners \in [Customers -> Dealerships \cup {Null}],
           NEW registered \in [VehicleIDs -> Vehicle \cup {Null}],
           \A c, d \in Customers : c # d /\ known[c] # Null /\ known[d] # Null
             => /\ known[c].phone # known[d].phone
                /\ known[c].email # Null => known[c].email # known[d].email,
           \A c \in Customers : owners[c] # Null
             => \E v \in VehicleIDs : registered[v] # Null /\ registered[v].customer = c,
           \A v \in VehicleIDs : registered[v] # Null
             => /\ owners[registered[v].customer] = registered[v].by
                /\ Identified(registered[v].vin, registered[v].plate)
                /\ \A o \in VehicleIDs \ {v} : registered[o] # Null /\ registered[v].vin # Null
                     => registered[o].vin # registered[v].vin,
           GarageInit(known, owners, registered)
    PROVE  GarageInv
  <1>1. /\ customers = known /\ owner = owners /\ vehicles = registered
        /\ desk \in [Requests -> GarageTx \cup {Waiting}]
        /\ \A r \in Requests : desk[r] = Waiting
    BY DEF GarageInit
  <1>2. GarageTypeOK /\ VehiclesByOwner
    BY <1>1 DEF GarageTypeOK, VehiclesByOwner
  <1>3. IdentitiesDistinct
    BY <1>1 DEF IdentitiesDistinct, VINTaken
  <1> QED
    BY <1>1, <1>2, <1>3, WaitingSound DEF GarageInv, RegistrationsApart
=============================================================================
