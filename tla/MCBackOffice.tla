---------------------------- MODULE MCBackOffice ----------------------------
(* Small instances of the back office for TLC.  Each start lets some parts  *)
(* of the API run over rows of its own, with a number of requests that      *)
(* keeps the parts together within reach.                                   *)
EXTENDS BackOffice, TLC

CONSTANTS u1, u2, a1, a2, p1, d1, d2, c1, vin, v1, e1, e2, l1, n1, w1, k1

Seat(u, d, role) ==
    [account |-> u, dealership |-> d, role |-> role, by |-> u, claim |-> "superadmin"]

\* Two accounts with these roles (or none), this many requests to come.
Start(which, first, second, employed, todo) ==
    LET assigned == (u1 :> first @@ u2 :> second)
    IN  [parts |-> which, roles |-> assigned, members |-> employed,
         users |-> [u \in Users |-> IF assigned[u] = Null THEN Null
                                    ELSE NewUser(IF u = u1 THEN a1 ELSE a2, p1)],
         accepted |-> MaxRequests - todo,
         dealerships |-> [d \in Dealerships |->
                            IF \E m \in employed : m.dealership = d THEN d ELSE Null],
         customers |-> [c \in Customers |-> Null],
         owners |-> [c \in Customers |-> Null],
         vehicles |-> [v \in VehicleIDs |-> Null],
         entities |-> [e \in Entities |-> Null],
         links |-> [l \in LinkIDs |-> Null],
         slots |-> [x \in SlotIDs |-> Null]]

TwoAdmins == {Seat(u1, d1, "admin"), Seat(u2, d2, "admin")}
Row(kind, d) == [kind |-> kind, dealership |-> d, name |-> n1, gone |-> FALSE]

MCAccounts ==
    {Start({"accounts"}, Null, Null, {}, 2),
     Start({"accounts"}, "superadmin", "superadmin", {}, 3)}
MCStaff ==
    {Start({"staff", "accounts"}, "user", "superadmin", {Seat(u1, d1, "admin")}, 2),
     Start({"staff"}, "user", "admin", {}, 2)}

\* A customer nobody owns yet, and one with a vehicle.
Unclaimed(todo) ==
    [Start({"garage"}, "user", "user", TwoAdmins, todo) EXCEPT
       !.customers[c1] = [phone |-> k1, email |-> Null]]
MCGarage ==
    {Unclaimed(2),
     [Unclaimed(2) EXCEPT !.owners[c1] = d1,
                          !.vehicles[v1] = NewVehicle(c1, Null, vin, d1)]}

\* Two entities of different dealerships and a value assigned to the first.
Links(kind, table, admins, todo) ==
    [Start({"withdrawals", "links"}, "admin", "admin", admins, todo) EXCEPT
       !.entities[e1] = Row(kind, d1), !.entities[e2] = Row(kind, d2),
       !.links[l1] = [table |-> table, parent |-> e1, value |-> w1]]
MCCatalogue ==
    {Start({"entities", "withdrawals"}, "admin", "admin", TwoAdmins, 3),
     [Start({"slots"}, "admin", "user", TwoAdmins, 3) EXCEPT
        !.entities[e1] = Row("technician", d1)],
     Links("service_type", "required_skill", {Seat(u1, d1, "admin")}, 2),
     Links("service_type", "required_capability", TwoAdmins, 1),
     Links("service_bay", "bay_capability", TwoAdmins, 1),
     Links("technician", "technician_skill", TwoAdmins, 1)}

MCStarts ==
    MCAccounts \cup MCStaff \cup MCGarage \cup MCCatalogue
      \cup {Start({"contract"}, Null, Null, {}, 0)}

\* One part each, for the runs about a single question.
MCEmpty == {Start({"accounts"}, Null, Null, {}, MaxRequests)}
MCOneUser == {Start({"accounts"}, "user", Null, {}, MaxRequests)}
=============================================================================
