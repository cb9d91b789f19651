------------------------------ MODULE Workshop ------------------------------
(***************************************************************************)
(* The administrators' changes to what bookings are checked against:       *)
(* service types, service bays and technicians.  Each handler reads first  *)
(* and writes later: updates merge the caller's fields into the row they   *)
(* read and write every column; deletions look for appointments in a       *)
(* REPEATABLE READ snapshot; DeactivateTechnician looks for them outside   *)
(* any transaction.  None of them locks what a booking reads or writes.    *)
(***************************************************************************)
EXTENDS TimeOffs

AdminTx ==
    [stage : {"deactivate_technician"}, technician : Technicians]
      \cup [stage : {"update_technician"}, technician : Technicians, row : Technician]
      \cup [stage : {"update_type", "delete_type"}, type : ServiceTypes, row : ServiceType]
      \cup [stage : {"update_bay", "delete_bay"}, bay : Bays, row : Bay]

\* The field the caller sends, or (Null) the one that was read.
ValueOr(input, current) == IF input = Null THEN current ELSE input

\* The handler's reads: what it keeps is the write it will issue.
AdminRead(a, write) ==
    /\ admin[a].stage = "idle"
    /\ edits < MaxEdits
    /\ edits' = edits + 1
    /\ admin' = [admin EXCEPT ![a] = write]
    /\ UNCHANGED <<tables, timeOff, catalog, clock, locks, booking, transition,
                   leave>>

AdminWrite(a, changed) ==
    /\ catalog' = changed
    /\ admin' = [admin EXCEPT ![a] = Idle]
    /\ UNCHANGED <<tables, timeOff, clock, locks, booking, transition, leave,
                   edits>>

\* HasFutureActiveTechnicianAppointments.
HasFutureActive(t) ==
    \E id \in Active : /\ appointments[id].technician = t
                       /\ appointments[id].ends > clock

\* DeactivateTechnician: nothing to do for an inactive one, 409 while there
\* are future active appointments.
DeactivateTechnician(a, t) ==
    /\ catalog.technicians[t].active
    /\ ~ HasFutureActive(t)
    /\ AdminRead(a, [stage |-> "deactivate_technician", technician |-> t])

DeactivateTechnicianWrite(a) ==
    /\ admin[a].stage = "deactivate_technician"
    /\ AdminWrite(a, [catalog EXCEPT !.technicians[admin[a].technician].active = FALSE])

\* UpdateTechnician looks at no appointment, whatever is_active it is given.
UpdateTechnician(a, t, active) ==
    AdminRead(a, [stage |-> "update_technician", technician |-> t,
                  row |-> [catalog.technicians[t] EXCEPT !.active = ValueOr(active, @)]])

\* The users and technicians rows are written; skills and shifts live in
\* tables of their own and stay.
UpdateTechnicianWrite(a) ==
    /\ admin[a].stage = "update_technician"
    /\ AdminWrite(a, [catalog EXCEPT
         !.technicians[admin[a].technician].active = admin[a].row.active])

\* Mutant of UpdateServiceType: durations need not be positive.
UpdateServiceTypeUnchecked(a, k, min, max, active) ==
    LET row == [catalog.types[k] EXCEPT !.min = ValueOr(min, @),
                                        !.max = ValueOr(max, @),
                                        !.active = ValueOr(active, @)]
    IN  /\ ~ catalog.types[k].deleted
        /\ row.min <= row.max
        /\ AdminRead(a, [stage |-> "update_type", type |-> k, row |-> row])

\* UpdateServiceType: validateServiceType wants 0 < min <= max.  The default
\* duration, which no booking reads, is left out: the caller sends one between
\* the bounds.
UpdateServiceType(a, k, min, max, active) ==
    LET row == [catalog.types[k] EXCEPT !.min = ValueOr(min, @),
                                        !.max = ValueOr(max, @),
                                        !.active = ValueOr(active, @)]
    IN  /\ ~ catalog.types[k].deleted
        /\ 0 < row.min /\ row.min <= row.max
        /\ AdminRead(a, [stage |-> "update_type", type |-> k, row |-> row])

\* Mutant of UpdateServiceTypeWrite: the UPDATE finds deleted rows too.
UpdateDeletedServiceType(a) ==
    LET k == admin[a].type
        row == admin[a].row
    IN  /\ admin[a].stage = "update_type"
        /\ AdminWrite(a, [catalog EXCEPT !.types[k] =
                            [@ EXCEPT !.min = row.min, !.max = row.max,
                                      !.active = row.active]])

\* UPDATE ... WHERE deleted_at IS NULL: 404 once the type is gone.
UpdateServiceTypeWrite(a) ==
    LET k == admin[a].type
        row == admin[a].row
    IN  /\ admin[a].stage = "update_type"
        /\ AdminWrite(a, IF catalog.types[k].deleted
                         THEN catalog
                         ELSE [catalog EXCEPT !.types[k] =
                                 [@ EXCEPT !.min = row.min, !.max = row.max,
                                           !.active = row.active]])

TypeInUse(k) == \E id \in Booked : appointments[id].type = k
BayInUse(b) == \E id \in Booked : appointments[id].bay = b

\* DeleteServiceType: 404 when gone, 409 when an appointment refers to it;
\* otherwise the soft delete follows, in the same snapshot.
DeleteServiceType(a, k) ==
    /\ ~ catalog.types[k].deleted
    /\ ~ TypeInUse(k)
    /\ AdminRead(a, [stage |-> "delete_type", type |-> k, row |-> catalog.types[k]])

\* A row changed since the snapshot is a serialization failure; the retry
\* starts over, which is a new request here.
DeleteServiceTypeWrite(a) ==
    LET k == admin[a].type
    IN  /\ admin[a].stage = "delete_type"
        /\ AdminWrite(a, IF catalog.types[k] = admin[a].row
                         THEN [catalog EXCEPT !.types[k].deleted = TRUE]
                         ELSE catalog)

UpdateServiceBay(a, b, active) ==
    /\ ~ catalog.bays[b].deleted
    /\ AdminRead(a, [stage |-> "update_bay", bay |-> b,
                     row |-> [catalog.bays[b] EXCEPT !.active = ValueOr(active, @)]])

UpdateServiceBayWrite(a) ==
    LET b == admin[a].bay
    IN  /\ admin[a].stage = "update_bay"
        /\ AdminWrite(a, IF catalog.bays[b].deleted
                         THEN catalog
                         ELSE [catalog EXCEPT !.bays[b].active = admin[a].row.active])

DeleteServiceBay(a, b) ==
    /\ ~ catalog.bays[b].deleted
    /\ ~ BayInUse(b)
    /\ AdminRead(a, [stage |-> "delete_bay", bay |-> b, row |-> catalog.bays[b]])

DeleteServiceBayWrite(a) ==
    LET b == admin[a].bay
    IN  /\ admin[a].stage = "delete_bay"
        /\ AdminWrite(a, IF catalog.bays[b] = admin[a].row
                         THEN [catalog EXCEPT !.bays[b].deleted = TRUE]
                         ELSE catalog)

AdminAbort(a) ==
    /\ admin[a].stage # "idle"
    /\ AdminWrite(a, catalog)

AdminNext(a) ==
    \/ \E t \in Technicians :
         \/ DeactivateTechnician(a, t)
         \/ \E active \in BOOLEAN \cup {Null} : UpdateTechnician(a, t, active)
    \/ \E k \in ServiceTypes :
         \/ \E min, max \in Time \cup {Null}, active \in BOOLEAN \cup {Null} :
              UpdateServiceType(a, k, min, max, active)
         \/ DeleteServiceType(a, k)
    \/ \E b \in Bays :
         \/ \E active \in BOOLEAN \cup {Null} : UpdateServiceBay(a, b, active)
         \/ DeleteServiceBay(a, b)
    \/ DeactivateTechnicianWrite(a) \/ UpdateTechnicianWrite(a)
    \/ UpdateServiceTypeWrite(a) \/ DeleteServiceTypeWrite(a)
    \/ UpdateServiceBayWrite(a) \/ DeleteServiceBayWrite(a)
    \/ AdminAbort(a)
=============================================================================
