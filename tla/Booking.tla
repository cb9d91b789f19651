------------------------------ MODULE Booking ------------------------------
(***************************************************************************)
(* Service.ScheduleAppointment and DealershipRepository.ScheduleAppointment*)
(* One SERIALIZABLE transaction: the availability checks, then the INSERTs *)
(* of the appointment, its two reservations and its audit event.           *)
(*                                                                         *)
(*   idle -> ready -> checked -> inserted -> reserved -> idle (committed)  *)
(*                                                                         *)
(* The snapshot is taken by the first query, so all the checks, and the    *)
(* time-off query inside the trigger, read the state of one instant: the   *)
(* step from ready to checked.  The exclusion constraints are different:   *)
(* they look at every row version, committed or not, and wait for the open *)
(* transaction that wrote a conflicting one.                               *)
(***************************************************************************)
EXTENDS SchedulerDB

Idle == [stage |-> "idle"]

BookingTx ==
    [stage : {"ready", "checked", "inserted", "reserved"},
     id : AppointmentIDs, technician : Technicians, bay : Bays,
     type : ServiceTypes, vehicle : Vehicles, starts : Nat,
     planned : Nat,          \* PlannedDurationMinutes; 0 when omitted
     ends : Nat,
     seen : SUBSET Window,   \* the technician's time off in the snapshot
     tries : 1 .. MaxTries]

OpenBookings == {r \in BookingRequests : booking[r].stage # "idle"}

\* The row the INSERT of CreateScheduledAppointment writes.
RowOf(b) ==
    [technician |-> b.technician, bay |-> b.bay, type |-> b.type,
     vehicle |-> b.vehicle, starts |-> b.starts, ends |-> b.ends,
     status |-> "requested", checkedInAt |-> Null, actualEndsAt |-> Null]

ReservationOf(resource, b) ==
    [resource |-> resource, starts |-> b.starts, ends |-> b.ends,
     status |-> "requested", released |-> FALSE]

\* Uncommitted appointment rows other transactions can run into.
Uncommitted(b) == b.stage \in {"inserted", "reserved"}

\* An open transition has written a new version of the row.
BeingUpdated(id) ==
    \E q \in TransitionRequests : /\ transition[q].stage \in {"updated", "written"}
                                  /\ transition[q].id = id

-----------------------------------------------------------------------------
\* The handler builds the record; no transaction is open yet.
ScheduleRequest(r, id, t, b, k, v, start, planned) ==
    /\ booking[r].stage = "idle"
    /\ id \notin Booked
    /\ \A o \in OpenBookings : booking[o].id # id
    /\ booking' = [booking EXCEPT ![r] =
         [stage |-> "ready", id |-> id, technician |-> t, bay |-> b,
          type |-> k, vehicle |-> v, starts |-> start, planned |-> planned,
          ends |-> start, seen |-> {}, tries |-> 1]]
    /\ UNCHANGED <<tables, timeOff, catalog, clock, locks, transition, leave,
                   admin, edits>>

\* An omitted duration becomes the service type's maximum.  The closure
\* overwrites the record, so the value survives a serialization retry.
PlannedOf(b) == IF b.planned = 0 THEN catalog.types[b.type].max ELSE b.planned

\* Every check between BeginTx and the first INSERT.
Bookable(b) ==
    LET type == catalog.types[b.type]
        tech == catalog.technicians[b.technician]
        bay  == catalog.bays[b.bay]
        slot == [starts |-> b.starts, ends |-> b.starts + PlannedOf(b)]
    IN  /\ catalog.open
        /\ type.active /\ ~ type.deleted
        /\ type.min <= PlannedOf(b) /\ PlannedOf(b) <= type.max
        /\ b.vehicle \in catalog.garage
        /\ Within(catalog.hours, slot)
        /\ tech.active /\ type.skills \subseteq tech.skills
        /\ bay.active /\ ~ bay.deleted /\ type.capabilities \subseteq bay.capabilities
        /\ Within(tech.shifts, slot)
        /\ ~ DuringTimeOff(slot, LiveTimeOff(b.technician))

ScheduleCheck(r) ==
    LET b == booking[r]
    IN  /\ b.stage = "ready"
        /\ Bookable(b)
        /\ booking' = [booking EXCEPT
             ![r] = [b EXCEPT !.stage = "checked",
                              !.planned = PlannedOf(b),
                              !.ends = b.starts + PlannedOf(b),
                              !.seen = LiveTimeOff(b.technician)]]
        /\ UNCHANGED <<tables, timeOff, catalog, clock, locks, transition,
                       leave, admin, edits>>

\* 404, 400 or 422: the transaction is rolled back before it wrote anything.
ScheduleReject(r) ==
    /\ booking[r].stage = "ready"
    /\ ~ Bookable(booking[r])
    /\ booking' = [booking EXCEPT ![r] = Idle]
    /\ UNCHANGED <<tables, timeOff, catalog, clock, locks, transition, leave,
                   admin, edits>>

\* Mutant of ScheduleInsert: the trigger takes no advisory lock.
ScheduleInsertUnlocked(r) ==
    /\ booking[r].stage = "checked"
    /\ ~ DuringTimeOff(booking[r], booking[r].seen)
    /\ booking' = [booking EXCEPT ![r].stage = "inserted"]
    /\ UNCHANGED <<tables, timeOff, catalog, clock, locks, transition, leave,
                   admin, edits>>

\* INSERT INTO appointments: the BEFORE trigger takes the technician's
\* advisory lock and looks for time off in the transaction's snapshot, the one
\* the checks have read: on an INSERT it never finds any.  The row then enters
\* the indexes; nothing can tell the lock and the index entries apart.
ScheduleInsert(r) ==
    LET b == booking[r]
    IN  /\ b.stage = "checked"
        /\ scheduleLock[b.technician] = Null
        /\ ~ DuringTimeOff(b, b.seen)
        /\ booking' = [booking EXCEPT ![r].stage = "inserted"]
        /\ scheduleLock' = [scheduleLock EXCEPT ![b.technician] = r]
        /\ UNCHANGED <<tables, timeOff, catalog, clock, rowLock, transition,
                       leave, admin, edits>>

\* A committed row no open transaction is rewriting: the INSERT fails.
CommittedConflict(b) ==
    \E id \in Booked : /\ Excludes(appointments[id], RowOf(b))
                       /\ ~ BeingUpdated(id)

\* Mutant of PendingConflict: uncommitted bookings are not waited for.
PendingConflictUpdatesOnly(r) ==
    \E id \in Booked : /\ Excludes(appointments[id], RowOf(booking[r]))
                       /\ BeingUpdated(id)

\* A row version of an open transaction: the INSERT waits for its outcome.
PendingConflict(r) ==
    \/ \E id \in Booked : /\ Excludes(appointments[id], RowOf(booking[r]))
                          /\ BeingUpdated(id)
    \/ \E o \in OpenBookings \ {r} : /\ Uncommitted(booking[o])
                                     /\ SharesCapacity(booking[o], booking[r])

\* The reservations are inserted after the appointment, under their own
\* exclusion constraint.
ReservationConflict(b) ==
    \/ Reserved("technician", b.technician, b)
    \/ Reserved("service_bay", b.bay, b)

\* The exclusion constraints let the rows in: both reservations and the
\* "created" audit event are written too, and only COMMIT is left.
ScheduleReserve(r) ==
    /\ booking[r].stage = "inserted"
    /\ ~ CommittedConflict(booking[r])
    /\ ~ PendingConflict(r)
    /\ ~ ReservationConflict(booking[r])
    /\ booking' = [booking EXCEPT ![r].stage = "reserved"]
    /\ UNCHANGED <<tables, timeOff, catalog, clock, locks, transition, leave,
                   admin, edits>>

\* Rollback: the handler's locks are given back, its rows are gone.
ScheduleRollback(r, next) ==
    /\ booking' = [booking EXCEPT ![r] = next]
    /\ ReleaseLocks(r)
    /\ UNCHANGED <<tables, timeOff, catalog, clock, transition, leave, admin,
                   edits>>

\* SQLSTATE 23P01: appointmentWriteError, answered 409 availability_conflict.
ScheduleConflict(r) ==
    /\ booking[r].stage = "inserted"
    /\ \/ CommittedConflict(booking[r])
       \/ ~ PendingConflict(r) /\ ReservationConflict(booking[r])
    /\ ScheduleRollback(r, Idle)

\* Mutant of ScheduleDeadlock: two bookings that wait for each other's bay are
\* not noticed.
ScheduleDeadlockWithUpdates(r) ==
    /\ booking[r].stage = "inserted"
    /\ \E q \in TransitionRequests :
          /\ transition[q].stage = "updated"
          /\ Excludes(appointments[transition[q].id], RowOf(booking[r]))
    /\ ScheduleRollback(r, Idle)

\* Each of two open transactions waits for the row of the other: PostgreSQL
\* ends one (40P01), whose text is not retried, so the request fails.
ScheduleDeadlock(r) ==
    /\ booking[r].stage = "inserted"
    /\ \/ \E o \in OpenBookings \ {r} :
             /\ booking[o].stage = "inserted"
             /\ SharesCapacity(booking[o], booking[r])
       \/ \E q \in TransitionRequests :
             /\ transition[q].stage = "updated"
             /\ Excludes(appointments[transition[q].id], RowOf(booking[r]))
    /\ ScheduleRollback(r, Idle)

\* Mutant of ScheduleSerializationFailure: the attempts are not counted out.
ScheduleRetryForever(r) ==
    LET b == booking[r]
    IN  /\ b.stage \in {"checked", "inserted", "reserved"}
        /\ ScheduleRollback(r, [b EXCEPT !.stage = "ready", !.tries = @ + 1])

\* SQLSTATE 40001: a new attempt with the same record, at most MaxTries.
\* SSI may report one for any serializable transaction that has begun.
ScheduleSerializationFailure(r) ==
    LET b == booking[r]
    IN  /\ b.stage \in {"checked", "inserted", "reserved"}
        /\ ScheduleRollback(r, IF b.tries = MaxTries
                               THEN Idle
                               ELSE [b EXCEPT !.stage = "ready", !.tries = @ + 1])

\* The request's context ends (timeout, disconnect) or the process dies.
ScheduleAbort(r) ==
    /\ booking[r].stage # "idle"
    /\ ScheduleRollback(r, Idle)

ScheduleCommit(r) ==
    LET b == booking[r]
    IN  /\ b.stage = "reserved"
        /\ appointments' = [appointments EXCEPT ![b.id] = RowOf(b)]
        /\ reservations' = [reservations EXCEPT ![b.id] =
              [kind \in ResourceType |->
                 IF kind = "technician" THEN ReservationOf(b.technician, b)
                                        ELSE ReservationOf(b.bay, b)]]
        /\ audit' = [audit EXCEPT ![b.id] =
              Append(@, [before |-> Null, after |-> "requested"])]
        /\ booking' = [booking EXCEPT ![r] = Idle]
        /\ ReleaseLocks(r)
        /\ UNCHANGED <<timeOff, catalog, clock, transition, leave, admin, edits>>

ScheduleStep(r) ==
    \/ ScheduleCheck(r) \/ ScheduleReject(r) \/ ScheduleInsert(r)
    \/ ScheduleReserve(r) \/ ScheduleConflict(r) \/ ScheduleCommit(r)
    \/ ScheduleDeadlock(r) \/ ScheduleSerializationFailure(r)
    \/ ScheduleAbort(r)

ScheduleNext(r) ==
    \/ \E id \in AppointmentIDs, t \in Technicians, b \in Bays,
          k \in ServiceTypes, v \in Vehicles, start \in Time,
          planned \in 0 .. Horizon :
            ScheduleRequest(r, id, t, b, k, v, start, planned)
    \/ ScheduleStep(r)
=============================================================================
