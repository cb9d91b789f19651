------------------------------ MODULE TimeOffs ------------------------------
(***************************************************************************)
(* Technician time off: Create-, Update- and DeleteTechnicianTimeOff.      *)
(* Create and update run under withTechnicianScheduleLock: a READ          *)
(* COMMITTED transaction that takes the technician's advisory lock, looks  *)
(* for an overlapping active appointment (a fresh snapshot, taken after    *)
(* the lock), writes the row and commits.  Delete is one UPDATE, unlocked. *)
(***************************************************************************)
EXTENDS Lifecycle

LeaveTx ==
    [stage : {"ready", "locked"}, id : TimeOffIDs, create : BOOLEAN,
     technician : Technicians, starts : Nat, ends : Nat]

LiveItems == {i \in TimeOffIDs : timeOff[i] # Null /\ ~ timeOff[i].deleted}

\* NewTechnicianTimeOff: a fresh item with a non-empty interval.
CreateTimeOff(p, i, t, start, end) ==
    /\ leave[p].stage = "idle"
    /\ timeOff[i] = Null
    /\ \A o \in TimeOffRequests : leave[o].stage # "idle" => leave[o].id # i
    /\ start < end
    /\ leave' = [leave EXCEPT ![p] =
         [stage |-> "ready", id |-> i, create |-> TRUE, technician |-> t,
          starts |-> start, ends |-> end]]
    /\ UNCHANGED <<tables, timeOff, catalog, clock, locks, booking, transition,
                   admin, edits>>

\* The item is read before the lock is taken; a bound the caller leaves out
\* (Null) is the one that read returned.
UpdateTimeOff(p, i, start, end) ==
    LET from == IF start = Null THEN timeOff[i].starts ELSE start
        to   == IF end = Null THEN timeOff[i].ends ELSE end
    IN  /\ leave[p].stage = "idle"
        /\ i \in LiveItems
        /\ from < to
        /\ leave' = [leave EXCEPT ![p] =
             [stage |-> "ready", id |-> i, create |-> FALSE,
              technician |-> timeOff[i].technician, starts |-> from,
              ends |-> to]]
        /\ UNCHANGED <<tables, timeOff, catalog, clock, locks, booking,
                       transition, admin, edits>>

\* HasActiveAppointmentOverlap over the committed rows.
AppointmentOverlap(w) ==
    \E id \in Active : /\ appointments[id].technician = w.technician
                       /\ Overlap(appointments[id], w)

TimeOffLock(p) ==
    LET w == leave[p]
    IN  /\ w.stage = "ready"
        /\ scheduleLock[w.technician] = Null
        /\ ~ AppointmentOverlap(w)
        /\ leave' = [leave EXCEPT ![p].stage = "locked"]
        /\ scheduleLock' = [scheduleLock EXCEPT ![w.technician] = p]
        /\ UNCHANGED <<tables, timeOff, catalog, clock, rowLock, booking,
                       transition, admin, edits>>

\* 409 appointment_schedule_conflict.
TimeOffAppointmentConflict(p) ==
    LET w == leave[p]
    IN  /\ w.stage = "ready"
        /\ scheduleLock[w.technician] = Null
        /\ AppointmentOverlap(w)
        /\ leave' = [leave EXCEPT ![p] = Idle]
        /\ UNCHANGED <<tables, timeOff, catalog, clock, locks, booking,
                       transition, admin, edits>>

\* technician_time_off_no_overlap, over the live rows but the one replaced.
TimeOffOverlap(w) ==
    \E i \in LiveItems \ {w.id} : /\ timeOff[i].technician = w.technician
                                  /\ Overlap(timeOff[i], w)

\* Mutant of Writable: the UPDATE does not look at deleted_at.
WritableDeleted(w) == w.create \/ timeOff[w.id] # Null

\* The UPDATE matches no row once the item has been deleted.
Writable(w) == w.create \/ w.id \in LiveItems

TimeOffWrite(p) ==
    LET w == leave[p]
    IN  /\ w.stage = "locked"
        /\ Writable(w)
        /\ ~ TimeOffOverlap(w)
        /\ timeOff' = [timeOff EXCEPT ![w.id] =
             [technician |-> w.technician, starts |-> w.starts,
              ends |-> w.ends, deleted |-> FALSE]]
        /\ leave' = [leave EXCEPT ![p] = Idle]
        /\ ReleaseLocks(p)
        /\ UNCHANGED <<tables, catalog, clock, booking, transition, admin, edits>>

\* 409 time_off_overlap or 404 time_off_not_found; also a request that ends
\* early: its transaction is rolled back.
TimeOffRollback(p) ==
    /\ leave' = [leave EXCEPT ![p] = Idle]
    /\ ReleaseLocks(p)
    /\ UNCHANGED <<tables, timeOff, catalog, clock, booking, transition, admin,
                   edits>>

TimeOffReject(p) ==
    /\ leave[p].stage = "locked"
    /\ ~ Writable(leave[p]) \/ TimeOffOverlap(leave[p])
    /\ TimeOffRollback(p)

TimeOffAbort(p) ==
    /\ leave[p].stage # "idle"
    /\ TimeOffRollback(p)

\* The soft delete takes no lock and looks at no appointment.
DeleteTimeOff(i) ==
    /\ i \in LiveItems
    /\ timeOff' = [timeOff EXCEPT ![i].deleted = TRUE]
    /\ UNCHANGED <<tables, catalog, clock, locks, booking, transition, leave,
                   admin, edits>>

TimeOffStep(p) ==
    \/ TimeOffLock(p) \/ TimeOffAppointmentConflict(p) \/ TimeOffWrite(p)
    \/ TimeOffReject(p) \/ TimeOffAbort(p)

TimeOffNext(p) ==
    \/ \E i \in TimeOffIDs, t \in Technicians, start, end \in Time :
         CreateTimeOff(p, i, t, start, end)
    \/ \E i \in TimeOffIDs, start, end \in Time \cup {Null} :
         UpdateTimeOff(p, i, start, end)
    \/ TimeOffStep(p)
=============================================================================
