---------------------------- MODULE SchedulerDB ----------------------------
(***************************************************************************)
(* The PostgreSQL state of the appointment scheduler that its concurrent   *)
(* request handlers share: the appointments with their resource            *)
(* reservations and audit events, technician time off, the catalogue a     *)
(* booking is checked against, and the locks open transactions hold.       *)
(*                                                                         *)
(* Every table is the COMMITTED one.  What an open transaction has written *)
(* and not committed is kept in the variable of the handler that runs it   *)
(* (booking, transition, leave, admin), so a rollback only forgets it.     *)
(***************************************************************************)
EXTENDS Integers, Sequences, FiniteSets

CONSTANTS
    Technicians, Bays, ServiceTypes, Vehicles, Skills, Capabilities,
    AppointmentIDs,      \* the UUIDs newID() can draw for an appointment
    TimeOffIDs,          \* ... and for a time-off item
    BookingRequests,     \* concurrent POST /appointments handlers
    TransitionRequests,  \* concurrent check-in/start/complete/cancel handlers
    TimeOffRequests,     \* concurrent time-off create/update handlers
    AdminRequests,       \* concurrent catalogue handlers
    InitialCatalog,      \* the catalogue before the first request
    Horizon,             \* bound: last instant of the modelled time line
    MaxTries,            \* attempts of a serializable transaction (10 in db.go)
    MaxEdits,            \* bound: catalogue changes in one behaviour
    Null                 \* SQL NULL, a missing row, an unheld lock

VARIABLES
    appointments,   \* [AppointmentIDs -> row or Null]
    reservations,   \* [AppointmentIDs -> the two reservation rows or Null]
    audit,          \* [AppointmentIDs -> sequence of audit events]
    timeOff,        \* [TimeOffIDs -> row or Null]
    catalog,        \* dealership, hours, service types, technicians, bays
    clock,          \* s.now()
    scheduleLock,   \* per-technician advisory lock: its holder or Null
    rowLock,        \* FOR UPDATE lock of an appointment row: holder or Null
    booking,        \* [BookingRequests -> state of ScheduleAppointment]
    transition,     \* [TransitionRequests -> state of ChangeAppointmentStatus]
    leave,          \* [TimeOffRequests -> state of a time-off write]
    admin,          \* [AdminRequests -> state of a catalogue write]
    edits           \* catalogue changes so far, capped by MaxEdits

tables == <<appointments, reservations, audit>>
locks == <<scheduleLock, rowLock>>
vars == <<appointments, reservations, audit, timeOff, catalog, clock,
          scheduleLock, rowLock, booking, transition, leave, admin, edits>>

-----------------------------------------------------------------------------
(* Row types *)

Time == 0 .. Horizon
ActiveStatus == {"requested", "checked_in", "in_progress"}
TerminalStatus == {"completed", "cancelled"}
Status == ActiveStatus \cup TerminalStatus

\* An interval [starts, ends) on the time line.  Operating hours and shifts
\* are the local-day windows they stand for, already placed on that line.
Window == [starts : Nat, ends : Nat]

Appointment ==
    [technician : Technicians, bay : Bays, type : ServiceTypes,
     vehicle : Vehicles, starts : Nat, ends : Nat, status : Status,
     checkedInAt : Nat \cup {Null}, actualEndsAt : Nat \cup {Null}]

ResourceType == {"technician", "service_bay"}
Reservation ==
    [resource : Technicians \cup Bays, starts : Nat, ends : Nat,
     status : Status, released : BOOLEAN]

AuditEvent == [before : Status \cup {Null}, after : Status]

TimeOff == [technician : Technicians, starts : Nat, ends : Nat,
            deleted : BOOLEAN]

ServiceType == [min : Nat, max : Nat, active : BOOLEAN, deleted : BOOLEAN,
                skills : SUBSET Skills, capabilities : SUBSET Capabilities]
Technician == [active : BOOLEAN, shifts : SUBSET Window,
               skills : SUBSET Skills]
Bay == [active : BOOLEAN, deleted : BOOLEAN,
        capabilities : SUBSET Capabilities]
Catalog == [open : BOOLEAN, hours : SUBSET Window,
            types : [ServiceTypes -> ServiceType],
            technicians : [Technicians -> Technician],
            bays : [Bays -> Bay], garage : SUBSET Vehicles]

Handlers == BookingRequests \cup TransitionRequests \cup TimeOffRequests

-----------------------------------------------------------------------------
(* Predicates of the schema's constraints and queries *)

\* tstzrange(a.starts_at, a.ends_at, '[)') && tstzrange(b.starts_at, ...)
Overlap(a, b) == a.starts < b.ends /\ b.starts < a.ends

\* The interval lies in one window of a local day.
Within(windows, a) == \E w \in windows : w.starts <= a.starts /\ a.ends <= w.ends

\* appointments_no_technician_overlap, appointments_no_service_bay_overlap:
\* both constraints range over the rows in an active status.
SharesCapacity(a, b) ==
    /\ a.technician = b.technician \/ a.bay = b.bay
    /\ Overlap(a, b)

Excludes(a, b) ==
    /\ a.status \in ActiveStatus
    /\ b.status \in ActiveStatus
    /\ SharesCapacity(a, b)

Booked == {id \in AppointmentIDs : appointments[id] # Null}
Active == {id \in Booked : appointments[id].status \in ActiveStatus}

\* The live time-off rows of a technician: what one statement's snapshot sees.
LiveTimeOff(t) ==
    {[starts |-> timeOff[i].starts, ends |-> timeOff[i].ends] :
        i \in {j \in TimeOffIDs : /\ timeOff[j] # Null
                                  /\ timeOff[j].technician = t
                                  /\ ~ timeOff[j].deleted}}

\* reject_appointment_during_time_off, evaluated in the snapshot `seen`.
DuringTimeOff(a, seen) == \E w \in seen : Overlap(w, a)

\* appointment_resource_reservations_no_overlap: an unreleased reservation
\* of the same resource overlaps the interval.
Reserved(kind, resource, a) ==
    \E id \in Booked :
        LET v == reservations[id][kind]
        IN  /\ v.resource = resource
            /\ ~ v.released
            /\ v.status \in ActiveStatus
            /\ Overlap(v, a)

\* Mutants of ReleaseLocks: a lock outlives its transaction.
KeepScheduleLock(h) ==
    /\ UNCHANGED scheduleLock
    /\ rowLock' = [id \in AppointmentIDs |->
                     IF rowLock[id] = h THEN Null ELSE rowLock[id]]

KeepRowLock(h) ==
    /\ scheduleLock' = [t \in Technicians |->
                          IF scheduleLock[t] = h THEN Null ELSE scheduleLock[t]]
    /\ UNCHANGED rowLock

\* The advisory lock is transaction-scoped and so is the row lock: the end of
\* the handler's transaction, however it ends, gives both back.
ReleaseLocks(h) ==
    /\ scheduleLock' = [t \in Technicians |->
                          IF scheduleLock[t] = h THEN Null ELSE scheduleLock[t]]
    /\ rowLock' = [id \in AppointmentIDs |->
                     IF rowLock[id] = h THEN Null ELSE rowLock[id]]

-----------------------------------------------------------------------------
\* What the proofs need of the constants.  The sets of handlers are disjoint
\* because every HTTP request runs exactly one operation.
ASSUME ConstantsAssumption ==
    /\ Horizon \in Nat
    /\ MaxTries \in Nat \ {0}
    /\ MaxEdits \in Nat
    /\ InitialCatalog \in Catalog

\* service_types_min_duration_positive holds of the rows there are.
ASSUME DurationsAssumption ==
    \A k \in ServiceTypes : 0 < InitialCatalog.types[k].min

ASSUME HandlersAssumption ==
    /\ BookingRequests \cap TransitionRequests = {}
    /\ BookingRequests \cap TimeOffRequests = {}
    /\ TransitionRequests \cap TimeOffRequests = {}

ASSUME NullAssumption ==
    /\ Null \notin Handlers
    /\ Null \notin Appointment
    /\ Null \notin [technician : Technicians, bay : Bays, starts : Nat,
                     ends : Nat, status : Status]
    /\ Null \notin [ResourceType -> Reservation]
    /\ Null \notin TimeOff
    /\ Null \notin Nat
    /\ Null \notin Status
=============================================================================
