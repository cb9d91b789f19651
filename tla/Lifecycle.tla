----------------------------- MODULE Lifecycle -----------------------------
(***************************************************************************)
(* Service.ChangeAppointmentStatus and                                     *)
(* DealershipRepository.TransitionAppointment: check-in, start, complete   *)
(* and cancel, each one SERIALIZABLE transaction.                          *)
(*                                                                         *)
(*   idle -> ready -> locking -> locked -> updated -> written -> idle      *)
(*                                                                         *)
(* SELECT ... FOR UPDATE takes the snapshot and then waits for the row     *)
(* lock; a row changed in between is a serialization failure.  OccurredAt  *)
(* is read once, before the first attempt.                                 *)
(***************************************************************************)
EXTENDS Booking

\* The handlers' (from, to) pairs; cancel passes no expected state.
Transitions ==
    {[from |-> "requested", to |-> "checked_in"],
     [from |-> "checked_in", to |-> "in_progress"],
     [from |-> "in_progress", to |-> "completed"],
     [from |-> Null, to |-> "cancelled"]}

TransitionTx ==
    [stage : {"ready", "locking", "locked", "updated", "written"},
     id : AppointmentIDs, edge : Transitions,
     occurredAt : Nat, actualEndsAt : Nat \cup {Null},
     row : Appointment \cup {Null},   \* the row in the snapshot
     seen : SUBSET Window,            \* its technician's time off there
     tries : 1 .. MaxTries]

TransitionRollback(q, next) ==
    /\ transition' = [transition EXCEPT ![q] = next]
    /\ ReleaseLocks(q)
    /\ UNCHANGED <<tables, timeOff, catalog, clock, booking, leave, admin, edits>>

\* A request for an appointment the client knows of (identifiers are drawn by
\* the server, and rows are never removed); only complete carries an actual
\* end, which is optional.
TransitionRequest(q, id, edge, actual) ==
    /\ transition[q].stage = "idle"
    /\ id \in Booked
    /\ edge.to # "completed" => actual = Null
    /\ transition' = [transition EXCEPT ![q] =
         [stage |-> "ready", id |-> id, edge |-> edge, occurredAt |-> clock,
          actualEndsAt |-> actual, row |-> Null, seen |-> {}, tries |-> 1]]
    /\ UNCHANGED <<tables, timeOff, catalog, clock, locks, booking, leave,
                   admin, edits>>

\* The first statement of the transaction takes the snapshot.
TransitionBegin(q) ==
    LET x == transition[q]
    IN  /\ x.stage = "ready"
        /\ transition' = [transition EXCEPT
             ![q] = [x EXCEPT !.stage = "locking",
                              !.row = appointments[x.id],
                              !.seen = LiveTimeOff(appointments[x.id].technician)]]
        /\ UNCHANGED <<tables, timeOff, catalog, clock, locks, booking, leave,
                       admin, edits>>

\* actual_ends_at defaults to OccurredAt.
ActualEnd(x) == IF x.actualEndsAt = Null THEN x.occurredAt ELSE x.actualEndsAt

\* Mutant of Allowed: an appointment in any state can be cancelled.
AllowedFromAnyState(x) ==
    /\ x.edge.from # Null => x.row.status = x.edge.from
    /\ x.edge.to = "completed" =>
         /\ x.row.checkedInAt # Null
         /\ x.row.checkedInAt <= ActualEnd(x)
         /\ ActualEnd(x) <= x.row.ends

\* Mutant of Allowed: the planned end does not bound the actual one.
AllowedLate(x) ==
    /\ x.edge.from # Null => x.row.status = x.edge.from
    /\ x.edge.to = "cancelled" => x.row.status \in ActiveStatus
    /\ x.edge.to = "completed" =>
         /\ x.row.checkedInAt # Null
         /\ x.row.checkedInAt <= ActualEnd(x)

\* Mutant of Allowed: the check-in does not bound the actual end.
AllowedEarly(x) ==
    /\ x.edge.from # Null => x.row.status = x.edge.from
    /\ x.edge.to = "cancelled" => x.row.status \in ActiveStatus
    /\ x.edge.to = "completed" =>
         /\ x.row.checkedInAt # Null
         /\ ActualEnd(x) <= x.row.ends

\* The guards between the row lock and the UPDATE: 409 when the state is not
\* the expected one, 400 when the actual end is outside [check-in, ends_at].
Allowed(x) ==
    /\ x.edge.from # Null => x.row.status = x.edge.from
    /\ x.edge.to = "cancelled" => x.row.status \in ActiveStatus
    /\ x.edge.to = "completed" =>
         /\ x.row.checkedInAt # Null
         /\ x.row.checkedInAt <= ActualEnd(x)
         /\ ActualEnd(x) <= x.row.ends

\* Mutant of TransitionLock: the row may have changed since it was read.
TransitionLockStale(q) ==
    LET x == transition[q]
    IN  /\ x.stage = "locking"
        /\ rowLock[x.id] = Null
        /\ Allowed(x)
        /\ transition' = [transition EXCEPT ![q].stage = "locked"]
        /\ rowLock' = [rowLock EXCEPT ![x.id] = q]
        /\ UNCHANGED <<tables, timeOff, catalog, clock, scheduleLock, booking,
                       leave, admin, edits>>

TransitionLock(q) ==
    LET x == transition[q]
    IN  /\ x.stage = "locking"
        /\ rowLock[x.id] = Null
        /\ appointments[x.id] = x.row
        /\ Allowed(x)
        /\ transition' = [transition EXCEPT ![q].stage = "locked"]
        /\ rowLock' = [rowLock EXCEPT ![x.id] = q]
        /\ UNCHANGED <<tables, timeOff, catalog, clock, scheduleLock, booking,
                       leave, admin, edits>>

TransitionReject(q) ==
    LET x == transition[q]
    IN  /\ x.stage = "locking"
        /\ rowLock[x.id] = Null
        /\ appointments[x.id] = x.row
        /\ ~ Allowed(x)
        /\ TransitionRollback(q, Idle)

\* The next attempt takes a new snapshot; after the last one the request fails.
TransitionRetry(q) ==
    LET x == transition[q]
    IN  TransitionRollback(q, IF x.tries = MaxTries
                              THEN Idle
                              ELSE [x EXCEPT !.stage = "ready", !.tries = @ + 1])

\* SQLSTATE 40001, certain: the row lock is granted on a row that was changed
\* since the snapshot.
TransitionRowChanged(q) ==
    /\ transition[q].stage = "locking"
    /\ rowLock[transition[q].id] = Null
    /\ appointments[transition[q].id] # transition[q].row
    /\ TransitionRetry(q)

\* SQLSTATE 40001, possible: SSI may report one for any serializable
\* transaction that has begun.
TransitionSerializationFailure(q) ==
    /\ transition[q].stage \in {"locked", "updated", "written"}
    /\ TransitionRetry(q)

\* UPDATE appointments SET status: for an active status the trigger takes the
\* advisory lock and rejects time off; that 23P01 is not mapped, so a 500.
TransitionUpdate(q) ==
    LET x == transition[q]
    IN  /\ x.stage = "locked"
        /\ \/ /\ x.edge.to \in TerminalStatus
              /\ transition' = [transition EXCEPT ![q].stage = "written"]
              /\ UNCHANGED locks
           \/ /\ x.edge.to \in ActiveStatus
              /\ scheduleLock[x.row.technician] = Null
              /\ ~ DuringTimeOff(x.row, x.seen)
              /\ transition' = [transition EXCEPT ![q].stage = "updated"]
              /\ scheduleLock' = [scheduleLock EXCEPT ![x.row.technician] = q]
              /\ UNCHANGED rowLock
           \/ /\ x.edge.to \in ActiveStatus
              /\ scheduleLock[x.row.technician] = Null
              /\ DuringTimeOff(x.row, x.seen)
              /\ transition' = [transition EXCEPT ![q] = Idle]
              /\ ReleaseLocks(q)
        /\ UNCHANGED <<tables, timeOff, catalog, clock, booking, leave, admin,
                       edits>>

\* The new version of a still active row is checked by the exclusion
\* constraints as well, and waits for uncommitted rows that conflict.
WaitsForBooking(x) ==
    \E r \in OpenBookings : /\ Uncommitted(booking[r])
                            /\ SharesCapacity(booking[r], x.row)

TransitionExclude(q) ==
    /\ transition[q].stage = "updated"
    /\ ~ WaitsForBooking(transition[q])
    /\ transition' = [transition EXCEPT ![q].stage = "written"]
    /\ UNCHANGED <<tables, timeOff, catalog, clock, locks, booking, leave,
                   admin, edits>>

\* The booking it waits for waits for this row: one of the two is ended.
TransitionDeadlock(q) ==
    /\ transition[q].stage = "updated"
    /\ WaitsForBooking(transition[q])
    /\ TransitionRollback(q, Idle)

TransitionAbort(q) ==
    /\ transition[q].stage # "idle"
    /\ TransitionRollback(q, Idle)

\* The row CheckIn/Start/Complete/CancelAppointment leave behind.
RowAfter(x) ==
    [x.row EXCEPT !.status = x.edge.to,
                  !.checkedInAt = IF x.edge.to = "checked_in" THEN x.occurredAt ELSE @,
                  !.actualEndsAt = IF x.edge.to = "completed" THEN ActualEnd(x) ELSE @]

\* Mutant of ReservationsAfter: a cancellation keeps its capacity.
ReservationsKeptOnCancel(x, rows) ==
    IF x.edge.to = "completed"
    THEN [kind \in ResourceType |->
            [rows[kind] EXCEPT !.released = TRUE, !.status = x.edge.to]]
    ELSE rows

\* ReleaseAppointmentResourceReservations, only for completed and cancelled.
ReservationsAfter(x, rows) ==
    IF x.edge.to \in TerminalStatus
    THEN [kind \in ResourceType |->
            IF rows[kind].released
            THEN rows[kind]
            ELSE [rows[kind] EXCEPT !.released = TRUE, !.status = x.edge.to]]
    ELSE rows

TransitionCommit(q) ==
    LET x == transition[q]
    IN  /\ x.stage = "written"
        /\ appointments' = [appointments EXCEPT ![x.id] = RowAfter(x)]
        /\ reservations' = [reservations EXCEPT ![x.id] = ReservationsAfter(x, @)]
        /\ audit' = [audit EXCEPT ![x.id] =
              Append(@, [before |-> x.row.status, after |-> x.edge.to])]
        /\ transition' = [transition EXCEPT ![q] = Idle]
        /\ ReleaseLocks(q)
        /\ UNCHANGED <<timeOff, catalog, clock, booking, leave, admin, edits>>

TransitionStep(q) ==
    \/ TransitionBegin(q) \/ TransitionLock(q) \/ TransitionReject(q)
    \/ TransitionUpdate(q) \/ TransitionExclude(q) \/ TransitionCommit(q)
    \/ TransitionDeadlock(q) \/ TransitionRowChanged(q)
    \/ TransitionSerializationFailure(q) \/ TransitionAbort(q)

TransitionNext(q) ==
    \/ \E id \in AppointmentIDs, edge \in Transitions, actual \in Time \cup {Null} :
         TransitionRequest(q, id, edge, actual)
    \/ TransitionStep(q)
=============================================================================
