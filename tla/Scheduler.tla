------------------------------ MODULE Scheduler ------------------------------
(***************************************************************************)
(* The scheduler as its users meet it: bookings, status changes, time off  *)
(* and catalogue changes handled concurrently over one database, while     *)
(* time passes.                                                            *)
(***************************************************************************)
EXTENDS Workshop

Init ==
    /\ appointments = [id \in AppointmentIDs |-> Null]
    /\ reservations = [id \in AppointmentIDs |-> Null]
    /\ audit = [id \in AppointmentIDs |-> << >>]
    /\ timeOff = [i \in TimeOffIDs |-> Null]
    /\ catalog = InitialCatalog
    /\ clock = 0
    /\ scheduleLock = [t \in Technicians |-> Null]
    /\ rowLock = [id \in AppointmentIDs |-> Null]
    /\ booking = [r \in BookingRequests |-> Idle]
    /\ transition = [q \in TransitionRequests |-> Idle]
    /\ leave = [p \in TimeOffRequests |-> Idle]
    /\ admin = [a \in AdminRequests |-> Idle]
    /\ edits = 0

Tick ==
    /\ clock < Horizon
    /\ clock' = clock + 1
    /\ UNCHANGED <<tables, timeOff, catalog, locks, booking, transition, leave,
                   admin, edits>>

Next ==
    \/ \E r \in BookingRequests : ScheduleNext(r)
    \/ \E q \in TransitionRequests : TransitionNext(q)
    \/ \E p \in TimeOffRequests : TimeOffNext(p)
    \/ \E i \in TimeOffIDs : DeleteTimeOff(i)
    \/ \E a \in AdminRequests : AdminNext(a)
    \/ Tick

Spec == Init /\ [][Next]_vars

-----------------------------------------------------------------------------
(* Fairness: a handler that can take its next step takes it (the goroutine *)
(* is scheduled), PostgreSQL grants a lock to a waiter (its lock queues    *)
(* are first come, first served), who fails at once when the row was       *)
(* changed meanwhile (TransitionRowChanged), and ends a transaction of a   *)
(* deadlock.  New requests, the serialization failures SSI may report and  *)
(* aborts are never forced: no progress rests on them or on the request    *)
(* timeout.                                                                *)

ScheduleProgress(r) ==
    \/ ScheduleCheck(r) \/ ScheduleReject(r) \/ ScheduleInsert(r)
    \/ ScheduleReserve(r) \/ ScheduleConflict(r) \/ ScheduleDeadlock(r)
    \/ ScheduleCommit(r)

TransitionProgress(q) ==
    \/ TransitionBegin(q) \/ TransitionLock(q) \/ TransitionReject(q)
    \/ TransitionRowChanged(q) \/ TransitionUpdate(q) \/ TransitionExclude(q)
    \/ TransitionDeadlock(q) \/ TransitionCommit(q)

TimeOffProgress(p) ==
    \/ TimeOffLock(p) \/ TimeOffAppointmentConflict(p) \/ TimeOffWrite(p)
    \/ TimeOffReject(p)

\* Strong: the locks and rows a handler waits for are free now and then only.
Fairness ==
    /\ \A r \in BookingRequests : SF_vars(ScheduleProgress(r))
    /\ \A q \in TransitionRequests : SF_vars(TransitionProgress(q))
    /\ \A p \in TimeOffRequests : SF_vars(TimeOffProgress(p))

FairSpec == Spec /\ Fairness

-----------------------------------------------------------------------------
\* Type correctness of the tables and of the handlers' states.
TypeOK ==
    /\ appointments \in [AppointmentIDs -> Appointment \cup {Null}]
    /\ reservations \in [AppointmentIDs -> [ResourceType -> Reservation] \cup {Null}]
    /\ audit \in [AppointmentIDs -> Seq(AuditEvent)]
    /\ timeOff \in [TimeOffIDs -> TimeOff \cup {Null}]
    /\ catalog \in Catalog
    /\ clock \in Nat
    /\ scheduleLock \in [Technicians -> Handlers \cup {Null}]
    /\ rowLock \in [AppointmentIDs -> Handlers \cup {Null}]
    /\ booking \in [BookingRequests -> BookingTx \cup {Idle}]
    /\ transition \in [TransitionRequests -> TransitionTx \cup {Idle}]
    /\ leave \in [TimeOffRequests -> LeaveTx \cup {Idle}]
    /\ admin \in [AdminRequests -> AdminTx \cup {Idle}]
    /\ edits \in Nat

\* No technician and no bay is claimed by two active appointments at one
\* instant, whatever bookings, cancellations and retries interleave
\* (the exclusion constraints of 0001_init_tables.up.sql).
NoDoubleBooking ==
    \A i, j \in Active :
        i # j => ~ SharesCapacity(appointments[i], appointments[j])

\* The reservation ledger agrees with the appointments: the same resources
\* and interval, unreleased exactly while the appointment is active, and
\* carrying its final status afterwards.
ReservationsMatch ==
    \A id \in Booked :
        LET row == appointments[id]
            res == reservations[id]
        IN  /\ res["technician"].resource = row.technician
            /\ res["service_bay"].resource = row.bay
            /\ \A kind \in ResourceType :
                 /\ res[kind].starts = row.starts /\ res[kind].ends = row.ends
                 /\ res[kind].released <=> row.status \in TerminalStatus
                 /\ res[kind].released => res[kind].status = row.status

\* An appointment's audit events are its whole history.
AuditOf(id) ==
    LET log == audit[id]
    IN  IF id \in Booked
        THEN /\ log # << >>
             /\ log[1] = [before |-> Null, after |-> "requested"]
             /\ \A n \in 2 .. Len(log) : log[n].before = log[n - 1].after
             /\ log[Len(log)].after = appointments[id].status
        ELSE log = << >>

\* The audit events of every appointment begin with its creation, each starts
\* where the one before ended, and the last one ends in the current status:
\* no transition was applied to a state its handler had not seen.
AuditTrail == \A id \in AppointmentIDs : AuditOf(id)

\* A completed appointment was checked in, and its recorded end lies between
\* the check-in and the planned end.
CompletionWithinPlan ==
    \A id \in Booked :
        LET row == appointments[id]
        IN  row.status = "completed" =>
              /\ row.checkedInAt # Null
              /\ row.checkedInAt <= row.actualEndsAt
              /\ row.actualEndsAt <= row.ends

\* Every booked interval is non-empty, whatever changes to the duration bounds
\* run beside the booking (an empty one would escape every overlap check).
NonEmptyBookings ==
    \A id \in Booked : appointments[id].starts < appointments[id].ends

\* A deleted service type or bay is final: no update that read the row before
\* the deletion may still change it afterwards.
DeletedRowsFrozen ==
    [][/\ \A k \in ServiceTypes :
            catalog.types[k].deleted => catalog'.types[k] = catalog.types[k]
       /\ \A b \in Bays :
            catalog.bays[b].deleted => catalog'.bays[b] = catalog.bays[b]]_vars

\* A deleted time-off item is final: an update that read it before the
\* deletion, which takes no lock, neither changes nor revives it, even when it
\* has waited for the advisory lock and found the appointments clear since.
DeletedTimeOffFrozen ==
    [][\A i \in TimeOffIDs :
         (timeOff[i] # Null /\ timeOff[i].deleted) => timeOff'[i] = timeOff[i]]_vars

\* Time off is only ever written around the bookings of its technician: when
\* an item appears or moves, no committed active appointment overlaps it.
TimeOffAvoidsAppointments ==
    [][\A i \in TimeOffIDs :
         LET w == timeOff'[i]
         IN  (w # timeOff[i] /\ ~ w.deleted) => ~ AppointmentOverlap(w)]_vars

\* The promise of the design documents: the time-off trigger and its lock
\* keep active appointments and live time off apart.
NoAppointmentDuringTimeOff ==
    \A id \in Active, i \in LiveItems :
        appointments[id].technician = timeOff[i].technician
          => ~ Overlap(appointments[id], timeOff[i])

\* What an appointment refers to is withdrawn only when it no longer needs it:
\* a service type or a bay is deleted while no appointment refers to it
\* (service_types_CRUD.md:20, service_bay.md:14) and a technician is
\* deactivated without future active appointments (service.go:1614).
WithdrawnUnused ==
    /\ \A id \in Booked : /\ ~ catalog.types[appointments[id].type].deleted
                           /\ ~ catalog.bays[appointments[id].bay].deleted
    /\ \A t \in Technicians : ~ catalog.technicians[t].active => ~ HasFutureActive(t)

\* Every request is answered without the help of the request timeout: no
\* set of handlers waits for each other's rows and locks for ever.
BookingAnswered ==
    \A r \in BookingRequests : booking[r].stage # "idle" ~> booking[r].stage = "idle"
TransitionAnswered ==
    \A q \in TransitionRequests : transition[q].stage # "idle" ~> transition[q].stage = "idle"
TimeOffAnswered ==
    \A p \in TimeOffRequests : leave[p].stage # "idle" ~> leave[p].stage = "idle"

-----------------------------------------------------------------------------
(* The inductive invariant behind NoDoubleBooking and ReservationsMatch.    *)

\* An identifier belongs to at most one open booking and to no row yet.
IdsFresh ==
    \A r \in OpenBookings :
        /\ appointments[booking[r].id] = Null
        /\ \A o \in OpenBookings : o # r => booking[o].id # booking[r].id

\* A transition that holds its row lock has the current row, and its guards
\* hold of it.
RowsHeld ==
    \A q \in TransitionRequests :
        LET x == transition[q]
        IN  /\ x.stage # "idle" => appointments[x.id] # Null
            /\ x.stage \notin {"idle", "ready"} => x.row # Null
            /\ x.stage \in {"locked", "updated", "written"} =>
                 /\ rowLock[x.id] = q
                 /\ appointments[x.id] = x.row
                 /\ Allowed(x)

\* A booking that has passed the exclusion constraints competes with no
\* active appointment and with no other such booking.
ClaimsClear ==
    \A r \in BookingRequests :
        booking[r].stage = "reserved" =>
          /\ \A id \in Active : ~ SharesCapacity(appointments[id], booking[r])
          /\ \A o \in BookingRequests :
               (o # r /\ booking[o].stage = "reserved")
                 => ~ SharesCapacity(booking[o], booking[r])

\* Every appointment has its reservations.
Backed == \A id \in Booked : reservations[id] # Null

\* What every step preserves, whatever the constants: the type invariant, the
\* ownership of identifiers and rows, and the exclusiveness of every claim.
IndInv ==
    /\ TypeOK /\ IdsFresh /\ RowsHeld /\ Backed /\ ClaimsClear
    /\ NoDoubleBooking /\ ReservationsMatch /\ AuditTrail /\ CompletionWithinPlan

-----------------------------------------------------------------------------
(* The inductive invariant behind the properties of time off and durations. *)

\* An open booking that has inserted its row, and a time-off write that has
\* looked at the appointments, hold the schedule lock of their technician; what
\* the latter has seen of the appointments is true as long as it does.
ScheduleHeld ==
    /\ \A r \in BookingRequests :
         Uncommitted(booking[r]) => scheduleLock[booking[r].technician] = r
    /\ \A p \in TimeOffRequests :
         leave[p].stage = "locked" =>
           /\ scheduleLock[leave[p].technician] = p
           /\ ~ AppointmentOverlap(leave[p])

\* Service types keep a positive minimum through updates under way, and a
\* booking that has passed the checks has an interval that is not empty.
DurationsPositive ==
    /\ \A k \in ServiceTypes : 0 < catalog.types[k].min
    /\ \A a \in AdminRequests : admin[a].stage = "update_type" => 0 < admin[a].row.min
    /\ \A r \in BookingRequests :
         booking[r].stage \notin {"idle", "ready"} => booking[r].starts < booking[r].ends

\* An item that is being created is in no row yet and in no other request: the
\* INSERT cannot meet a deleted item.
ItemsFresh ==
    \A p \in TimeOffRequests :
        (leave[p].stage # "idle" /\ leave[p].create) =>
          /\ timeOff[leave[p].id] = Null
          /\ \A o \in TimeOffRequests :
               (o # p /\ leave[o].stage # "idle") => leave[o].id # leave[p].id

\* What every step preserves besides IndInv.
CalendarInv == ScheduleHeld /\ DurationsPositive /\ ItemsFresh /\ NonEmptyBookings

-----------------------------------------------------------------------------
\* The committed appointments, reduced to what the ledger shows.
LedgerView ==
    [id \in AppointmentIDs |->
        IF appointments[id] = Null
        THEN Null
        ELSE [technician |-> appointments[id].technician,
              bay |-> appointments[id].bay,
              starts |-> appointments[id].starts,
              ends |-> appointments[id].ends,
              status |-> appointments[id].status]]

Ledger == INSTANCE AppointmentLedger WITH ledger <- LedgerView

\* Every commit of the concurrent scheduler is one step of the atomic ledger.
RefinesLedger == Ledger!LedgerSpec
=============================================================================
