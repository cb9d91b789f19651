--------------------------- MODULE SchedulerProofs ---------------------------
(***************************************************************************)
(* Proofs about the concurrent scheduler, for every value of the constants.*)
(***************************************************************************)
EXTENDS Scheduler, TLAPS

-----------------------------------------------------------------------------
(* Types of the handlers' states *)

\* A handler's state that is not idle is an open transaction.
LEMMA OpenTx ==
    /\ \A b \in BookingTx \cup {Idle} : b.stage # "idle" => b \in BookingTx
    /\ \A x \in TransitionTx \cup {Idle} : x.stage # "idle" => x \in TransitionTx
    /\ \A w \in LeaveTx \cup {Idle} : w.stage # "idle" => w \in LeaveTx
    /\ \A w \in AdminTx \cup {Idle} : w.stage # "idle" => w \in AdminTx
  BY DEF Idle

\* The record updates of the booking handler stay within its states.
LEMMA BookingUpdates ==
    ASSUME NEW b \in BookingTx
    PROVE  /\ \A s \in {"ready", "checked", "inserted", "reserved"} :
                [b EXCEPT !.stage = s] \in BookingTx
           /\ \A n, m \in Nat, w \in SUBSET Window :
                [b EXCEPT !.stage = "checked", !.planned = n, !.ends = m,
                          !.seen = w] \in BookingTx
           /\ b.tries # MaxTries =>
                [b EXCEPT !.stage = "ready", !.tries = @ + 1] \in BookingTx
  <1>1. \A s \in {"ready", "checked", "inserted", "reserved"} :
          [b EXCEPT !.stage = s] \in BookingTx
    BY DEF BookingTx
  <1>2. \A n, m \in Nat, w \in SUBSET Window :
          [b EXCEPT !.stage = "checked", !.planned = n, !.ends = m, !.seen = w]
             \in BookingTx
    BY DEF BookingTx
  <1>3. ASSUME b.tries # MaxTries
        PROVE  [b EXCEPT !.stage = "ready", !.tries = @ + 1] \in BookingTx
    <2>1. b.tries + 1 \in 1 .. MaxTries
      BY <1>3, ConstantsAssumption DEF BookingTx
    <2> QED
      BY <2>1 DEF BookingTx
  <1> QED
    BY <1>1, <1>2, <1>3

\* ... and those of the transition handler within its own.
LEMMA TransitionUpdates ==
    ASSUME NEW x \in TransitionTx
    PROVE  /\ \A s \in {"ready", "locking", "locked", "updated", "written"} :
                [x EXCEPT !.stage = s] \in TransitionTx
           /\ \A row \in Appointment \cup {Null}, w \in SUBSET Window :
                [x EXCEPT !.stage = "locking", !.row = row, !.seen = w]
                   \in TransitionTx
           /\ x.tries # MaxTries =>
                [x EXCEPT !.stage = "ready", !.tries = @ + 1] \in TransitionTx
  <1>1. \A s \in {"ready", "locking", "locked", "updated", "written"} :
          [x EXCEPT !.stage = s] \in TransitionTx
    BY DEF TransitionTx
  <1>2. \A row \in Appointment \cup {Null}, w \in SUBSET Window :
          [x EXCEPT !.stage = "locking", !.row = row, !.seen = w] \in TransitionTx
    BY DEF TransitionTx
  <1>3. ASSUME x.tries # MaxTries
        PROVE  [x EXCEPT !.stage = "ready", !.tries = @ + 1] \in TransitionTx
    <2>1. x.tries + 1 \in 1 .. MaxTries
      BY <1>3, ConstantsAssumption DEF TransitionTx
    <2> QED
      BY <2>1 DEF TransitionTx
  <1> QED
    BY <1>1, <1>2, <1>3

\* What a snapshot shows of a technician's time off is a set of windows.
LEMMA SeenType ==
    ASSUME TypeOK, NEW t
    PROVE  LiveTimeOff(t) \in SUBSET Window
  BY DEF TypeOK, LiveTimeOff, Window, TimeOff

\* The end of a transaction leaves lock tables, and takes no lock of another
\* handler away.
LEMMA ReleaseFacts ==
    ASSUME TypeOK, NEW h, ReleaseLocks(h)
    PROVE  /\ scheduleLock' \in [Technicians -> Handlers \cup {Null}]
           /\ rowLock' \in [AppointmentIDs -> Handlers \cup {Null}]
           /\ \A id \in AppointmentIDs, q \in TransitionRequests :
                (q # h /\ rowLock[id] = q) => rowLock'[id] = q
  BY DEF TypeOK, ReleaseLocks

-----------------------------------------------------------------------------
(* Bookings *)

\* The state a booking handler moves to without committing, and what that
\* step leaves alone.
QuietBooking(r, c) ==
    /\ booking' = [booking EXCEPT ![r] = c]
    /\ c \in BookingTx \cup {Idle}
    /\ c.stage # "idle" =>
         \/ booking[r].stage # "idle" /\ c.id = booking[r].id
         \/ /\ appointments[c.id] = Null
            /\ \A o \in OpenBookings : booking[o].id # c.id
    /\ c.stage = "reserved" =>
         /\ \A id \in Active : ~ SharesCapacity(appointments[id], c)
         /\ \A o \in BookingRequests \ {r} :
              booking[o].stage = "reserved" => ~ SharesCapacity(booking[o], c)
    /\ scheduleLock' \in [Technicians -> Handlers \cup {Null}]
    /\ rowLock' \in [AppointmentIDs -> Handlers \cup {Null}]
    /\ \A id \in AppointmentIDs, q \in TransitionRequests :
         rowLock[id] = q => rowLock'[id] = q
    /\ UNCHANGED <<tables, timeOff, catalog, clock, transition, leave, admin,
                   edits>>

\* Competition for capacity is symmetric.
LEMMA SharesSymmetric ==
    ASSUME NEW a, NEW b, SharesCapacity(a, b)
    PROVE  SharesCapacity(b, a)
  BY DEF SharesCapacity, Overlap

\* A quiet step of a booking preserves the inductive invariant.
LEMMA QuietBookingKeeps ==
    ASSUME IndInv, NEW r \in BookingRequests, NEW c, QuietBooking(r, c)
    PROVE  IndInv'
  <1> USE DEF QuietBooking
  <1>1. TypeOK'
    BY DEF IndInv, TypeOK, tables
  <1>2. IdsFresh'
    BY DEF IndInv, IdsFresh, OpenBookings, TypeOK, tables
  <1>3. RowsHeld'
    BY OpenTx DEF IndInv, RowsHeld, TypeOK, tables, TransitionTx, Allowed, ActualEnd
  <1>4. Backed'
    BY DEF IndInv, Backed, Booked, tables
  <1>5. ClaimsClear'
    BY SharesSymmetric DEF IndInv, ClaimsClear, Active, Booked, TypeOK, tables
  <1>6. NoDoubleBooking'
    BY DEF IndInv, NoDoubleBooking, Active, Booked, tables
  <1>7. ReservationsMatch' /\ AuditTrail' /\ CompletionWithinPlan'
    BY DEF IndInv, ReservationsMatch, AuditTrail, AuditOf, CompletionWithinPlan, Booked,
       tables
  <1> QED
    BY <1>1, <1>2, <1>3, <1>4, <1>5, <1>6, <1>7 DEF IndInv

\* Every step of a booking handler but the commit is quiet.
LEMMA BookingIsQuiet ==
    ASSUME IndInv, NEW r \in BookingRequests,
           ScheduleNext(r), ~ ScheduleCommit(r)
    PROVE  \E c : QuietBooking(r, c)
  <1> DEFINE b == booking[r]
  <1>T. TypeOK
    BY DEF IndInv
  <1>D. \A q \in TransitionRequests : q # r
    BY HandlersAssumption
  <1>O. b.stage # "idle" => b \in BookingTx
    BY <1>T, OpenTx DEF TypeOK
  <1>R. ASSUME NEW c \in BookingTx \cup {Idle}, ScheduleRollback(r, c),
               c.stage # "reserved",
               c.stage # "idle" => b.stage # "idle" /\ c.id = b.id
        PROVE  QuietBooking(r, c)
    <2>1. ReleaseLocks(r)
      BY <1>R DEF ScheduleRollback
    <2> QED
      BY <1>T, <1>D, <1>R, <2>1, ReleaseFacts DEF QuietBooking, ScheduleRollback
  <1>1. ASSUME NEW id \in AppointmentIDs, NEW t \in Technicians, NEW bay \in Bays,
               NEW k \in ServiceTypes, NEW v \in Vehicles, NEW start \in Time,
               NEW planned \in 0 .. Horizon,
               ScheduleRequest(r, id, t, bay, k, v, start, planned)
        PROVE  \E c : QuietBooking(r, c)
    <2> DEFINE c == [stage |-> "ready", id |-> id, technician |-> t, bay |-> bay,
                     type |-> k, vehicle |-> v, starts |-> start,
                     planned |-> planned, ends |-> start, seen |-> {}, tries |-> 1]
    <2>1. c \in BookingTx
      BY ConstantsAssumption DEF BookingTx, Time
    <2>2. booking' = [booking EXCEPT ![r] = c]
      BY <1>1 DEF ScheduleRequest
    <2>3. c.stage = "ready" /\ c.id = id
      OBVIOUS
    <2> HIDE DEF c
    <2>4. QuietBooking(r, c)
      BY <1>1, <1>T, <2>1, <2>2, <2>3
         DEF QuietBooking, ScheduleRequest, TypeOK, Booked, locks
    <2> QED
      BY <2>4
  <1>2. ASSUME ScheduleCheck(r)
        PROVE  \E c : QuietBooking(r, c)
    <2> DEFINE c == [b EXCEPT !.stage = "checked",
                              !.planned = PlannedOf(b),
                              !.ends = b.starts + PlannedOf(b),
                              !.seen = LiveTimeOff(b.technician)]
    <2>1. b \in BookingTx
      BY <1>2, <1>O DEF ScheduleCheck
    <2>2. PlannedOf(b) \in Nat /\ b.starts + PlannedOf(b) \in Nat
      BY <1>T, <2>1 DEF TypeOK, PlannedOf, BookingTx, Catalog, ServiceType
    <2>3. c \in BookingTx
      BY <1>T, <2>1, <2>2, SeenType, BookingUpdates
    <2>4. c.stage = "checked" /\ c.id = b.id
      BY <2>1 DEF BookingTx
    <2>5. booking' = [booking EXCEPT ![r] = c]
      BY <1>2 DEF ScheduleCheck
    <2> HIDE DEF c
    <2>6. QuietBooking(r, c)
      BY <1>2, <1>T, <2>3, <2>4, <2>5 DEF QuietBooking, ScheduleCheck, TypeOK, locks
    <2> QED
      BY <2>6
  <1>3. ASSUME ScheduleReject(r)
        PROVE  QuietBooking(r, Idle)
    BY <1>3, <1>T DEF QuietBooking, ScheduleReject, TypeOK, locks, Idle
  <1>4. ASSUME ScheduleInsert(r)
        PROVE  \E c : QuietBooking(r, c)
    <2> DEFINE c == [b EXCEPT !.stage = "inserted"]
    <2>1. b \in BookingTx
      BY <1>4, <1>O DEF ScheduleInsert
    <2>2. c \in BookingTx /\ c.stage = "inserted" /\ c.id = b.id
      BY <2>1, BookingUpdates DEF BookingTx
    <2>3. booking' = [booking EXCEPT ![r] = c]
      BY <1>4 DEF ScheduleInsert
    <2>4. scheduleLock' \in [Technicians -> Handlers \cup {Null}]
      BY <1>4, <1>T DEF ScheduleInsert, TypeOK, Handlers
    <2> HIDE DEF c
    <2>5. QuietBooking(r, c)
      BY <1>4, <1>T, <2>1, <2>2, <2>3, <2>4
         DEF QuietBooking, ScheduleInsert, TypeOK, BookingTx
    <2> QED
      BY <2>5
  <1>5. ASSUME ScheduleReserve(r)
        PROVE  \E c : QuietBooking(r, c)
    <2> DEFINE c == [b EXCEPT !.stage = "reserved"]
    <2>1. b \in BookingTx
      BY <1>5, <1>O DEF ScheduleReserve
    <2>2. c \in BookingTx /\ c.stage = "reserved" /\ c.id = b.id
      BY <2>1, BookingUpdates DEF BookingTx
    <2>3. /\ c.technician = b.technician /\ c.bay = b.bay
          /\ c.starts = b.starts /\ c.ends = b.ends
      BY <2>1 DEF BookingTx
    <2>4. ASSUME NEW id \in Active
          PROVE  ~ SharesCapacity(appointments[id], c)
      BY <1>5, <2>3 DEF ScheduleReserve, CommittedConflict, PendingConflict,
         Active, Excludes, RowOf, ActiveStatus, SharesCapacity, Overlap
    <2>5. ASSUME NEW o \in BookingRequests \ {r}, booking[o].stage = "reserved"
          PROVE  ~ SharesCapacity(booking[o], c)
      BY <1>5, <2>3, <2>5 DEF ScheduleReserve, PendingConflict, OpenBookings,
         Uncommitted, SharesCapacity, Overlap
    <2>6. booking' = [booking EXCEPT ![r] = c]
      BY <1>5 DEF ScheduleReserve
    <2> HIDE DEF c
    <2>7. QuietBooking(r, c)
      BY <1>5, <1>T, <2>2, <2>4, <2>5, <2>6
         DEF QuietBooking, ScheduleReserve, TypeOK, locks
    <2> QED
      BY <2>7
  <1>6. ASSUME ScheduleRollback(r, Idle)
        PROVE  QuietBooking(r, Idle)
    BY <1>6, <1>R DEF Idle
  <1>7. ASSUME ScheduleSerializationFailure(r)
        PROVE  \E c : QuietBooking(r, c)
    <2> DEFINE c == [b EXCEPT !.stage = "ready", !.tries = @ + 1]
    <2>1. b \in BookingTx /\ b.stage # "idle"
      BY <1>7, <1>O DEF ScheduleSerializationFailure
    <2>2. CASE b.tries = MaxTries
      BY <1>7, <1>6, <2>2 DEF ScheduleSerializationFailure
    <2>3. CASE b.tries # MaxTries
      <3>1. c \in BookingTx
        BY <2>1, <2>3, BookingUpdates
      <3>2. c.stage = "ready" /\ c.id = b.id
        BY <2>1 DEF BookingTx
      <3>3. ScheduleRollback(r, c)
        BY <1>7, <2>3 DEF ScheduleSerializationFailure
      <3> HIDE DEF c
      <3> QED
        BY <1>R, <2>1, <3>1, <3>2, <3>3
    <2> QED
      BY <2>2, <2>3
  <1>8. ScheduleConflict(r) \/ ScheduleDeadlock(r) \/ ScheduleAbort(r)
          => ScheduleRollback(r, Idle)
    BY DEF ScheduleConflict, ScheduleDeadlock, ScheduleAbort
  <1> QED
    BY <1>1, <1>2, <1>3, <1>4, <1>5, <1>6, <1>7, <1>8
       DEF ScheduleNext, ScheduleStep

\* A commit adds one active row whose claim was exclusive.
LEMMA BookingCommitKeeps ==
    ASSUME IndInv, NEW r \in BookingRequests, ScheduleCommit(r)
    PROVE  IndInv'
  <1> DEFINE b == booking[r]
             row == RowOf(b)
             v == [kind \in ResourceType |->
                     IF kind = "technician" THEN ReservationOf(b.technician, b)
                                            ELSE ReservationOf(b.bay, b)]
             e == [before |-> Null, after |-> "requested"]
  <1>T. TypeOK
    BY DEF IndInv
  <1>B. b \in BookingTx /\ b.stage = "reserved"
    BY <1>T, OpenTx DEF TypeOK, ScheduleCommit
  <1>F. /\ b.id \in AppointmentIDs /\ appointments[b.id] = Null
        /\ \A o \in OpenBookings : o # r => booking[o].id # b.id
    BY <1>B DEF BookingTx, IndInv, IdsFresh, OpenBookings
  <1>1. /\ row \in Appointment /\ row # Null /\ row.status = "requested"
        /\ row.technician = b.technician /\ row.bay = b.bay
        /\ row.starts = b.starts /\ row.ends = b.ends
    BY <1>B, NullAssumption DEF BookingTx, RowOf, Appointment, Status, ActiveStatus
  <1>2. /\ v \in [ResourceType -> Reservation] /\ v # Null
        /\ v["technician"].resource = b.technician
        /\ v["service_bay"].resource = b.bay
        /\ \A kind \in ResourceType : /\ v[kind].starts = b.starts
                                      /\ v[kind].ends = b.ends
                                      /\ v[kind].released = FALSE
    <2>1. /\ ReservationOf(b.technician, b) \in Reservation
          /\ ReservationOf(b.bay, b) \in Reservation
      BY <1>B DEF BookingTx, ReservationOf, Reservation, Status, ActiveStatus
    <2>2. v \in [ResourceType -> Reservation]
      BY <2>1
    <2>3. v # Null
      BY <2>2, NullAssumption
    <2>4. /\ v["technician"].resource = b.technician
          /\ v["service_bay"].resource = b.bay
          /\ \A kind \in ResourceType : /\ v[kind].starts = b.starts
                                        /\ v[kind].ends = b.ends
                                        /\ v[kind].released = FALSE
      BY DEF ReservationOf, ResourceType
    <2> QED
      BY <2>2, <2>3, <2>4
  <1>3. e \in AuditEvent
    BY DEF AuditEvent, Status, ActiveStatus
  <1>4. /\ appointments' = [appointments EXCEPT ![b.id] = row]
        /\ reservations' = [reservations EXCEPT ![b.id] = v]
        /\ audit' = [audit EXCEPT ![b.id] = Append(audit[b.id], e)]
        /\ booking' = [booking EXCEPT ![r] = Idle]
        /\ ReleaseLocks(r)
        /\ UNCHANGED <<timeOff, catalog, clock, transition, leave, admin, edits>>
    BY DEF ScheduleCommit
  <1>L. /\ scheduleLock' \in [Technicians -> Handlers \cup {Null}]
        /\ rowLock' \in [AppointmentIDs -> Handlers \cup {Null}]
        /\ \A id \in AppointmentIDs, q \in TransitionRequests :
             rowLock[id] = q => rowLock'[id] = q
    BY <1>T, <1>4, ReleaseFacts, HandlersAssumption
  <1>A. audit[b.id] = << >> /\ Append(audit[b.id], e) = <<e>>
    <2>1. audit[b.id] = << >>
      BY <1>F DEF IndInv, AuditTrail, AuditOf, Booked
    <2> QED
      BY <2>1
  <1>E. e.before = Null /\ e.after = "requested"
    OBVIOUS
  <1> HIDE DEF row, v
  <1>5. TypeOK'
    <2>1. appointments' \in [AppointmentIDs -> Appointment \cup {Null}]
      BY <1>T, <1>1, <1>4 DEF TypeOK
    <2>2. reservations' \in [AppointmentIDs -> [ResourceType -> Reservation] \cup {Null}]
      BY <1>T, <1>2, <1>4 DEF TypeOK
    <2>3. audit' \in [AppointmentIDs -> Seq(AuditEvent)]
      BY <1>T, <1>F, <1>3, <1>4 DEF TypeOK
    <2>4. booking' \in [BookingRequests -> BookingTx \cup {Idle}]
      BY <1>T, <1>4 DEF TypeOK
    <2> QED
      BY <1>T, <1>4, <1>L, <2>1, <2>2, <2>3, <2>4 DEF TypeOK
  <1>6. IdsFresh'
    BY <1>T, <1>F, <1>4 DEF IndInv, IdsFresh, OpenBookings, TypeOK, Idle
  <1>7. RowsHeld'
    BY <1>T, <1>F, <1>4, <1>L, OpenTx
       DEF IndInv, RowsHeld, TypeOK, TransitionTx, Allowed, ActualEnd
  <1>8. Backed'
    BY <1>T, <1>F, <1>2, <1>4 DEF IndInv, Backed, Booked, TypeOK
  <1>S. ASSUME NEW i \in Active
        PROVE  ~ SharesCapacity(appointments[i], row) /\ ~ SharesCapacity(row, appointments[i])
    BY <1>B, <1>1, SharesSymmetric DEF IndInv, ClaimsClear, SharesCapacity, Overlap
  <1>9. ClaimsClear'
    <2>1. ASSUME NEW o \in BookingRequests, o # r, booking[o].stage = "reserved"
          PROVE  ~ SharesCapacity(row, booking[o])
      BY <1>B, <1>1, <2>1, SharesSymmetric
         DEF IndInv, ClaimsClear, SharesCapacity, Overlap
    <2> QED
      BY <1>T, <1>F, <1>4, <2>1 DEF IndInv, ClaimsClear, Active, Booked, TypeOK, Idle
  <1>10. NoDoubleBooking'
    BY <1>T, <1>F, <1>4, <1>S DEF IndInv, NoDoubleBooking, Active, Booked, TypeOK
  <1>11. ReservationsMatch'
    BY <1>T, <1>F, <1>1, <1>2, <1>4
       DEF IndInv, ReservationsMatch, Booked, TypeOK, TerminalStatus
  <1>12. AuditTrail'
    <2> SUFFICES ASSUME NEW id \in AppointmentIDs
                 PROVE  AuditOf(id)'
      BY DEF AuditTrail
    <2>1. CASE id # b.id
      BY <1>T, <1>4, <2>1 DEF IndInv, AuditTrail, AuditOf, Booked, TypeOK
    <2>2. CASE id = b.id
      <3>1. audit'[id] = <<e>> /\ appointments'[id] = row
        BY <1>T, <1>F, <1>4, <1>A, <2>2 DEF TypeOK
      <3>2. /\ <<e>> # << >> /\ <<e>>[1] = e /\ Len(<<e>>) = 1 /\ 2 .. 1 = {}
        OBVIOUS
      <3> HIDE DEF e
      <3> QED
        BY <1>1, <1>E, <3>1, <3>2 DEF AuditOf, Booked, e
    <2> QED
      BY <2>1, <2>2
  <1>13. CompletionWithinPlan'
    BY <1>T, <1>F, <1>1, <1>4 DEF IndInv, CompletionWithinPlan, Booked, TypeOK
  <1> QED
    BY <1>5, <1>6, <1>7, <1>8, <1>9, <1>10, <1>11, <1>12, <1>13 DEF IndInv

-----------------------------------------------------------------------------
(* Status changes *)

\* The state a transition handler moves to without committing, and what that
\* step leaves alone.
QuietTransition(q, y) ==
    /\ transition' = [transition EXCEPT ![q] = y]
    /\ y \in TransitionTx \cup {Idle}
    /\ y.stage # "idle" => appointments[y.id] # Null
    /\ y.stage \notin {"idle", "ready"} => y.row # Null
    /\ y.stage \in {"locked", "updated", "written"} =>
         /\ rowLock'[y.id] = q
         /\ appointments[y.id] = y.row
         /\ Allowed(y)
    /\ scheduleLock' \in [Technicians -> Handlers \cup {Null}]
    /\ rowLock' \in [AppointmentIDs -> Handlers \cup {Null}]
    /\ \A id \in AppointmentIDs, p \in TransitionRequests \ {q} :
         rowLock[id] = p => rowLock'[id] = p
    /\ UNCHANGED <<tables, timeOff, catalog, clock, booking, leave, admin, edits>>

\* A quiet step of a transition preserves the inductive invariant.
LEMMA QuietTransitionKeeps ==
    ASSUME IndInv, NEW q \in TransitionRequests, NEW y, QuietTransition(q, y)
    PROVE  IndInv'
  <1> USE DEF QuietTransition
  <1>1. TypeOK'
    BY DEF IndInv, TypeOK, tables
  <1>2. IdsFresh'
    BY DEF IndInv, IdsFresh, OpenBookings, tables
  <1>3. RowsHeld'
    BY OpenTx DEF IndInv, RowsHeld, TypeOK, tables, TransitionTx, Allowed, ActualEnd
  <1>4. Backed'
    BY DEF IndInv, Backed, Booked, tables
  <1>5. ClaimsClear' /\ NoDoubleBooking'
    BY DEF IndInv, ClaimsClear, NoDoubleBooking, Active, Booked, tables
  <1>6. ReservationsMatch' /\ AuditTrail' /\ CompletionWithinPlan'
    BY DEF IndInv, ReservationsMatch, AuditTrail, AuditOf, CompletionWithinPlan,
       Booked, tables
  <1> QED
    BY <1>1, <1>2, <1>3, <1>4, <1>5, <1>6 DEF IndInv

\* Every step of a transition handler but the commit is quiet.
LEMMA TransitionIsQuiet ==
    ASSUME IndInv, NEW q \in TransitionRequests,
           TransitionNext(q), ~ TransitionCommit(q)
    PROVE  \E y : QuietTransition(q, y)
  <1> DEFINE x == transition[q]
  <1>T. TypeOK
    BY DEF IndInv
  <1>O. x.stage # "idle" =>
          x \in TransitionTx /\ x.id \in AppointmentIDs /\ appointments[x.id] # Null
    BY <1>T, OpenTx DEF TypeOK, IndInv, RowsHeld, TransitionTx
  <1>H. x.stage \in {"locked", "updated", "written"} =>
          /\ x.row # Null /\ rowLock[x.id] = q
          /\ appointments[x.id] = x.row /\ Allowed(x)
    BY DEF IndInv, RowsHeld
  <1>R. ASSUME NEW y \in TransitionTx \cup {Idle}, TransitionRollback(q, y),
               y.stage \in {"idle", "ready"},
               y.stage # "idle" => appointments[y.id] # Null
        PROVE  QuietTransition(q, y)
    <2>1. ReleaseLocks(q)
      BY <1>R DEF TransitionRollback
    <2> QED
      BY <1>T, <1>R, <2>1, ReleaseFacts DEF QuietTransition, TransitionRollback
  <1>S. ASSUME NEW s \in {"locking", "locked", "updated", "written"},
               x.stage # "idle"
        PROVE  LET y == [x EXCEPT !.stage = s]
               IN  /\ y \in TransitionTx /\ y.stage = s /\ y.id = x.id
                   /\ y.row = x.row /\ (Allowed(x) => Allowed(y))
    <2> DEFINE y == [x EXCEPT !.stage = s]
    <2>1. x \in TransitionTx
      BY <1>O, <1>S
    <2>2. y \in TransitionTx
      BY <2>1, TransitionUpdates
    <2>3. /\ y.stage = s /\ y.id = x.id /\ y.row = x.row /\ y.edge = x.edge
          /\ y.occurredAt = x.occurredAt /\ y.actualEndsAt = x.actualEndsAt
      BY <2>1 DEF TransitionTx
    <2> HIDE DEF y
    <2>4. Allowed(x) => Allowed(y)
      BY <2>3 DEF Allowed, ActualEnd
    <2> QED
      BY <2>2, <2>3, <2>4 DEF y
  <1>1. ASSUME NEW id \in AppointmentIDs, NEW edge \in Transitions,
               NEW actual \in Time \cup {Null},
               TransitionRequest(q, id, edge, actual)
        PROVE  \E y : QuietTransition(q, y)
    <2> DEFINE y == [stage |-> "ready", id |-> id, edge |-> edge,
                     occurredAt |-> clock, actualEndsAt |-> actual,
                     row |-> Null, seen |-> {}, tries |-> 1]
    <2>1. y \in TransitionTx
      BY <1>T, ConstantsAssumption DEF TransitionTx, Time, TypeOK
    <2>2. y.stage = "ready" /\ y.id = id
      OBVIOUS
    <2>3. transition' = [transition EXCEPT ![q] = y]
      BY <1>1 DEF TransitionRequest
    <2> HIDE DEF y
    <2>4. QuietTransition(q, y)
      BY <1>1, <1>T, <2>1, <2>2, <2>3
         DEF QuietTransition, TransitionRequest, TypeOK, Booked, locks
    <2> QED
      BY <2>4
  <1>2. ASSUME TransitionBegin(q)
        PROVE  \E y : QuietTransition(q, y)
    <2> DEFINE y == [x EXCEPT !.stage = "locking", !.row = appointments[x.id],
                              !.seen = LiveTimeOff(appointments[x.id].technician)]
    <2>1. x \in TransitionTx /\ x.id \in AppointmentIDs /\ appointments[x.id] # Null
      BY <1>2, <1>O DEF TransitionBegin
    <2>2. appointments[x.id] \in Appointment \cup {Null}
      BY <1>T, <2>1 DEF TypeOK
    <2>3. y \in TransitionTx
      BY <1>T, <2>1, <2>2, SeenType, TransitionUpdates
    <2>4. y.stage = "locking" /\ y.id = x.id /\ y.row = appointments[x.id]
      BY <2>1 DEF TransitionTx
    <2>5. transition' = [transition EXCEPT ![q] = y]
      BY <1>2 DEF TransitionBegin
    <2> HIDE DEF y
    <2>6. QuietTransition(q, y)
      BY <1>2, <1>T, <2>1, <2>3, <2>4, <2>5
         DEF QuietTransition, TransitionBegin, TypeOK, locks
    <2> QED
      BY <2>6
  <1>3. ASSUME TransitionLock(q)
        PROVE  \E y : QuietTransition(q, y)
    <2> DEFINE y == [x EXCEPT !.stage = "locked"]
    <2>1. x.stage # "idle" /\ x.row # Null
      BY <1>3 DEF TransitionLock, IndInv, RowsHeld
    <2>2. /\ y \in TransitionTx /\ y.stage = "locked" /\ y.id = x.id
          /\ y.row = x.row /\ (Allowed(x) => Allowed(y))
      BY <1>S, <2>1
    <2>3. transition' = [transition EXCEPT ![q] = y]
      BY <1>3 DEF TransitionLock
    <2> HIDE DEF y
    <2>4. /\ rowLock' \in [AppointmentIDs -> Handlers \cup {Null}]
          /\ rowLock'[x.id] = q
          /\ \A id \in AppointmentIDs, p \in TransitionRequests \ {q} :
               rowLock[id] = p => rowLock'[id] = p
      BY <1>3, <1>T, <1>O, <2>1, NullAssumption DEF TransitionLock, TypeOK, Handlers
    <2>5. QuietTransition(q, y)
      BY <1>3, <1>T, <1>O, <2>1, <2>2, <2>3, <2>4
         DEF QuietTransition, TransitionLock, TypeOK
    <2> QED
      BY <2>5
  <1>4. ASSUME TransitionRollback(q, Idle)
        PROVE  QuietTransition(q, Idle)
    BY <1>4, <1>R DEF Idle
  <1>5. ASSUME TransitionRowChanged(q) \/ TransitionSerializationFailure(q)
        PROVE  \E y : QuietTransition(q, y)
    <2> DEFINE y == [x EXCEPT !.stage = "ready", !.tries = @ + 1]
    <2>1. x \in TransitionTx /\ appointments[x.id] # Null
      BY <1>5, <1>O DEF TransitionRowChanged, TransitionSerializationFailure
    <2>2. CASE x.tries = MaxTries
      BY <1>5, <1>4, <2>2 DEF TransitionRowChanged, TransitionSerializationFailure,
         TransitionRetry
    <2>3. CASE x.tries # MaxTries
      <3>1. y \in TransitionTx
        BY <2>1, <2>3, TransitionUpdates
      <3>2. y.stage = "ready" /\ y.id = x.id
        BY <2>1 DEF TransitionTx
      <3>3. TransitionRollback(q, y)
        BY <1>5, <2>3 DEF TransitionRowChanged, TransitionSerializationFailure,
           TransitionRetry
      <3> HIDE DEF y
      <3> QED
        BY <1>R, <2>1, <3>1, <3>2, <3>3
    <2> QED
      BY <2>2, <2>3
  <1>6. ASSUME TransitionUpdate(q)
        PROVE  \E y : QuietTransition(q, y)
    <2>1. x.stage = "locked" /\ x \in TransitionTx
      BY <1>6, <1>O DEF TransitionUpdate
    <2>2. ASSUME NEW s \in {"updated", "written"},
                 transition' = [transition EXCEPT ![q].stage = s],
                 UNCHANGED rowLock,
                 scheduleLock' \in [Technicians -> Handlers \cup {Null}]
          PROVE  \E y : QuietTransition(q, y)
      <3> DEFINE y == [x EXCEPT !.stage = s]
      <3>1. /\ y \in TransitionTx /\ y.stage = s /\ y.id = x.id
            /\ y.row = x.row /\ (Allowed(x) => Allowed(y))
        BY <1>S, <2>1
      <3>2. transition' = [transition EXCEPT ![q] = y]
        BY <2>2
      <3> HIDE DEF y
      <3>3. QuietTransition(q, y)
        BY <1>6, <1>T, <1>H, <1>O, <2>1, <2>2, <3>1, <3>2
           DEF QuietTransition, TransitionUpdate, TypeOK
      <3> QED
        BY <3>3
    <2>3. CASE transition' = [transition EXCEPT ![q].stage = "written"] /\ UNCHANGED locks
      BY <1>T, <2>2, <2>3 DEF locks, TypeOK
    <2>4. CASE /\ transition' = [transition EXCEPT ![q].stage = "updated"]
               /\ scheduleLock' = [scheduleLock EXCEPT ![x.row.technician] = q]
               /\ UNCHANGED rowLock
      <3>1. scheduleLock' \in [Technicians -> Handlers \cup {Null}]
        BY <1>T, <2>4 DEF TypeOK, Handlers
      <3> QED
        BY <2>2, <2>4, <3>1
    <2>5. CASE transition' = [transition EXCEPT ![q] = Idle] /\ ReleaseLocks(q)
      BY <1>4, <1>6, <2>5 DEF TransitionRollback, TransitionUpdate
    <2> QED
      BY <1>6, <2>3, <2>4, <2>5 DEF TransitionUpdate
  <1>7. ASSUME TransitionExclude(q)
        PROVE  \E y : QuietTransition(q, y)
    <2> DEFINE y == [x EXCEPT !.stage = "written"]
    <2>1. x.stage = "updated"
      BY <1>7 DEF TransitionExclude
    <2>2. /\ y \in TransitionTx /\ y.stage = "written" /\ y.id = x.id
          /\ y.row = x.row /\ (Allowed(x) => Allowed(y))
      BY <1>S, <2>1
    <2>3. transition' = [transition EXCEPT ![q] = y]
      BY <1>7 DEF TransitionExclude
    <2> HIDE DEF y
    <2>4. QuietTransition(q, y)
      BY <1>7, <1>T, <1>H, <1>O, <2>1, <2>2, <2>3
         DEF QuietTransition, TransitionExclude, TypeOK, locks
    <2> QED
      BY <2>4
  <1>8. TransitionReject(q) \/ TransitionDeadlock(q) \/ TransitionAbort(q)
          => TransitionRollback(q, Idle)
    BY DEF TransitionReject, TransitionDeadlock, TransitionAbort
  <1> QED
    BY <1>1, <1>2, <1>3, <1>4, <1>5, <1>6, <1>7, <1>8
       DEF TransitionNext, TransitionStep

\* What a transition finds when it commits, and the row it leaves.
LEMMA TransitionCommitFacts ==
    ASSUME IndInv, NEW q \in TransitionRequests, TransitionCommit(q)
    PROVE  LET x == transition[q]
               old == appointments[x.id]
               row == RowAfter(x)
           IN  /\ x \in TransitionTx /\ x.stage = "written"
               /\ x.id \in AppointmentIDs /\ x.edge \in Transitions
               /\ x.edge.to \in {"checked_in", "in_progress", "completed", "cancelled"}
               /\ old \in Appointment /\ old # Null /\ old = x.row
               /\ rowLock[x.id] = q /\ Allowed(x)
               /\ old.status \in ActiveStatus
               /\ row \in Appointment /\ row # Null
               /\ row.technician = old.technician /\ row.bay = old.bay
               /\ row.starts = old.starts /\ row.ends = old.ends
               /\ row.status = x.edge.to
               /\ x.edge.to = "completed" =>
                    /\ row.actualEndsAt = ActualEnd(x)
                    /\ row.checkedInAt = old.checkedInAt
  <1> DEFINE x == transition[q]
             old == appointments[x.id]
             row == RowAfter(x)
  <1>T. TypeOK
    BY DEF IndInv
  <1>X. x \in TransitionTx /\ x.stage = "written"
    BY <1>T, OpenTx DEF TypeOK, TransitionCommit
  <1>I. x.id \in AppointmentIDs
    BY <1>X DEF TransitionTx
  <1>H. old # Null /\ old = x.row /\ rowLock[x.id] = q /\ Allowed(x)
    BY <1>X DEF IndInv, RowsHeld
  <1>N. old \in Appointment
    BY <1>T, <1>I, <1>H DEF TypeOK
  <1>E. /\ x.edge.to \in {"checked_in", "in_progress", "completed", "cancelled"}
        /\ x.edge \in Transitions
    BY <1>X DEF TransitionTx, Transitions
  <1>S. old.status \in ActiveStatus
    <2>1. Null \notin Status
      BY NullAssumption
    <2> QED
      BY <1>E, <1>H, <2>1 DEF Allowed, Transitions, Status, ActiveStatus
  <1>A. ActualEnd(x) \in Nat /\ x.occurredAt \in Nat
    BY <1>X DEF TransitionTx, ActualEnd
  <1>1. /\ row.technician = old.technician /\ row.bay = old.bay
        /\ row.starts = old.starts /\ row.ends = old.ends
        /\ row.status = x.edge.to
        /\ x.edge.to = "completed" =>
             row.actualEndsAt = ActualEnd(x) /\ row.checkedInAt = old.checkedInAt
    BY <1>H, <1>N DEF RowAfter, Appointment
  <1>2. row \in Appointment /\ row # Null
    <2>1. row \in Appointment
      BY <1>H, <1>N, <1>E, <1>A
         DEF RowAfter, Appointment, Status, ActiveStatus, TerminalStatus
    <2> QED
      BY <2>1, NullAssumption
  <1> HIDE DEF row
  <1> QED
    BY <1>X, <1>I, <1>H, <1>N, <1>E, <1>S, <1>1, <1>2 DEF row

\* A commit advances an active row along one edge and keeps its claim.
LEMMA TransitionCommitKeeps ==
    ASSUME IndInv, NEW q \in TransitionRequests, TransitionCommit(q)
    PROVE  IndInv'
  <1> DEFINE x == transition[q]
             old == appointments[x.id]
             row == RowAfter(x)
             v == ReservationsAfter(x, reservations[x.id])
             e == [before |-> x.row.status, after |-> x.edge.to]
  <1>T. TypeOK
    BY DEF IndInv
  <1>X. x \in TransitionTx /\ x.stage = "written"
    BY TransitionCommitFacts
  <1>I. x.id \in AppointmentIDs
    BY TransitionCommitFacts
  <1>H. old # Null /\ old = x.row /\ rowLock[x.id] = q /\ Allowed(x)
    BY TransitionCommitFacts
  <1>E. x.edge.to \in {"checked_in", "in_progress", "completed", "cancelled"}
    BY TransitionCommitFacts
  <1>S. old.status \in ActiveStatus
    BY TransitionCommitFacts
  <1>1. /\ row.technician = old.technician /\ row.bay = old.bay
        /\ row.starts = old.starts /\ row.ends = old.ends
        /\ row.status = x.edge.to
        /\ x.edge.to = "completed" =>
             row.actualEndsAt = ActualEnd(x) /\ row.checkedInAt = old.checkedInAt
    BY TransitionCommitFacts
  <1>2. row \in Appointment /\ row # Null
    BY TransitionCommitFacts
  <1>V. reservations[x.id] \in [ResourceType -> Reservation]
    BY <1>T, <1>I, <1>H DEF TypeOK, IndInv, Backed, Booked
  <1>M. /\ reservations[x.id]["technician"].resource = old.technician
        /\ reservations[x.id]["service_bay"].resource = old.bay
        /\ \A kind \in ResourceType :
             /\ reservations[x.id][kind].starts = old.starts
             /\ reservations[x.id][kind].ends = old.ends
             /\ ~ reservations[x.id][kind].released
    BY <1>I, <1>H, <1>S DEF IndInv, ReservationsMatch, Booked, ActiveStatus, TerminalStatus
  <1>3. /\ v \in [ResourceType -> Reservation] /\ v # Null
        /\ v["technician"].resource = row.technician
        /\ v["service_bay"].resource = row.bay
        /\ \A kind \in ResourceType :
             /\ v[kind].starts = row.starts /\ v[kind].ends = row.ends
             /\ v[kind].released <=> row.status \in TerminalStatus
             /\ v[kind].released => v[kind].status = row.status
    <2> DEFINE w == [kind \in ResourceType |->
                       [reservations[x.id][kind] EXCEPT !.released = TRUE,
                                                        !.status = x.edge.to]]
    <2>1. CASE x.edge.to \in TerminalStatus
      <3>1. v = w
        BY <1>M, <2>1 DEF ReservationsAfter
      <3>2. ASSUME NEW kind \in ResourceType
            PROVE  /\ w[kind] \in Reservation
                   /\ w[kind].resource = reservations[x.id][kind].resource
                   /\ w[kind].starts = old.starts /\ w[kind].ends = old.ends
                   /\ w[kind].released = TRUE /\ w[kind].status = x.edge.to
        <4>1. reservations[x.id][kind] \in Reservation
          BY <1>V
        <4>2. x.edge.to \in Status
          BY <2>1 DEF Status
        <4> QED
          BY <1>M, <4>1, <4>2 DEF Reservation
      <3>3. w \in [ResourceType -> Reservation]
        BY <3>2
      <3>4. w # Null
        BY <3>3, NullAssumption
      <3>5. "technician" \in ResourceType /\ "service_bay" \in ResourceType
        BY DEF ResourceType
      <3> HIDE DEF w, v, row
      <3> QED
        BY <1>M, <1>1, <2>1, <3>1, <3>2, <3>3, <3>4, <3>5
    <2>2. CASE x.edge.to \notin TerminalStatus
      <3>1. v = reservations[x.id]
        BY <2>2 DEF ReservationsAfter
      <3>2. v # Null
        BY <1>V, <3>1, NullAssumption
      <3> HIDE DEF v, row
      <3> QED
        BY <1>1, <1>M, <1>V, <2>2, <3>1, <3>2
    <2> QED
      BY <2>1, <2>2
  <1>4. e \in AuditEvent /\ e.before = old.status /\ e.after = x.edge.to
    <2>1. old.status \in Status /\ x.edge.to \in Status
      BY <1>S, <1>E DEF Status, ActiveStatus, TerminalStatus
    <2> QED
      BY <1>H, <2>1 DEF AuditEvent
  <1>5. /\ appointments' = [appointments EXCEPT ![x.id] = row]
        /\ reservations' = [reservations EXCEPT ![x.id] = v]
        /\ audit' = [audit EXCEPT ![x.id] = Append(audit[x.id], e)]
        /\ transition' = [transition EXCEPT ![q] = Idle]
        /\ ReleaseLocks(q)
        /\ UNCHANGED <<timeOff, catalog, clock, booking, leave, admin, edits>>
    BY DEF TransitionCommit
  <1>L. /\ scheduleLock' \in [Technicians -> Handlers \cup {Null}]
        /\ rowLock' \in [AppointmentIDs -> Handlers \cup {Null}]
        /\ \A id \in AppointmentIDs, p \in TransitionRequests \ {q} :
             rowLock[id] = p => rowLock'[id] = p
    BY <1>T, <1>5, ReleaseFacts
  <1> HIDE DEF row, v, e
  <1>6. TypeOK'
    <2>1. appointments' \in [AppointmentIDs -> Appointment \cup {Null}]
      BY <1>T, <1>2, <1>5 DEF TypeOK
    <2>2. reservations' \in [AppointmentIDs -> [ResourceType -> Reservation] \cup {Null}]
      BY <1>T, <1>3, <1>5 DEF TypeOK
    <2>3. audit' \in [AppointmentIDs -> Seq(AuditEvent)]
      BY <1>T, <1>I, <1>4, <1>5 DEF TypeOK
    <2>4. transition' \in [TransitionRequests -> TransitionTx \cup {Idle}]
      BY <1>T, <1>5 DEF TypeOK
    <2> QED
      BY <1>T, <1>5, <1>L, <2>1, <2>2, <2>3, <2>4 DEF TypeOK
  <1>7. IdsFresh'
    BY <1>T, <1>H, <1>I, <1>5 DEF IndInv, IdsFresh, OpenBookings, TypeOK
  <1>8. RowsHeld'
    <2> SUFFICES ASSUME NEW p \in TransitionRequests
                 PROVE  LET z == transition'[p]
                        IN  /\ z.stage # "idle" => appointments'[z.id] # Null
                            /\ z.stage \notin {"idle", "ready"} => z.row # Null
                            /\ z.stage \in {"locked", "updated", "written"} =>
                                 /\ rowLock'[z.id] = p
                                 /\ appointments'[z.id] = z.row
                                 /\ Allowed(z)
      BY DEF RowsHeld, Allowed, ActualEnd
    <2>1. CASE p = q
      BY <1>T, <1>5, <2>1 DEF TypeOK, Idle
    <2>2. CASE p # q
      <3>1. transition'[p] = transition[p]
        BY <1>T, <1>5, <2>2 DEF TypeOK
      <3>2. transition[p].stage # "idle" => transition[p].id \in AppointmentIDs
        BY <1>T, OpenTx DEF TypeOK, TransitionTx
      <3>3. transition[p].stage \in {"locked", "updated", "written"} =>
              transition[p].id # x.id
        BY <1>H, <2>2 DEF IndInv, RowsHeld
      <3>4. \A id \in AppointmentIDs : appointments[id] # Null => appointments'[id] # Null
        BY <1>T, <1>2, <1>5 DEF TypeOK
      <3> QED
        BY <1>T, <1>5, <1>L, <2>2, <3>1, <3>2, <3>3, <3>4 DEF IndInv, RowsHeld, TypeOK
    <2> QED
      BY <2>1, <2>2
  <1>9. Backed'
    BY <1>T, <1>I, <1>H, <1>3, <1>5 DEF IndInv, Backed, Booked, TypeOK
  <1>P. x.id \in Active /\ Active' \subseteq Active
    BY <1>T, <1>I, <1>H, <1>S, <1>5 DEF Active, Booked, TypeOK
  <1>Q. ASSUME NEW id \in Active', NEW c
        PROVE  SharesCapacity(appointments'[id], c) <=> SharesCapacity(appointments[id], c)
    BY <1>T, <1>I, <1>1, <1>5 DEF Active, Booked, TypeOK, SharesCapacity, Overlap
  <1>10. ClaimsClear'
    BY <1>5, <1>P, <1>Q DEF IndInv, ClaimsClear
  <1>11. NoDoubleBooking'
    <2> SUFFICES ASSUME NEW i \in Active', NEW j \in Active', i # j,
                        SharesCapacity(appointments'[i], appointments'[j])
                 PROVE  FALSE
      BY DEF NoDoubleBooking, SharesCapacity, Overlap
    <2>1. SharesCapacity(appointments[i], appointments'[j])
      BY <1>Q
    <2>2. SharesCapacity(appointments'[j], appointments[i])
      BY <2>1, SharesSymmetric
    <2>3. SharesCapacity(appointments[j], appointments[i])
      BY <1>Q, <2>2
    <2> QED
      BY <1>P, <2>3 DEF IndInv, NoDoubleBooking
  <1>12. ReservationsMatch'
    BY <1>T, <1>I, <1>3, <1>5 DEF IndInv, ReservationsMatch, Booked, TypeOK
  <1>13. AuditTrail'
    <2> SUFFICES ASSUME NEW id \in AppointmentIDs
                 PROVE  AuditOf(id)'
      BY DEF AuditTrail
    <2>1. CASE id # x.id
      BY <1>T, <1>5, <2>1 DEF IndInv, AuditTrail, AuditOf, Booked, TypeOK
    <2>2. CASE id = x.id
      <3> DEFINE log == audit[x.id]
                 new == Append(log, e)
      <3>1. audit'[id] = new /\ appointments'[id] = row
        BY <1>T, <1>I, <1>5, <2>2 DEF TypeOK
      <3>2. log \in Seq(AuditEvent)
        BY <1>T, <1>I DEF TypeOK
      <3>3. /\ log # << >>
            /\ log[1] = [before |-> Null, after |-> "requested"]
            /\ \A n \in 2 .. Len(log) : log[n].before = log[n - 1].after
            /\ log[Len(log)].after = old.status
        BY <1>H, <1>I DEF IndInv, AuditTrail, AuditOf, Booked
      <3>4. /\ Len(log) \in Nat \ {0} /\ Len(new) = Len(log) + 1
            /\ \A n \in 1 .. Len(log) : new[n] = log[n]
            /\ new[Len(log) + 1] = e
        BY <1>4, <3>2, <3>3
      <3> HIDE DEF log, new
      <3>5. \A n \in 2 .. Len(new) : new[n].before = new[n - 1].after
        BY <1>4, <3>3, <3>4
      <3>6. /\ new # << >>
            /\ new[1] = [before |-> Null, after |-> "requested"]
            /\ new[Len(new)].after = row.status
        BY <1>1, <1>4, <3>3, <3>4
      <3> QED
        BY <1>2, <2>2, <3>1, <3>5, <3>6 DEF AuditOf, Booked
    <2> QED
      BY <2>1, <2>2
  <1>14. CompletionWithinPlan'
    <2>1. row.status = "completed" =>
            /\ row.checkedInAt # Null
            /\ row.checkedInAt <= row.actualEndsAt
            /\ row.actualEndsAt <= row.ends
      BY <1>H, <1>1 DEF Allowed
    <2> QED
      BY <1>T, <1>I, <1>5, <2>1 DEF IndInv, CompletionWithinPlan, Booked, TypeOK
  <1> QED
    BY <1>6, <1>7, <1>8, <1>9, <1>10, <1>11, <1>12, <1>13, <1>14 DEF IndInv

-----------------------------------------------------------------------------
(* Time off, the catalogue and the clock *)

\* A step of these leaves the appointments and their handlers alone; what is
\* left to show is its own part of the type invariant.
QuietElsewhere ==
    /\ timeOff' \in [TimeOffIDs -> TimeOff \cup {Null}]
    /\ catalog' \in Catalog
    /\ clock' \in Nat
    /\ leave' \in [TimeOffRequests -> LeaveTx \cup {Idle}]
    /\ admin' \in [AdminRequests -> AdminTx \cup {Idle}]
    /\ edits' \in Nat
    /\ scheduleLock' \in [Technicians -> Handlers \cup {Null}]
    /\ rowLock' \in [AppointmentIDs -> Handlers \cup {Null}]
    /\ \A id \in AppointmentIDs, q \in TransitionRequests :
         rowLock[id] = q => rowLock'[id] = q
    /\ UNCHANGED <<tables, booking, transition>>

\* A step that leaves appointments alone preserves the inductive invariant.
LEMMA QuietElsewhereKeeps ==
    ASSUME IndInv, QuietElsewhere
    PROVE  IndInv'
  <1> USE DEF QuietElsewhere
  <1>1. TypeOK'
    BY DEF IndInv, TypeOK, tables
  <1>2. IdsFresh'
    BY DEF IndInv, IdsFresh, OpenBookings, tables
  <1>3. RowsHeld'
    BY OpenTx DEF IndInv, RowsHeld, TypeOK, tables, TransitionTx, Allowed, ActualEnd
  <1>4. Backed'
    BY DEF IndInv, Backed, Booked, tables
  <1>5. ClaimsClear' /\ NoDoubleBooking'
    BY DEF IndInv, ClaimsClear, NoDoubleBooking, Active, Booked, tables
  <1>6. ReservationsMatch' /\ AuditTrail' /\ CompletionWithinPlan'
    BY DEF IndInv, ReservationsMatch, AuditTrail, AuditOf, CompletionWithinPlan,
       Booked, tables
  <1> QED
    BY <1>1, <1>2, <1>3, <1>4, <1>5, <1>6 DEF IndInv

\* The time-off handlers.
LEMMA TimeOffIsQuiet ==
    ASSUME IndInv, NEW p \in TimeOffRequests, TimeOffNext(p)
    PROVE  QuietElsewhere
  <1> DEFINE w == leave[p]
  <1>T. TypeOK
    BY DEF IndInv
  <1>D. \A q \in TransitionRequests : q # p
    BY HandlersAssumption
  <1>O. w.stage # "idle" => w \in LeaveTx
    BY <1>T, OpenTx DEF TypeOK
  <1>1. ASSUME NEW i \in TimeOffIDs, NEW t \in Technicians, NEW start \in Time,
               NEW end \in Time, CreateTimeOff(p, i, t, start, end)
        PROVE  QuietElsewhere
    <2>1. [stage |-> "ready", id |-> i, create |-> TRUE, technician |-> t,
           starts |-> start, ends |-> end] \in LeaveTx
      BY DEF LeaveTx, Time
    <2> QED
      BY <1>1, <1>T, <2>1 DEF CreateTimeOff, QuietElsewhere, TypeOK, locks
  <1>2. ASSUME NEW i \in TimeOffIDs, NEW start \in Time \cup {Null},
               NEW end \in Time \cup {Null}, UpdateTimeOff(p, i, start, end)
        PROVE  QuietElsewhere
    <2> DEFINE from == IF start = Null THEN timeOff[i].starts ELSE start
               to == IF end = Null THEN timeOff[i].ends ELSE end
               u == [stage |-> "ready", id |-> i, create |-> FALSE,
                     technician |-> timeOff[i].technician, starts |-> from,
                     ends |-> to]
    <2>1. timeOff[i] \in TimeOff
      BY <1>2, <1>T DEF UpdateTimeOff, LiveItems, TypeOK
    <2>2. from \in Nat /\ to \in Nat /\ timeOff[i].technician \in Technicians
      BY <2>1 DEF TimeOff, Time
    <2>3. u \in LeaveTx
      BY <2>2 DEF LeaveTx
    <2>4. leave' = [leave EXCEPT ![p] = u]
      BY <1>2 DEF UpdateTimeOff
    <2> HIDE DEF u
    <2> QED
      BY <1>2, <1>T, <2>3, <2>4 DEF UpdateTimeOff, QuietElsewhere, TypeOK, locks
  <1>3. ASSUME TimeOffLock(p)
        PROVE  QuietElsewhere
    <2> DEFINE u == [w EXCEPT !.stage = "locked"]
    <2>1. w \in LeaveTx
      BY <1>3, <1>O DEF TimeOffLock
    <2>2. u \in LeaveTx
      BY <2>1 DEF LeaveTx
    <2>3. leave' = [leave EXCEPT ![p] = u]
      BY <1>3 DEF TimeOffLock
    <2> HIDE DEF u
    <2> QED
      BY <1>3, <1>T, <2>1, <2>2, <2>3
         DEF TimeOffLock, QuietElsewhere, TypeOK, Handlers, LeaveTx
  <1>4. ASSUME TimeOffAppointmentConflict(p)
        PROVE  QuietElsewhere
    BY <1>4, <1>T DEF TimeOffAppointmentConflict, QuietElsewhere, TypeOK, locks
  <1>5. ASSUME TimeOffWrite(p)
        PROVE  QuietElsewhere
    <2> DEFINE u == [technician |-> w.technician, starts |-> w.starts,
                     ends |-> w.ends, deleted |-> FALSE]
    <2>1. u \in TimeOff
      BY <1>5, <1>O DEF TimeOffWrite, LeaveTx, TimeOff
    <2>2. timeOff' = [timeOff EXCEPT ![w.id] = u] /\ ReleaseLocks(p)
      BY <1>5 DEF TimeOffWrite
    <2> HIDE DEF u
    <2>3. timeOff' \in [TimeOffIDs -> TimeOff \cup {Null}]
      BY <1>T, <2>1, <2>2 DEF TypeOK
    <2> QED
      BY <1>5, <1>T, <1>D, <2>2, <2>3, ReleaseFacts
         DEF TimeOffWrite, QuietElsewhere, TypeOK
  <1>6. ASSUME TimeOffRollback(p)
        PROVE  QuietElsewhere
    <2>1. ReleaseLocks(p)
      BY <1>6 DEF TimeOffRollback
    <2> QED
      BY <1>6, <1>T, <1>D, <2>1, ReleaseFacts DEF TimeOffRollback, QuietElsewhere, TypeOK
  <1>7. TimeOffReject(p) \/ TimeOffAbort(p) => TimeOffRollback(p)
    BY DEF TimeOffReject, TimeOffAbort
  <1> QED
    BY <1>1, <1>2, <1>3, <1>4, <1>5, <1>6, <1>7 DEF TimeOffNext, TimeOffStep

\* The unlocked soft delete of a time-off item.
LEMMA DeleteTimeOffIsQuiet ==
    ASSUME IndInv, NEW i \in TimeOffIDs, DeleteTimeOff(i)
    PROVE  QuietElsewhere
  <1> DEFINE u == [timeOff[i] EXCEPT !.deleted = TRUE]
  <1>1. timeOff[i] \in TimeOff
    BY DEF IndInv, TypeOK, DeleteTimeOff, LiveItems
  <1>2. u \in TimeOff
    BY <1>1 DEF TimeOff
  <1>3. timeOff' = [timeOff EXCEPT ![i] = u]
    BY DEF DeleteTimeOff
  <1> HIDE DEF u
  <1> QED
    BY <1>2, <1>3 DEF IndInv, TypeOK, DeleteTimeOff, QuietElsewhere, locks

\* The passing of time.
LEMMA TickIsQuiet ==
    ASSUME IndInv, Tick
    PROVE  QuietElsewhere
  BY DEF IndInv, TypeOK, Tick, QuietElsewhere, locks

\* Rows of the catalogue can be replaced by rows of the same type.
LEMMA CatalogUpdates ==
    ASSUME NEW c \in Catalog
    PROVE  /\ \A t \in Technicians, row \in Technician :
                [c EXCEPT !.technicians = [@ EXCEPT ![t] = row]] \in Catalog
           /\ \A k \in ServiceTypes, row \in ServiceType :
                [c EXCEPT !.types = [@ EXCEPT ![k] = row]] \in Catalog
           /\ \A b \in Bays, row \in Bay :
                [c EXCEPT !.bays = [@ EXCEPT ![b] = row]] \in Catalog
  BY DEF Catalog

\* A PATCH merged into a service type is a service type.
LEMMA MergedType ==
    ASSUME NEW row \in ServiceType, NEW n \in Nat, NEW m \in Nat, NEW f \in BOOLEAN
    PROVE  [row EXCEPT !.min = n, !.max = m, !.active = f] \in ServiceType
  BY DEF ServiceType

\* The catalogue handlers.
LEMMA AdminIsQuiet ==
    ASSUME IndInv, NEW a \in AdminRequests, AdminNext(a)
    PROVE  QuietElsewhere
  <1> DEFINE w == admin[a]
  <1>T. TypeOK
    BY DEF IndInv
  <1>C. /\ catalog \in Catalog
        /\ \A t \in Technicians : catalog.technicians[t] \in Technician
        /\ \A k \in ServiceTypes : catalog.types[k] \in ServiceType
        /\ \A b \in Bays : catalog.bays[b] \in Bay
    BY <1>T DEF TypeOK, Catalog
  <1>O. w.stage # "idle" => w \in AdminTx
    BY <1>T, OpenTx DEF TypeOK
  <1>R. ASSUME NEW u \in AdminTx, AdminRead(a, u)
        PROVE  QuietElsewhere
    BY <1>R, <1>T DEF AdminRead, QuietElsewhere, TypeOK, locks
  <1>W. ASSUME NEW c \in Catalog, AdminWrite(a, c)
        PROVE  QuietElsewhere
    BY <1>W, <1>T DEF AdminWrite, QuietElsewhere, TypeOK, locks
  <1>1. ASSUME NEW t \in Technicians, DeactivateTechnician(a, t)
        PROVE  QuietElsewhere
    <2>1. [stage |-> "deactivate_technician", technician |-> t] \in AdminTx
      BY DEF AdminTx
    <2> QED
      BY <1>1, <1>R, <2>1 DEF DeactivateTechnician
  <1>2. ASSUME NEW t \in Technicians, NEW active \in BOOLEAN \cup {Null},
               UpdateTechnician(a, t, active)
        PROVE  QuietElsewhere
    <2> DEFINE row == [catalog.technicians[t] EXCEPT !.active = ValueOr(active, @)]
               u == [stage |-> "update_technician", technician |-> t, row |-> row]
    <2>1. row \in Technician
      BY <1>C DEF Technician, ValueOr
    <2> HIDE DEF row
    <2>2. u \in AdminTx
      BY <2>1 DEF AdminTx
    <2>3. AdminRead(a, u)
      BY <1>2 DEF UpdateTechnician, row
    <2> HIDE DEF u
    <2> QED
      BY <1>R, <2>2, <2>3
  <1>3. ASSUME NEW k \in ServiceTypes, NEW min \in Time \cup {Null},
               NEW max \in Time \cup {Null}, NEW active \in BOOLEAN \cup {Null},
               UpdateServiceType(a, k, min, max, active)
        PROVE  QuietElsewhere
    <2> DEFINE row == [catalog.types[k] EXCEPT !.min = ValueOr(min, @),
                                               !.max = ValueOr(max, @),
                                               !.active = ValueOr(active, @)]
               u == [stage |-> "update_type", type |-> k, row |-> row]
    <2> DEFINE current == catalog.types[k]
    <2>0. /\ current \in ServiceType
          /\ ValueOr(min, current.min) \in Nat
          /\ ValueOr(max, current.max) \in Nat
          /\ ValueOr(active, current.active) \in BOOLEAN
      <3>1. current \in ServiceType
        BY <1>C
      <3>2. current.min \in Nat /\ current.max \in Nat /\ current.active \in BOOLEAN
        BY <3>1 DEF ServiceType
      <3>3. min # Null => min \in Nat
        BY DEF Time
      <3>4. max # Null => max \in Nat
        BY DEF Time
      <3> QED
        BY <3>1, <3>2, <3>3, <3>4 DEF ValueOr
    <2>1. row \in ServiceType
      BY <2>0, MergedType
    <2> HIDE DEF row
    <2>2. u \in AdminTx
      BY <2>1 DEF AdminTx
    <2>3. AdminRead(a, u)
      BY <1>3 DEF UpdateServiceType, row
    <2> HIDE DEF u
    <2> QED
      BY <1>R, <2>2, <2>3
  <1>4. ASSUME NEW k \in ServiceTypes, DeleteServiceType(a, k)
        PROVE  QuietElsewhere
    <2>1. [stage |-> "delete_type", type |-> k, row |-> catalog.types[k]] \in AdminTx
      BY <1>C DEF AdminTx
    <2> QED
      BY <1>4, <1>R, <2>1 DEF DeleteServiceType
  <1>5. ASSUME NEW b \in Bays, NEW active \in BOOLEAN \cup {Null},
               UpdateServiceBay(a, b, active)
        PROVE  QuietElsewhere
    <2> DEFINE row == [catalog.bays[b] EXCEPT !.active = ValueOr(active, @)]
               u == [stage |-> "update_bay", bay |-> b, row |-> row]
    <2>1. row \in Bay
      BY <1>C DEF Bay, ValueOr
    <2> HIDE DEF row
    <2>2. u \in AdminTx
      BY <2>1 DEF AdminTx
    <2>3. AdminRead(a, u)
      BY <1>5 DEF UpdateServiceBay, row
    <2> HIDE DEF u
    <2> QED
      BY <1>R, <2>2, <2>3
  <1>6. ASSUME NEW b \in Bays, DeleteServiceBay(a, b)
        PROVE  QuietElsewhere
    <2>1. [stage |-> "delete_bay", bay |-> b, row |-> catalog.bays[b]] \in AdminTx
      BY <1>C DEF AdminTx
    <2> QED
      BY <1>6, <1>R, <2>1 DEF DeleteServiceBay
  <1>7. ASSUME DeactivateTechnicianWrite(a) \/ UpdateTechnicianWrite(a)
        PROVE  QuietElsewhere
    <2> DEFINE t == w.technician
               row(v) == [catalog.technicians[t] EXCEPT !.active = v]
    <2>1. t \in Technicians
      BY <1>7, <1>O DEF DeactivateTechnicianWrite, UpdateTechnicianWrite, AdminTx
    <2>2. w.stage = "update_technician" => w.row.active \in BOOLEAN
      BY <1>O DEF AdminTx, Technician
    <2>3. ASSUME NEW v \in BOOLEAN
          PROVE  [catalog EXCEPT !.technicians[t].active = v] \in Catalog
      <3>1. row(v) \in Technician
        BY <1>C, <2>1 DEF Technician
      <3>2. [catalog EXCEPT !.technicians = [@ EXCEPT ![t] = row(v)]] \in Catalog
        BY <1>C, <2>1, <3>1, CatalogUpdates
      <3> QED
        BY <3>2
    <2> QED
      BY <1>7, <1>W, <2>2, <2>3 DEF DeactivateTechnicianWrite, UpdateTechnicianWrite
  <1>8. ASSUME UpdateServiceTypeWrite(a)
        PROVE  QuietElsewhere
    <2> DEFINE k == w.type
               row == [catalog.types[k] EXCEPT !.min = w.row.min, !.max = w.row.max,
                                               !.active = w.row.active]
               c == [catalog EXCEPT !.types = [@ EXCEPT ![k] = row]]
    <2>1. k \in ServiceTypes /\ w.row \in ServiceType
      BY <1>8, <1>O DEF UpdateServiceTypeWrite, AdminTx
    <2>2. row \in ServiceType
      BY <1>C, <2>1 DEF ServiceType
    <2> HIDE DEF row
    <2>3. c \in Catalog
      BY <1>C, <2>1, <2>2, CatalogUpdates
    <2>4. AdminWrite(a, IF catalog.types[k].deleted THEN catalog ELSE c)
      BY <1>8 DEF UpdateServiceTypeWrite, row
    <2> HIDE DEF c
    <2> QED
      BY <1>C, <1>W, <2>3, <2>4
  <1>9. ASSUME DeleteServiceTypeWrite(a)
        PROVE  QuietElsewhere
    <2> DEFINE k == w.type
               row == [catalog.types[k] EXCEPT !.deleted = TRUE]
               c == [catalog EXCEPT !.types = [@ EXCEPT ![k] = row]]
    <2>1. k \in ServiceTypes
      BY <1>9, <1>O DEF DeleteServiceTypeWrite, AdminTx
    <2>2. row \in ServiceType
      BY <1>C, <2>1 DEF ServiceType
    <2> HIDE DEF row
    <2>3. c \in Catalog
      BY <1>C, <2>1, <2>2, CatalogUpdates
    <2>4. AdminWrite(a, IF catalog.types[k] = w.row THEN c ELSE catalog)
      BY <1>9 DEF DeleteServiceTypeWrite, row
    <2> HIDE DEF c
    <2> QED
      BY <1>C, <1>W, <2>3, <2>4
  <1>10. ASSUME UpdateServiceBayWrite(a) \/ DeleteServiceBayWrite(a)
         PROVE  QuietElsewhere
    <2> DEFINE b == w.bay
               updated == [catalog.bays[b] EXCEPT !.active = w.row.active]
               deleted == [catalog.bays[b] EXCEPT !.deleted = TRUE]
               c == [catalog EXCEPT !.bays = [@ EXCEPT ![b] = updated]]
               d == [catalog EXCEPT !.bays = [@ EXCEPT ![b] = deleted]]
    <2>1. b \in Bays /\ w.row \in Bay
      BY <1>10, <1>O DEF UpdateServiceBayWrite, DeleteServiceBayWrite, AdminTx
    <2>2. updated \in Bay /\ deleted \in Bay
      BY <1>C, <2>1 DEF Bay
    <2> HIDE DEF updated, deleted
    <2>3. c \in Catalog /\ d \in Catalog
      BY <1>C, <2>1, <2>2, CatalogUpdates
    <2>4. \/ AdminWrite(a, IF catalog.bays[b].deleted THEN catalog ELSE c)
          \/ AdminWrite(a, IF catalog.bays[b] = w.row THEN d ELSE catalog)
      BY <1>10 DEF UpdateServiceBayWrite, DeleteServiceBayWrite, updated, deleted
    <2> HIDE DEF c, d
    <2> QED
      BY <1>C, <1>W, <2>3, <2>4
  <1>11. ASSUME AdminAbort(a)
         PROVE  QuietElsewhere
    BY <1>11, <1>C, <1>W DEF AdminAbort
  <1> QED
    BY <1>1, <1>2, <1>3, <1>4, <1>5, <1>6, <1>7, <1>8, <1>9, <1>10, <1>11
       DEF AdminNext

-----------------------------------------------------------------------------
(* The theorems *)

\* The empty database satisfies the inductive invariant.
LEMMA InitInv == Init => IndInv
  <1> SUFFICES ASSUME Init
               PROVE  IndInv
    OBVIOUS
  <1>1. TypeOK
    BY ConstantsAssumption DEF Init, TypeOK
  <1>2. IdsFresh /\ RowsHeld /\ ClaimsClear
    BY DEF Init, IdsFresh, RowsHeld, ClaimsClear, OpenBookings, Idle
  <1>3. Backed /\ NoDoubleBooking /\ ReservationsMatch /\ CompletionWithinPlan
    BY DEF Init, Backed, NoDoubleBooking, ReservationsMatch, CompletionWithinPlan,
       Active, Booked
  <1>4. AuditTrail
    BY DEF Init, AuditTrail, AuditOf, Booked
  <1> QED
    BY <1>1, <1>2, <1>3, <1>4 DEF IndInv

\* Every step of every handler preserves it.
LEMMA NextInv == IndInv /\ [Next]_vars => IndInv'
  <1> SUFFICES ASSUME IndInv, [Next]_vars
               PROVE  IndInv'
    OBVIOUS
  <1>1. ASSUME NEW r \in BookingRequests, ScheduleNext(r)
        PROVE  IndInv'
    BY <1>1, BookingIsQuiet, QuietBookingKeeps, BookingCommitKeeps
  <1>2. ASSUME NEW q \in TransitionRequests, TransitionNext(q)
        PROVE  IndInv'
    BY <1>2, TransitionIsQuiet, QuietTransitionKeeps, TransitionCommitKeeps
  <1>3. ASSUME NEW p \in TimeOffRequests, TimeOffNext(p)
        PROVE  IndInv'
    BY <1>3, TimeOffIsQuiet, QuietElsewhereKeeps
  <1>4. ASSUME NEW i \in TimeOffIDs, DeleteTimeOff(i)
        PROVE  IndInv'
    BY <1>4, DeleteTimeOffIsQuiet, QuietElsewhereKeeps
  <1>5. ASSUME NEW a \in AdminRequests, AdminNext(a)
        PROVE  IndInv'
    BY <1>5, AdminIsQuiet, QuietElsewhereKeeps
  <1>6. CASE Tick
    BY <1>6, TickIsQuiet, QuietElsewhereKeeps
  <1>7. CASE UNCHANGED vars
    <2>1. QuietElsewhere
      BY <1>7 DEF vars, QuietElsewhere, IndInv, TypeOK, tables
    <2> QED
      BY <2>1, QuietElsewhereKeeps
  <1> QED
    BY <1>1, <1>2, <1>3, <1>4, <1>5, <1>6, <1>7 DEF Next

\* The inductive invariant holds in every reachable state of the scheduler.
THEOREM Invariance == Spec => []IndInv
  BY InitInv, NextInv, PTL DEF Spec

\* The tables, the locks and the handlers' states always have their types.
THEOREM TypeCorrect == Spec => []TypeOK
  BY Invariance, PTL DEF IndInv

\* However many bookings, transitions, time-off and catalogue requests run at
\* once, two active appointments never share a technician or a bay.
THEOREM CapacityExclusive == Spec => []NoDoubleBooking
  BY Invariance, PTL DEF IndInv

\* The reservation rows always agree with their appointment: capacity is
\* released exactly by completion and cancellation.
THEOREM ReservationsAgree == Spec => []ReservationsMatch
  BY Invariance, PTL DEF IndInv

\* The audit trail of every appointment is gapless: no concurrent transition
\* is lost or applied to a state its handler had not seen.
THEOREM HistoryComplete == Spec => []AuditTrail
  BY Invariance, PTL DEF IndInv

\* Every completed appointment ended between its check-in and its planned end.
THEOREM CompletionsPlanned == Spec => []CompletionWithinPlan
  BY Invariance, PTL DEF IndInv

-----------------------------------------------------------------------------
(* The concurrent scheduler implements the atomic ledger *)

\* A step that leaves the appointments alone is invisible in the ledger.
LEMMA LedgerStutters ==
    ASSUME UNCHANGED appointments
    PROVE  UNCHANGED LedgerView
  BY DEF LedgerView

\* A booking commit is one Book of the ledger.
LEMMA CommitBooks ==
    ASSUME IndInv, NEW r \in BookingRequests, ScheduleCommit(r)
    PROVE  Ledger!LedgerNext
  <1> DEFINE b == booking[r]
             row == RowOf(b)
             entry == [technician |-> b.technician, bay |-> b.bay,
                       starts |-> b.starts, ends |-> b.ends,
                       status |-> "requested"]
  <1>T. TypeOK
    BY DEF IndInv
  <1>B. b \in BookingTx /\ b.stage = "reserved"
    BY <1>T, OpenTx DEF TypeOK, ScheduleCommit
  <1>F. b.id \in AppointmentIDs /\ appointments[b.id] = Null
    BY <1>B DEF BookingTx, IndInv, IdsFresh, OpenBookings
  <1>1. /\ row \in Appointment /\ row # Null /\ row.status = "requested"
        /\ row.technician = b.technician /\ row.bay = b.bay
        /\ row.starts = b.starts /\ row.ends = b.ends
    BY <1>B, NullAssumption DEF BookingTx, RowOf, Appointment, Status, ActiveStatus
  <1>2. appointments' = [appointments EXCEPT ![b.id] = row]
    BY DEF ScheduleCommit
  <1>3. /\ b.technician \in Technicians /\ b.bay \in Bays
        /\ entry \in [technician : Technicians, bay : Bays, starts : Nat,
                      ends : Nat, status : Status]
        /\ entry.starts = b.starts /\ entry.ends = b.ends
    BY <1>B DEF BookingTx, Status, ActiveStatus
  <1>4. entry # Null
    BY <1>3, NullAssumption
  <1> HIDE DEF row
  <1>5. LedgerView' = [LedgerView EXCEPT ![b.id] = entry]
    BY <1>T, <1>F, <1>1, <1>2 DEF LedgerView, TypeOK
  <1>6. LedgerView[b.id] = Null /\ LedgerView'[b.id] = entry
    BY <1>F, <1>5 DEF LedgerView
  <1>7. ASSUME NEW o \in AppointmentIDs, LedgerView[o] # Null,
               LedgerView[o].status \in Ledger!InService
        PROVE  ~ Ledger!Compete(LedgerView[o], entry)
    <2>1. o \in Active
      BY <1>7 DEF LedgerView, Active, Booked, Ledger!InService, ActiveStatus
    <2>2. ~ SharesCapacity(appointments[o], b)
      BY <1>B, <2>1 DEF IndInv, ClaimsClear
    <2> QED
      BY <1>7, <2>2 DEF LedgerView, Ledger!Compete, SharesCapacity, Overlap
  <1>8. Ledger!Book(b.id, b.technician, b.bay, b.starts, b.ends)
    BY <1>5, <1>6, <1>7 DEF Ledger!Book
  <1> HIDE DEF entry
  <1> QED
    BY <1>F, <1>3, <1>4, <1>6, <1>8 DEF Ledger!LedgerNext

\* A transition commit is one Advance of the ledger.
LEMMA CommitAdvances ==
    ASSUME IndInv, NEW q \in TransitionRequests, TransitionCommit(q)
    PROVE  Ledger!LedgerNext
  <1> DEFINE x == transition[q]
             old == appointments[x.id]
             row == RowAfter(x)
  <1>T. TypeOK
    BY DEF IndInv
  <1>I. x.id \in AppointmentIDs /\ x.edge \in Transitions
    BY TransitionCommitFacts
  <1>H. old # Null /\ old = x.row /\ Allowed(x)
    BY TransitionCommitFacts
  <1>N. old \in Appointment
    BY TransitionCommitFacts
  <1>1. /\ row.technician = old.technician /\ row.bay = old.bay
        /\ row.starts = old.starts /\ row.ends = old.ends
        /\ row.status = x.edge.to
    BY TransitionCommitFacts
  <1>2. row # Null
    BY TransitionCommitFacts
  <1>3. appointments' = [appointments EXCEPT ![x.id] = row]
    BY DEF TransitionCommit
  <1>4. Ledger!Follows(old.status, x.edge.to)
    <2>1. Null \notin Status
      BY NullAssumption
    <2> QED
      BY <1>H, <1>I, <2>1 DEF Allowed, Transitions, Ledger!Follows, Ledger!InService,
         Status, ActiveStatus
  <1> HIDE DEF row
  <1>5. LedgerView' = [LedgerView EXCEPT ![x.id].status = x.edge.to]
    BY <1>T, <1>I, <1>H, <1>1, <1>2, <1>3 DEF LedgerView, TypeOK
  <1>6. LedgerView[x.id] # Null /\ LedgerView[x.id].status = old.status
    <2>1. LedgerView[x.id] \in [technician : Technicians, bay : Bays, starts : Nat,
                                ends : Nat, status : Status]
      BY <1>I, <1>H, <1>N DEF LedgerView, Appointment
    <2> QED
      BY <1>I, <1>H, <2>1, NullAssumption DEF LedgerView
  <1>7. Ledger!Advance(x.id, x.edge.to)
    BY <1>4, <1>5, <1>6 DEF Ledger!Advance
  <1>8. x.edge.to \in {"checked_in", "in_progress", "completed", "cancelled"}
    BY <1>I DEF Transitions
  <1> QED
    BY <1>I, <1>7, <1>8 DEF Ledger!LedgerNext

\* Every step of the scheduler is a step of the ledger or invisible in it.
LEMMA StepSimulation == IndInv /\ [Next]_vars => [Ledger!LedgerNext]_LedgerView
  <1> SUFFICES ASSUME IndInv, [Next]_vars
               PROVE  Ledger!LedgerNext \/ UNCHANGED LedgerView
    OBVIOUS
  <1>1. ASSUME NEW r \in BookingRequests, ScheduleNext(r)
        PROVE  Ledger!LedgerNext \/ UNCHANGED LedgerView
    <2>1. CASE ScheduleCommit(r)
      BY <2>1, CommitBooks
    <2>2. CASE ~ ScheduleCommit(r)
      BY <1>1, <2>2, BookingIsQuiet, LedgerStutters DEF QuietBooking, tables
    <2> QED
      BY <2>1, <2>2
  <1>2. ASSUME NEW q \in TransitionRequests, TransitionNext(q)
        PROVE  Ledger!LedgerNext \/ UNCHANGED LedgerView
    <2>1. CASE TransitionCommit(q)
      BY <2>1, CommitAdvances
    <2>2. CASE ~ TransitionCommit(q)
      BY <1>2, <2>2, TransitionIsQuiet, LedgerStutters DEF QuietTransition, tables
    <2> QED
      BY <2>1, <2>2
  <1>3. CASE QuietElsewhere
    BY <1>3, LedgerStutters DEF QuietElsewhere, tables
  <1>4. CASE UNCHANGED vars
    BY <1>4, LedgerStutters DEF vars
  <1> QED
    BY <1>1, <1>2, <1>3, <1>4, TimeOffIsQuiet, DeleteTimeOffIsQuiet, AdminIsQuiet,
       TickIsQuiet DEF Next

\* The database commits of the concurrent scheduler are the atomic operations
\* of the ledger: its handlers, retries and locks cannot be told from outside.
THEOREM ImplementsLedger == Spec => RefinesLedger
  <1>1. Init => Ledger!LedgerInit
    BY DEF Init, LedgerView, Ledger!LedgerInit
  <1> QED
    BY <1>1, Invariance, StepSimulation, PTL DEF Spec, RefinesLedger, Ledger!LedgerSpec
=============================================================================
