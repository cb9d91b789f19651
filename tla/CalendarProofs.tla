--------------------------- MODULE CalendarProofs ---------------------------
(***************************************************************************)
(* Time off, durations and withdrawn rows, for every value of the          *)
(* constants: what the technicians' schedule locks and the guards of the   *)
(* catalogue's statements are for.                                         *)
(***************************************************************************)
EXTENDS SchedulerProofs

\* The end of a handler's transaction takes no other handler's schedule lock.
LEMMA ReleaseSchedule ==
    ASSUME TypeOK, NEW h, ReleaseLocks(h)
    PROVE  \A t \in Technicians, g \in Handlers \ {h} :
             scheduleLock[t] = g => scheduleLock'[t] = g
  BY DEF TypeOK, ReleaseLocks

\* A lock that is taken was free, so no other handler loses it.
LEMMA TakeSchedule ==
    ASSUME TypeOK, NEW h \in Handlers, NEW t \in Technicians, scheduleLock[t] = Null,
           scheduleLock' = [scheduleLock EXCEPT ![t] = h]
    PROVE  /\ scheduleLock'[t] = h
           /\ \A s \in Technicians, g \in Handlers \ {h} :
                scheduleLock[s] = g => scheduleLock'[s] = g
  BY NullAssumption DEF TypeOK

-----------------------------------------------------------------------------
(* Bookings *)

\* The next state of a booking handler, with what it holds there; the schedule
\* locks of the other handlers stay.
HeldBooking(r, c) ==
    /\ booking' = [booking EXCEPT ![r] = c]
    /\ Uncommitted(c) => scheduleLock'[c.technician] = r
    /\ c.stage \notin {"idle", "ready"} => c.starts < c.ends
    /\ \A t \in Technicians, h \in Handlers \ {r} :
         scheduleLock[t] = h => scheduleLock'[t] = h
    /\ UNCHANGED <<timeOff, catalog, leave, admin>>

\* Every step of a booking is of that form: the checks compute a positive
\* duration and the insert takes the lock.
LEMMA BookingHolds ==
    ASSUME IndInv, CalendarInv, NEW r \in BookingRequests, ScheduleNext(r)
    PROVE  \E c : HeldBooking(r, c)
  <1> DEFINE b == booking[r]
  <1>T. TypeOK
    BY DEF IndInv
  <1>O. b.stage # "idle" => b \in BookingTx
    BY <1>T, OpenTx DEF TypeOK
  <1>H. r \in Handlers
    BY DEF Handlers
  <1>C. /\ Uncommitted(b) => scheduleLock[b.technician] = r
        /\ b.stage \notin {"idle", "ready"} => b.starts < b.ends
    BY DEF CalendarInv, ScheduleHeld, DurationsPositive
  <1>R. ASSUME NEW c, ScheduleRollback(r, c), c.stage \in {"idle", "ready"}
        PROVE  HeldBooking(r, c)
    <2>1. ReleaseLocks(r)
      BY <1>R DEF ScheduleRollback
    <2> QED
      BY <1>T, <1>R, <2>1, ReleaseSchedule DEF HeldBooking, ScheduleRollback, Uncommitted
  <1>1. ASSUME NEW id \in AppointmentIDs, NEW t \in Technicians, NEW bay \in Bays,
               NEW k \in ServiceTypes, NEW v \in Vehicles, NEW start \in Time,
               NEW planned \in 0 .. Horizon,
               ScheduleRequest(r, id, t, bay, k, v, start, planned)
        PROVE  \E c : HeldBooking(r, c)
    <2> DEFINE c == [stage |-> "ready", id |-> id, technician |-> t, bay |-> bay,
                     type |-> k, vehicle |-> v, starts |-> start,
                     planned |-> planned, ends |-> start, seen |-> {}, tries |-> 1]
    <2>1. booking' = [booking EXCEPT ![r] = c]
      BY <1>1 DEF ScheduleRequest
    <2>2. c.stage = "ready"
      OBVIOUS
    <2> HIDE DEF c
    <2>3. HeldBooking(r, c)
      BY <1>1, <2>1, <2>2 DEF HeldBooking, ScheduleRequest, Uncommitted, locks
    <2> QED
      BY <2>3
  <1>2. ASSUME ScheduleCheck(r)
        PROVE  \E c : HeldBooking(r, c)
    <2> DEFINE c == [b EXCEPT !.stage = "checked",
                              !.planned = PlannedOf(b),
                              !.ends = b.starts + PlannedOf(b),
                              !.seen = LiveTimeOff(b.technician)]
    <2>1. b \in BookingTx /\ b.type \in ServiceTypes /\ b.starts \in Nat
      BY <1>2, <1>O DEF ScheduleCheck, BookingTx
    <2>2. /\ PlannedOf(b) \in Nat /\ catalog.types[b.type].min \in Nat
          /\ catalog.types[b.type].min <= PlannedOf(b)
          /\ 0 < catalog.types[b.type].min
      <3>1. catalog.types[b.type] \in ServiceType
        BY <1>T, <2>1 DEF TypeOK, Catalog
      <3>2. PlannedOf(b) \in Nat /\ catalog.types[b.type].min \in Nat
        BY <2>1, <3>1 DEF PlannedOf, BookingTx, ServiceType
      <3> QED
        BY <1>2, <2>1, <3>2
           DEF ScheduleCheck, Bookable, CalendarInv, DurationsPositive
    <2>3. c.stage = "checked" /\ c.starts = b.starts /\ c.ends = b.starts + PlannedOf(b)
      BY <2>1 DEF BookingTx
    <2>4. booking' = [booking EXCEPT ![r] = c]
      BY <1>2 DEF ScheduleCheck
    <2> HIDE DEF c
    <2>5. c.starts < c.ends
      BY <2>1, <2>2, <2>3
    <2>6. HeldBooking(r, c)
      BY <1>2, <2>3, <2>4, <2>5 DEF HeldBooking, ScheduleCheck, Uncommitted, locks
    <2> QED
      BY <2>6
  <1>3. ASSUME ScheduleReject(r)
        PROVE  HeldBooking(r, Idle)
    BY <1>3 DEF HeldBooking, ScheduleReject, Uncommitted, Idle, locks
  <1>4. ASSUME ScheduleInsert(r)
        PROVE  \E c : HeldBooking(r, c)
    <2> DEFINE c == [b EXCEPT !.stage = "inserted"]
    <2>1. b \in BookingTx /\ b.stage = "checked" /\ b.technician \in Technicians
      BY <1>4, <1>O DEF ScheduleInsert, BookingTx
    <2>2. /\ c.stage = "inserted" /\ c.technician = b.technician
          /\ c.starts = b.starts /\ c.ends = b.ends
      BY <2>1 DEF BookingTx
    <2>3. booking' = [booking EXCEPT ![r] = c]
      BY <1>4 DEF ScheduleInsert
    <2>4. /\ scheduleLock'[b.technician] = r
          /\ \A s \in Technicians, g \in Handlers \ {r} :
               scheduleLock[s] = g => scheduleLock'[s] = g
      BY <1>4, <1>T, <1>H, <2>1, TakeSchedule DEF ScheduleInsert
    <2> HIDE DEF c
    <2>5. HeldBooking(r, c)
      BY <1>4, <1>C, <2>1, <2>2, <2>3, <2>4 DEF HeldBooking, ScheduleInsert, Uncommitted
    <2> QED
      BY <2>5
  <1>5. ASSUME ScheduleReserve(r)
        PROVE  \E c : HeldBooking(r, c)
    <2> DEFINE c == [b EXCEPT !.stage = "reserved"]
    <2>1. b \in BookingTx /\ b.stage = "inserted"
      BY <1>5, <1>O DEF ScheduleReserve
    <2>2. /\ c.stage = "reserved" /\ c.technician = b.technician
          /\ c.starts = b.starts /\ c.ends = b.ends
      BY <2>1 DEF BookingTx
    <2>3. booking' = [booking EXCEPT ![r] = c]
      BY <1>5 DEF ScheduleReserve
    <2> HIDE DEF c
    <2>4. HeldBooking(r, c)
      BY <1>5, <1>C, <2>1, <2>2, <2>3 DEF HeldBooking, ScheduleReserve, Uncommitted, locks
    <2> QED
      BY <2>4
  <1>6. ASSUME ScheduleRollback(r, Idle)
        PROVE  HeldBooking(r, Idle)
    BY <1>6, <1>R DEF Idle
  <1>7. ASSUME ScheduleSerializationFailure(r)
        PROVE  \E c : HeldBooking(r, c)
    <2> DEFINE c == [b EXCEPT !.stage = "ready", !.tries = @ + 1]
    <2>1. b \in BookingTx
      BY <1>7, <1>O DEF ScheduleSerializationFailure
    <2>2. c.stage = "ready"
      BY <2>1 DEF BookingTx
    <2>3. ScheduleRollback(r, Idle) \/ ScheduleRollback(r, c)
      BY <1>7 DEF ScheduleSerializationFailure
    <2> HIDE DEF c
    <2> QED
      BY <1>R, <1>6, <2>2, <2>3
  <1>8. ASSUME ScheduleCommit(r)
        PROVE  HeldBooking(r, Idle)
    <2>1. ReleaseLocks(r)
      BY <1>8 DEF ScheduleCommit
    <2> QED
      BY <1>T, <1>8, <2>1, ReleaseSchedule DEF HeldBooking, ScheduleCommit, Uncommitted, Idle
  <1>9. ScheduleConflict(r) \/ ScheduleDeadlock(r) \/ ScheduleAbort(r)
          => ScheduleRollback(r, Idle)
    BY DEF ScheduleConflict, ScheduleDeadlock, ScheduleAbort
  <1> QED
    BY <1>1, <1>2, <1>3, <1>4, <1>5, <1>6, <1>7, <1>8, <1>9 DEF ScheduleNext, ScheduleStep

\* What a booking adds to the active appointments overlaps no time-off write
\* that holds its lock, because the booking holds the lock of its technician.
LEMMA BookingKeepsSeen ==
    ASSUME IndInv, CalendarInv, NEW r \in BookingRequests, ScheduleNext(r),
           NEW p \in TimeOffRequests, leave[p].stage = "locked"
    PROVE  ~ AppointmentOverlap(leave[p])'
  <1> DEFINE w == leave[p]
             b == booking[r]
  <1>T. TypeOK
    BY DEF IndInv
  <1>W. ~ AppointmentOverlap(w) /\ scheduleLock[w.technician] = p /\ p # r
    BY HandlersAssumption DEF CalendarInv, ScheduleHeld
  <1>1. leave' = leave
    BY BookingHolds DEF HeldBooking
  <1>2. CASE ~ ScheduleCommit(r)
    <2>1. appointments' = appointments
      BY <1>2, BookingIsQuiet DEF QuietBooking, tables
    <2> QED
      BY <1>1, <1>W, <2>1 DEF AppointmentOverlap, Active, Booked
  <1>3. CASE ScheduleCommit(r)
    <2>1. b \in BookingTx /\ b.stage = "reserved" /\ b.id \in AppointmentIDs
      BY <1>T, <1>3, OpenTx DEF TypeOK, ScheduleCommit, BookingTx
    <2>2. b.technician # w.technician
      BY <1>W, <2>1 DEF CalendarInv, ScheduleHeld, Uncommitted
    <2>3. appointments' = [appointments EXCEPT ![b.id] = RowOf(b)]
      BY <1>3 DEF ScheduleCommit
    <2>4. RowOf(b).technician = b.technician
      BY DEF RowOf
    <2>5. ASSUME NEW id \in Active', appointments'[id].technician = w.technician,
                 Overlap(appointments'[id], w)
          PROVE  FALSE
      <3>1. id # b.id
        BY <1>T, <2>1, <2>2, <2>3, <2>4, <2>5 DEF TypeOK
      <3>2. id \in Active /\ appointments'[id] = appointments[id]
        BY <1>T, <2>3, <2>5, <3>1 DEF Active, Booked, TypeOK
      <3> QED
        BY <1>W, <2>5, <3>2 DEF AppointmentOverlap
    <2> QED
      BY <1>1, <2>5 DEF AppointmentOverlap, Overlap
  <1> QED
    BY <1>2, <1>3

\* A step of a booking preserves the calendar's invariant.
LEMMA BookingKeepsCalendar ==
    ASSUME IndInv, CalendarInv, NEW r \in BookingRequests, ScheduleNext(r)
    PROVE  CalendarInv'
  <1>T. TypeOK
    BY DEF IndInv
  <1>1. PICK c : HeldBooking(r, c)
    BY BookingHolds
  <1>2. /\ \A o \in BookingRequests \ {r} : booking'[o] = booking[o]
        /\ booking'[r] = c
    BY <1>T, <1>1 DEF TypeOK, HeldBooking
  <1>3. ScheduleHeld'
    <2>1. ASSUME NEW o \in BookingRequests, Uncommitted(booking'[o])
          PROVE  scheduleLock'[booking'[o].technician] = o
      <3>1. CASE o = r
        BY <1>1, <1>2, <2>1, <3>1 DEF HeldBooking
      <3>2. CASE o # r
        <4>1. booking[o] \in BookingTx
          BY <1>T, <1>2, <2>1, <3>2, OpenTx DEF TypeOK, Uncommitted
        <4>2. booking[o].technician \in Technicians /\ o \in Handlers \ {r}
          BY <3>2, <4>1 DEF BookingTx, Handlers
        <4> QED
          BY <1>1, <1>2, <2>1, <3>2, <4>2 DEF HeldBooking, CalendarInv, ScheduleHeld
      <3> QED
        BY <3>1, <3>2
    <2>2. ASSUME NEW p \in TimeOffRequests, leave[p].stage = "locked"
          PROVE  /\ scheduleLock'[leave[p].technician] = p
                 /\ ~ AppointmentOverlap(leave[p])'
      <3>1. leave[p] \in LeaveTx
        BY <1>T, <2>2, OpenTx DEF TypeOK
      <3>2. leave[p].technician \in Technicians /\ p \in Handlers \ {r}
        BY <3>1, HandlersAssumption DEF LeaveTx, Handlers
      <3> QED
        BY <1>1, <2>2, <3>2, BookingKeepsSeen DEF HeldBooking, CalendarInv, ScheduleHeld
    <2>3. leave' = leave
      BY <1>1 DEF HeldBooking
    <2> QED
      BY <2>1, <2>2, <2>3 DEF ScheduleHeld, Uncommitted
  <1>4. DurationsPositive'
    BY <1>1, <1>2 DEF HeldBooking, CalendarInv, DurationsPositive
  <1>5. ItemsFresh'
    BY <1>1 DEF HeldBooking, CalendarInv, ItemsFresh
  <1>6. NonEmptyBookings'
    <2>1. CASE ~ ScheduleCommit(r)
      <3>1. appointments' = appointments
        BY <2>1, BookingIsQuiet DEF QuietBooking, tables
      <3> QED
        BY <3>1 DEF CalendarInv, NonEmptyBookings, Booked
    <2>2. CASE ScheduleCommit(r)
      <3> DEFINE b == booking[r]
      <3>1. b \in BookingTx /\ b.stage = "reserved" /\ b.id \in AppointmentIDs
        BY <1>T, <2>2, OpenTx DEF TypeOK, ScheduleCommit, BookingTx
      <3>2. RowOf(b).starts < RowOf(b).ends
        BY <3>1 DEF CalendarInv, DurationsPositive, RowOf
      <3>3. appointments' = [appointments EXCEPT ![b.id] = RowOf(b)]
        BY <2>2 DEF ScheduleCommit
      <3> QED
        BY <1>T, <3>2, <3>3 DEF CalendarInv, NonEmptyBookings, Booked, TypeOK
    <2> QED
      BY <2>1, <2>2
  <1> QED
    BY <1>3, <1>4, <1>5, <1>6 DEF CalendarInv

-----------------------------------------------------------------------------
(* Status changes *)

\* A transition leaves bookings and time off alone, and the schedule locks of
\* the other handlers.
LEMMA TransitionHolds ==
    ASSUME IndInv, NEW q \in TransitionRequests, TransitionNext(q)
    PROVE  /\ \A t \in Technicians, h \in Handlers \ {q} :
                scheduleLock[t] = h => scheduleLock'[t] = h
           /\ UNCHANGED <<timeOff, catalog, booking, leave, admin>>
  <1> DEFINE x == transition[q]
             Kept == /\ \A t \in Technicians, h \in Handlers \ {q} :
                          scheduleLock[t] = h => scheduleLock'[t] = h
                     /\ UNCHANGED <<timeOff, catalog, booking, leave, admin>>
  <1>T. TypeOK
    BY DEF IndInv
  <1>R. ASSUME NEW y, TransitionRollback(q, y)
        PROVE  Kept
    <2>1. ReleaseLocks(q)
      BY <1>R DEF TransitionRollback
    <2> QED
      BY <1>R, <1>T, <2>1, ReleaseSchedule DEF TransitionRollback
  <1>1. ASSUME NEW id \in AppointmentIDs, NEW edge \in Transitions,
               NEW actual \in Time \cup {Null},
               TransitionRequest(q, id, edge, actual)
        PROVE  Kept
    BY <1>1 DEF TransitionRequest, locks
  <1>2. ASSUME TransitionBegin(q) \/ TransitionLock(q) \/ TransitionExclude(q)
        PROVE  Kept
    BY <1>2 DEF TransitionBegin, TransitionLock, TransitionExclude, locks
  <1>3. ASSUME TransitionUpdate(q)
        PROVE  Kept
    <2>1. UNCHANGED <<timeOff, catalog, booking, leave, admin>>
      BY <1>3 DEF TransitionUpdate
    <2>2. CASE UNCHANGED locks
      BY <2>1, <2>2 DEF locks
    <2>3. CASE /\ scheduleLock[x.row.technician] = Null
               /\ scheduleLock' = [scheduleLock EXCEPT ![x.row.technician] = q]
      <3>1. x \in TransitionTx /\ x.row # Null
        BY <1>3, <1>T, OpenTx DEF TransitionUpdate, TypeOK, IndInv, RowsHeld
      <3>2. x.row.technician \in Technicians /\ q \in Handlers
        BY <3>1 DEF TransitionTx, Appointment, Handlers
      <3> QED
        BY <1>T, <2>1, <2>3, <3>2, TakeSchedule
    <2>4. CASE ReleaseLocks(q)
      BY <1>T, <2>1, <2>4, ReleaseSchedule
    <2> QED
      BY <1>3, <2>2, <2>3, <2>4 DEF TransitionUpdate
  <1>4. ASSUME TransitionCommit(q)
        PROVE  Kept
    <2>1. ReleaseLocks(q)
      BY <1>4 DEF TransitionCommit
    <2> QED
      BY <1>4, <1>T, <2>1, ReleaseSchedule DEF TransitionCommit
  <1>5. ASSUME \/ TransitionReject(q) \/ TransitionDeadlock(q)
               \/ TransitionRowChanged(q) \/ TransitionSerializationFailure(q)
               \/ TransitionAbort(q)
        PROVE  \E y : TransitionRollback(q, y)
    BY <1>5 DEF TransitionReject, TransitionDeadlock, TransitionRowChanged,
       TransitionSerializationFailure, TransitionRetry, TransitionAbort
  <1> HIDE DEF Kept
  <1>6. Kept
    BY <1>1, <1>2, <1>3, <1>4, <1>5, <1>R DEF TransitionNext, TransitionStep
  <1> QED
    BY <1>6 DEF Kept

\* A transition activates nothing and moves no interval.
LEMMA TransitionMovesNothing ==
    ASSUME IndInv, NEW q \in TransitionRequests, TransitionNext(q)
    PROVE  /\ Booked' = Booked
           /\ Active' \subseteq Active
           /\ \A id \in Booked :
                /\ appointments'[id].technician = appointments[id].technician
                /\ appointments'[id].starts = appointments[id].starts
                /\ appointments'[id].ends = appointments[id].ends
  <1>T. TypeOK
    BY DEF IndInv
  <1>1. CASE ~ TransitionCommit(q)
    <2>1. appointments' = appointments
      BY <1>1, TransitionIsQuiet DEF QuietTransition, tables
    <2> QED
      BY <2>1 DEF Active, Booked
  <1>2. CASE TransitionCommit(q)
    <2> DEFINE x == transition[q]
               old == appointments[x.id]
               row == RowAfter(x)
    <2>1. /\ x.id \in AppointmentIDs
          /\ old # Null /\ row # Null
          /\ old.status \in ActiveStatus
          /\ row.technician = old.technician
          /\ row.starts = old.starts /\ row.ends = old.ends
      BY <1>2, TransitionCommitFacts
    <2>2. appointments' = [appointments EXCEPT ![x.id] = row]
      BY <1>2 DEF TransitionCommit
    <2> HIDE DEF row
    <2> QED
      BY <1>T, <2>1, <2>2 DEF Active, Booked, TypeOK
  <1> QED
    BY <1>1, <1>2

\* A step of a transition preserves the calendar's invariant.
LEMMA TransitionKeepsCalendar ==
    ASSUME IndInv, CalendarInv, NEW q \in TransitionRequests, TransitionNext(q)
    PROVE  CalendarInv'
  <1>T. TypeOK
    BY DEF IndInv
  <1>1. /\ \A t \in Technicians, h \in Handlers \ {q} :
             scheduleLock[t] = h => scheduleLock'[t] = h
        /\ UNCHANGED <<timeOff, catalog, booking, leave, admin>>
    BY TransitionHolds
  <1>2. ScheduleHeld'
    <2>1. ASSUME NEW r \in BookingRequests, Uncommitted(booking[r])
          PROVE  scheduleLock'[booking[r].technician] = r
      <3>1. booking[r] \in BookingTx
        BY <1>T, <2>1, OpenTx DEF TypeOK, Uncommitted
      <3>2. booking[r].technician \in Technicians /\ r \in Handlers \ {q}
        BY <3>1, HandlersAssumption DEF BookingTx, Handlers
      <3> QED
        BY <1>1, <2>1, <3>2 DEF CalendarInv, ScheduleHeld
    <2>2. ASSUME NEW p \in TimeOffRequests, leave[p].stage = "locked"
          PROVE  /\ scheduleLock'[leave[p].technician] = p
                 /\ ~ AppointmentOverlap(leave[p])'
      <3>1. leave[p] \in LeaveTx
        BY <1>T, <2>2, OpenTx DEF TypeOK
      <3>2. leave[p].technician \in Technicians /\ p \in Handlers \ {q}
        BY <3>1, HandlersAssumption DEF LeaveTx, Handlers
      <3>3. ~ AppointmentOverlap(leave[p]) /\ scheduleLock[leave[p].technician] = p
        BY <2>2 DEF CalendarInv, ScheduleHeld
      <3>4. ~ AppointmentOverlap(leave[p])'
        BY <1>1, <3>3, TransitionMovesNothing DEF AppointmentOverlap, Overlap, Active
      <3> QED
        BY <1>1, <3>2, <3>3, <3>4
    <2> QED
      BY <1>1, <2>1, <2>2 DEF ScheduleHeld, Uncommitted
  <1>3. DurationsPositive' /\ ItemsFresh'
    BY <1>1 DEF CalendarInv, DurationsPositive, ItemsFresh
  <1>4. NonEmptyBookings'
    BY TransitionMovesNothing DEF CalendarInv, NonEmptyBookings
  <1> QED
    BY <1>2, <1>3, <1>4 DEF CalendarInv

-----------------------------------------------------------------------------
(* Time off *)

\* A step that changes nothing of the bookings and the catalogue: what is left
\* to show is about time off.
OnlyTimeOff == UNCHANGED <<tables, catalog, booking, admin>>

\* Such a step preserves the parts about bookings.
LEMMA OnlyTimeOffKeeps ==
    ASSUME CalendarInv, OnlyTimeOff
    PROVE  DurationsPositive' /\ NonEmptyBookings'
  BY DEF OnlyTimeOff, CalendarInv, DurationsPositive, NonEmptyBookings, Booked, tables

\* The handlers of time off: the lock is taken before the appointments are
\* looked at and given back with the write, which the exclusion constraint
\* lets through.
LEMMA TimeOffKeepsCalendar ==
    ASSUME IndInv, CalendarInv, NEW p \in TimeOffRequests, TimeOffNext(p)
    PROVE  CalendarInv'
  <1> DEFINE w == leave[p]
  <1>T. TypeOK
    BY DEF IndInv
  <1>H. p \in Handlers
    BY DEF Handlers
  <1>O. w.stage # "idle" => w \in LeaveTx
    BY <1>T, OpenTx DEF TypeOK
  <1>S. ASSUME NEW u, OnlyTimeOff, leave' = [leave EXCEPT ![p] = u],
               u.stage = "locked" => /\ scheduleLock'[u.technician] = p
                                     /\ ~ AppointmentOverlap(u),
               \A t \in Technicians, h \in Handlers \ {p} :
                 scheduleLock[t] = h => scheduleLock'[t] = h
        PROVE  ScheduleHeld'
    <2>1. ASSUME NEW r \in BookingRequests, Uncommitted(booking[r])
          PROVE  scheduleLock'[booking[r].technician] = r
      <3>1. booking[r] \in BookingTx
        BY <1>T, <2>1, OpenTx DEF TypeOK, Uncommitted
      <3>2. booking[r].technician \in Technicians /\ r \in Handlers \ {p}
        BY <3>1, HandlersAssumption DEF BookingTx, Handlers
      <3> QED
        BY <1>S, <2>1, <3>2 DEF CalendarInv, ScheduleHeld
    <2>2. ASSUME NEW o \in TimeOffRequests, leave'[o].stage = "locked"
          PROVE  /\ scheduleLock'[leave'[o].technician] = o
                 /\ ~ AppointmentOverlap(leave'[o])
      <3>1. CASE o = p
        BY <1>S, <1>T, <2>2, <3>1 DEF TypeOK
      <3>2. CASE o # p
        <4>1. leave'[o] = leave[o]
          BY <1>S, <1>T, <3>2 DEF TypeOK
        <4>2. leave[o] \in LeaveTx
          BY <1>T, <2>2, <4>1, OpenTx DEF TypeOK
        <4>3. leave[o].technician \in Technicians /\ o \in Handlers \ {p}
          BY <3>2, <4>2 DEF LeaveTx, Handlers
        <4> QED
          BY <1>S, <2>2, <4>1, <4>3 DEF CalendarInv, ScheduleHeld
      <3> QED
        BY <3>1, <3>2
    <2> QED
      BY <1>S, <2>1, <2>2 DEF OnlyTimeOff, tables, ScheduleHeld, Uncommitted,
         AppointmentOverlap, Active, Booked
  <1>Q. ASSUME OnlyTimeOff, ScheduleHeld', ItemsFresh'
        PROVE  CalendarInv'
    BY <1>Q, OnlyTimeOffKeeps DEF CalendarInv
  <1>L. ASSUME NEW u, leave' = [leave EXCEPT ![p] = u]
        PROVE  leave'[p] = u /\ \A o \in TimeOffRequests \ {p} : leave'[o] = leave[o]
    BY <1>L, <1>T DEF TypeOK
  <1>D. ASSUME UNCHANGED timeOff, NEW u, leave' = [leave EXCEPT ![p] = u],
               \/ u.stage = "idle"
               \/ w.stage # "idle" /\ u.id = w.id /\ u.create = w.create
        PROVE  ItemsFresh'
    BY <1>D, <1>L DEF CalendarInv, ItemsFresh
  <1>1. ASSUME NEW i \in TimeOffIDs, NEW t \in Technicians, NEW start \in Time,
               NEW end \in Time, CreateTimeOff(p, i, t, start, end)
        PROVE  CalendarInv'
    <2> DEFINE u == [stage |-> "ready", id |-> i, create |-> TRUE, technician |-> t,
                     starts |-> start, ends |-> end]
    <2>1. leave' = [leave EXCEPT ![p] = u] /\ u.stage # "locked"
      BY <1>1 DEF CreateTimeOff
    <2>2. OnlyTimeOff /\ UNCHANGED <<timeOff, scheduleLock>>
      BY <1>1 DEF CreateTimeOff, OnlyTimeOff, locks
    <2>3. /\ u.id = i /\ timeOff[i] = Null
          /\ \A o \in TimeOffRequests : leave[o].stage # "idle" => leave[o].id # i
      BY <1>1 DEF CreateTimeOff
    <2> HIDE DEF u
    <2>4. ItemsFresh'
      BY <1>L, <2>1, <2>2, <2>3 DEF CalendarInv, ItemsFresh
    <2> QED
      BY <1>S, <1>Q, <2>1, <2>2, <2>4
  <1>2. ASSUME NEW i \in TimeOffIDs, NEW start \in Time \cup {Null},
               NEW end \in Time \cup {Null}, UpdateTimeOff(p, i, start, end)
        PROVE  CalendarInv'
    <2> DEFINE from == IF start = Null THEN timeOff[i].starts ELSE start
               to == IF end = Null THEN timeOff[i].ends ELSE end
               u == [stage |-> "ready", id |-> i, create |-> FALSE,
                     technician |-> timeOff[i].technician, starts |-> from,
                     ends |-> to]
    <2>1. leave' = [leave EXCEPT ![p] = u] /\ u.stage # "locked"
      BY <1>2 DEF UpdateTimeOff
    <2>2. OnlyTimeOff /\ UNCHANGED <<timeOff, scheduleLock>>
      BY <1>2 DEF UpdateTimeOff, OnlyTimeOff, locks
    <2>3. u.id = i /\ ~ u.create /\ timeOff[i] # Null
      BY <1>2 DEF UpdateTimeOff, LiveItems
    <2> HIDE DEF u
    <2>4. ItemsFresh'
      BY <1>L, <2>1, <2>2, <2>3 DEF CalendarInv, ItemsFresh
    <2> QED
      BY <1>S, <1>Q, <2>1, <2>2, <2>4
  <1>3. ASSUME TimeOffLock(p)
        PROVE  CalendarInv'
    <2> DEFINE u == [w EXCEPT !.stage = "locked"]
    <2>1. w \in LeaveTx /\ w.technician \in Technicians
      BY <1>3, <1>O DEF TimeOffLock, LeaveTx
    <2>2. /\ u.technician = w.technician
          /\ u.starts = w.starts /\ u.ends = w.ends
          /\ u.id = w.id /\ u.create = w.create /\ w.stage # "idle"
      BY <1>3, <2>1 DEF LeaveTx, TimeOffLock
    <2>3. leave' = [leave EXCEPT ![p] = u] /\ OnlyTimeOff /\ UNCHANGED timeOff
      BY <1>3 DEF TimeOffLock, OnlyTimeOff
    <2>4. /\ scheduleLock'[w.technician] = p
          /\ \A s \in Technicians, g \in Handlers \ {p} :
               scheduleLock[s] = g => scheduleLock'[s] = g
      BY <1>3, <1>T, <1>H, <2>1, TakeSchedule DEF TimeOffLock
    <2> HIDE DEF u
    <2>5. ~ AppointmentOverlap(u)
      BY <1>3, <2>2 DEF TimeOffLock, AppointmentOverlap, Overlap
    <2>6. ScheduleHeld'
      BY <1>S, <2>2, <2>3, <2>4, <2>5
    <2>7. ItemsFresh'
      BY <1>D, <2>2, <2>3
    <2> QED
      BY <1>Q, <2>3, <2>6, <2>7
  <1>4. ASSUME TimeOffAppointmentConflict(p)
        PROVE  CalendarInv'
    <2>1. leave' = [leave EXCEPT ![p] = Idle] /\ Idle.stage = "idle"
      BY <1>4 DEF TimeOffAppointmentConflict, Idle
    <2>2. OnlyTimeOff /\ UNCHANGED <<timeOff, scheduleLock>>
      BY <1>4 DEF TimeOffAppointmentConflict, OnlyTimeOff, locks
    <2> QED
      BY <1>S, <1>Q, <1>D, <2>1, <2>2
  <1>R. ASSUME leave' = [leave EXCEPT ![p] = Idle], ReleaseLocks(p), OnlyTimeOff
        PROVE  ScheduleHeld'
    <2>1. Idle.stage # "locked"
      BY DEF Idle
    <2> QED
      BY <1>R, <1>S, <1>T, <2>1, ReleaseSchedule
  <1>5. ASSUME TimeOffWrite(p)
        PROVE  CalendarInv'
    <2>1. w.stage # "idle" /\ w \in LeaveTx /\ w.id \in TimeOffIDs
      BY <1>5, <1>O DEF TimeOffWrite, LeaveTx
    <2>2. \A i \in TimeOffIDs \ {w.id} : timeOff'[i] = timeOff[i]
      BY <1>5, <1>T DEF TimeOffWrite, TypeOK
    <2>3. leave' = [leave EXCEPT ![p] = Idle] /\ Idle.stage = "idle"
      BY <1>5 DEF TimeOffWrite, Idle
    <2>4. ASSUME NEW o \in TimeOffRequests, leave'[o].stage # "idle", leave'[o].create
          PROVE  /\ timeOff'[leave'[o].id] = Null
                 /\ \A n \in TimeOffRequests :
                      (n # o /\ leave'[n].stage # "idle") => leave'[n].id # leave'[o].id
      <3>1. o # p /\ leave'[o] = leave[o]
        BY <1>L, <2>3, <2>4
      <3>2. leave[o].id # w.id /\ timeOff[leave[o].id] = Null
        BY <2>1, <2>4, <3>1 DEF CalendarInv, ItemsFresh
      <3>3. leave[o].id \in TimeOffIDs
        BY <1>T, <2>4, <3>1, OpenTx DEF TypeOK, LeaveTx
      <3>4. timeOff'[leave[o].id] = Null
        BY <2>2, <3>2, <3>3
      <3> QED
        BY <1>L, <2>3, <2>4, <3>1, <3>4 DEF CalendarInv, ItemsFresh
    <2>6. ItemsFresh'
      BY <2>4 DEF ItemsFresh
    <2>7. OnlyTimeOff /\ leave' = [leave EXCEPT ![p] = Idle] /\ ReleaseLocks(p)
      BY <1>5 DEF TimeOffWrite, OnlyTimeOff
    <2> QED
      BY <1>R, <1>Q, <2>6, <2>7
  <1>6. ASSUME TimeOffRollback(p)
        PROVE  CalendarInv'
    <2>1. /\ OnlyTimeOff /\ leave' = [leave EXCEPT ![p] = Idle]
          /\ ReleaseLocks(p) /\ UNCHANGED timeOff
      BY <1>6 DEF TimeOffRollback, OnlyTimeOff
    <2>2. ItemsFresh'
      BY <1>D, <2>1 DEF Idle
    <2> QED
      BY <1>R, <1>Q, <2>1, <2>2
  <1>7. TimeOffReject(p) \/ TimeOffAbort(p) => TimeOffRollback(p)
    BY DEF TimeOffReject, TimeOffAbort
  <1> QED
    BY <1>1, <1>2, <1>3, <1>4, <1>5, <1>6, <1>7 DEF TimeOffNext, TimeOffStep

\* The soft delete of an item only removes it.
LEMMA DeleteTimeOffKeepsCalendar ==
    ASSUME IndInv, CalendarInv, NEW i \in TimeOffIDs, DeleteTimeOff(i)
    PROVE  CalendarInv'
  <1>T. TypeOK
    BY DEF IndInv
  <1>1. OnlyTimeOff /\ UNCHANGED <<leave, scheduleLock>>
    BY DEF DeleteTimeOff, OnlyTimeOff, locks
  <1>2. ScheduleHeld'
    BY <1>1 DEF OnlyTimeOff, tables, CalendarInv, ScheduleHeld, Uncommitted,
       AppointmentOverlap, Active, Booked
  <1>3. timeOff[i] \in TimeOff /\ timeOff' = [timeOff EXCEPT ![i] = [@ EXCEPT !.deleted = TRUE]]
    BY <1>T DEF DeleteTimeOff, LiveItems, TypeOK
  <1>4. /\ timeOff'[i].deleted = TRUE
        /\ \A j \in TimeOffIDs \ {i} : timeOff'[j] = timeOff[j]
    BY <1>T, <1>3 DEF TypeOK, TimeOff
  <1>5. \A j \in TimeOffIDs : timeOff[j] = Null => timeOff'[j] = Null
    BY <1>4 DEF DeleteTimeOff, LiveItems
  <1>6. ItemsFresh'
    BY <1>1, <1>5, <1>T, OpenTx DEF CalendarInv, ItemsFresh, TypeOK, LeaveTx
  <1> QED
    BY <1>1, <1>2, <1>6, OnlyTimeOffKeeps DEF CalendarInv

-----------------------------------------------------------------------------
(* The catalogue *)

\* What a step of a catalogue handler does to the service types and the bays:
\* it leaves a row alone, marks it deleted, or changes one that is not deleted
\* and keeps a positive minimum.
CatalogStep(a) ==
    /\ UNCHANGED <<tables, timeOff, scheduleLock, booking, leave>>
    /\ \A k \in ServiceTypes :
         \/ catalog'.types[k] = catalog.types[k]
         \/ ~ catalog.types[k].deleted /\ 0 < catalog'.types[k].min
    /\ \A b \in Bays :
         catalog.bays[b].deleted => catalog'.bays[b] = catalog.bays[b]
    /\ \E u : /\ admin' = [admin EXCEPT ![a] = u]
              /\ u.stage = "update_type" => 0 < u.row.min

\* Every step of a catalogue handler is of that form.
LEMMA AdminStep ==
    ASSUME IndInv, CalendarInv, NEW a \in AdminRequests, AdminNext(a)
    PROVE  CatalogStep(a)
  <1> DEFINE w == admin[a]
  <1>T. TypeOK
    BY DEF IndInv
  <1>C. /\ catalog \in Catalog
        /\ \A k \in ServiceTypes : catalog.types[k] \in ServiceType
        /\ \A b \in Bays : catalog.bays[b] \in Bay
    BY <1>T DEF TypeOK, Catalog
  <1>O. w.stage # "idle" => w \in AdminTx
    BY <1>T, OpenTx DEF TypeOK
  <1>P. /\ \A k \in ServiceTypes : 0 < catalog.types[k].min
        /\ w.stage = "update_type" => 0 < w.row.min
    BY DEF CalendarInv, DurationsPositive
  <1>I. Idle.stage # "update_type"
    BY DEF Idle
  <1>R. ASSUME NEW u, AdminRead(a, u), u.stage = "update_type" => 0 < u.row.min
        PROVE  CatalogStep(a)
    BY <1>R DEF AdminRead, CatalogStep, locks
  <1>W. ASSUME NEW c, AdminWrite(a, c),
               \A k \in ServiceTypes : \/ c.types[k] = catalog.types[k]
                                       \/ ~ catalog.types[k].deleted /\ 0 < c.types[k].min,
               \A b \in Bays : catalog.bays[b].deleted => c.bays[b] = catalog.bays[b]
        PROVE  CatalogStep(a)
    BY <1>W, <1>I DEF AdminWrite, CatalogStep, locks
  <1>1. ASSUME NEW t \in Technicians, DeactivateTechnician(a, t)
        PROVE  CatalogStep(a)
    BY <1>1, <1>R DEF DeactivateTechnician
  <1>2. ASSUME NEW t \in Technicians, NEW active \in BOOLEAN \cup {Null},
               UpdateTechnician(a, t, active)
        PROVE  CatalogStep(a)
    BY <1>2, <1>R DEF UpdateTechnician
  <1>3. ASSUME NEW k \in ServiceTypes, NEW min \in Time \cup {Null},
               NEW max \in Time \cup {Null}, NEW active \in BOOLEAN \cup {Null},
               UpdateServiceType(a, k, min, max, active)
        PROVE  CatalogStep(a)
    <2> DEFINE row == [catalog.types[k] EXCEPT !.min = ValueOr(min, @),
                                               !.max = ValueOr(max, @),
                                               !.active = ValueOr(active, @)]
               u == [stage |-> "update_type", type |-> k, row |-> row]
    <2>1. 0 < row.min
      BY <1>3 DEF UpdateServiceType
    <2>2. AdminRead(a, u)
      BY <1>3 DEF UpdateServiceType
    <2> HIDE DEF row
    <2>3. u.row = row
      OBVIOUS
    <2> HIDE DEF u
    <2> QED
      BY <1>R, <2>1, <2>2, <2>3
  <1>4. ASSUME NEW k \in ServiceTypes, DeleteServiceType(a, k)
        PROVE  CatalogStep(a)
    BY <1>4, <1>R DEF DeleteServiceType
  <1>5. ASSUME NEW b \in Bays, NEW active \in BOOLEAN \cup {Null},
               UpdateServiceBay(a, b, active)
        PROVE  CatalogStep(a)
    BY <1>5, <1>R DEF UpdateServiceBay
  <1>6. ASSUME NEW b \in Bays, DeleteServiceBay(a, b)
        PROVE  CatalogStep(a)
    BY <1>6, <1>R DEF DeleteServiceBay
  <1>7. ASSUME DeactivateTechnicianWrite(a) \/ UpdateTechnicianWrite(a)
        PROVE  CatalogStep(a)
    <2>1. ASSUME NEW v
          PROVE  LET c == [catalog EXCEPT !.technicians[w.technician].active = v]
                 IN  c.types = catalog.types /\ c.bays = catalog.bays
      BY <1>C DEF Catalog
    <2> QED
      BY <1>7, <1>W, <2>1 DEF DeactivateTechnicianWrite, UpdateTechnicianWrite
  <1>8. ASSUME UpdateServiceTypeWrite(a)
        PROVE  CatalogStep(a)
    <2> DEFINE k == w.type
               row == [catalog.types[k] EXCEPT !.min = w.row.min, !.max = w.row.max,
                                               !.active = w.row.active]
               c == [catalog EXCEPT !.types = [@ EXCEPT ![k] = row]]
    <2>1. k \in ServiceTypes /\ w.row \in ServiceType /\ 0 < w.row.min
      BY <1>8, <1>O, <1>P DEF UpdateServiceTypeWrite, AdminTx
    <2>2. row.min = w.row.min
      BY <1>C, <2>1 DEF ServiceType
    <2> HIDE DEF row
    <2>3. c.bays = catalog.bays /\ c.types = [catalog.types EXCEPT ![k] = row]
      BY <1>C DEF Catalog
    <2>4. catalog.types \in [ServiceTypes -> ServiceType]
      BY <1>C DEF Catalog
    <2>5. AdminWrite(a, IF catalog.types[k].deleted THEN catalog ELSE c)
      BY <1>8 DEF UpdateServiceTypeWrite, row
    <2> HIDE DEF c
    <2>6. CASE catalog.types[k].deleted
      BY <1>W, <2>5, <2>6
    <2>7. CASE ~ catalog.types[k].deleted
      BY <1>W, <2>1, <2>2, <2>3, <2>4, <2>5, <2>7
    <2> QED
      BY <2>6, <2>7
  <1>9. ASSUME DeleteServiceTypeWrite(a)
        PROVE  CatalogStep(a)
    <2> DEFINE k == w.type
               row == [catalog.types[k] EXCEPT !.deleted = TRUE]
               c == [catalog EXCEPT !.types = [@ EXCEPT ![k] = row]]
    <2>1. k \in ServiceTypes
      BY <1>9, <1>O DEF DeleteServiceTypeWrite, AdminTx
    <2>2. row.min = catalog.types[k].min /\ (catalog.types[k].deleted => row = catalog.types[k])
      <3>1. catalog.types[k] \in ServiceType
        BY <1>C, <2>1
      <3>2. catalog.types[k].deleted \in BOOLEAN
        BY <3>1 DEF ServiceType
      <3>3. catalog.types[k].deleted => row = catalog.types[k]
        BY <3>1, <3>2 DEF ServiceType
      <3> QED
        BY <3>1, <3>3 DEF ServiceType
    <2> HIDE DEF row
    <2>3. c.bays = catalog.bays /\ c.types = [catalog.types EXCEPT ![k] = row]
      BY <1>C DEF Catalog
    <2>4. catalog.types \in [ServiceTypes -> ServiceType]
      BY <1>C DEF Catalog
    <2>5. AdminWrite(a, c) \/ AdminWrite(a, catalog)
      BY <1>9 DEF DeleteServiceTypeWrite, row
    <2> HIDE DEF c
    <2>6. \A j \in ServiceTypes : \/ c.types[j] = catalog.types[j]
                                  \/ ~ catalog.types[j].deleted /\ 0 < c.types[j].min
      BY <1>P, <2>1, <2>2, <2>3, <2>4
    <2> QED
      BY <1>W, <2>3, <2>5, <2>6
  <1>10. ASSUME UpdateServiceBayWrite(a) \/ DeleteServiceBayWrite(a)
         PROVE  CatalogStep(a)
    <2> DEFINE b == w.bay
               updated == [catalog.bays[b] EXCEPT !.active = w.row.active]
               deleted == [catalog.bays[b] EXCEPT !.deleted = TRUE]
               c == [catalog EXCEPT !.bays = [@ EXCEPT ![b] = updated]]
               d == [catalog EXCEPT !.bays = [@ EXCEPT ![b] = deleted]]
    <2>1. b \in Bays
      BY <1>10, <1>O DEF UpdateServiceBayWrite, DeleteServiceBayWrite, AdminTx
    <2>2. catalog.bays[b].deleted => deleted = catalog.bays[b]
      <3>1. catalog.bays[b] \in Bay
        BY <1>C, <2>1
      <3>2. catalog.bays[b].deleted \in BOOLEAN
        BY <3>1 DEF Bay
      <3> QED
        BY <3>1, <3>2 DEF Bay
    <2> HIDE DEF updated, deleted
    <2>3. /\ c.types = catalog.types /\ c.bays = [catalog.bays EXCEPT ![b] = updated]
          /\ d.types = catalog.types /\ d.bays = [catalog.bays EXCEPT ![b] = deleted]
      BY <1>C DEF Catalog
    <2>4. catalog.bays \in [Bays -> Bay]
      BY <1>C DEF Catalog
    <2>5. \/ AdminWrite(a, catalog)
          \/ ~ catalog.bays[b].deleted /\ AdminWrite(a, c)
          \/ AdminWrite(a, d)
      BY <1>10 DEF UpdateServiceBayWrite, DeleteServiceBayWrite, updated, deleted
    <2> HIDE DEF c, d
    <2> QED
      BY <1>W, <2>2, <2>3, <2>4, <2>5
  <1>11. ASSUME AdminAbort(a)
         PROVE  CatalogStep(a)
    BY <1>11, <1>W DEF AdminAbort
  <1> QED
    BY <1>1, <1>2, <1>3, <1>4, <1>5, <1>6, <1>7, <1>8, <1>9, <1>10, <1>11 DEF AdminNext

\* A step of a catalogue handler preserves the calendar's invariant.
LEMMA AdminKeepsCalendar ==
    ASSUME IndInv, CalendarInv, NEW a \in AdminRequests, AdminNext(a)
    PROVE  CalendarInv'
  <1>T. TypeOK
    BY DEF IndInv
  <1>1. CatalogStep(a)
    BY AdminStep
  <1>2. ScheduleHeld' /\ ItemsFresh' /\ NonEmptyBookings'
    BY <1>1 DEF CatalogStep, tables, CalendarInv, ScheduleHeld, Uncommitted,
       AppointmentOverlap, Active, Booked, ItemsFresh, NonEmptyBookings
  <1>3. DurationsPositive'
    BY <1>1, <1>T DEF CatalogStep, CalendarInv, DurationsPositive, TypeOK
  <1> QED
    BY <1>2, <1>3 DEF CalendarInv

-----------------------------------------------------------------------------
(* The theorems *)

\* The empty calendar and the catalogue it starts with.
LEMMA InitCalendar == Init => CalendarInv
  BY DurationsAssumption DEF Init, Idle, CalendarInv, ScheduleHeld, Uncommitted,
     DurationsPositive, ItemsFresh, NonEmptyBookings, Booked

\* Every step of every handler preserves the calendar's invariant.
LEMMA NextCalendar == IndInv /\ CalendarInv /\ [Next]_vars => CalendarInv'
  <1> SUFFICES ASSUME IndInv, CalendarInv, [Next]_vars
               PROVE  CalendarInv'
    OBVIOUS
  <1>1. ASSUME UNCHANGED <<tables, timeOff, catalog, scheduleLock, booking, leave, admin>>
        PROVE  CalendarInv'
    BY <1>1 DEF tables, CalendarInv, ScheduleHeld, Uncommitted, AppointmentOverlap,
       Active, Booked, DurationsPositive, ItemsFresh, NonEmptyBookings
  <1>2. CASE Tick \/ UNCHANGED vars
    BY <1>1, <1>2 DEF Tick, vars, tables, locks
  <1> QED
    BY <1>2, BookingKeepsCalendar, TransitionKeepsCalendar, TimeOffKeepsCalendar,
       DeleteTimeOffKeepsCalendar, AdminKeepsCalendar DEF Next

\* The calendar's invariant holds in every reachable state.
THEOREM CalendarInvariance == Spec => [](IndInv /\ CalendarInv)
  BY Invariance, InitCalendar, NextCalendar, PTL DEF Spec

\* No booking is empty, whatever updates of the service types' bounds run
\* beside it: none escapes the overlap checks.
THEOREM BookingsNonEmpty == Spec => []NonEmptyBookings
  BY CalendarInvariance, PTL DEF CalendarInv

\* When a step writes a time-off item, no active appointment of its technician
\* overlaps it: the schedule lock has kept bookings out since the look-up.
LEMMA WritesAroundAppointments ==
    IndInv /\ CalendarInv /\ [Next]_vars
      => [\A i \in TimeOffIDs :
            LET w == timeOff'[i]
            IN  (w # timeOff[i] /\ ~ w.deleted) => ~ AppointmentOverlap(w)]_vars
  <1> SUFFICES ASSUME IndInv, CalendarInv, Next, NEW i \in TimeOffIDs,
                      timeOff'[i] # timeOff[i], ~ timeOff'[i].deleted
               PROVE  ~ AppointmentOverlap(timeOff'[i])
    OBVIOUS
  <1>T. TypeOK
    BY DEF IndInv
  <1>1. ASSUME NEW p \in TimeOffRequests, TimeOffWrite(p)
        PROVE  ~ AppointmentOverlap(timeOff'[i])
    <2> DEFINE w == leave[p]
               u == [technician |-> w.technician, starts |-> w.starts,
                     ends |-> w.ends, deleted |-> FALSE]
    <2>1. timeOff' = [timeOff EXCEPT ![w.id] = u] /\ w.stage = "locked"
      BY <1>1 DEF TimeOffWrite
    <2>2. u.technician = w.technician /\ u.starts = w.starts /\ u.ends = w.ends
      OBVIOUS
    <2> HIDE DEF u
    <2>3. timeOff'[i] = u
      BY <1>T, <2>1 DEF TypeOK
    <2> QED
      BY <2>1, <2>2, <2>3 DEF CalendarInv, ScheduleHeld, AppointmentOverlap, Overlap
  <1>2. ASSUME NEW j \in TimeOffIDs, DeleteTimeOff(j)
        PROVE  FALSE
    <2>1. timeOff[j] \in TimeOff /\ timeOff' = [timeOff EXCEPT ![j] = [@ EXCEPT !.deleted = TRUE]]
      BY <1>2, <1>T DEF DeleteTimeOff, LiveItems, TypeOK
    <2>2. timeOff'[j].deleted = TRUE /\ \A k \in TimeOffIDs \ {j} : timeOff'[k] = timeOff[k]
      BY <1>T, <2>1 DEF TypeOK, TimeOff
    <2> QED
      BY <2>2
  <1>3. ASSUME NEW p \in TimeOffRequests, TimeOffNext(p)
        PROVE  TimeOffWrite(p)
    BY <1>3 DEF TimeOffNext, TimeOffStep, CreateTimeOff, UpdateTimeOff, TimeOffLock,
       TimeOffAppointmentConflict, TimeOffReject, TimeOffAbort, TimeOffRollback
  <1>4. ASSUME NEW r \in BookingRequests, ScheduleNext(r)
        PROVE  FALSE
    BY <1>4, BookingHolds DEF HeldBooking
  <1>5. ASSUME NEW q \in TransitionRequests, TransitionNext(q)
        PROVE  FALSE
    BY <1>5, TransitionHolds
  <1>6. ASSUME NEW a \in AdminRequests, AdminNext(a)
        PROVE  FALSE
    BY <1>6, AdminStep DEF CatalogStep
  <1>7. ~ Tick
    BY DEF Tick
  <1> QED
    BY <1>1, <1>2, <1>3, <1>4, <1>5, <1>6, <1>7 DEF Next

\* Time off is only written around the bookings of its technician.
THEOREM TimeOffWrittenAround == Spec => TimeOffAvoidsAppointments
  BY CalendarInvariance, WritesAroundAppointments, PTL DEF Spec, TimeOffAvoidsAppointments

\* A step that changes a service type or a bay finds it not deleted.
LEMMA ChangesLiveRows ==
    IndInv /\ CalendarInv /\ [Next]_vars
      => [/\ \A k \in ServiceTypes :
               catalog.types[k].deleted => catalog'.types[k] = catalog.types[k]
          /\ \A b \in Bays :
               catalog.bays[b].deleted => catalog'.bays[b] = catalog.bays[b]]_vars
  <1> SUFFICES ASSUME IndInv, CalendarInv, Next
               PROVE  /\ \A k \in ServiceTypes :
                           catalog.types[k].deleted => catalog'.types[k] = catalog.types[k]
                      /\ \A b \in Bays :
                           catalog.bays[b].deleted => catalog'.bays[b] = catalog.bays[b]
    OBVIOUS
  <1>1. CASE UNCHANGED catalog
    BY <1>1
  <1>2. ASSUME NEW a \in AdminRequests, AdminNext(a)
        PROVE  CatalogStep(a)
    BY <1>2, AdminStep
  <1>3. ASSUME NEW r \in BookingRequests, ScheduleNext(r)
        PROVE  UNCHANGED catalog
    BY <1>3, BookingHolds DEF HeldBooking
  <1>4. ASSUME NEW q \in TransitionRequests, TransitionNext(q)
        PROVE  UNCHANGED catalog
    BY <1>4, TransitionHolds
  <1>5. ASSUME NEW p \in TimeOffRequests, TimeOffNext(p)
        PROVE  UNCHANGED catalog
    BY <1>5 DEF TimeOffNext, TimeOffStep, CreateTimeOff, UpdateTimeOff, TimeOffLock,
       TimeOffAppointmentConflict, TimeOffWrite, TimeOffReject, TimeOffAbort, TimeOffRollback
  <1>6. ASSUME Tick \/ \E i \in TimeOffIDs : DeleteTimeOff(i)
        PROVE  UNCHANGED catalog
    BY <1>6 DEF Tick, DeleteTimeOff
  <1> QED
    BY <1>1, <1>2, <1>3, <1>4, <1>5, <1>6 DEF Next, CatalogStep

\* A deleted service type or bay never changes again, although every update
\* writes a row it has read before: its statement names deleted_at again.
THEOREM DeletionsFinal == Spec => DeletedRowsFrozen
  BY CalendarInvariance, ChangesLiveRows, PTL DEF Spec, DeletedRowsFrozen

\* A step that changes a time-off item finds it not deleted: the UPDATE names
\* deleted_at again, and an INSERT writes an item nobody has had before.
LEMMA ChangesLiveItems ==
    IndInv /\ CalendarInv /\ [Next]_vars
      => [\A i \in TimeOffIDs :
            (timeOff[i] # Null /\ timeOff[i].deleted) => timeOff'[i] = timeOff[i]]_vars
  <1> SUFFICES ASSUME IndInv, CalendarInv, Next, NEW i \in TimeOffIDs,
                      timeOff[i] # Null, timeOff[i].deleted
               PROVE  timeOff'[i] = timeOff[i]
    OBVIOUS
  <1>T. TypeOK
    BY DEF IndInv
  <1>1. ASSUME NEW p \in TimeOffRequests, TimeOffWrite(p)
        PROVE  timeOff'[i] = timeOff[i]
    <2> DEFINE w == leave[p]
    <2>1. w.stage # "idle" /\ Writable(w)
      BY <1>1 DEF TimeOffWrite
    <2>2. w.id # i
      BY <2>1 DEF CalendarInv, ItemsFresh, Writable, LiveItems
    <2> QED
      BY <1>1, <1>T, <2>2 DEF TimeOffWrite, TypeOK
  <1>2. ASSUME NEW j \in TimeOffIDs, DeleteTimeOff(j)
        PROVE  timeOff'[i] = timeOff[i]
    BY <1>2, <1>T DEF DeleteTimeOff, LiveItems, TypeOK
  <1>3. ASSUME NEW p \in TimeOffRequests, TimeOffNext(p)
        PROVE  TimeOffWrite(p) \/ UNCHANGED timeOff
    BY <1>3 DEF TimeOffNext, TimeOffStep, CreateTimeOff, UpdateTimeOff, TimeOffLock,
       TimeOffAppointmentConflict, TimeOffReject, TimeOffAbort, TimeOffRollback
  <1>4. ASSUME NEW r \in BookingRequests, ScheduleNext(r)
        PROVE  UNCHANGED timeOff
    BY <1>4, BookingHolds DEF HeldBooking
  <1>5. ASSUME NEW q \in TransitionRequests, TransitionNext(q)
        PROVE  UNCHANGED timeOff
    BY <1>5, TransitionHolds
  <1>6. ASSUME NEW a \in AdminRequests, AdminNext(a)
        PROVE  UNCHANGED timeOff
    BY <1>6, AdminStep DEF CatalogStep
  <1>7. CASE Tick
    BY <1>7 DEF Tick
  <1> QED
    BY <1>1, <1>2, <1>3, <1>4, <1>5, <1>6, <1>7 DEF Next

\* A deleted time-off item never changes again and is never revived, although
\* the deletion takes no lock and an update that read the item before it may be
\* waiting for the advisory lock.
THEOREM TimeOffDeletionsFinal == Spec => DeletedTimeOffFrozen
  BY CalendarInvariance, ChangesLiveItems, PTL DEF Spec, DeletedTimeOffFrozen
=============================================================================
