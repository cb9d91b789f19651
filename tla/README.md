# Verification of the dealership appointment scheduler

The repository is one Go service: an appointment scheduler for car dealerships
with an authentication module, over PostgreSQL and Redis. Its promise is that
concurrent requests never book a technician or a bay twice and never corrupt
the life of an appointment. Almost all of the difficulty is in how the handlers'
transactions interleave, so that is what the modules here are about: each handler
is modelled step by step between the points where PostgreSQL can let another
transaction in.

Paths below are relative to `src/dealership/modules/`.

## 1. The system

| Component | State it keeps | Operations | Interacts with | What makes it correct |
|---|---|---|---|---|
| Appointment booking (`appointment_scheduler/app/appointment.go`, `adapters/db/appointment_repository.go`, `queries/appointments.sql`, triggers and constraints in `migrations/0001_init_tables.up.sql`) | `appointments`, `appointment_resource_reservations`, `appointment_audit_events` | ScheduleAppointment | reads the whole catalogue; trigger takes the technician's advisory lock | no double booking; the reservations and the audit trail agree with the rows; everything or nothing |
| Appointment lifecycle (same files, `domain/appointment.go`) | the same tables | check in, start, complete, cancel | row lock (`FOR UPDATE`), the same trigger and constraints | no transition lost or applied to a state that was not seen; capacity freed exactly at the end |
| Technician time off (`adapters/db/technician_repository.go`) | `technician_time_off` | create, update, delete (list and get read) | advisory lock shared with bookings | no item written over an active appointment; a deleted item stays as it is |
| Service types, bays, technicians (`app/service.go`, `adapters/db/*_repository.go`) | catalogue rows | create, update, delete, deactivate, skill and capability associations | bookings read them without locks | deleted rows stay as they are; what is removed is not in use; names are unique; a row is changed by its own dealership only |
| Operating hours and shifts | windows per local day | create, update, delete | read by bookings | the windows of a day do not overlap |
| Customers and vehicles | customers, `customer_dealerships`, vehicles | create and update customers; register, update, delete vehicles | memberships authorise; read by bookings | a customer belongs to one dealership, which registered all of its vehicles; contacts and VINs are unique |
| Transaction helper (`common/db.go`) | none | begin, closure, commit or rollback, retry | every repository | at most ten attempts; a failed attempt leaves nothing |
| Idempotency (`common/http/idempotency.go`, `common/redis/idempotency.go`) | Redis keys with a 24 h TTL | reserve, release | wraps every POST, PUT and PATCH | one execution at a time, none after a success |
| Accounts and sessions (`auth/`) | users, roles, token versions | bootstrap, sign up, sign in, refresh, sign out, change password, name, status, role | supplies roles to the scheduler | one account per address, with a role; one first superadmin; revoked sessions stay revoked; old passwords are not reused |
| Provisioning | dealerships and their staff | create dealership, admin, user | calls auth for the account | an account works for one dealership; authority is local |
| Schedule and availability queries | none (read-only) | technician schedule, available bays, appointment lists | read the tables above | free time is what is left of the shifts |
| HTTP handlers and generated code (`*/api/http/`, `common/errors_echo.go`) | none | bind, authenticate, call, translate errors (75 operations) | middlewares in front, services behind | an error reaches the caller as what it is; what is answered is declared |
| Tokens, password hashing, migrations runner, seed, telemetry | none of their own | | | |

Hard behaviours, each listed with its line under `hazards` in `PROJECT.json`:
snapshots that are older than the lock a transaction waits for; exclusion
constraints that see rows no snapshot shows; deadlocks between bookings with
crossed technicians and bays; serialization retries with a record the first
attempt has already changed; catalogue rows read before and used after somebody
else's write; time-off updates computed from an item read before the lock; late
and early completions; releases of idempotency keys that fail or race a retry;
account rows written back as they were read; first accounts, memberships and
customer claims that race behind snapshots; error mappings repeated by hand in
every handler.

## 2. Modules

```
SchedulerDB        tables, locks, constraint predicates, assumptions on the constants
  Booking          ScheduleAppointment
    Lifecycle      ChangeAppointmentStatus / TransitionAppointment
      TimeOffs     technician time off
        Workshop   service types, bays, technicians
          Scheduler      Init, Next, fairness, properties, inductive invariant, refinement
            MCScheduler        TLC instances
            SchedulerProofs    TLAPS proofs: appointments, reservations, audit, ledger
              CalendarProofs   TLAPS proofs: time off, durations, deleted rows
AppointmentLedger  abstract specification, instantiated by Scheduler
Idempotency        the middleware; MCIdempotency and IdempotencyProofs on top

Accounts           the auth module
  Staff            dealerships and memberships
    Garage         customers and vehicles
    Catalogue      types, bays, technicians, their skills, capabilities, hours, shifts
Answers            statuses and error mappers
  AppointmentAPI, WorkshopAPI, TechnicianAPI   the scheduler's operations
    SchedulerAPI           their table; AuthAPI: the auth module's operations
    Contract       a call on its way through the layers
BackOffice         Garage + Catalogue + Contract: Init, Next, fairness
  MCBackOffice     TLC instances

AccountsProofs                     lemmas: what a step of the component does to its invariant,
  StaffProofs                      and that steps of the other components leave it alone
    GarageProofs, CatalogueProofs
      BackOfficeProofs             the handlers' tables, and the theorems of BackOffice
```

The scheduler's modules extend each other because their actions share the
tables and the locks. `Next` of `Scheduler` is their composition: any number of
requests of every kind interleave while `Tick` moves the clock.

**SchedulerDB.** Every table variable is the committed table. What an open
transaction has written stays in the handler's own variable until COMMIT, so a
rollback forgets it, and what others can see of it before (row versions met by
an exclusion constraint, locks) is expressed by predicates over that variable.
`scheduleLock` is the per-technician advisory lock, `rowLock` the lock of an
appointment row. Operating hours and shifts are intervals on one time line; local
days and time zones are left out. There is one dealership: tenancy checks are
filters on the caller's dealership and are not modelled.

**Booking.** `idle → ready → checked → inserted → reserved → idle`.
`ScheduleCheck` takes the snapshot and evaluates every availability query in it.
`ScheduleInsert` is the trigger's lock and the INSERT; its time-off query reads
the snapshot (`seen`), because a SERIALIZABLE transaction does not look again
after it has waited for a lock. `ScheduleReserve` or `ScheduleConflict` is the
verdict of the exclusion constraints, which wait while an open transaction holds
a conflicting row version (`PendingConflict`). `ScheduleDeadlock` is SQLSTATE
40P01, which `common/db.go` does not retry; `ScheduleSerializationFailure` is
40001, which it does, at most `MaxTries` times, with the same record.
`ScheduleAbort` is a timeout, a disconnect or the end of the process.

**Lifecycle.** `idle → ready → locking → locked → updated → written → idle`.
`SELECT ... FOR UPDATE` takes its snapshot and then waits for the row lock; when
the row has changed meanwhile PostgreSQL reports 40001 and the attempt starts
over with the original `occurredAt` (`TransitionRowChanged`); SSI may report the same
failure at any later statement (`TransitionSerializationFailure`). The guards are
evaluated on the locked row.
The UPDATE fires the same trigger for rows that stay active, and re-enters the
exclusion constraints.

**TimeOffs.** Create and update take the advisory lock in a READ COMMITTED
transaction, look for overlapping active appointments *after* the lock in a fresh
snapshot, write and commit. Delete is a single unlocked UPDATE.

**Workshop.** Each administrative handler is a read step and a write step with
any other step in between: updates write every column merged from what was read,
deletions look for references in a REPEATABLE READ snapshot, DeactivateTechnician
looks outside any transaction, UpdateTechnician does not look at all.

**AppointmentLedger.** What users are promised, without transactions: `Book`
adds an entry that competes with no active one, `Advance` moves one entry along
the lifecycle. `LedgerView` is the refinement mapping: the committed rows without
the columns the ledger does not show.

**Idempotency.** Reserve (`SET NX`), the wrapped handler reduced to "committed or
not" and how it ended, release (`DEL`), expiry, and what can go wrong around
them. `Faults` selects Redis errors, panics and restarts; timeouts are always
possible. Each Redis command takes effect at most once. The retries inside
go-redis, which could send a `DEL` twice, are not modelled and are listed as a
hazard.

**Accounts.** Account creation is one REPEATABLE READ transaction:
`LockInitialAccountCreation` is its first statement, so the snapshot of the
empty-table check (`seen`) is taken when the lock is *requested*, not when it is
granted. Every other operation loads a row in one step and writes all of it back
in a later one. A session is the token version and the role it was issued with.
Three history variables record what no table does: the sessions a confirmed
sign-out covered (`revoked`), the two passwords that really were in force before the
current one, whatever the columns say (`former`), and the accounts for which two
write-backs overlapped (`overlapped`).

**Staff.** A request decides on the role in the caller's token (`Caller`), then asks
auth about the target (`RequireActiveTargetAuthUser`), then reads and inserts in a
transaction of its own. A membership remembers who added it with which claim, which
is what `AuthorityLocal` is about.

**Garage.** A registration is `begin → claim → register`: the customer is read (and
the snapshot taken), the claim inserted with ON CONFLICT DO NOTHING, the owner
compared, the vehicle inserted. The claim waits for an open rival
(`ClaimPending`); an owner committed since the snapshot is a serialization failure,
after which `updateInTx` starts over.

**Catalogue.** The part of the catalogue that bookings do not race with: creation
and names, the four association tables, operating hours and shifts. Each handler is
its authorisation, the look-up and the statement, with other steps in between; the
statements join the parent row, and what they join is the definition
`OwnedBy`. Withdrawals (the commits of Workshop's deletions) happen at any moment.
Times of day are 0 .. `Midnight`.

**Answers, the API modules, Contract.** For each of the 75 operations: what the
generated code binds, the errors its service reports to an authenticated caller, what
the handler's mapper makes of them, and the statuses that the generated response
types can write. `Contract` sends one call through idempotency middleware,
`requireIdentity`, binding, handler, service and error handler; each layer may answer.
Rows and payloads are left out, so what a layer decides is nondeterministic.

**BackOffice.** Composes the above. Memberships added by Staff authorise Garage and
Catalogue requests, and accounts changed by Accounts are the ones Staff asks about.
Each initial state says which parts are called, so that one run covers several small
compositions instead of one that is out of reach.

PostgreSQL and Redis themselves are external: the modules state how they act on
the statements this code sends, and `map` marks those definitions.

## 3. Runs

| Run | Instance | Shows |
|---|---|---|
| booking | 2 technicians, 2 bays, 2 bookings, 1 status change, horizon 2 | `NoDoubleBooking`, `ReservationsMatch`, `CompletionWithinPlan`, `RefinesLedger` |
| lifecycle | 1 appointment, 2 status changes with a retry each on its row lock, fair | `AuditTrail`, `CompletionWithinPlan`, `RefinesLedger`, `TransitionAnswered` |
| timeoffs | 1 writer, unlocked deletions, 1 booking and 1 status change of the same technician, horizon 2, fair | `TimeOffAvoidsAppointments`, `DeletedTimeOffFrozen`, `TimeOffAnswered` |
| workshop | 2 administrators, 3 catalogue changes, 1 booking with a retry | `TypeOK`, `NonEmptyBookings`, `DeletedRowsFrozen` |
| crossing | 2 bookings of one bay with 2 technicians and a status change, with retries, fair | `BookingAnswered`, `TransitionAnswered` |
| idempotency | 3 requests, 2 keys, all faults | `NoConcurrentReplay`, `ConfirmedOnce` |
| backoffice | 2 concurrent requests, 2 accounts, 2 dealerships, 13 starts | everything about accounts, staff, garage, catalogue and answers, below |
| timeoff_race, withdrawal_race, key_retention, first_account, revocation_race | the smallest instance of each | violations, see section 6 |

The properties of `backoffice`:

* accounts: `AccountsSound` (one account per address, each with a role),
  `ReuseNeedsOverlap` (a password change brings back one of the two passwords before the
  current one only after two write-backs of the account overlapped),
  `RevivalNeedsOverlap` (the same for a session that a confirmed sign-out covered),
  `CreationAnswered` (nobody waits for the creation lock for ever);
* staff: `AssignedOnce`, `AuthorityLocal`;
* garage: `VehiclesByOwner`, `IdentitiesDistinct`, `ClaimSettled` (one restart is enough);
* catalogue: `CatalogueSound` (names, assignments and windows are unique or disjoint),
  `TenantBoundary` and `WithdrawnFrozen` (no step changes an association of another
  dealership, or of a deleted type or bay);
* answers: `ErrorsKept` (an error that the operation has a response for is never
  hidden behind another one).

`ReuseNeedsOverlap` and `RevivalNeedsOverlap` say exactly how far the code's own promise
goes. Without the condition it does not hold: the run `revocation_race` shows how an
overlap breaks `RevokedStayRevoked`, and the same overlap lets an old password back
(section 6). No property says that roles are granted, and dealerships created, by
accounts that have the right to at that moment: the code checks it earlier, or checks a
claim, and nothing it does afterwards would keep such a property true.

**Bounds.** `Horizon` 2 gives the intervals [0,1), [1,2) and [0,2): disjoint,
touching, nested and equal ones. Two bookings are enough for a conflict and for a
deadlock, two technicians and two bays for conflicts on either resource alone and
for crossed claims. `MaxTries` is 1 or 2 instead of 10: 2 lets a retry happen and
then run out; `lifecycle`, `crossing` and `workshop` have 2.
`crossing` has two appointments, so that a booking is open while another
appointment is checked in, and a horizon of 1, so that everything competes. It has one bay
and two technicians because bookings of one technician never deadlock: the advisory
lock puts them in order first. `lifecycle` has a horizon of 1 too: times 0 and 1 are enough
for a completion older than its check-in; completions later than the planned end happen
in `booking`. `timeoffs` has services of one unit, which are before, after
or under the item. `MaxEdits` 3 lets one administrator's update meet another's update
and deletion. Three requests and two keys let a request finish, a retry start and
a third one interfere. In `backoffice` two requests are open at a time and at most
`MaxRequests` = 3 are accepted: the third one sees what the race left. Three passwords
are as many as an account remembers, so that reuse is attempted;
two windows of a day with `Midnight` 2 can touch, overlap or coincide. The starts
supply the rows earlier requests would have written (two superadmins, an unclaimed
customer, a type with a requirement), which keeps the depth small. The proofs below
have none of these bounds. Requests,
identifiers, technicians and bays are interchangeable, so the runs that check no
liveness use symmetry.

**Deadlock.** TLC's deadlock check is off in `workshop` and the runs of the back office
only, where a bounded supply (catalogue changes, requests) runs out and everything
legitimately stops.

**Fairness.** `FairSpec` has one strong fairness condition per handler, over the steps
by which the handler itself goes on (`ScheduleProgress`, `TransitionProgress`,
`TimeOffProgress`): goroutines and PostgreSQL backends are scheduled, and a waiter is
granted a lock, or gets past an exclusion constraint, when these keep becoming free, since
PostgreSQL queues waiters in order. Strong rather than weak, because what a handler waits
for is free now and then only. Two of these steps are failures that are certain where they
are enabled: the row lock granted on a changed row (40001), and the end PostgreSQL's
detector makes of a deadlock (40P01). New requests, aborts and the serialization
failures SSI may report at any time are not among them: no answer depends on the
ten-second timeout or on a failure that need not happen. In `BackOffice`, strong fairness
of the creation lock (PostgreSQL's queue) and weak fairness of a handler's next step.

Each property has a mutant of the code's model that it refutes (`mutants`): a lock
left out, a guard dropped, a release forgotten, a retry not counted.

## 4. Proofs

Every safety invariant and every action property of the passing runs is also a
theorem of the specification it belongs to, for every value of the constants: any
number of requests, rows, retries and time points.

### The scheduler

`SchedulerProofs` and `CalendarProofs` use the named assumptions of `SchedulerDB`:
`ConstantsAssumption`; `HandlersAssumption`: an HTTP request runs one operation;
`NullAssumption`: NULL is not a value; `DurationsAssumption`: the service types there
are satisfy `service_types_min_duration_positive`.

| Theorem | Statement |
|---|---|
| Invariance | `Spec => []IndInv` |
| TypeCorrect | `Spec => []TypeOK` |
| CapacityExclusive | `Spec => []NoDoubleBooking` |
| ReservationsAgree | `Spec => []ReservationsMatch` |
| HistoryComplete | `Spec => []AuditTrail` |
| CompletionsPlanned | `Spec => []CompletionWithinPlan` |
| ImplementsLedger | `Spec => RefinesLedger` |
| CalendarInvariance | `Spec => [](IndInv /\ CalendarInv)` |
| BookingsNonEmpty | `Spec => []NonEmptyBookings` |
| TimeOffWrittenAround | `Spec => TimeOffAvoidsAppointments` |
| DeletionsFinal | `Spec => DeletedRowsFrozen` |
| TimeOffDeletionsFinal | `Spec => DeletedTimeOffFrozen` |

`NoDoubleBooking` speaks of committed rows and is not inductive: a commit could
add a conflicting row unless the transactions that are about to commit are
constrained too. `IndInv` adds

* `IdsFresh`: an open booking's identifier has no row and no other owner;
* `ClaimsClear`: a booking that has passed the exclusion constraints competes
  with no active appointment and no other such booking;
* `RowsHeld`: a transition past its row lock holds the lock, has the current
  row, and its guards hold of that row;
* `Backed`: every appointment has its reservations.

The argument: most steps are *quiet*. They change a handler's own state or tables
the invariant does not mention, without entering `reserved` or `locked` wrongly;
three lemmas (`QuietBookingKeeps`, `QuietTransitionKeeps`, `QuietElsewhereKeeps`)
show that quiet steps preserve `IndInv`, and further lemmas that each action is
quiet. What is left are the two commits, `BookingCommitKeeps` and
`TransitionCommitKeeps`: `ClaimsClear` carries a booking's verdict to its commit,
and `RowsHeld` makes a transition's audit event start where the last one ended.
The refinement uses the same two facts: a booking's commit is a `Book`
(`CommitBooks`), a transition's commit is an `Advance` (`CommitAdvances`), and every
other step leaves `LedgerView` alone (`StepSimulation`).

`TimeOffAvoidsAppointments` needs a fact that lives between two steps of a time-off
write: what its query saw of the appointments is still true when it writes. That is
`ScheduleHeld`: the write holds the technician's advisory lock from the query to the
commit, and a booking that has inserted its row holds the same lock until its own
commit, so no appointment of that technician can appear in between
(`BookingKeepsSeen`); a transition moves no appointment (`TransitionMovesNothing`).
The lemma says nothing about the other direction, a booking over time off, which does
not hold (section 6). `NonEmptyBookings` needs `DurationsPositive`: the minimum is
positive in the table, in the row an administrator is about to write, and hence in
the interval of every booking that has passed its checks. `DeletedRowsFrozen` needs
no invariant of its own: each write looks at the row again. So does a time-off update, but
an INSERT does not: `DeletedTimeOffFrozen` needs `ItemsFresh`, that the identifier of an
item being created is in no row and in no other request.

### Idempotency

`IdempotencyProofs` proves `ReplaysApart` (`Spec => []NoConcurrentReplay`) and
`ConfirmedKeysFinal` (`Spec => []ConfirmedOnce`) from `Protected`, which adds that
the key of a request in its handler, and every confirmed key, is in Redis: only
`SET NX` lets a request in, and only the request that serves a key deletes it.

### The back office

The assumptions: NULL is none of the values a column holds (`AccountsAssumption`,
`StaffAssumption`, `GarageAssumption`, `CatalogueAssumption`), and the rows a behaviour
starts with satisfy the schema's constraints and are such as the operations leave them
(`StartsAssumption`).

| Theorem | Statement |
|---|---|
| BackOfficeInvariance | `Spec => []BackOfficeInv` |
| BackOfficeTypeCorrect | `Spec => []TypeOK` |
| AccountsStaySound | `Spec => []AccountsSound` |
| SignOutsHold | `Spec => []RevivalNeedsOverlap` |
| HistoriesStayTrue | `Spec => ReuseNeedsOverlap` |
| EmploymentUnique | `Spec => []AssignedOnce` |
| AuthorityStaysLocal | `Spec => []AuthorityLocal` |
| OwnershipHolds | `Spec => []VehiclesByOwner` |
| IdentitiesStayDistinct | `Spec => []IdentitiesDistinct` |
| ClaimsSettle | `Spec => []ClaimSettled` |
| CatalogueStaysSound | `Spec => []CatalogueSound` |
| ErrorsStayKept | `Spec => []ErrorsKept` |
| TenantsApart | `Spec => TenantBoundary` |
| WithdrawnStayFrozen | `Spec => WithdrawnFrozen` |

`BackOfficeInv` is the conjunction of one inductive invariant per component, stated in
the component's module. Each adds to the component's properties what a handler relies on
between two of its steps:

* `AccountsInv`: `RequestSound` (an account under creation does not exist yet, one that
  was read exists and has kept its address), `CreationsApart`, and, of the accounts no two
  write-backs of which have overlapped, `HistoryKept` and `VersionsOrdered`. `HistoryKept`:
  the columns hold the passwords that were in force, and the one write-back under way
  carries them over unchanged or with a new password that is none of them; a password
  change therefore cannot repeat one. `VersionsOrdered`: the token version is at least that of every pair issued, more than
  that of every revoked one, and the write-back under way adds one or nothing.
  Without the last part a write-back could restore the version of a revoked pair, which
  is what happens when two overlap;
* `StaffInv`: `AssignmentSound` (account, dealership and the author's authority outlive
  the request, since none of them is ever removed);
* `GarageInv`: `DeskSound` and `RegistrationsApart`. At most one open registration holds a
  customer's claim, the owner a snapshot showed is the owner still, and a registration that
  starts over does so for a customer that is owned by then. This is why the second attempt
  cannot fail on the claim again, and why `ClaimSettled` holds for any number of rivals;
* `CatalogueInv`: `OfficeSound` (the caller's authority holds until the statement runs, a
  new row does not exist yet, an interval is not empty) and `AdditionsApart`;
* `ContractInv`: the call's type and `ErrorsKept`. That the handlers' tables are
  right is `HandlerSound`, proved of each of the 75 operations.

For each component there are lemmas of three kinds. Steps that only change the request's
own record (`Reading`, `Staffing`, `Serving`, `Handling`) keep its invariant, one lemma
per statement shows that the writes do, and the `...Kept` lemmas say what other components
may do to the state it relies on: `StaffKept` that accounts may be added, `CatalogueKept` that
members may; `AccountsKept` and `GarageKept` need their state unchanged. `StepPreserves` puts them together.

## 5. Only model-checked

Liveness (`BookingAnswered`, `TransitionAnswered`, `TimeOffAnswered`, `CreationAnswered`):
fairness and ENABLED are outside the prover's reach. The violations of section 6 are
counterexamples of TLC. The inductive invariants were checked by TLC on the runs' instances
before they were proved.

## 6. Where the code and its documents disagree

* **timeoff_race**: the documents say that the trigger's advisory lock closes the
  gap between bookings and time off. The trigger's query reads the snapshot taken
  before the lock, and the time-off write is not serializable, so a booking can
  commit over time off that was committed in between.
* **withdrawal_race**: a service type or bay deleted, or a technician deactivated,
  between a booking's checks and its commit ends up in an active appointment, against
  the task description's 409 and the service's own message; UpdateTechnician
  deactivates without looking at all.
* **first_account**: the comment on CreateSuperadmin says that the advisory lock makes
  the empty-table check safe. The waiting statement fixes the snapshot, so a setup
  request that waited for a sign-up does not see its account and creates a superadmin
  next to it.
* **revocation_race**: every account update writes back the whole row that it read. An
  update that overlaps a sign-out of all devices restores the token version that the
  sign-out has advanced, and the revoked refresh tokens are good again.
* **key_retention**: a request that runs into its timeout cannot release its
  idempotency key, because the release uses the expired context.

Read while modelling, not the subject of a run:

* A new password "must differ from the previous three" (`user.go:17`). It is compared with
  the row that was read, and that row, history included, is written back later (by name
  and status changes too). When two write-backs overlap an entry is lost, or an old
  password is put back, and a recent password is accepted. `ReuseNeedsOverlap` proves that
  this is the only way.
* The implementation definition says that password changes advance the token version;
  without `sign_out_all` the code does not (`user.go:104`). The task description
  (`auth-feat.md:64`) makes it optional, and the code follows that one; in the model only
  a change with the flag counts as a sign-out.
* "Only the current superadmin may perform this action" (`openapi.yaml:155`, the role
  update): the check and the write are separate statements, so two superadmins can demote each other and none is left. Two are
  reachable: a superadmin can grant the role, and the seed creates a second one, although
  `super-account.md:25` asks for a unique index that no migration has.
* The comment on CreateDealership speaks of "the caller's current role and lifecycle
  status". The role is the claim of the access token and the status is not looked at: an
  account disabled since the token was issued creates a dealership.
* The OpenAPI documents are the "source of truth", but the middlewares' 400, 409 and 500,
  and an unsupported media type's 500, are answers that several operations (refreshToken,
  for one) do not declare.
* DELETE requests need no `Idempotency-Id` although the middleware's comment says
  "every unsafe API request".
* An appointment checked in after its planned end can never be completed, only
  cancelled; the 201 answer of a booking carries a zero end and, when it was omitted, a
  zero duration, because the record is passed by value.
* Two overlapping updates of one time-off item, each of one bound, keep only the later
  one's: both write all bounds, merged from what they read. No document promises more.
* Updating or deleting a technician's shift always fails with 500: the look-up for
  future appointments names `users.timezone`, a column no migration creates.
* The constraint name the code compares for duplicate required bay capabilities is
  longer than PostgreSQL keeps, so a duplicate is answered with 500.
* Technician skills can be changed by an administrator of any dealership, since their
  path names none; `TenantBoundary` leaves them out.
* Creating an association reads it back after the insert: if its parent is deleted in
  between, a committed creation is answered with 404 and its idempotency key released.
* Deleting a vehicle does not look for appointments, and its VIN stays taken.
* Some store failures are answered as refusals: as 403 where a vehicle manager or a
  technician's time off is authorised, as 404 where a target account is looked up, as
  400 or 401 by the auth handlers. An operation that declares no 400 answers a nil
  identifier with 500.

## 7. Not modelled, and the plan

Not modelled for good: parsing, formatting, problem texts and payloads, token
signatures and password hashing, migrations runner, seed data, logging and telemetry.
They hold no shared state. The schedule and availability queries only read; of them,
the errors and answers are modelled.

Planned: the technician schedule as what its separate reads can show of a changing
calendar.
