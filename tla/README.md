# Verification of SCEP

SCEP, the Smart Charging Experimentation Platform, is a backend for shared EV
charging (facilities, stations, connectors, reservations, charging sessions,
telemetry, dataset exports, predictions), a simulation engine that drives it
through its HTTP API in simulated time, a web frontend and offline research
code. This directory holds TLA+ models of the parts of it in which the order of
events decides what is true, the TLC configurations that check them on small
instances, and TLAPS proofs about the charging core, telemetry and reports, event
delivery, dataset exports, simulation runs, the simulation engine, predictions and
accounts for every size of instance.

Paths below are relative to the repository; `B/` stands for
`backend/app/modules/` and `E/` for `simulation-engine/app/`.

## 1. Inventory

### How the system runs

The backend is a FastAPI modular monolith. Handlers are synchronous functions
that run in a thread pool; each request has one SQLAlchemy session
(`autoflush=False`), which is closed, and so rolled back if it was not
committed, when the request ends. The database is PostgreSQL at READ COMMITTED:
a statement sees what is committed when it starts, an UPDATE waits for the row's
lock, and advisory transaction locks last until commit or rollback. Docker
Compose runs one backend process and one database. The simulation engine is a
separate asyncio process with a checkpoint file.

| Component | State | Operations | Hard behaviour | What makes it correct |
|---|---|---|---|---|
| Reservations and charging sessions (`B/charging`) | reservation rows, session rows, connector status | create, reschedule, cancel, list, no-show reconciliation, activate, complete | unlocked reads before writes, two kinds of locks taken in opposite orders, reconciliation inside every operation, clock read before lock waits | an interval is sold once; one ACTIVE session per vehicle and connector; reservation and session change together; terminal means terminal |
| Facilities, stations, vehicles (`B/charging`) | status of each | create, update, connector status | change under running reservations | a closed site accepts nothing new |
| Domain events (`B/events`) | event store, delivery rows, consumer registry | publish, post-commit pass, startup recovery | crash between consumer and commit, overlapping passes, connection pool, starvation | all or nothing with the aggregate, at least once, never undone |
| Dataset exports (`B/datasets`) | export rows, artifact files, slot lock | create, process, drain, recover, clean up, download | workers racing for slots, restart, lost commit answer | documented lifecycle, slot limit, artifact kept until retention ends, every export ends |
| Simulation runs (`B/simulation`) | run row, receipts, provenance columns | create, patch, start, complete, cancel, simulated mutations | retries, reordering, completion beside mutations, PATCH without lock, real and simulated time in one table | one effect per event, clock monotone, closed runs stay closed, nobody judged by another's clock |
| Simulation engine (`E/`) | plan, checkpoint in memory and file | barriers, requests with retries, fallbacks, resume | lost answers, late copies, crash between steps | one booking per flow, no step back in time, complete barriers, termination |
| Predictions (`B/prediction`) | publications, current publication per scope | publish, point and window queries, recommend | concurrent and repeated publications | current is the newest; one publication per identity |
| Telemetry (`B/telemetry`) | samples, advisory key locks | ingest one sample or a batch, list | completion between validation and insert, retries beside the first request, batches that share keys | a sample lies inside its session; write-once; a retry is answered from the table |
| Identity (`B/identity`) | accounts, roles, facility scopes | login, create, update, roles, facilities, first administrator at startup | unlocked reads before writes, rows and associations read by separate statements, last-administrator check | at least one active administrator; a request does what it was asked for |
| Analytics (`B/analytics`) | none | read-only projections | four queries beside committing requests, boundaries of intervals | every reservation counted once; buckets add up to the window |
| Weekly profiles (`research`, `B/prediction`) | exported rows, written profile, current profile per connector | baseline run, publication, recommendation | two time zones, changes of clocks, opening hours across the end of the week | what the baseline writes is what the backend accepts; pages of a ranking are complete and right |
| Notification | none (empty package) | | | |
| Assembly, configuration, health, observability | consumer registry, recovery at startup | | order at startup | recovery before traffic |
| Migrations | constraints | | | constraints back up the application checks |
| Frontend, deployment | none the backend depends on | | | |

Interactions: every mutation of the charging core publishes events in its own
transaction, and its commit starts a dispatcher pass in the same thread.
Simulated mutations run the same services inside the coordinator's transaction,
under the run's row lock. The engine sees the backend as receipts and a clock.
Dataset exports read the other components' tables in a snapshot and write
nothing there. Telemetry and predictions refer to sessions and connectors
without changing them; reports read reservations, sessions and samples. The
research baseline reads an exported dataset and writes a profile that is
published like any other.

`PROJECT.json` lists every component with what is modelled of it, and every
hazard at its line.

## 2. Modules

| Module | Models | Built on |
|---|---|---|
| `ReservationRules` | rules of `B/charging/domain/reservation.py`, conflict predicate, constraints of the first migration | |
| `BookingCalendar` | abstract: a consistent set of bookings, changed one at a time | |
| `Charging` | request threads over the charging tables | `ReservationRules`; implements `BookingCalendar` |
| `ChargingProofs` | theorems about `Charging` | `Charging` |
| `Telemetry` | ingestion beside the requests that start and complete sessions | `Charging` |
| `TelemetryProofs` | theorems about `Telemetry` and `UsageReports` | `UsageReports`, `ChargingProofs` |
| `UsageReports` | analytics: the queries of a report and its metrics | `Telemetry` |
| `EventDelivery` | publication, commit hook, dispatcher, startup recovery | |
| `EventDeliveryProofs` | theorems about `EventDelivery` | `EventDelivery` |
| `DatasetExports` | export lifecycle, workers, artifacts, recovery | |
| `DatasetProofs` | theorems about `DatasetExports` | `DatasetExports` |
| `RunJournal` | abstract: a journal that takes an event once, with one effect, clock forward, while it is open | |
| `SimulationRuns` | run lifecycle, coordinator, receipts, provenance, requests without headers | `ReservationRules`; implements `RunJournal` |
| `SimulationRunsProofs` | theorems about `SimulationRuns` | `SimulationRuns` |
| `SimulationEngine` | `execute_plan`, HTTP client, checkpoint, restart | |
| `SimulationEngineProofs` | theorems about `SimulationEngine` | `SimulationEngine` |
| `PublicationLedger` | abstract: an append-only history with a current publication per scope | |
| `Predictions` | publication and lookup requests of `B/prediction` | implements `PublicationLedger` |
| `PredictionProofs` | theorems about `Predictions` and `WeeklyProfiles` | `Predictions`, `WeeklyProfiles` |
| `WeeklyProfiles` | the research baseline, the contract on profiles, recommendations | |
| `Accounts` | requests of `B/identity`, startup, crashes | |
| `AccountsProofs` | theorems about `Accounts` | `Accounts` |
| `MC*` | constant values a .cfg cannot write; `MCRunsAndAccounts` and `MCPredictionsAndProfiles` put two modules that share no state into one run | |

In every module a process is a thread, `pc` says which step it takes next, and
one action is what the code does between two points at which others can act: a
statement that reads, a lock that is taken, a commit, a call of a consumer, an
HTTP answer. Some definitions carry a comment "The slip of ...": they are the
plausible mistakes that `PROJECT.json` pairs with the properties that detect
them, and no specification uses them.

### Charging

A reservation row has vehicle, connector, interval and status; a session is
kept under its reservation, as `reservation_id` is unique. Handlers correspond
to sequences of actions:

| Request | Actions |
|---|---|
| create | `Arrive`, sweep, `CreateDecides`, `LockCalendar` twice, `CheckConflict`, `Insert` |
| reschedule | `Arrive`, sweep, `Read`, `RescheduleDecides`, `LockCalendar` twice, `CheckConflict` (and re-read), `Write` |
| cancel | `Arrive`, sweep, `Read`, `CancelDecides` (and re-read), `Write` |
| activate | `Arrive`, sweep, `Read` (owner, then clock), `LockRow`, `LockCalendar` twice, `Activate` |
| complete | `ArriveComplete` (owner, then clock), `LockSession`, `Complete` |
| list, get | `ArriveList`, sweep |
| the sweep | `LockOverdue` for each row that was overdue on arrival, then `Reconcile` (writes and commits); no step if there was none |
| catalogue | `SetConnector`, `SetSite`, `SetVehicle` |

Decisions that matter:

- `update()` loads the row a second time without a lock, copies the decided
  values over it, and the UPDATE sets the columns that differ from that load,
  `WHERE id` alone. There is no version column. `Merged` is exactly this; it is
  why `seen` and `want` are kept apart.
- The decision and the second read of a cancellation are one action, and so are
  the conflict check and the second read of a reschedule: nothing can be
  observed between them that the reads before and after do not already allow.
- INSERT and COMMIT are one action, as are the last UPDATE and the commit.
- Reconciliation is a `SELECT ... FOR UPDATE` without an order. `Begin` takes the
  rows of its snapshot, `due`, and `LockOverdue` any one of them that is free,
  while those it has stay locked; `Reconcile` marks the locked rows that still
  satisfy the condition, as PostgreSQL evaluates it again under the lock, and
  commits. A listing that finds nothing overdue changes nothing and has no step.
- The exclusion constraints and the duration check are `Admits`, the partial
  unique indexes over ACTIVE sessions `NoActiveSession`.
- The database's detector ends a cycle of waiting requests by failing one of
  its members (`DeadlockVictim`). Who waits for what is `WaitsAt`, the sweep
  included.
- Constants say what an instance exercises: the operations each thread serves
  (`Serves`), the threads that may die (`Crashing`), the statuses operators give
  connectors (`ByHand`), the connectors whose site comes and goes (`Closing`) and
  the vehicles that are retired (`Retired`).
- Permission failures reject without a change and are left out, as are foreign
  key share locks. Facility and station status are one flag, `site`.
- A request in the simulated context goes through the coordinator and is
  modelled in `SimulationRuns`.
- `overtaken` is a history variable: the reservations that a cancellation or a
  reschedule has written although their row had left CONFIRMED since it was
  read. Properties that such a write breaks are stated for the others.

### Telemetry

An ingestion is `Receive` (the time of reception is taken), `Validate` (the
session is read without a lock, and every sample is compared with its start and
with its end or the clock), `LockKey` once for each key in the order of the
hashes, `LookUp` (each key of the batch under its lock, a different payload is a
conflict) and `Store` (insert and commit; the unique index can still refuse).
`Lose` is a lost connection at any step. A single sample is a batch of one: the
code has one path for both. The composition with `Charging` is interleaving:
its requests change sessions, ingestions read them. `closed` records when the
completion of a session committed, for the property that bounds how far a
sample can lie past the end. Physical ranges of the measurements only refuse.

### UsageReports

A report is `Ask`, `LoadSessions`, `LoadReservations`, `LoadSessionsAgain` (a row
the database session holds keeps its first values), `LoadSamples` and `Deliver`.
What it computes from the loaded data are operators over a window, applied to
the window and to each of its buckets. Opening hours are the set of instants
`Open`, so that minutes are counted instants. A sum over reservations is the number
of pairs of a reservation and one of its instants or units (`Each`), so that a sum
over the buckets can be compared with the one of the window by set inclusion. A
database has finitely many reservations and readings, which `ReportAssumption` says. Averages, rates and per-unit
breakdowns are quotients and restrictions of the modelled sums.

### EventDelivery

`stamps` is the set of versions of delivery rows, those written by an open
transaction marked by it, and `older` their order by `updated_at`. `Open`, `Publish`, `Commit` and `Rollback` are the
business transaction (one that publishes nothing holds a connection too), `Claim` (SKIP LOCKED, oldest first), `Succeed`/`Raise` and `Record`
are `dispatch_one`, `EndPass` the end of the bounded pass. The commit hook runs
while the request still holds its connection, and a pass needs a second one;
`PoolTimeout` is the pool giving up. `Restart` loses every open transaction and
registers any set of consumers that contains the steady ones. The shipped
application registers none (only tests do), so consumers are a parameter. The
attempt counter and last error are left out.

### DatasetExports

Exports are numbered in the order of creation. `Count` and `Claim` are the two
statements under the advisory lock; `Generate`, `Store`, `Complete`, `Fail` are
`_generate` and its error handling; `DrainNext` and `BootNext` what a worker
does next. Which exports have passed their retention at a clean-up, and which
PROCESSING rows are old enough at a restart, is any subset. A fault kind
(restart, database error, lost commit answer) happens at most once in a
behaviour. The deployment is one server.

### SimulationRuns

A simulated mutation is `Arrive` (context accepted on an unlocked read), `Lock`
(row lock of the run, status, receipt, window, clock, and the sweep of the run's
overdue reservations, whose rows stay locked as `held`), and then `Mutate`, in
which the operation, the receipt and the clock commit together or nothing does;
a domain rejection undoes the sweep too. Creation, activation and completion
check under locks that last until the commit, so they are one step. A
cancellation is not: `DecideCancel` decides on an unlocked read, `Reread` takes
the second read, and `CommitCancel` writes the columns in which the two differ
(`Merged`), with receipt and clock. `Lost` is a lost connection, or the deadlock
detector: a reschedule that holds the calendars and waits for a row the mutation
has swept, while the mutation waits for the calendars, ends that way.
`Arrive` is allowed for any event, instant and number of times, which covers
retries, late copies and reordering. A repeated event changes nothing, whether
its digest matches or not.

Requests without simulation headers act on the run's reservations in real time
and without the run's lock. Those that cancel or reschedule are `DirectCancel` or
`DirectReschedule` (the unlocked read and the decision), `Reread` (for a
reschedule under the calendar locks, `CalendarLocked`, after the check for
conflicts) and `DirectWrite`, which waits for the lock of its row and looks at
nothing else. A simulated activation can commit between any two of them, and
CONFIRMED or CANCELLED then covers ACTIVE, as in `Charging`. `DirectActivate` and
`DirectComplete` check and write under the row's lock and are one step. After a
cancellation has covered ACTIVE, the session cannot be completed any more, nor
the run: it can only be cancelled. `RealReconcile` stands for the reconciliation
of any other request without headers; its rows are locked one by one in
`Charging`, which is about those locks.

The run is completed in two steps: `Settle` takes the lock of the run, locks what
is overdue at the end of the window and looks for open sessions; `CompleteRun`
writes the no-shows and the status. An activation without headers can commit in
between, and leaves a COMPLETED run with a session that charges.

Histories record what the code does not prevent, and the properties that it
would break say so: `breach`, a PATCH that overtook the start of the run;
`overtaken`, the reservations that a cancellation or a reschedule wrote after
they had left CONFIRMED; `touched`, those that requests without headers have
written since a completion looked or the run was cancelled. To the simulator the
run is a `RunJournal`: receipts, effects and clock, with the status as its phase
(`Phase`).

### SimulationEngine

The plan is a set of requests, `todo`, and the next one is the least by its time,
as the code sorts them. An event is identified by flow, operation and variant: for a booking the number
of the fallback, for other operations the shift of the flow, as the event ids
are derived in the code. `ck` is the checkpoint in memory, `disk` the file. It
is written at the end of a barrier, when alternatives have been decided, before
and after each alternative, and on failure. `Crash` loses the memory; `Resume`
plans anew from the current inventory and reads the file. The backend answers by
receipt first, then by clock, then by the domain (nondeterministic). A request
that times out may still arrive (`LateArrival`). Telemetry batches, the report,
and random sampling of the scenario are left out; a failure policy is the number
of alternatives and the delays that fit the window.

### Accounts

A request that changes an account is `ReadRow`, `ReadRoles`, for one that takes
an administrator away `CountActive` and `CountAdmins`, then the decision, then
`ReadBase`, `ReadBaseRoles` (the second read of the row and its associations) and
`Update`, which writes the difference between decision and second read over what
the table holds by then. The session keeps rows by weak references, so the second
read is fresh, even where the first object is still in use as a domain object.
An association that is there already makes the insert fail (`Collides`); one
that is gone may or may not (`Gone`). A creation is one insert. `StartUp` creates
the administrator of the settings if no account has the role; `Die` ends the
process. `since` records which accounts others have changed since a request
began to read, and `lapsed` that a commit that raced another one has taken the
last active administrator away.

### WeeklyProfiles

Times are ticks, so that zones may differ by fractions of an hour and change
their offset. `Baseline` is one run of the program with a training file, an
optional holdout file and the declared window; `Deliver` sends what it wrote,
`Receive` is any other publisher, `MoveZone` a facility that changes its time
zone. Rankings and pages are operators, as recommendations only read; a ranking is the
list of the eligible connectors in which each is preferred to those after it, which is
what sorting by the code's key gives. A rate is the pair of sum and count (the sum is
the number of pairs of a row and one of its units), compared by cross multiplication. How publications
compete for a scope is in `Predictions`; here the last one accepted is current.

### Predictions

A publication request is `Publish` (the handler builds the canonical content),
`Admit` or `Refuse` (publisher, scope, time zone, provenance; what those depend
on belongs to other components and is left open), `LockScope` (the advisory
transaction lock), then `Replay`, `Conflict` or `Insert` by what the run has
published in the scope before, `Select` (the current reference, FOR UPDATE) and
`Commit`. Publications are indexed by the order of their commits. `Fail` is a
database error or a crash at any step. `current = 0` stands for the missing row,
which no row lock could protect. The 168 buckets are part of the content, as
they are inserted with their publication and never change.

A lookup is `Ask` with the scopes to read, and for each of them `ReadCurrent`
and then `ReadBucket` or, if the driver may not use the scope at that hour,
`PassOver`: the point lookup is the one with a single scope, and an empty list
is its 404. The two reads are two statements at READ COMMITTED, and the second
joins the current reference again. A publication that commits between them
supplies the rate while identifier, acceptance time and time zone in the answer
are the older one's. `AnswersAreTrue` says exactly how far such an answer can be
off: the rate is that of the publication named or of a preferred one of the same
scope.

## 3. Runs

| Run | Instance | Shows |
|---|---|---|
| `charging_all` | 2 requests, 1 reservation, 2 ticks, all client operations, crashes, a site that comes and goes, fair | what survives stale writes: types and locks protect what they cover (`LocksProtect` contains `TypeOK`, says what every lock is held for, `LocksHaveOwners`, and in which order calendars are taken, `CalendarsInOrder`), ACTIVE and COMPLETED reservations have their sessions, sessions are history, reservation and session agree and finished rows stay unless an unlocked write overtook them, CHARGING is visible, and every request ends in spite of lock cycles |
| `charging_rows` | 3 threads (one books and activates, one books and reschedules, one lists), 2 reservations, 2 vehicles on 1 connector, unit intervals, operator writes | `NoDoubleBooking`, `Charging` implements `BookingCalendar`, active sessions are exclusive, lock cycles are reconciliations waiting for each other or join a reschedule and an activation (`CyclesNeedRowAndCalendar`) |
| `charging_revived` | create, reschedule, activate | finding: an ACTIVE session under a CONFIRMED reservation |
| `usage_reports` | 1 request, 2 ingestions, 1 report, 1 reservation, 2 keys, 5 batches of up to 2 samples at 2 instants, operator writes, crashes; two open at a time | samples belong to their sessions (`TelemetryInv`), answers are true, ingestions never deadlock; a report counts each reservation once and its buckets add up |
| `event_delivery` | 3 threads, 2 events, a steady and a flaky consumer, passes of 1, 4 connections, restarts | atomic publication, rows say the truth and the order of the queue is complete (`DeliveryInv`), no undoing, no starvation, no hanging pass |
| `dataset_exports` | 2 workers, 3 exports, 1 slot, queue of 1, all three faults | slot limit and ownership (`WorkerPool`), lifecycle, artifacts, overshoot of the queue limit, progress |
| `dataset_stuck` | 2 exports, a restart | finding: an export left in PROCESSING |
| `runs_and_accounts` | runs: 2 threads, 5 events at 2 instants, 2 simulated and 1 real reservation, with managers who patch and cancel the run or with requests without headers; accounts: 2 requests, 2 addresses, 6 changes, crashes and restarts | one effect per receipt and the clock (`SimulationInv`), `SimulationRuns` implements `RunJournal`, provenance, what the end of a run leaves; what account requests know and the last administrator (`AccountsInv`), requests do what they were asked for |
| `simulation_reopened` | the runs of that | finding: a started run becomes a DRAFT again |
| `simulation_engine` | a charging flow with fallbacks and a cancelled flow, 2 attempts, 2 restarts, 1 late copy | one booking per flow, no step back, the checkpoint is true (`CheckpointIsTrue`), termination |
| `engine_resume` | the same flows, an inventory that can be empty, 1 restart | finding: a begun flow is forgotten |
| `predictions` | 2 requests, 2 scopes, 2 runs, 3 contents of which 2 are generated at the same time; beside them profiles of 3 connectors in 2 zones over a week of 4 hours | `Predictions` implements `PublicationLedger`; what requests are told is true (`PublicationsInv`); the way of a profile to the driver (`ProfilesInv`) |

Bounds and why they are enough:

- Two requests: every race of reads and writes found in the code is between two
  writers. A lock cycle can have three members, which is why `charging_rows` has
  three threads: a listing that holds one overdue row and waits for another, the
  activation that holds that one and waits for the calendars, and the reschedule
  that holds these and waits for the first row. TLC reaches that cycle, and refutes
  the property without its last disjunct. For the charging safety properties the proofs remove the bound.
- In `charging_rows`, the key of the connector sorts between those of the vehicles,
  so both lock orders occur. Reservations are moved before their start, freed by
  no-show, and booked again; a session can run on into the next reservation.
  Operators retire a vehicle and declare the connector available under a running
  session. Cancellation, completion and crashes are checked with one reservation, in
  `charging_all`. Intervals that overlap in part or lie one inside the other, a second
  connector, and cancellation of one reservation beside the creation of another are
  left to the proofs, which hold for any instance.
- `MaxTime` 2 passes the early start, the start, the grace period and the no-show
  of a reservation at 1; in `charging_all`, one that starts at 2 can be cancelled
  before and after the cancellation cutoff.
- `usage_reports`: two ingestions of two keys share one or both or none, lock them
  in every order, repeat each other and carry one key twice; instants 1 and 3 with a skew of 1 lie before the end, after it and
  past the tolerance; the window from 1 to 4 has a clipped bucket at its start.
  At most two requests are open at a time: whatever races here has two parties,
  and the proofs remove that bound for telemetry.
- Two addresses and two account requests: two administrators who remove each
  other, an administrator removed beside a login, roles changed under a count.
- A week of two days with two hours of two ticks, one zone half an hour ahead
  that moves its clocks by an hour: hours observed twice or never, and an opening
  that starts on the last tick of the week.
- Three exports on one slot with two workers: one is being processed, one is
  passed over and one is queued behind it.
- Four connections for three threads: enough for two passes that work at a time, and
  few enough that these exhaust them for the third thread. A pass of one delivery
  is shorter than the queue, so that failing deliveries could fill pass after pass.
- Window ends 2 and 3 against instants 1 and 3: an instant inside one window and
  outside the other; with grace 1 the simulated no-show and the real one happen
  on different clocks.
- Three contents: one generated earlier and two at the same time, so that
  later, equal and earlier publications compete in every order; two runs, so that
  a request meets its own publication and another's; clients ask for six
  publications of one scope and one of the other, any number of times.
- Two restarts of the engine: a crash in the execution that recovered from a
  crash.

`CHECK_DEADLOCK FALSE` is set where the instance may stop because its clock,
identifiers, events or restarts are used up, or because everything has ended.
`EventDelivery` never stops, as its server can always be restarted, so deadlock
is checked there.

Runs that put two modules side by side choose one of them in the initial state,
so the states of both are added, not multiplied.

Symmetry (request threads, reservation identifiers in `Charging`, ingestions,
account requests) is used in safety runs only.

### Fairness

- `Charging`: strong fairness of each request's next step. A thread runs, and
  PostgreSQL queues waiters for row and advisory locks, so no waiter is overtaken
  for ever. Arrivals, the clock, operators and crashes are not fair.
- `DatasetExports`: the same for worker threads and the advisory slot lock.
- `EventDelivery`: weak fairness of each thread, and for steady consumers strong
  fairness of succeeding and of recording the success: such a consumer does not
  fail every time and the server does not die after every success. Nobody
  promises that anyone publishes again, so `SteadyDelivery` assumes that passes
  keep completing.
- `SimulationEngine`: weak fairness of the loop; late copies and restarts are
  not fair.

### Findings

Each is a violation run of a property that states what the documentation says.

1. `charging_revived`. SPEC-007 forbids an ACTIVE session under a CONFIRMED
   reservation. A reschedule that read the row before an activation committed
   writes CONFIRMED over ACTIVE.
2. `dataset_stuck`. SPEC-011 asks that no export stays unfinished for ever.
   Recovery runs at startup only and spares rows younger than the abandoned
   timeout, so a quick restart leaves one in PROCESSING, and in its slot.
3. `simulation_reopened`. SPEC-013 says that a run is never reopened. PATCH reads
   and writes the run without its lock and can write DRAFT over RUNNING or a
   terminal status.
4. `engine_resume`. SPEC-013 asks to keep the plan or enough state to resume
   without sampling again. The engine plans from the inventory of the restart; a
   flow whose driver has no connector on offer then is forgotten.

## 4. Proofs

`ChargingProofs` proves, for any finite or infinite sets of requests,
reservations, vehicles and connectors, any rules satisfying the assumptions and
any threads, operations, crashes and catalogue writes:

| Theorem | Statement |
|---|---|
| `LocksProtectAlways` | `Spec => []LocksProtect`, the inductive invariant |
| `TypeCorrect` | `Spec => []TypeOK` |
| `NoDoubleBookingAlways` | `Spec => []NoDoubleBooking` |
| `ActiveSessionsExclusiveAlways` | `Spec => []ActiveSessionsExclusive` |
| `ReservationHasSessionAlways` | `Spec => []ReservationHasSession` |
| `SessionsAreHistoryAlways` | `Spec => SessionsAreHistory` |
| `LockedTransitionsAlways` | `Spec => LockedTransitions` |
| `SessionAgreesAlways` | `Spec => []SessionAgrees` |
| `FinishedRowsStayAlways` | `Spec => FinishedRowsStay` |
| `CyclesNeedRowAndCalendarAlways` | `Spec => []CyclesNeedRowAndCalendar` |
| `ChargingIsVisibleAlways` | `ChargingIsVisible` always holds if no step is an operator's `SetConnector` |
| `ImplementsCalendar` | `Spec => CalendarSpec`: every step is a step of `BookingCalendar` or a stutter |

`LockedTransitions` (ACTIVE and NO_SHOW are entered from CONFIRMED only, COMPLETED from
ACTIVE only, overtaken rows included) has a proof and no run of its own: `charging_all`
checks the stronger `FinishedRowsStay` of the rows that no stale write has overtaken.

Assumptions: `RulesAssumption` (durations and cutoffs are naturals, the shortest
booking is positive and no longer than the longest), `ChargingAssumption`
(instants are naturals, vehicles and connectors are different things, advisory
keys are distinct) and `NoneAssumption` (the absent value is none of the
others). Distinct advisory keys hold up to the 64-bit digests of
`_lock_calendars`.

The argument. Types alone are not inductive: `Write` reads `res[rid[p]]`, which
is a row only because rows never disappear, and `Activate` writes back `want[p]`,
which may be done only because the row lock has kept it equal to the table.
`LocksProtect` adds

- `RequestsWellFormed`: what a step uses is there;
- `CreatesAreFresh`: a row being created belongs to its request alone;
- `ActivationsHoldTheirRow`: from the lock to the commit, what an activation read
  is what the table holds;
- `CompletionsHoldTheirSession`: the session a completion holds is ACTIVE;
- `DecidedStatuses`: a reservation write decides on CONFIRMED, CANCELLED or
  LATE_CANCELLED only;
- `LocksHaveOwners`: a row, session or calendar is locked by a request whose step
  is one that holds it;
- `CalendarsInOrder`: a request that still seeks calendars holds only those whose
  advisory key is less than the one it asks for.

Each part has a lemma that follows it through all actions, resting on lemmas of
how rows change (`RowsStay`, `RowChanges`, `SessionChanges`) and of who may touch
a locked row (`LocksAreKept`, `OwnRowOnly`, `LockedRowStays`). `DecidedStatuses`
is why ACTIVE and COMPLETED are only ever written under the row lock, hence
`LockedTransitions` and `ReservationHasSession`. Calendar exclusivity is
taken from the exclusion constraints (`Admits`) and from activation keeping calendar
and interval (`NoClashPreserved`): the proof does not need the advisory locks, which
turn most constraint errors into conflicts found by a query. The refinement maps the bookings of blocking rows
to the abstract set: an insert or a write is `Book` or `Release`, reconciliation,
cancellation and completion are `Release`, everything else stutters.

A member of a cycle of waiting requests is waited for, so it holds a lock: requests
that wait for a session, and activations that wait for their row, hold none
(`LocksHaveOwners`), so the members are reconciliations, reschedules at their final
write, and requests that seek calendars (`CycleMembers`). Calendars are held by the last
two kinds only and rows by reconciliations and by activations that seek calendars
(`CycleWaits`). Without a reschedule nobody who waits for a row holds a calendar, so
those who seek calendars wait for each other, and the one that seeks the greatest key
(`GreatestOfFinite`; the detector's graph is finite) would wait for one that seeks a
greater one (`CalendarsInOrder`): such a cycle has reconciliations only
(`CyclesWithoutReschedule`). With one, somebody seeks the calendars it holds, and of those
who seek, the one that seeks the lowest key (`LeastNumber`) is waited for by somebody who
waits for a row it holds, so it is an activation (`CyclesNeedAnActivation`). If no
reconciliation is in the cycle, the row a reschedule waits for is held by an activation of
its own reservation. `ChargingIsVisible` needs the
hypothesis because an operator may set any status of a connector under a running
session; `charging_all`, the run that checks it, has no such operator.

`PredictionProofs` proves, for any sets of requests, scopes, runs and contents,
from `PredictionAssumption` (generation times are integers, the absent lock
holder is no request):

| Theorem | Statement |
|---|---|
| `PredictionTypes` | `Spec => []TypeOK`, with the foreign key of the current reference |
| `CurrentAlwaysNewest` | `Spec => []CurrentIsNewest`: the latest generated, the first accepted among equals |
| `AnswersAlwaysTrue` | `Spec => []AnswersAreTrue` |
| `PublicationsInvAlways` | `Spec => []PublicationsInv`, what the run checks |
| `ImplementsLedger` | `Spec => LedgerSpec`: every step is a step of `PublicationLedger` or a stutter |

The inductive invariant adds to types and `CurrentIsNewest`

- `Serialized`: past the lock a request holds it, the run it looked up is still
  missing, and its decision to become current is still the right one;
- `RunsAppearOnce`: a run has one publication per scope;
- `TrueAnswer` of every thread.

Types are not inductive alone, because a commit appends what the request asks
for; `CurrentIsNewest` is not either, because the decision is taken one step
before it is written, and only the lock keeps it right. Commits are the only
steps that write (`OnlyCommitsWrite`, `CommitEffect`), a commit of another scope
leaves a decision alone, and one of the same scope is excluded by the lock.
Answers stay true because publications never change (`HistoryIsKept`), and a
lookup's second read is no older than its first because any two publications of
a scope are comparable (`BeatsIsTotal`) and the current one is not beaten.
`CurrentIsNewest` has no run of its own: it follows from `LedgerSpec`, which has.

The same module proves of `WeeklyProfiles`, for weeks of any length, zones with any
offsets, any opening hours, files and publications, from `ProfilesAssumption` (finitely
many connectors, numbered; files and publications are sequences of rows and buckets):

| Theorem | Statement |
|---|---|
| `ProfilesInvAlways` | `ProfilesSpec => []ProfilesInv` |

The inductive invariant `ProfilesKnown` remembers where things come from: what the
baseline wrote came from a file it had loaded and found complete, and what is current
was accepted. The three parts of `ProfilesInv` follow.

- The contract: hours and places of a week correspond (`KeysOfAWeek`, from the
  uniqueness of quotient and rest), the mean of trusted rows is a rate (`MeanIsARate`),
  and windows that are apart keep their rows apart (`WindowsKeepApart`; that a file has
  a first and a last instant is an argument by a least counterexample).
- One rate per hour: a canonical list has as many buckets as hours and none twice.
- Recommendations: a rule overlaps an hour in this week or a neighbour exactly if going
  round the week meets it (`RoundTheWeek`, `OpenInTheHour`); comparison by cross
  multiplication is transitive (`Between`), so preference is a strict order
  (`PreferredIsAnOrder`); a finite set has a list in any strict order, and in any such
  list the element at place i follows i - 1 others (`ListExists`, `ListPlaces`), so
  that a page shows what it should (`PageOfAList`).

`TelemetryProofs` proves, for any ingestions beside any requests, from the
assumptions of `Charging` and `TelemetryAssumption` (batches are
sets of samples whose instants and readings are naturals, the hashes of keys are distinct, the absent value is no number and no
ingestion) and `NoSampleAssumption`:

| Theorem | Statement |
|---|---|
| `TelemetryAlways` | `TelemetrySpec => []TelemetryInv` |
| `AnswersMatchTableAlways` | `TelemetrySpec => AnswersMatchTable` |
| `IngestsNeverDeadlockAlways` | `TelemetrySpec => []IngestsNeverDeadlock` |

Every step of the composition is a step of `Charging` or leaves its variables
alone, so that `LocksProtect` carries over (`TelemetryIsCharging`) and
`SessionChanges` says all that a request can do to a session: start it, or end it
without touching its start. That an end may lie before a sample that was
validated while the session was ACTIVE is why `Belongs` has its second case, and
the time of the commit, `closed`, is what bounds it (`BelongsStays`). The part of
the invariant about ingestions says what each knows at its stage, and the key
locks keep it true (`OthersKnow`): the rows of keys that are locked do not change,
so the insert is never refused (`StoreFacts`) and a conflict is always a real one.
Ingestions take keys in the order of their hashes (`KeysInOrder`, inductive with
the stages). Of a finite set of ingestions that wait for one another, take the one that
seeks the greatest hash (`GreatestOfFinite`): whoever holds that key seeks a greater one. An infinite
chain of waiting ingestions need not have a greatest, and no server has one, so
`IngestsNeverDeadlock` speaks of finite sets.

The same module proves of `UsageReports`, with no further assumption on the window or
the opening hours than the module's own:

| Theorem | Statement |
|---|---|
| `CountedOnceAlways` | `ReportSpec => []CountedOnce` |
| `ReportsAddUpAlways` | `ReportSpec => []ReportsAddUp` |

`ReportInv` is inductive: what a report has loaded are sets of rows that the tables
held (`LoadedRowsHold`), a session that was there at the first query is there at the
third, and a reservation that a query returned has the status it was read with. A
reservation then falls into one class of the metrics only, for a bucket as well, since
buckets partition their window (`BucketsPartition`, `LoadedOnceCounted`). The same
partition makes reports add up: the pairs that a bucket counts are those of the window
that lie in it, so the sets are disjoint and their union is the window's
(`CountedByParts`, `SumOverBuckets`, `MinutesAddUp`, `UnitsAddUp`), and what both a
reservation and its session cover is part of either (`EffectiveIsPartOfBoth`).

`SimulationRunsProofs` proves, for any sets of requests, events, instants and
reservations and any operations, from `RulesAssumption` and
`SimulationAssumption` (real and simulated reservations differ, every operation
but a creation has a reservation, a booking and its moves start at naturals, the
absent value is none of the others):

| Theorem | Statement |
|---|---|
| `SimulationAlways` | `Spec => []SimulationInv` |
| `NoShowByOwnClockAlways` | `Spec => []NoShowByOwnClock` |
| `CompletedRunIsSettledAlways` | `Spec => []CompletedRunIsSettled` |
| `ClosedRunsStayAlways` | `Spec => ClosedRunsStay` |
| `ImplementsJournal` | `Spec => JournalSpec`: every step is a step of `RunJournal` or a stutter |

`AppliedOnce` and `ClockIsLatest` are not inductive: between the checks under the
row lock and the commit lies a step, and `LockProtectsRun` says that what was
checked (status, window, clock, no receipt, and that the swept rows are overdue) is
still true then. `CopiesOfRows` says what a request that cancels or reschedules
carries between its reads and its write: a row that exists, and a status that is
CONFIRMED, CANCELLED or LATE_CANCELLED. A PATCH writes the
columns that differ between two unlocked reads; `DraftsHaveNoClock` is why it
cannot touch the clock unless it overtakes the start, which `breach` records.

With that, `RowSteps` says what one step does to one row and its session: nothing, a
no-show by its own clock, what creation, activation and completion allow, or an
unlocked write, after which the row is in `overtaken` unless it was CONFIRMED. So ACTIVE
and an open session come and go together for every row that is not. `RunSteps` says what
a step does to the run, `ClosedSteps` that after its end only `touched` rows change, and
`CompletingStep` that while a completion is between its two steps nobody but requests
without headers writes anything about the run, so that what it found still holds for
the rows they have not touched.

The refinement maps receipts, effects and clock to the journal and the status to
its phase. The commit of a mutation is one `Enter` (`AcceptEnters`: what `Lock` checked is
still true, so event, instant and phase are as the journal asks), start and end of the
run are `Begin` and `End`, and everything else stutters, a PATCH of a draft included. A PATCH
that overtakes the start of the run is `Overrule` (`PatchOverrules`): it can take phase and
clock back, never what the journal has taken.

`AccountsProofs` proves, for any accounts, changes and requests, from
`AccountsAssumption` (the administrator of the settings has an address, the absent
value is no account and no change):

| Theorem | Statement |
|---|---|
| `AccountsAlways` | `AccountsSpec => []AccountsInv` |
| `ChangesAsAskedAlways` | `AccountsSpec => ChangesAsAsked` |

`AnAdministratorRemains` alone is not inductive. `KnowsAccounts` adds that what a
request has read is true unless `since` says that others have changed it, from the
first read to the write; `Served` that requests run in a running process only; and
`Administered` that where an account has the role at all there is an active
administrator, which is what a start relies on when it creates none.

`DatasetProofs` proves, for any finite set of workers, any number of exports, any
limits and any of the faults, from `ExportAssumption` (the limits are positive, the
workers finite, the absent value is no worker, number or status):

| Theorem | Statement |
|---|---|
| `WorkerPoolAlways` | `Spec => []WorkerPool` |
| `ArtifactKeptAlways` | `Spec => []ArtifactKept` |
| `QueueOvershootAlways` | `Spec => []QueueOvershoot` |
| `LifecycleAlways` | `Spec => Lifecycle` |

`ActiveLimit` is not inductive: a claim follows its count by one step.
`ClaimsAreSafe` says that between the two only the holder of the advisory lock
could take a slot. `WorkersKnow` adds what a worker has achieved when it writes
the completion (cutoff and file), and with one worker per export (`WorkersOwnTheirExport`)
nobody else deletes that file: `FilesOfOthers`. `QueueAndArrivals` counts the
requests that have passed the check of the queue together with the rows that are
queued, which is what bounds the overshoot. `RowMoves` names the only step behind
each move of a row; `Lifecycle` is read off it.

`EventDeliveryProofs` proves, for any events, consumers, interests, threads, numbers of
connections and sizes of passes, from the module's own assumption:

| Theorem | Statement |
|---|---|
| `OutboxAlways` | `Spec => []OutboxInv` |
| `StoreBeforeDeliveryAlways` | `Spec => []StoreBeforeDelivery` |
| `DeliveryInvAlways` | `Spec => []DeliveryInv` |
| `DispatchedIsFinalAlways` | `Spec => DispatchedIsFinal` |

`DeliveryInv` is inductive only with `Transactions`: what an open transaction has
published is its own, is not in the store yet, and has a version of a delivery row for
every steady consumer. A version is taken by one thread at a time and the new ones stand
behind the old (`StampedInOrder`, `KeptInOrder`, `SettledInOrder`), so that a pass with
something to do always has one oldest row to claim.

`SimulationEngineProofs` proves, for any flows with any times, delays and alternatives,
any finite inventories and any number of attempts, restarts and late copies, from
`EngineAssumption`:

| Theorem | Statement |
|---|---|
| `EngineInvAlways` | `Spec => []EngineInv`, the inductive invariant |
| `OneBookingAlways` | `Spec => []OneBookingPerFlow` |
| `ClockNeverRegressesAlways` | `Spec => []ClockNeverRegresses` |
| `CheckpointIsTrueAlways` | `Spec => []CheckpointIsTrue` |

None of the three is inductive. `EngineInv` says what a checkpoint accounts for
(`Accounts`, of the one in memory and of the file), how far the file is behind the memory
(`FileIsBehind`), that what is neither on the list of a barrier nor resolved lies ahead
(`TodoIsRest`), that no request or receipt is ahead of the barrier (`NothingIsAhead`), and
that an alternative is sent only when every lower one is known to be rejected
(`LowerAreRejected`). The last is why a crash between an answer and the file that records
it does no harm: the engine asks again for the same alternative and gets its receipt, and
a second booking would need a lower one to be both rejected and received. Every step of
the loop settles an event, notes something about it, or ends (`Steps`), and the invariant
follows each of the three kinds, not each action.

What the provers can and cannot do here. Their backends cannot instantiate the library's
induction theorems, which take an operator as a parameter. An argument by a least
element or a least counterexample is within reach, because well-foundedness of `<` on
the naturals is a statement about a relation: lock orders, the engine's next instant, the
greatest key of a finite set of ingestions and the window of a file are proved that way.
What the library offers for finite sets needs no induction at the place of use: sums are
cardinalities of sets of pairs, and a sorted list comes from a bijection with the ranks.

Only model-checked: every safety property of a passing run is stated by a theorem, so
what remains is

- Liveness (`RequestsEnd`, `EveryExportEnds`, `SteadyDelivery`, `PassesEnd`,
  `EngineEnds`): it rests on fairness and ENABLED, which are beyond the prover.

## 5. Not modelled

- Notification: an empty package. Frontend, deployment files, metrics, tracing and
  logging: no state another component depends on.
- Credentials, password hashing, tokens and authorization rules, but for the rule
  that an active administrator must exist for anyone to administer accounts.
- Analytics: breakdowns by station and connector, averages and rates, which are
  restrictions and quotients of the modelled sums; how opening hours become
  intervals.
- The research baseline's reading of files, hashes and error metrics.
- The sampling of scenarios, and telemetry and report of the simulation engine.
- Two backend processes on one database. Some of what is checked (the slot limit
  in `DatasetExports`) would still hold, some (recovery while another server is
  generating, and with it a completion that overwrites a FAILED row) would not.
- A crash between the deletion of an artifact and the row that records it.
- The connector status a completion writes beyond CHARGING or not: AVAILABLE or
  RESERVED is right when it is read, and nothing keeps it so.

Some outcomes that one would rather not see are real, and no property denies them;
the property named bounds when they can happen.

- A cancellation that covers ACTIVE, and a session that can never be completed:
  `SessionAgrees` and `FinishedRowsStay`, and for a run `CompletedRunIsSettled`, admit
  it for the rows in `overtaken`.
- A completed run with a session that charges: `CompletedRunIsSettled` admits it for
  the reservations in `touched`.
- SPEC-005 says that the platform always has an active administrator (BR-008), and two
  requests that remove each other's role at the same time leave none.
  `AnAdministratorRemains` says that this is the only way: `lapsed` is set by exactly
  such a commit.
- A lookup that names one publication and reports the rate of a later one
  (`AnswersAreTrue`), and a recommendation judged by the opening hours of a site that
  has moved to another time zone (`ProfilesInv`).

## 6. Plan

Done: everything in the table of section 2.

Next, in order:

1. `SimulationEngine` against `RunJournal`, so that the backend the engine talks to is
   the abstract side of what `SimulationRuns` implements.
2. Reports by station and connector.
