------------------------------- MODULE Charging -------------------------------
(***************************************************************************)
(* Reservations, charging sessions and connector status of the backend, as *)
(* concurrent request handlers over a shared PostgreSQL database.          *)
(*                                                                         *)
(* A process is a request thread.  It takes the steps between which other  *)
(* requests can commit: unlocked reads, the acquisition of row locks and   *)
(* of advisory calendar locks, and the commit.  READ COMMITTED: a read     *)
(* sees the last commit.  The locks of a request are released when it      *)
(* ends, by commit or by rollback.                                         *)
(***************************************************************************)
EXTENDS ReservationRules, FiniteSets

CONSTANTS
  Procs,            (* request threads                                     *)
  Reservations,     (* reservation identifiers (bounds their number)       *)
  Vehicles,
  Connectors,
  Starts, Ends,     (* the instants clients ask for                        *)
  MaxTime,          (* bound on the clock                                  *)
  CalendarRank,     (* the order of the advisory lock keys                 *)
  Serves,           (* the operations each request thread serves           *)
  Crashing,         (* the request threads that may die                    *)
  ByHand,           (* the statuses operators give connectors              *)
  Closing,          (* connectors whose site operators close and reopen    *)
  Retired,          (* vehicles that are deactivated and reactivated       *)
  None              (* no row, no holder, no value                         *)

Calendars == Vehicles \cup Connectors

ConnectorStatus == {"AVAILABLE", "RESERVED", "CHARGING", "OUT_OF_SERVICE"}

Operations == {"create", "list", "cancel", "reschedule", "activate", "complete"}

ASSUME ChargingAssumption ==
  /\ Starts \subseteq Nat /\ Ends \subseteq Nat
  /\ MaxTime \in Nat
  /\ Serves \in [Procs -> SUBSET Operations]
  /\ Crashing \subseteq Procs
  /\ ByHand \subseteq ConnectorStatus
  /\ Closing \subseteq Connectors
  /\ Retired \subseteq Vehicles
  /\ Vehicles \cap Connectors = {}
  /\ CalendarRank \in [Calendars -> Nat]
  /\ \A x, y \in Calendars : CalendarRank[x] = CalendarRank[y] => x = y

VARIABLES
  res,    (* the reservations table: a row, or None where there is none yet *)
  ses,    (* the charging_sessions table, keyed by the unique reservation   *)
  conn,   (* status of each connector                                       *)
  site,   (* connectors whose station and facility are both active          *)
  fleet,  (* vehicles that are ACTIVE                                       *)
  now,    (* the system clock                                               *)
  lock,   (* holder of each row lock and each advisory lock                 *)
  pc,     (* next step of each request                                      *)
  op,     (* operation of each request                                      *)
  rid,    (* reservation a request is about                                 *)
  seen,   (* row a request read last                                        *)
  want,   (* row a request has decided on                                   *)
  at,     (* clock reading a sweep, an activation or a completion goes by   *)
  due,    (* rows the sweep of a request's reconciliation has yet to lock   *)
  overtaken (* history: the reservations a cancellation or a reschedule has  *)
            (* written after their row had left CONFIRMED                    *)

tables  == <<res, ses, conn>>
outside == <<site, fleet, overtaken>>
request == <<op, rid, seen, want, at, due>>
vars    == <<res, ses, conn, site, fleet, now, lock, pc, op, rid, seen, want, at, due,
             overtaken>>

Row == [vehicle : Vehicles, connector : Connectors, start : Int, end : Int,
        status : ReservationStatus]

Session == [vehicle : Vehicles, connector : Connectors,
            status : {"ACTIVE", "COMPLETED"}, started : Int, ended : Int \cup {None}]

ASSUME NoneAssumption ==
  /\ None \notin Procs /\ None \notin Reservations
  /\ None \notin Row /\ None \notin Session

RowLock(r)      == <<"reservation", r>>
SessionLock(r)  == <<"session", r>>
CalendarLock(x) == <<"calendar", x>>

LockIds == {RowLock(r) : r \in Reservations} \cup {SessionLock(r) : r \in Reservations}
           \cup {CalendarLock(x) : x \in Calendars}

Steps == {"idle", "sweep", "read", "decide", "row", "session", "calendars", "check",
          "write"}

TypeOK ==
  /\ res \in [Reservations -> Row \cup {None}]
  /\ ses \in [Reservations -> Session \cup {None}]
  /\ conn \in [Connectors -> ConnectorStatus]
  /\ site \in SUBSET Connectors
  /\ fleet \in SUBSET Vehicles
  /\ now \in Nat
  /\ lock \in [LockIds -> Procs \cup {None}]
  /\ pc \in [Procs -> Steps]
  /\ op \in [Procs -> Operations \cup {None}]
  /\ rid \in [Procs -> Reservations \cup {None}]
  /\ seen \in [Procs -> Row \cup {None}]
  /\ want \in [Procs -> Row \cup {None}]
  /\ at \in [Procs -> Int \cup {None}]
  /\ due \in [Procs -> SUBSET Reservations]
  /\ overtaken \in SUBSET Reservations

Init ==
  /\ res = [r \in Reservations |-> None]
  /\ ses = [r \in Reservations |-> None]
  /\ conn = [c \in Connectors |-> "AVAILABLE"]
  /\ site = Connectors
  /\ fleet = Vehicles
  /\ now = 0
  /\ lock = [x \in LockIds |-> None]
  /\ pc = [p \in Procs |-> "idle"]
  /\ op = [p \in Procs |-> None]
  /\ rid = [p \in Procs |-> None]
  /\ seen = [p \in Procs |-> None]
  /\ want = [p \in Procs |-> None]
  /\ at = [p \in Procs |-> None]
  /\ due = [p \in Procs |-> {}]
  /\ overtaken = {}

-----------------------------------------------------------------------------
(* Locks and the end of a request.                                         *)

FreeFor(x, p) == lock[x] \in {None, p}

Take(x, p) == lock' = [lock EXCEPT ![x] = p]

Goto(p, l) == pc' = [pc EXCEPT ![p] = l]

\* The slip of a database session that is never closed: its connection keeps
\* the transaction, and with it the locks.
Answer(p) ==
  /\ Goto(p, "idle")
  /\ op' = [op EXCEPT ![p] = None]
  /\ rid' = [rid EXCEPT ![p] = None]
  /\ seen' = [seen EXCEPT ![p] = None]
  /\ want' = [want EXCEPT ![p] = None]
  /\ at' = [at EXCEPT ![p] = None]
  /\ due' = [due EXCEPT ![p] = {}]
  /\ UNCHANGED lock

\* At the end of a transaction every lock of it is gone.
Released(p) == [x \in LockIds |-> IF lock[x] = p THEN None ELSE lock[x]]

\* Commit, rollback or an early return: the request answers and its database
\* session is closed.
Finish(p) ==
  /\ Goto(p, "idle")
  /\ lock' = Released(p)
  /\ op' = [op EXCEPT ![p] = None]
  /\ rid' = [rid EXCEPT ![p] = None]
  /\ seen' = [seen EXCEPT ![p] = None]
  /\ want' = [want EXCEPT ![p] = None]
  /\ at' = [at EXCEPT ![p] = None]
  /\ due' = [due EXCEPT ![p] = {}]

\* A request that answers without having changed a table.
Reject(p) == Finish(p) /\ UNCHANGED <<tables, outside, now>>

-----------------------------------------------------------------------------
(* No-show reconciliation, the first transaction of every reservation      *)
(* operation and of an activation: the overdue rows of the statement's     *)
(* snapshot are locked one after another, in no particular order, and the  *)
(* earlier ones stay locked while it waits for the next.                   *)

OverdueAt(r, t) == res[r] # None /\ Overdue(res[r], t)

AfterSweep(o) == IF o = "create" THEN "decide" ELSE "read"

\* A request arrives; without an overdue row its reconciliation changes nothing.
Begin(p, o, r) ==
  LET overdue == {q \in Reservations : OverdueAt(q, now)} IN
  /\ Goto(p, IF overdue = {} THEN AfterSweep(o) ELSE "sweep")
  /\ op' = [op EXCEPT ![p] = o]
  /\ rid' = [rid EXCEPT ![p] = r]
  /\ at' = [at EXCEPT ![p] = IF overdue = {} THEN None ELSE now]
  /\ due' = [due EXCEPT ![p] = overdue]
  /\ UNCHANGED <<tables, outside, now, lock, seen, want>>

\* A client's mutation.
Arrive(p, o, r) ==
  /\ pc[p] = "idle"
  /\ o \in Serves[p] \ {"list", "complete"}
  /\ IF o = "create" THEN res[r] = None /\ \A q \in Procs : rid[q] # r
                     ELSE res[r] # None
  /\ Begin(p, o, r)

\* GET /reservations and GET /reservations/{id}: they change what they reconcile.
ArriveList(p) ==
  /\ pc[p] = "idle" /\ "list" \in Serves[p]
  /\ \E r \in Reservations : OverdueAt(r, now)
  /\ Begin(p, "list", None)

\* SELECT ... FOR UPDATE comes to its next row.
LockOverdue(p) ==
  /\ pc[p] = "sweep"
  /\ \E r \in due[p] :
       /\ FreeFor(RowLock(r), p)
       /\ Take(RowLock(r), p)
       /\ due' = [due EXCEPT ![p] = @ \ {r}]
  /\ UNCHANGED <<tables, outside, now, pc, op, rid, seen, want, at>>

\* All are locked.  The rows are the ones that satisfy the statement's condition
\* under the lock: one that was overdue when the statement began may have been
\* activated, cancelled, moved or reconciled since.
Reconcile(p) ==
  /\ pc[p] = "sweep" /\ due[p] = {}
  /\ res' = [r \in Reservations |->
               IF lock[RowLock(r)] = p /\ OverdueAt(r, at[p])
               THEN [res[r] EXCEPT !.status = "NO_SHOW"] ELSE res[r]]
  /\ IF op[p] = "list"
     THEN Finish(p)
     ELSE /\ Goto(p, AfterSweep(op[p]))
          /\ lock' = Released(p)
          /\ at' = [at EXCEPT ![p] = None]
          /\ UNCHANGED <<op, rid, seen, want, due>>
  /\ UNCHANGED <<ses, conn, outside, now>>

\* reservations.get: a read without a lock, after the reconciliation has
\* committed.  An activation only checks the owner here and then takes the clock.
Read(p) ==
  /\ pc[p] = "read"
  /\ seen' = [seen EXCEPT ![p] = IF op[p] = "activate" THEN None ELSE res[rid[p]]]
  /\ at' = [at EXCEPT ![p] = IF op[p] = "activate" THEN now ELSE None]
  /\ Goto(p, IF op[p] = "activate" THEN "row" ELSE "decide")
  /\ UNCHANGED <<tables, outside, now, lock, op, rid, want, due>>

-----------------------------------------------------------------------------
(* Decisions: what the domain object allows, on the row the request read.  *)

Eligible(c) == c \in site /\ conn[c] # "OUT_OF_SERVICE"

SeekCalendars(p, row) ==
  /\ want' = [want EXCEPT ![p] = row]
  /\ Goto(p, "calendars")
  /\ UNCHANGED <<tables, outside, now, lock, op, rid, seen, at, due>>

CreateDecides(p) ==
  /\ pc[p] = "decide" /\ op[p] = "create"
  /\ \E v \in Vehicles, c \in Connectors, s \in Starts, e \in Ends :
       IF v \in fleet /\ Eligible(c) /\ ValidInterval(s, e, now)
       THEN SeekCalendars(p, [vehicle |-> v, connector |-> c, start |-> s, end |-> e,
                              status |-> "CONFIRMED"])
       ELSE Reject(p)

\* The fields a PATCH leaves out keep the value that was read.  A request that
\* changes nothing is answered at once.
RescheduleDecides(p) ==
  /\ pc[p] = "decide" /\ op[p] = "reschedule"
  /\ \E v \in Vehicles, s \in Starts \cup {seen[p].start}, e \in Ends \cup {seen[p].end} :
       IF /\ v \in fleet /\ Eligible(seen[p].connector)
          /\ MayReschedule(seen[p], now) /\ ValidInterval(s, e, now)
          /\ Moved(seen[p], v, s, e) # seen[p]
       THEN SeekCalendars(p, Moved(seen[p], v, s, e))
       ELSE Reject(p)

\* cancel() decides on the row get() returned; update() then reads the row a
\* second time, again without a lock, and keeps that as the base of its write.
CancelDecides(p) ==
  /\ pc[p] = "decide" /\ op[p] = "cancel"
  /\ IF MayCancel(seen[p], now)
     THEN /\ want' = [want EXCEPT ![p] =
                        [seen[p] EXCEPT !.status = CancelledStatus(seen[p], now)]]
          /\ seen' = [seen EXCEPT ![p] = res[rid[p]]]
          /\ Goto(p, "write")
          /\ UNCHANGED <<tables, outside, now, lock, op, rid, at, due>>
     ELSE Reject(p)

-----------------------------------------------------------------------------
(* Calendar locks, in the order of their keys, then the conflict check.    *)

Pending(p) ==
  {x \in {want[p].vehicle, want[p].connector} : lock[CalendarLock(x)] # p}

\* The slip of taking the two locks in any order.
AnyCalendar(p, x) == x \in Pending(p)

NextCalendar(p, x) ==
  /\ x \in Pending(p)
  /\ \A y \in Pending(p) : CalendarRank[x] <= CalendarRank[y]

LockCalendar(p) ==
  /\ pc[p] = "calendars"
  /\ \E x \in Calendars :
       /\ NextCalendar(p, x)
       /\ FreeFor(CalendarLock(x), p)
       /\ Take(CalendarLock(x), p)
       /\ Goto(p, IF Pending(p) = {x} THEN "check" ELSE "calendars")
  /\ UNCHANGED <<tables, outside, now, request>>

\* find_conflict; a reschedule excludes itself, and update() reads the row
\* again, without a lock, as the base of its write.
Clash(r, row) ==
  \E q \in Reservations \ {r} : res[q] # None /\ Conflicts(row, res[q])

CheckConflict(p) ==
  /\ pc[p] = "check" /\ op[p] \in {"create", "reschedule"}
  /\ IF Clash(rid[p], want[p])
     THEN Reject(p)
     ELSE /\ seen' = [seen EXCEPT ![p] = res[rid[p]]]
          /\ Goto(p, "write")
          /\ UNCHANGED <<tables, outside, now, lock, op, rid, want, at, due>>

-----------------------------------------------------------------------------
(* Writes of the reservation service.                                      *)

\* The table's constraints: the duration check, and for a blocking row the
\* two exclusion constraints.
Admits(r, row) ==
  /\ ValidDuration(row.start, row.end)
  /\ Blocking(row) => ~Clash(r, row)

Insert(p) ==
  /\ pc[p] = "write" /\ op[p] = "create"
  /\ res' = IF Admits(rid[p], want[p]) THEN [res EXCEPT ![rid[p]] = want[p]] ELSE res
  /\ Finish(p)
  /\ UNCHANGED <<ses, conn, outside, now>>

\* The columns an UPDATE sets are those where the decided row differs from the
\* row the session loaded; the others keep whatever the table holds by now.
Column(current, loaded, decided) == IF decided = loaded THEN current ELSE decided

Merged(current, loaded, decided) ==
  [vehicle   |-> Column(current.vehicle, loaded.vehicle, decided.vehicle),
   connector |-> current.connector,
   start     |-> Column(current.start, loaded.start, decided.start),
   end       |-> Column(current.end, loaded.end, decided.end),
   status    |-> Column(current.status, loaded.status, decided.status)]

\* UPDATE ... WHERE id: it waits for the row's lock and looks at nothing else.
Write(p) ==
  LET new == Merged(res[rid[p]], seen[p], want[p]) IN
  /\ pc[p] = "write" /\ op[p] \in {"cancel", "reschedule"}
  /\ FreeFor(RowLock(rid[p]), p)
  /\ res' = IF Admits(rid[p], new) THEN [res EXCEPT ![rid[p]] = new] ELSE res
  /\ overtaken' = IF res[rid[p]].status = "CONFIRMED" THEN overtaken
                  ELSE overtaken \cup {rid[p]}
  /\ Finish(p)
  /\ UNCHANGED <<ses, conn, site, fleet, now>>

-----------------------------------------------------------------------------
(* Charging sessions.                                                      *)

\* SELECT ... FOR UPDATE of the reservation to activate.
LockRow(p) ==
  /\ pc[p] = "row" /\ op[p] = "activate"
  /\ FreeFor(RowLock(rid[p]), p)
  /\ Take(RowLock(rid[p]), p)
  /\ want' = [want EXCEPT ![p] = res[rid[p]]]
  /\ Goto(p, "calendars")
  /\ UNCHANGED <<tables, outside, now, op, rid, seen, at, due>>

\* The slip of unique indexes over the reservation only.
NoIndex(v, c) == TRUE

\* The partial unique indexes over ACTIVE sessions.
NoActiveSession(v, c) ==
  \A r \in Reservations : ses[r] # None /\ ses[r].status = "ACTIVE" =>
    ses[r].vehicle # v /\ ses[r].connector # c

Started(row, t) ==
  [vehicle |-> row.vehicle, connector |-> row.connector,
   status |-> "ACTIVE", started |-> t, ended |-> None]

\* The slip of relying on the reservation's status against a second session.
MayStartAgain(p) ==
  LET row == want[p] IN
  /\ row.connector \in site
  /\ conn[row.connector] \in {"AVAILABLE", "RESERVED"}
  /\ MayActivate(row, at[p])
  /\ NoActiveSession(row.vehicle, row.connector)

MayStart(p) ==
  LET row == want[p] IN
  /\ ses[rid[p]] = None
  /\ row.connector \in site
  /\ conn[row.connector] \in {"AVAILABLE", "RESERVED"}
  /\ MayActivate(row, at[p])
  /\ NoActiveSession(row.vehicle, row.connector)

Activate(p) ==
  LET row == want[p] IN
  /\ pc[p] = "check" /\ op[p] = "activate"
  /\ IF MayStart(p)
     THEN /\ ses' = [ses EXCEPT ![rid[p]] = Started(row, at[p])]
          /\ res' = [res EXCEPT ![rid[p]] = Activated(row)]
          /\ conn' = [conn EXCEPT ![row.connector] = "CHARGING"]
     ELSE UNCHANGED tables
  /\ Finish(p)
  /\ UNCHANGED <<outside, now>>

\* POST /charging-sessions/{id}/complete: the session is read for the
\* permission check, then the clock is read.  Nothing is reconciled.
ArriveComplete(p, r) ==
  /\ pc[p] = "idle" /\ "complete" \in Serves[p]
  /\ ses[r] # None
  /\ op' = [op EXCEPT ![p] = "complete"]
  /\ rid' = [rid EXCEPT ![p] = r]
  /\ at' = [at EXCEPT ![p] = now]
  /\ Goto(p, "session")
  /\ UNCHANGED <<tables, outside, now, lock, seen, want, due>>

\* The slip of trusting the session that was read before the lock.
SessionUnchecked(p) == ses[rid[p]].started <= at[p]

SessionMayEnd(p) == ses[rid[p]].status = "ACTIVE" /\ ses[rid[p]].started <= at[p]

Ended(session, t) == [session EXCEPT !.status = "COMPLETED", !.ended = t]

LockSession(p) ==
  /\ pc[p] = "session"
  /\ FreeFor(SessionLock(rid[p]), p)
  /\ IF SessionMayEnd(p)
     THEN /\ Take(SessionLock(rid[p]), p)
          /\ Goto(p, "row")
          /\ UNCHANGED <<tables, outside, now, request>>
     ELSE Reject(p)

\* The status a connector gets back: closed sites stay out of service, and an
\* upcoming reservation of another request keeps it reserved.
Upcoming(r, c, t) ==
  \E q \in Reservations \ {r} :
    /\ res[q] # None /\ res[q].connector = c /\ res[q].status = "CONFIRMED"
    /\ t - GracePeriod <= res[q].start /\ res[q].start <= t + EarlyStart

\* The slip of a completion that forgets the connector.
Unrestored(r, c, t) == conn[c]

Restored(r, c, t) ==
  IF c \notin site THEN "OUT_OF_SERVICE"
  ELSE IF Upcoming(r, c, t) THEN "RESERVED" ELSE "AVAILABLE"

Complete(p) ==
  LET r == rid[p]  s == ses[rid[p]] IN
  /\ pc[p] = "row" /\ op[p] = "complete"
  /\ FreeFor(RowLock(r), p)
  /\ IF res[r].status = "ACTIVE"
     THEN /\ ses' = [ses EXCEPT ![r] = Ended(s, at[p])]
          /\ res' = [res EXCEPT ![r] = Completed(res[r])]
          /\ conn' = [conn EXCEPT ![s.connector] = Restored(r, s.connector, at[p])]
     ELSE UNCHANGED tables
  /\ Finish(p)
  /\ UNCHANGED <<outside, now>>

-----------------------------------------------------------------------------
(* The infrastructure catalogue: unconditional writes.                     *)

SetConnector(c, s) ==
  /\ s \in ByHand
  /\ conn' = [conn EXCEPT ![c] = s]
  /\ UNCHANGED <<res, ses, outside, now, lock, pc, request>>

SetSite(c) ==
  /\ c \in Closing
  /\ site' = IF c \in site THEN site \ {c} ELSE site \cup {c}
  /\ UNCHANGED <<tables, fleet, overtaken, now, lock, pc, request>>

SetVehicle(v) ==
  /\ v \in Retired
  /\ fleet' = IF v \in fleet THEN fleet \ {v} ELSE fleet \cup {v}
  /\ UNCHANGED <<tables, site, overtaken, now, lock, pc, request>>

-----------------------------------------------------------------------------
(* Time, lost connections, and the deadlock detector of the database.      *)

Tick ==
  /\ now < MaxTime
  /\ now' = now + 1
  /\ UNCHANGED <<tables, outside, lock, pc, request>>

\* The process serving the request dies, or its connection is lost, before
\* the commit.
Crash(p) ==
  /\ p \in Crashing /\ pc[p] # "idle"
  /\ Reject(p)

\* The lock a blocked request waits for.
WaitsAt(p, x) ==
  \/ pc[p] = "sweep" /\ \E r \in due[p] : x = RowLock(r)
  \/ pc[p] = "calendars" /\ \E y \in Calendars : NextCalendar(p, y) /\ x = CalendarLock(y)
  \/ pc[p] = "session" /\ x = SessionLock(rid[p])
  \/ pc[p] = "row" /\ x = RowLock(rid[p])
  \/ pc[p] = "write" /\ op[p] # "create" /\ x = RowLock(rid[p])

WaitsFor(p, q) == p # q /\ \E x \in LockIds : lock[x] = q /\ WaitsAt(p, x)

\* Every member waits for a member and is waited for by one.
Cycle(S) ==
  /\ S # {} /\ IsFiniteSet(S)
  /\ \A p \in S : \E q \in S : WaitsFor(p, q)
  /\ \A q \in S : \E p \in S : WaitsFor(p, q)

\* A request that has waited for a while looks for a cycle it is in, and the
\* database breaks the cycle by failing its statement.
DeadlockVictim(p) ==
  /\ \E q \in Procs : WaitsFor(p, q)
  /\ \E S \in SUBSET Procs : p \in S /\ Cycle(S)
  /\ Reject(p)

-----------------------------------------------------------------------------
Handle(p) ==
  \/ LockOverdue(p)
  \/ Reconcile(p)
  \/ Read(p)
  \/ CreateDecides(p)
  \/ RescheduleDecides(p)
  \/ CancelDecides(p)
  \/ LockCalendar(p)
  \/ CheckConflict(p)
  \/ Insert(p)
  \/ Write(p)
  \/ LockRow(p)
  \/ Activate(p)
  \/ LockSession(p)
  \/ Complete(p)
  \/ DeadlockVictim(p)

Client(p) ==
  \/ ArriveList(p)
  \/ \E r \in Reservations :
       \/ \E o \in Operations : Arrive(p, o, r)
       \/ ArriveComplete(p, r)

Operator ==
  \/ \E c \in Connectors, s \in ConnectorStatus : SetConnector(c, s)
  \/ \E c \in Connectors : SetSite(c)
  \/ \E v \in Vehicles : SetVehicle(v)

Next ==
  \/ \E p \in Procs : Handle(p) \/ Client(p) \/ Crash(p)
  \/ Operator
  \/ Tick

Spec == Init /\ [][Next]_vars

\* The server keeps running every accepted request, and the database grants
\* row and advisory locks in the order they were asked for, so no waiter is
\* overtaken for ever.
FairSpec == Spec /\ \A p \in Procs : SF_vars(Handle(p))

-----------------------------------------------------------------------------
(* Properties.                                                             *)

\* What a request carries fits the step it is at: rows and clock readings are
\* there when a step uses them, and the reservation or session a request is
\* about does not vanish under it.
RequestsWellFormed ==
  /\ \A r \in Reservations : ses[r] # None => res[r] # None
  /\ \A p \in Procs : pc[p] # "idle" =>
       /\ op[p] \in {"create", "list", "cancel", "reschedule", "activate", "complete"}
       /\ op[p] # "list" => rid[p] \in Reservations
       /\ op[p] = "list" => rid[p] = None /\ pc[p] = "sweep"
       /\ op[p] \notin {"create", "list"} => res[rid[p]] # None
       /\ pc[p] = "sweep" => at[p] \in Int
       /\ op[p] = "complete" => ses[rid[p]] # None /\ pc[p] \in {"session", "row"}
       /\ pc[p] \in {"decide", "write"} /\ op[p] \in {"cancel", "reschedule"} =>
            seen[p] \in Row
       /\ pc[p] \in {"calendars", "check", "write"} => want[p] \in Row
       /\ op[p] \in {"activate", "complete"} /\ pc[p] # "read" => at[p] \in Int

\* A new row belongs to its request alone until it is inserted.
CreatesAreFresh ==
  \A p \in Procs : pc[p] # "idle" /\ op[p] = "create" =>
    /\ res[rid[p]] = None
    /\ \A q \in Procs \ {p} : rid[q] # rid[p]

\* An activation holds its reservation's row from the moment it reads it, and
\* what it read is what the table holds.
ActivationsHoldTheirRow ==
  \A p \in Procs : op[p] = "activate" /\ pc[p] \in {"calendars", "check"} =>
    /\ lock[RowLock(rid[p])] = p
    /\ want[p] = res[rid[p]]

\* A completion holds its session, which is ACTIVE.
CompletionsHoldTheirSession ==
  \A p \in Procs : op[p] = "complete" /\ pc[p] = "row" =>
    /\ lock[SessionLock(rid[p])] = p
    /\ ses[rid[p]].status = "ACTIVE"

\* The statuses a reservation write can have decided on.
DecidedStatuses ==
  \A p \in Procs : pc[p] \in {"calendars", "check", "write"} =>
    /\ op[p] \in {"create", "reschedule"} => want[p].status = "CONFIRMED"
    /\ op[p] = "cancel" => want[p].status \in {"CANCELLED", "LATE_CANCELLED"}

\* Every lock is held for a reason: a row by the activation that read it or by a
\* reconciliation that has come past it, a session by the completion that goes on
\* to its row, a calendar by a booking, a move or an activation.
LocksHaveOwners ==
  \A p \in Procs :
    /\ \A r \in Reservations : lock[RowLock(r)] = p =>
         \/ op[p] = "activate" /\ pc[p] \in {"calendars", "check"} /\ rid[p] = r
         \/ pc[p] = "sweep" /\ r \notin due[p]
    /\ \A r \in Reservations : lock[SessionLock(r)] = p =>
         op[p] = "complete" /\ pc[p] = "row" /\ rid[p] = r
    /\ \A x \in Calendars : lock[CalendarLock(x)] = p =>
         op[p] # "cancel" /\ pc[p] \in {"calendars", "check", "write"}

\* Which operations come to the steps that wait; and whoever still seeks a
\* calendar holds only calendars that come before it.
CalendarsInOrder ==
  \A p \in Procs :
    /\ pc[p] = "session" => op[p] = "complete"
    /\ pc[p] = "calendars" => op[p] # "cancel"
    /\ pc[p] = "write" => op[p] \in {"create", "cancel", "reschedule"}
    /\ pc[p] = "calendars" =>
         \A x \in Calendars : lock[CalendarLock(x)] = p =>
           \A y \in Pending(p) : CalendarRank[x] < CalendarRank[y]

\* The inductive invariant.
LocksProtect ==
  /\ TypeOK
  /\ RequestsWellFormed
  /\ CreatesAreFresh
  /\ ActivationsHoldTheirRow
  /\ CompletionsHoldTheirSession
  /\ DecidedStatuses
  /\ LocksHaveOwners
  /\ CalendarsInOrder

\* Calendar exclusivity: two reservations that hold their interval never share
\* a connector or a vehicle at any instant, although the conflict check and
\* the write are separate statements of concurrent requests.
NoDoubleBooking ==
  \A q, r \in Reservations :
    /\ q # r
    /\ res[q] # None /\ res[r] # None
    /\ res[q].status \in {"CONFIRMED", "ACTIVE"}
    /\ res[r].status \in {"CONFIRMED", "ACTIVE"}
    /\ res[q].connector = res[r].connector \/ res[q].vehicle = res[r].vehicle
    => res[q].end <= res[r].start \/ res[r].end <= res[q].start

\* A vehicle charges in one place and a connector charges one vehicle, even
\* after an operator has declared a charging connector available.
ActiveSessionsExclusive ==
  \A q, r \in Reservations :
    /\ q # r
    /\ ses[q] # None /\ ses[r] # None
    /\ ses[q].status = "ACTIVE" /\ ses[r].status = "ACTIVE"
    => ses[q].vehicle # ses[r].vehicle /\ ses[q].connector # ses[r].connector

\* Atomic activation and completion, seen from the reservation: an ACTIVE
\* reservation has its ACTIVE session and a COMPLETED one its COMPLETED
\* session.  It survives every race of stale reservation writes.
ReservationHasSession ==
  \A r \in Reservations :
    /\ res[r] # None /\ res[r].status = "ACTIVE"
       => ses[r] # None /\ ses[r].status = "ACTIVE"
    /\ res[r] # None /\ res[r].status = "COMPLETED"
       => ses[r] # None /\ ses[r].status = "COMPLETED"

\* Reservation and session agree in both directions, on status, vehicle and
\* connector: a session charges for the reservation that was booked.  Only the
\* unlocked write of a cancellation or a reschedule that reaches the row after it
\* has left CONFIRMED can part them.
SessionAgrees ==
  \A r \in Reservations \ overtaken :
    /\ ses[r] = None => res[r] = None \/ res[r].status \notin {"ACTIVE", "COMPLETED"}
    /\ ses[r] # None => /\ res[r] # None
                        /\ res[r].status = ses[r].status
                        /\ res[r].vehicle = ses[r].vehicle
                        /\ res[r].connector = ses[r].connector

\* A connector shows CHARGING exactly while a session is ACTIVE on it, as long
\* as no operator writes its status by hand.
ChargingIsVisible ==
  \A c \in Connectors :
    conn[c] = "CHARGING" <=>
      \E r \in Reservations :
        ses[r] # None /\ ses[r].status = "ACTIVE" /\ ses[r].connector = c

\* The advisory locks are taken in key order, so requests never deadlock on
\* calendars alone.  Either reconciliations wait for each other, or a cycle
\* joins a reschedule, which holds its calendars and waits for its row, and an
\* activation, which holds its row and waits for calendars: of the same
\* reservation, unless a reconciliation stands between them.
CyclesNeedRowAndCalendar ==
  \A S \in SUBSET Procs : Cycle(S) =>
    \/ \A p \in S : pc[p] = "sweep"
    \/ \E p, q \in S :
         /\ op[p] = "reschedule" /\ pc[p] = "write"
         /\ op[q] = "activate" /\ pc[q] = "calendars"
         /\ rid[p] = rid[q] \/ \E s \in S : pc[s] = "sweep"

\* Sessions are history: a row never disappears, changes vehicle, connector or
\* start, or leaves COMPLETED, even when a stale write has put the reservation
\* back to CONFIRMED and a client activates it a second time.
SessionsAreHistory ==
  [][\A r \in Reservations : ses[r] # None =>
       /\ ses'[r] # None
       /\ ses'[r].vehicle = ses[r].vehicle
       /\ ses'[r].connector = ses[r].connector
       /\ ses'[r].started = ses[r].started
       /\ ses[r].status = "COMPLETED" => ses'[r] = ses[r]]_vars

\* The transitions taken under the row lock start where the lifecycle says,
\* whatever stale writes surround them: ACTIVE and NO_SHOW follow CONFIRMED,
\* COMPLETED follows ACTIVE.
LockedTransitions ==
  [][\A r \in Reservations :
       res'[r] # None /\ (res[r] = None \/ res[r].status # res'[r].status) =>
         /\ res'[r].status \in {"ACTIVE", "NO_SHOW"} =>
              res[r] # None /\ res[r].status = "CONFIRMED"
         /\ res'[r].status = "COMPLETED" =>
              res[r] # None /\ res[r].status = "ACTIVE"]_vars

\* ACTIVE and terminal reservations are out of reach of the API: a terminal row
\* never changes and an ACTIVE row only completes, whatever requests, operators
\* and crashes surround it, until an unlocked write overtakes the row.
FinishedRowsStay ==
  [][\A r \in Reservations \ overtaken' : res[r] # None =>
       /\ res[r].status \in {"COMPLETED", "CANCELLED", "LATE_CANCELLED", "NO_SHOW"} =>
            res'[r] = res[r]
       /\ res[r].status = "ACTIVE" =>
            res'[r] \in {res[r], [res[r] EXCEPT !.status = "COMPLETED"]}]_vars

\* The state the documentation forbids: an ACTIVE session whose reservation is
\* CONFIRMED.
NeverChargingWhileConfirmed ==
  \A r \in Reservations :
    ~(/\ ses[r] # None /\ ses[r].status = "ACTIVE"
      /\ res[r] # None /\ res[r].status = "CONFIRMED")

\* Every accepted request answers: locks, waits and deadlocks do not hold it up
\* for ever.
RequestsEnd == \A p \in Procs : pc[p] # "idle" ~> pc[p] = "idle"

\* The reservations that hold their interval, as the abstract calendar's
\* bookings.
BookingOf(r) ==
  [id |-> r, vehicle |-> res[r].vehicle, connector |-> res[r].connector,
   start |-> res[r].start, end |-> res[r].end]

Held ==
  {BookingOf(r) : r \in {q \in Reservations :
                           res[q] # None /\ res[q].status \in {"CONFIRMED", "ACTIVE"}}}

Calendar == INSTANCE BookingCalendar WITH Ids <- Reservations, booked <- Held

\* The handlers implement the abstract calendar: every commit books or moves one
\* reservation consistently, or only gives bookings up.
CalendarSpec == Calendar!Spec
=============================================================================
