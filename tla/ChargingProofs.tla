---------------------------- MODULE ChargingProofs ----------------------------
(***************************************************************************)
(* Theorems about Charging, for any number of request threads,             *)
(* reservations, vehicles and connectors, any set of instants and any      *)
(* order of the calendar keys.                                             *)
(***************************************************************************)
EXTENDS Charging, FiniteSetTheorems, WellFoundedInduction, TLAPS

\* The instants clients ask for are points of the clock.
LEMMA Instants == Starts \subseteq Int /\ Ends \subseteq Int
BY ChargingAssumption DEF ChargingAssumption

\* A request that goes on to its calendars with a row keeps the types.
LEMMA SeekTypes ==
  ASSUME TypeOK, NEW p \in Procs, NEW row \in Row, SeekCalendars(p, row)
  PROVE  TypeOK'
BY DEF TypeOK, SeekCalendars, Goto, Steps, tables, outside

\* The end of a request leaves the types of every request as they are.
LEMMA FinishTypes ==
  ASSUME TypeOK, NEW p \in Procs, Finish(p)
  PROVE  /\ lock' \in [LockIds -> Procs \cup {None}]
         /\ pc' \in [Procs -> Steps]
         /\ op' \in [Procs -> Operations \cup {None}]
         /\ rid' \in [Procs -> Reservations \cup {None}]
         /\ seen' \in [Procs -> Row \cup {None}]
         /\ want' \in [Procs -> Row \cup {None}]
         /\ at' \in [Procs -> Int \cup {None}]
         /\ due' \in [Procs -> SUBSET Reservations]
BY DEF TypeOK, Finish, Released, Goto, Steps

\* Rows keep their type when reconciliation closes them.
LEMMA ReconcileTypes ==
  ASSUME TypeOK, NEW p \in Procs, Reconcile(p)
  PROVE  TypeOK'
<1> USE DEF TypeOK
<1>1. ASSUME NEW r \in Reservations, OverdueAt(r, at[p])
      PROVE  [res[r] EXCEPT !.status = "NO_SHOW"] \in Row
  BY <1>1 DEF OverdueAt, Row, ReservationStatus
<1>2. res' \in [Reservations -> Row \cup {None}]
  BY <1>1 DEF Reconcile
<1>3. CASE op[p] = "list"
  BY <1>2, <1>3, FinishTypes DEF Reconcile, outside
<1>4. CASE op[p] # "list"
  BY <1>2, <1>4 DEF Reconcile, Released, AfterSweep, Goto, Steps, outside
<1> QED BY <1>3, <1>4

\* A request arrives with its types.
LEMMA BeginTypes ==
  ASSUME TypeOK, NEW p \in Procs, NEW o \in Operations, NEW r \in Reservations \cup {None},
         Begin(p, o, r)
  PROVE  TypeOK'
BY DEF TypeOK, Begin, AfterSweep, Goto, Steps, tables, outside

\* A creation or a reschedule that is not turned down goes on with a CONFIRMED
\* row.
LEMMA DecidedRow ==
  ASSUME TypeOK, RequestsWellFormed, NEW p \in Procs,
         CreateDecides(p) \/ RescheduleDecides(p)
  PROVE  Reject(p) \/ \E row \in Row : row.status = "CONFIRMED" /\ SeekCalendars(p, row)
<1>1. CASE CreateDecides(p)
  <2>1. ASSUME NEW v \in Vehicles, NEW c \in Connectors, NEW s \in Starts, NEW e \in Ends
        PROVE  [vehicle |-> v, connector |-> c, start |-> s, end |-> e,
                status |-> "CONFIRMED"] \in Row
    BY Instants DEF Row, ReservationStatus
  <2> QED BY <1>1, <2>1 DEF CreateDecides
<1>2. CASE RescheduleDecides(p)
  <2>1. seen[p] \in Row
    BY <1>2 DEF RescheduleDecides, RequestsWellFormed, TypeOK
  <2>2. seen[p].start \in Int /\ seen[p].end \in Int
    BY <2>1 DEF Row
  <2>3. ASSUME NEW v \in Vehicles, NEW s \in Starts \cup {seen[p].start},
               NEW e \in Ends \cup {seen[p].end}
        PROVE  /\ Moved(seen[p], v, s, e) \in Row
               /\ Moved(seen[p], v, s, e).status = seen[p].status
    <3>1. s \in Int /\ e \in Int
      BY <2>2, Instants
    <3> QED BY <2>1, <3>1 DEF Moved, Row
  <2> QED BY <1>2, <2>3 DEF RescheduleDecides, MayReschedule
<1> QED BY <1>1, <1>2

\* Every step of the system preserves the types, given that requests carry
\* what their next step uses.
LEMMA TypesPreserved ==
  ASSUME TypeOK, RequestsWellFormed, [Next]_vars
  PROVE  TypeOK'
<1> USE DEF TypeOK
<1>1. ASSUME NEW p \in Procs, Reject(p) PROVE TypeOK'
  BY <1>1, FinishTypes DEF Reject, tables, outside
<1>2. ASSUME NEW p \in Procs, Read(p) PROVE TypeOK'
  BY <1>2 DEF Read, Goto, Steps, tables, outside, RequestsWellFormed
<1>3. ASSUME NEW p \in Procs, CreateDecides(p) \/ RescheduleDecides(p) PROVE TypeOK'
  BY <1>1, <1>3, DecidedRow, SeekTypes
<1>5. ASSUME NEW p \in Procs, CancelDecides(p) PROVE TypeOK'
  <2>1. seen[p] \in Row
    BY <1>5 DEF CancelDecides, RequestsWellFormed
  <2>2. [seen[p] EXCEPT !.status = CancelledStatus(seen[p], now)] \in Row
    BY <2>1 DEF Row, CancelledStatus, ReservationStatus
  <2>3. res[rid[p]] \in Row \cup {None}
    BY <1>5 DEF CancelDecides, RequestsWellFormed
  <2> QED BY <1>1, <1>5, <2>2, <2>3 DEF CancelDecides, Goto, Steps, tables, outside
<1>6. ASSUME NEW p \in Procs, LockCalendar(p) PROVE TypeOK'
  BY <1>6 DEF LockCalendar, Take, Goto, Steps, tables, outside, request
<1>7. ASSUME NEW p \in Procs, CheckConflict(p) PROVE TypeOK'
  <2>1. res[rid[p]] \in Row \cup {None}
    BY <1>7 DEF CheckConflict, RequestsWellFormed
  <2> QED BY <1>1, <1>7, <2>1 DEF CheckConflict, Goto, Steps, tables, outside
<1>8. ASSUME NEW p \in Procs, Insert(p) PROVE TypeOK'
  <2>1. want[p] \in Row
    BY <1>8 DEF Insert, RequestsWellFormed
  <2>2. res' \in [Reservations -> Row \cup {None}]
    BY <1>8, <2>1 DEF Insert
  <2> QED BY <1>8, <2>2, FinishTypes DEF Insert, outside
<1>9. ASSUME NEW p \in Procs, Write(p) PROVE TypeOK'
  <2> DEFINE new == Merged(res[rid[p]], seen[p], want[p])
  <2>1. /\ rid[p] \in Reservations /\ res[rid[p]] \in Row
        /\ seen[p] \in Row /\ want[p] \in Row
    BY <1>9, NoneAssumption DEF Write, RequestsWellFormed
  <2>2. new \in Row
    BY <2>1 DEF Merged, Column, Row
  <2>3. res' \in [Reservations -> Row \cup {None}]
    BY <1>9, <2>1, <2>2 DEF Write
  <2>4. overtaken' \in SUBSET Reservations
    BY <1>9, <2>1 DEF Write
  <2> QED BY <1>9, <2>3, <2>4, FinishTypes DEF Write
<1>10. ASSUME NEW p \in Procs, LockRow(p) PROVE TypeOK'
  <2>1. rid[p] \in Reservations /\ res[rid[p]] \in Row \cup {None}
    BY <1>10 DEF LockRow, RequestsWellFormed
  <2> QED BY <1>10, <2>1 DEF LockRow, Take, Goto, Steps, tables, outside
<1>11. ASSUME NEW p \in Procs, Activate(p) PROVE TypeOK'
  <2>1. rid[p] \in Reservations /\ want[p] \in Row /\ at[p] \in Int
    BY <1>11 DEF Activate, RequestsWellFormed
  <2>2. Started(want[p], at[p]) \in Session
    BY <2>1 DEF Row, Session, Started
  <2>3. Activated(want[p]) \in Row
    BY <2>1 DEF Activated, Row, ReservationStatus
  <2>4. want[p].connector \in Connectors
    BY <2>1 DEF Row
  <2>5. /\ res' \in [Reservations -> Row \cup {None}]
        /\ ses' \in [Reservations -> Session \cup {None}]
        /\ conn' \in [Connectors -> ConnectorStatus]
    BY <1>11, <2>1, <2>2, <2>3, <2>4 DEF Activate, ConnectorStatus, tables
  <2> QED BY <1>11, <2>5, FinishTypes DEF Activate, outside
<1>12. ASSUME NEW p \in Procs, LockSession(p) PROVE TypeOK'
  <2>1. rid[p] \in Reservations
    BY <1>12 DEF LockSession, RequestsWellFormed
  <2> QED BY <1>1, <1>12, <2>1
          DEF LockSession, Take, Goto, Steps, LockIds, tables, outside, request
<1>13. ASSUME NEW p \in Procs, Complete(p) PROVE TypeOK'
  <2>1. /\ rid[p] \in Reservations /\ res[rid[p]] \in Row
        /\ ses[rid[p]] \in Session /\ at[p] \in Int
    BY <1>13, NoneAssumption DEF Complete, RequestsWellFormed
  <2>2. Completed(res[rid[p]]) \in Row
    BY <2>1 DEF Completed, Row, ReservationStatus
  <2>3. Ended(ses[rid[p]], at[p]) \in Session
    BY <2>1 DEF Session, Ended
  <2>4. /\ ses[rid[p]].connector \in Connectors
        /\ Restored(rid[p], ses[rid[p]].connector, at[p]) \in ConnectorStatus
    BY <2>1 DEF Session, Restored, ConnectorStatus
  <2>5. /\ res' \in [Reservations -> Row \cup {None}]
        /\ ses' \in [Reservations -> Session \cup {None}]
        /\ conn' \in [Connectors -> ConnectorStatus]
    BY <1>13, <2>1, <2>2, <2>3, <2>4 DEF Complete, tables
  <2> QED BY <1>13, <2>5, FinishTypes DEF Complete, outside
<1>14. ASSUME NEW p \in Procs, NEW r \in Reservations, NEW o \in Operations, Arrive(p, o, r)
       PROVE  TypeOK'
  BY <1>14, BeginTypes DEF Arrive
<1>15. ASSUME NEW p \in Procs, NEW r \in Reservations, ArriveComplete(p, r) PROVE TypeOK'
  BY <1>15 DEF ArriveComplete, Goto, Steps, Operations, tables, outside
<1>16. ASSUME NEW p \in Procs, ArriveList(p) PROVE TypeOK'
  BY <1>16, BeginTypes DEF ArriveList, Operations
<1>17. CASE Operator
  BY <1>17 DEF Operator, SetConnector, SetSite, SetVehicle, tables, outside, request
<1>18. CASE Tick
  BY <1>18 DEF Tick, tables, outside, request
<1>19. CASE UNCHANGED vars
  BY <1>19 DEF vars
<1>21. ASSUME NEW p \in Procs, LockOverdue(p) PROVE TypeOK'
  BY <1>21 DEF LockOverdue, Take, tables, outside
<1>20. ASSUME NEW p \in Procs, Handle(p) PROVE TypeOK'
  BY <1>20, ReconcileTypes, <1>21, <1>1, <1>2, <1>3, <1>5, <1>6, <1>7, <1>8, <1>9, <1>10,
     <1>11, <1>12, <1>13
     DEF Handle, DeadlockVictim
<1> QED BY <1>1, <1>14, <1>15, <1>16, <1>17, <1>18, <1>19, <1>20 DEF Next, Client, Crash

-----------------------------------------------------------------------------
(* What requests carry.                                                    *)

\* Tables only grow: a row or a session that is there stays there.
LEMMA RowsStay ==
  ASSUME TypeOK, RequestsWellFormed, [Next]_vars, NEW r \in Reservations
  PROVE  /\ res[r] # None => res'[r] # None
         /\ ses[r] # None => ses'[r] # None
         /\ ses'[r] # None => res'[r] # None
<1> USE DEF TypeOK
<1>1. ASSUME NEW p \in Procs, Reject(p)
      PROVE  UNCHANGED <<res, ses>>
  BY <1>1 DEF Reject, tables
<1>2. ASSUME NEW p \in Procs, Reconcile(p)
      PROVE  /\ res[r] # None => res'[r] # None
             /\ ses' = ses
  <2>1. CASE OverdueAt(r, at[p])
    <3>1. [res[r] EXCEPT !.status = "NO_SHOW"] \in Row
      BY <2>1 DEF OverdueAt, Row, ReservationStatus
    <3> QED BY <1>2, <2>1, <3>1, NoneAssumption DEF Reconcile
  <2>2. CASE ~OverdueAt(r, at[p])
    BY <1>2, <2>2 DEF Reconcile
  <2> QED BY <2>1, <2>2
<1>3. ASSUME NEW p \in Procs, Insert(p)
      PROVE  /\ res[r] # None => res'[r] # None
             /\ ses' = ses
  <2>1. want[p] \in Row
    BY <1>3 DEF Insert, RequestsWellFormed
  <2> QED BY <1>3, <2>1, NoneAssumption DEF Insert
<1>4. ASSUME NEW p \in Procs, Write(p)
      PROVE  /\ res[r] # None => res'[r] # None
             /\ ses' = ses
  <2> DEFINE new == Merged(res[rid[p]], seen[p], want[p])
  <2>1. /\ rid[p] \in Reservations /\ res[rid[p]] \in Row
        /\ seen[p] \in Row /\ want[p] \in Row
    BY <1>4, NoneAssumption DEF Write, RequestsWellFormed
  <2>2. new \in Row
    BY <2>1 DEF Merged, Column, Row
  <2> QED BY <1>4, <2>1, <2>2, NoneAssumption DEF Write
<1>5. ASSUME NEW p \in Procs, Activate(p)
      PROVE  /\ res[r] # None => res'[r] # None
             /\ ses[r] # None => ses'[r] # None
             /\ ses'[r] # None => res'[r] # None
  <2>1. rid[p] \in Reservations /\ want[p] \in Row /\ at[p] \in Int
    BY <1>5 DEF Activate, RequestsWellFormed
  <2>2. Started(want[p], at[p]) \in Session
    BY <2>1 DEF Row, Session, Started
  <2>3. Activated(want[p]) \in Row
    BY <2>1 DEF Activated, Row, ReservationStatus
  <2> QED BY <1>5, <2>1, <2>2, <2>3, NoneAssumption
          DEF Activate, tables, RequestsWellFormed
<1>6. ASSUME NEW p \in Procs, Complete(p)
      PROVE  /\ res[r] # None => res'[r] # None
             /\ ses[r] # None => ses'[r] # None
             /\ ses'[r] # None => res'[r] # None
  <2>1. /\ rid[p] \in Reservations /\ res[rid[p]] \in Row
        /\ ses[rid[p]] \in Session /\ at[p] \in Int
    BY <1>6, NoneAssumption DEF Complete, RequestsWellFormed
  <2>2. Completed(res[rid[p]]) \in Row
    BY <2>1 DEF Completed, Row, ReservationStatus
  <2>3. Ended(ses[rid[p]], at[p]) \in Session
    BY <2>1 DEF Session, Ended
  <2> QED BY <1>6, <2>1, <2>2, <2>3, NoneAssumption
          DEF Complete, tables, RequestsWellFormed
<1>7. ASSUME NEW p \in Procs, Handle(p), ~Reconcile(p), ~Insert(p), ~Write(p), ~Activate(p),
             ~Complete(p)
      PROVE  UNCHANGED <<res, ses>>
  BY <1>1, <1>7
     DEF Handle, LockOverdue, Read, CreateDecides, RescheduleDecides, CancelDecides,
         SeekCalendars, LockCalendar, CheckConflict, LockRow, LockSession, DeadlockVictim,
         tables
<1>8. ASSUME NEW p \in Procs, Handle(p)
      PROVE  /\ res[r] # None => res'[r] # None
             /\ ses[r] # None => ses'[r] # None
             /\ ses'[r] # None => res'[r] # None
  BY <1>2, <1>3, <1>4, <1>5, <1>6, <1>7, <1>8 DEF RequestsWellFormed
<1>9. ASSUME NEW p \in Procs, Client(p)
      PROVE  UNCHANGED <<res, ses>>
  BY <1>9 DEF Client, Arrive, ArriveList, Begin, ArriveComplete, tables
<1>11. CASE Operator \/ Tick \/ UNCHANGED vars \/ \E p \in Procs : Crash(p)
  BY <1>1, <1>11 DEF Operator, SetConnector, SetSite, SetVehicle, Tick, Crash, vars, tables,
                     RequestsWellFormed
<1> QED BY <1>8, <1>9, <1>11 DEF Next, RequestsWellFormed

\* Nobody touches the request of another.
LEMMA OthersUntouched ==
  ASSUME TypeOK, NEW p \in Procs, NEW q \in Procs, p # q,
         Handle(p) \/ Client(p) \/ Crash(p)
  PROVE  /\ pc'[q] = pc[q] /\ op'[q] = op[q] /\ rid'[q] = rid[q]
         /\ seen'[q] = seen[q] /\ want'[q] = want[q] /\ at'[q] = at[q]
         /\ due'[q] = due[q]
<1> USE DEF TypeOK
<1>1. Finish(p) => /\ pc'[q] = pc[q] /\ op'[q] = op[q] /\ rid'[q] = rid[q]
                   /\ seen'[q] = seen[q] /\ want'[q] = want[q] /\ at'[q] = at[q]
                   /\ due'[q] = due[q]
  BY DEF Finish, Goto
<1>2. CASE Crash(p)
  BY <1>1, <1>2 DEF Crash, Reject
<1>3. CASE Client(p)
  BY <1>3 DEF Client, Arrive, ArriveList, Begin, ArriveComplete, Goto
<1>4. CASE Handle(p)
  BY <1>1, <1>4
     DEF Handle, LockOverdue, Reconcile, Read, CreateDecides, RescheduleDecides,
         CancelDecides, SeekCalendars, LockCalendar, CheckConflict, Insert, Write, LockRow,
         Activate, LockSession, Complete, DeadlockVictim, Reject, Goto, request
<1> QED BY <1>2, <1>3, <1>4

\* A step that is nobody's request leaves every request and every lock alone.
LEMMA BystandersKeepRequests ==
  ASSUME [Next]_vars, \A p \in Procs : ~(Handle(p) \/ Client(p) \/ Crash(p))
  PROVE  UNCHANGED <<lock, pc, request>>
BY DEF Next, Operator, SetConnector, SetSite, SetVehicle, Tick, vars, request

\* What one request must carry at its step.
WellFormedFor(p) ==
  pc[p] # "idle" =>
    /\ op[p] \in {"create", "list", "cancel", "reschedule", "activate", "complete"}
    /\ op[p] # "list" => rid[p] \in Reservations
    /\ op[p] = "list" => rid[p] = None /\ pc[p] = "sweep"
    /\ op[p] \notin {"create", "list"} => res[rid[p]] # None
    /\ pc[p] = "sweep" => at[p] \in Int
    /\ op[p] = "complete" => ses[rid[p]] # None /\ pc[p] \in {"session", "row"}
    /\ pc[p] \in {"decide", "write"} /\ op[p] \in {"cancel", "reschedule"} => seen[p] \in Row
    /\ pc[p] \in {"calendars", "check", "write"} => want[p] \in Row
    /\ op[p] \in {"activate", "complete"} /\ pc[p] # "read" => at[p] \in Int

LEMMA WellFormedPreserved ==
  ASSUME TypeOK, RequestsWellFormed, [Next]_vars
  PROVE  RequestsWellFormed'
<1> USE DEF TypeOK
<1>1. TypeOK'
  BY TypesPreserved
<1>2. ASSUME NEW q \in Procs,
             pc'[q] = pc[q] /\ op'[q] = op[q] /\ rid'[q] = rid[q]
             /\ seen'[q] = seen[q] /\ want'[q] = want[q] /\ at'[q] = at[q]
      PROVE  WellFormedFor(q)'
  BY <1>2, RowsStay DEF WellFormedFor, RequestsWellFormed
<1>3. ASSUME NEW p \in Procs, Finish(p) PROVE WellFormedFor(p)'
  BY <1>3 DEF Finish, Goto, WellFormedFor
<1>4. ASSUME NEW p \in Procs, Reject(p) PROVE WellFormedFor(p)'
  BY <1>3, <1>4 DEF Reject
<1>5. ASSUME NEW p \in Procs, Client(p) PROVE WellFormedFor(p)'
  <2>1. ASSUME NEW r \in Reservations, NEW o \in Operations, Arrive(p, o, r)
        PROVE  WellFormedFor(p)'
    BY <2>1, RowsStay DEF Arrive, Begin, AfterSweep, Operations, Goto, WellFormedFor
  <2>3. CASE ArriveList(p)
    BY <2>3 DEF ArriveList, Begin, Goto, WellFormedFor, OverdueAt
  <2>2. ASSUME NEW r \in Reservations, ArriveComplete(p, r)
        PROVE  WellFormedFor(p)'
    BY <2>2, RowsStay DEF ArriveComplete, Goto, WellFormedFor, RequestsWellFormed, tables
  <2> QED BY <1>5, <2>1, <2>2, <2>3 DEF Client
<1>6. ASSUME NEW p \in Procs, Handle(p) PROVE WellFormedFor(p)'
  <2>0. WellFormedFor(p)
    BY DEF RequestsWellFormed, WellFormedFor
  <2>9. CASE LockOverdue(p)
    BY <2>0, <2>9 DEF LockOverdue, WellFormedFor, tables
  <2>10. CASE Reconcile(p)
    <3>1. CASE op[p] = "list"
      BY <1>3, <2>10, <3>1 DEF Reconcile
    <3>2. CASE op[p] # "list"
      <4>1. rid[p] \in Reservations /\ pc[p] = "sweep" /\ op[p] # "complete"
        BY <2>0, <2>10, <3>2 DEF Reconcile, WellFormedFor
      <4> QED BY <2>0, <2>10, <3>2, <4>1, RowsStay DEF Reconcile, AfterSweep, Goto,
                                                       WellFormedFor
    <3> QED BY <3>1, <3>2
  <2>1. CASE Read(p)
    <3>1. pc[p] # "idle" /\ rid[p] \in Reservations /\ op[p] # "complete"
      BY <2>0, <2>1 DEF Read, WellFormedFor
    <3> QED BY <2>0, <2>1, <3>1, <1>1 DEF Read, Goto, WellFormedFor, tables
  <2>2. CASE CreateDecides(p) \/ RescheduleDecides(p)
    <3>1. CASE Reject(p)
      BY <3>1, <1>4
    <3>2. ASSUME NEW row \in Row, SeekCalendars(p, row) PROVE WellFormedFor(p)'
      <4>1. op[p] \in {"create", "reschedule"}
        BY <2>2 DEF CreateDecides, RescheduleDecides
      <4> QED BY <2>0, <2>2, <3>2, <4>1
              DEF SeekCalendars, Goto, WellFormedFor, tables, CreateDecides, RescheduleDecides
    <3> QED BY <2>2, <3>1, <3>2, DecidedRow
  <2>3. CASE CancelDecides(p)
    <3>1. seen[p] \in Row /\ rid[p] \in Reservations /\ res[rid[p]] \in Row
      BY <2>0, <2>3, NoneAssumption DEF CancelDecides, WellFormedFor
    <3>2. [seen[p] EXCEPT !.status = CancelledStatus(seen[p], now)] \in Row
      BY <3>1 DEF Row, CancelledStatus, ReservationStatus
    <3> QED BY <1>4, <2>0, <2>3, <3>1, <3>2 DEF CancelDecides, Goto, WellFormedFor, tables
  <2>4. CASE LockCalendar(p)
    BY <2>0, <2>4 DEF LockCalendar, Goto, WellFormedFor, tables, request
  <2>5. CASE CheckConflict(p)
    <3>1. rid[p] \in Reservations /\ (op[p] = "reschedule" => res[rid[p]] \in Row)
      BY <2>0, <2>5 DEF CheckConflict, WellFormedFor
    <3> QED BY <1>4, <2>0, <2>5, <3>1 DEF CheckConflict, Goto, WellFormedFor, tables
  <2>6. CASE LockRow(p)
    <3>1. rid[p] \in Reservations /\ res[rid[p]] \in Row
      BY <2>0, <2>6 DEF LockRow, WellFormedFor
    <3> QED BY <2>0, <2>6, <3>1 DEF LockRow, Goto, WellFormedFor, tables
  <2>7. CASE LockSession(p)
    BY <1>4, <2>0, <2>7 DEF LockSession, Goto, WellFormedFor, tables, request
  <2>8. CASE Insert(p) \/ Write(p) \/ Activate(p) \/ Complete(p) \/ DeadlockVictim(p)
    BY <1>3, <1>4, <2>8 DEF Insert, Write, Activate, Complete, DeadlockVictim
  <2> QED BY <1>6, <2>1, <2>2, <2>3, <2>4, <2>5, <2>6, <2>7, <2>8, <2>9, <2>10 DEF Handle
<1>7. ASSUME NEW q \in Procs PROVE WellFormedFor(q)'
  <2>1. CASE \E p \in Procs : Handle(p) \/ Client(p) \/ Crash(p)
    <3>1. PICK p \in Procs : Handle(p) \/ Client(p) \/ Crash(p)
      BY <2>1
    <3>2. CASE p = q
      BY <1>4, <1>5, <1>6, <3>1, <3>2 DEF Crash
    <3>3. CASE p # q
      BY <1>2, <3>1, <3>3, OthersUntouched
    <3> QED BY <3>2, <3>3
  <2>2. CASE ~\E p \in Procs : Handle(p) \/ Client(p) \/ Crash(p)
    BY <1>2, <2>2, BystandersKeepRequests DEF request
  <2> QED BY <2>1, <2>2
<1>8. \A r \in Reservations : ses'[r] # None => res'[r] # None
  BY RowsStay
<1> QED BY <1>7, <1>8 DEF RequestsWellFormed, WellFormedFor

-----------------------------------------------------------------------------
(* Locks.                                                                  *)

\* Reconciliation touches CONFIRMED rows that it has locked, and turns them into
\* no-shows.
LEMMA ReconcileTouches ==
  ASSUME TypeOK, NEW p \in Procs, Reconcile(p), NEW r \in Reservations
  PROVE  \/ res'[r] = res[r]
         \/ /\ res[r] \in Row /\ res[r].status = "CONFIRMED"
            /\ res'[r] = [res[r] EXCEPT !.status = "NO_SHOW"]
            /\ lock[RowLock(r)] = p
BY DEF TypeOK, Reconcile, OverdueAt, Overdue

\* A handler changes the row and the session of its own reservation only, once it
\* has reconciled.
LEMMA OwnRowOnly ==
  ASSUME TypeOK, NEW p \in Procs, Handle(p), NEW r \in Reservations, r # rid[p]
  PROVE  (res'[r] = res[r] /\ ses'[r] = ses[r]) \/ (Reconcile(p) /\ ses' = ses)
<1> USE DEF TypeOK
<1>1. CASE Insert(p) \/ Write(p)
  BY <1>1 DEF Insert, Write
<1>2. CASE Activate(p)
  BY <1>2 DEF Activate, tables
<1>3. CASE Complete(p)
  BY <1>3 DEF Complete, tables
<1>4. CASE UNCHANGED <<res, ses>>
  BY <1>4
<1>5. \/ Insert(p) \/ Write(p) \/ Activate(p) \/ Complete(p) \/ UNCHANGED <<res, ses>>
      \/ (Reconcile(p) /\ ses' = ses)
  BY DEF Handle, LockOverdue, Reconcile, Read, CreateDecides, RescheduleDecides,
         CancelDecides, SeekCalendars, LockCalendar, CheckConflict, LockRow, LockSession,
         DeadlockVictim, Reject, tables
<1> QED BY <1>1, <1>2, <1>3, <1>4, <1>5

\* Nobody takes away or gives back the lock of another.
LEMMA LocksAreKept ==
  ASSUME TypeOK, NEW p \in Procs, Handle(p) \/ Client(p) \/ Crash(p),
         NEW x \in LockIds, lock[x] \notin {None, p}
  PROVE  lock'[x] = lock[x]
<1> USE DEF TypeOK
<1>1. Finish(p) => lock'[x] = lock[x]
  BY DEF Finish, Released
<1>2. ASSUME NEW y, FreeFor(y, p), Take(y, p)
      PROVE  lock'[x] = lock[x]
  BY <1>2 DEF FreeFor, Take
<1>3. CASE Crash(p)
  BY <1>1, <1>3 DEF Crash, Reject
<1>4. CASE Client(p)
  BY <1>4 DEF Client, Arrive, ArriveList, Begin, ArriveComplete
<1>5. CASE Handle(p)
  BY <1>1, <1>2, <1>5
     DEF Handle, LockOverdue, Reconcile, Released, Read, CreateDecides, RescheduleDecides,
         CancelDecides, SeekCalendars, LockCalendar, CheckConflict, Insert, Write, LockRow,
         Activate, LockSession, Complete, DeadlockVictim, Reject
<1> QED BY <1>3, <1>4, <1>5

\* A new row stays the business of its request.
LEMMA FreshPreserved ==
  ASSUME TypeOK, RequestsWellFormed, CreatesAreFresh, [Next]_vars
  PROVE  CreatesAreFresh'
<1> USE DEF TypeOK
<1> DEFINE Fresh(q) == pc[q] # "idle" /\ op[q] = "create" =>
                         /\ res[rid[q]] = None
                         /\ \A p \in Procs \ {q} : rid[p] # rid[q]
<1>1. SUFFICES ASSUME NEW q \in Procs, pc'[q] # "idle", op'[q] = "create"
               PROVE  /\ res'[rid'[q]] = None
                      /\ \A p \in Procs \ {q} : rid'[p] # rid'[q]
  BY DEF CreatesAreFresh
<1>2. ASSUME NEW p \in Procs, Reconcile(p), NEW r \in Reservations, res[r] = None
      PROVE  res'[r] = None
  BY <1>2, ReconcileTouches, NoneAssumption
<1>3. CASE \E p \in Procs \ {q} : Handle(p) \/ Client(p) \/ Crash(p)
  <2>1. PICK p \in Procs \ {q} : Handle(p) \/ Client(p) \/ Crash(p)
    BY <1>3
  <2>2. /\ pc'[q] = pc[q] /\ op'[q] = op[q] /\ rid'[q] = rid[q]
    BY <2>1, OthersUntouched
  <2>3. /\ rid[q] \in Reservations /\ res[rid[q]] = None
        /\ \A o \in Procs \ {q} : rid[o] # rid[q]
    BY <1>1, <2>2 DEF CreatesAreFresh, RequestsWellFormed
  <2>4. res'[rid[q]] = None
    <3>1. CASE Handle(p)
      BY <1>2, <2>1, <2>3, <3>1, OwnRowOnly
    <3>2. CASE Client(p)
      BY <2>3, <3>2 DEF Client, Arrive, ArriveList, Begin, ArriveComplete, tables
    <3>3. CASE Crash(p)
      BY <2>3, <3>3 DEF Crash, Reject, tables
    <3> QED BY <2>1, <3>1, <3>2, <3>3
  <2>5. rid'[p] # rid[q]
    <3>1. CASE Client(p)
      BY <2>3, <3>1, NoneAssumption
         DEF Client, Arrive, ArriveList, Begin, ArriveComplete, RequestsWellFormed
    <3>2. Finish(p) => rid'[p] = None
      BY DEF Finish
    <3>3. CASE Handle(p) \/ Crash(p)
      <4>1. rid'[p] \in {rid[p], None}
        BY <3>2, <3>3
           DEF Handle, LockOverdue, Reconcile, Read, CreateDecides, RescheduleDecides,
               CancelDecides, SeekCalendars, LockCalendar, CheckConflict, Insert, Write,
               LockRow, Activate, LockSession, Complete, DeadlockVictim, Crash, Reject,
               request
      <4> QED BY <2>1, <2>3, <4>1, NoneAssumption
    <3> QED BY <2>1, <3>1, <3>3
  <2>6. \A o \in Procs \ {p, q} : rid'[o] = rid[o]
    BY <2>1, OthersUntouched
  <2> QED BY <2>2, <2>3, <2>4, <2>5, <2>6
<1>4. CASE Client(q)
  <2>1. PICK r \in Reservations : Arrive(q, "create", r)
    BY <1>1, <1>4 DEF Client, Arrive, ArriveList, Begin, ArriveComplete
  <2>2. rid'[q] = r /\ res'[r] = None /\ \A o \in Procs : rid[o] # r
    BY <2>1 DEF Arrive, Begin, tables
  <2>3. \A o \in Procs \ {q} : rid'[o] = rid[o]
    BY <1>4, OthersUntouched
  <2> QED BY <2>2, <2>3
<1>5. CASE Handle(q) \/ Crash(q)
  <2>1. Finish(q) => pc'[q] = "idle"
    BY DEF Finish, Goto
  <2>2. UNCHANGED <<rid, op>> /\ pc[q] # "idle" /\ (res' = res \/ Reconcile(q))
    BY <1>1, <1>5, <2>1
       DEF Handle, LockOverdue, Reconcile, Read, CreateDecides, RescheduleDecides,
           CancelDecides, SeekCalendars, LockCalendar, CheckConflict, Insert, Write, LockRow,
           Activate, LockSession, Complete, DeadlockVictim, Crash, Reject, tables, request
  <2> QED BY <1>1, <1>2, <2>2 DEF CreatesAreFresh, RequestsWellFormed
<1>6. CASE ~\E p \in Procs : Handle(p) \/ Client(p) \/ Crash(p)
  <2>1. UNCHANGED <<pc, request>>
    BY <1>6, BystandersKeepRequests
  <2>2. rid[q] \in Reservations /\ res[rid[q]] = None
        /\ \A p \in Procs \ {q} : rid[p] # rid[q]
    BY <1>1, <2>1 DEF request, CreatesAreFresh, RequestsWellFormed
  <2>3. res'[rid[q]] = None
    BY <1>6, <2>2
       DEF Next, Operator, SetConnector, SetSite, SetVehicle, Tick, vars, tables
  <2> QED BY <2>1, <2>2, <2>3 DEF request
<1> QED BY <1>3, <1>4, <1>5, <1>6

\* A row another request has locked does not change: every writer waits for the
\* row lock, and a creation writes a row nobody else knows.
LEMMA LockedRowStays ==
  ASSUME TypeOK, RequestsWellFormed, CreatesAreFresh, ActivationsHoldTheirRow,
         NEW q \in Procs, rid[q] \in Reservations, lock[RowLock(rid[q])] = q,
         NEW p \in Procs \ {q}, Handle(p) \/ Client(p) \/ Crash(p)
  PROVE  res'[rid[q]] = res[rid[q]]
<1> USE DEF TypeOK
<1> DEFINE r == rid[q]
<1>1. r \in Reservations /\ lock[RowLock(r)] \notin {None, p}
  BY NoneAssumption DEF RequestsWellFormed
<1>2. CASE Handle(p)
  <2>3. CASE Reconcile(p)
    BY <1>1, <2>3, ReconcileTouches
  <2>1. CASE rid[p] # r
    BY <1>1, <1>2, <2>1, <2>3, OwnRowOnly
  <2>2. CASE rid[p] = r /\ ~Reconcile(p)
    <3>1. ~Write(p) /\ ~Complete(p)
      BY <1>1, <2>2 DEF Write, Complete, FreeFor
    <3>2. ~Activate(p)
      BY <1>1, <2>2 DEF Activate, ActivationsHoldTheirRow
    <3>3. ~Insert(p)
      BY <2>2 DEF Insert, CreatesAreFresh
    <3> QED BY <1>2, <3>1, <3>2, <3>3
            DEF Handle, LockOverdue, Reconcile, Read, CreateDecides, RescheduleDecides,
                CancelDecides, SeekCalendars, LockCalendar, CheckConflict, LockRow,
                LockSession, DeadlockVictim, Reject, tables
  <2> QED BY <2>1, <2>2, <2>3
<1>3. CASE Client(p)
  BY <1>3 DEF Client, Arrive, ArriveList, Begin, ArriveComplete, tables
<1>4. CASE Crash(p)
  BY <1>4 DEF Crash, Reject, tables
<1> QED BY <1>2, <1>3, <1>4

\* An activation keeps its row until it commits.
LEMMA ActivationsPreserved ==
  ASSUME TypeOK, RequestsWellFormed, CreatesAreFresh, ActivationsHoldTheirRow, [Next]_vars
  PROVE  ActivationsHoldTheirRow'
<1> USE DEF TypeOK
<1>1. SUFFICES ASSUME NEW q \in Procs, op'[q] = "activate", pc'[q] \in {"calendars", "check"}
               PROVE  lock'[RowLock(rid'[q])] = q /\ want'[q] = res'[rid'[q]]
  BY DEF ActivationsHoldTheirRow
<1>2. CASE \E p \in Procs \ {q} : Handle(p) \/ Client(p) \/ Crash(p)
  <2>1. PICK p \in Procs \ {q} : Handle(p) \/ Client(p) \/ Crash(p)
    BY <1>2
  <2>2. /\ pc'[q] = pc[q] /\ op'[q] = op[q] /\ rid'[q] = rid[q] /\ want'[q] = want[q]
    BY <2>1, OthersUntouched
  <2>3. /\ rid[q] \in Reservations /\ lock[RowLock(rid[q])] = q
        /\ want[q] = res[rid[q]] /\ pc[q] # "idle"
    BY <1>1, <2>2 DEF ActivationsHoldTheirRow, RequestsWellFormed
  <2>4. res'[rid[q]] = res[rid[q]]
    BY <2>1, <2>3, LockedRowStays
  <2>5. lock'[RowLock(rid[q])] = q
    BY <2>1, <2>3, LocksAreKept, NoneAssumption DEF LockIds
  <2> QED BY <2>2, <2>3, <2>4, <2>5
<1>3. CASE Handle(q) \/ Client(q) \/ Crash(q)
  <2>1. Finish(q) => pc'[q] = "idle"
    BY DEF Finish, Goto
  <2>2. LockRow(q) \/ LockCalendar(q)
    BY <1>1, <1>3, <2>1
       DEF Handle, Client, Crash, LockOverdue, Reconcile, AfterSweep, Read, CreateDecides,
           RescheduleDecides, CancelDecides, SeekCalendars, CheckConflict, Insert, Write,
           Activate, LockSession, Complete, DeadlockVictim, Reject, Arrive, ArriveList,
           Begin, ArriveComplete, Goto, request
  <2>3. CASE LockRow(q)
    <3>1. rid[q] \in Reservations
      BY <2>3 DEF LockRow, RequestsWellFormed
    <3> QED BY <2>3, <3>1 DEF LockRow, Take, LockIds, tables
  <2>4. CASE LockCalendar(q)
    <3>1. /\ rid[q] \in Reservations /\ lock[RowLock(rid[q])] = q /\ want[q] = res[rid[q]]
      BY <1>1, <2>4 DEF LockCalendar, ActivationsHoldTheirRow, RequestsWellFormed, request
    <3>2. lock'[RowLock(rid[q])] = q
      BY <2>4, <3>1 DEF LockCalendar, Take, LockIds
    <3> QED BY <2>4, <3>1, <3>2 DEF LockCalendar, tables, request
  <2> QED BY <2>2, <2>3, <2>4
<1>4. CASE ~\E p \in Procs : Handle(p) \/ Client(p) \/ Crash(p)
  <2>1. UNCHANGED <<lock, pc, request>>
    BY <1>4, BystandersKeepRequests
  <2>2. /\ rid[q] \in Reservations /\ lock[RowLock(rid[q])] = q /\ want[q] = res[rid[q]]
    BY <1>1, <2>1 DEF request, ActivationsHoldTheirRow, RequestsWellFormed
  <2>3. res'[rid[q]] = res[rid[q]]
    BY <1>4
       DEF Next, Operator, SetConnector, SetSite, SetVehicle, Tick, vars, tables
  <2> QED BY <2>1, <2>2, <2>3 DEF request
<1> QED BY <1>2, <1>3, <1>4

\* A completion keeps its session until it commits.
LEMMA CompletionsPreserved ==
  ASSUME TypeOK, RequestsWellFormed, CompletionsHoldTheirSession, [Next]_vars
  PROVE  CompletionsHoldTheirSession'
<1> USE DEF TypeOK
<1>1. SUFFICES ASSUME NEW q \in Procs, op'[q] = "complete", pc'[q] = "row"
               PROVE  lock'[SessionLock(rid'[q])] = q /\ ses'[rid'[q]].status = "ACTIVE"
  BY DEF CompletionsHoldTheirSession
<1>2. CASE \E p \in Procs \ {q} : Handle(p) \/ Client(p) \/ Crash(p)
  <2>1. PICK p \in Procs \ {q} : Handle(p) \/ Client(p) \/ Crash(p)
    BY <1>2
  <2>2. /\ pc'[q] = pc[q] /\ op'[q] = op[q] /\ rid'[q] = rid[q]
    BY <2>1, OthersUntouched
  <2>3. /\ rid[q] \in Reservations /\ lock[SessionLock(rid[q])] = q
        /\ ses[rid[q]].status = "ACTIVE" /\ ses[rid[q]] # None
    BY <1>1, <2>2 DEF CompletionsHoldTheirSession, RequestsWellFormed
  <2>4. ses'[rid[q]] = ses[rid[q]]
    <3>1. CASE Handle(p)
      <4>1. CASE rid[p] # rid[q]
        BY <2>3, <3>1, <4>1, OwnRowOnly
      <4>2. CASE rid[p] = rid[q]
        <5>1. ~Complete(p)
          BY <2>1, <2>3, <4>2 DEF Complete, CompletionsHoldTheirSession
        <5>2. Activate(p) => ses' = ses
          BY <2>3, <4>2 DEF Activate, MayStart, tables
        <5> QED BY <3>1, <5>1, <5>2
                DEF Handle, LockOverdue, Reconcile, Read, CreateDecides, RescheduleDecides,
                    CancelDecides, SeekCalendars, LockCalendar, CheckConflict, Insert, Write,
                    LockRow, LockSession, DeadlockVictim, Reject, tables
      <4> QED BY <4>1, <4>2
    <3>2. CASE Client(p) \/ Crash(p)
      BY <3>2 DEF Client, Arrive, ArriveList, Begin, ArriveComplete, Crash, Reject, tables
    <3> QED BY <2>1, <3>1, <3>2
  <2>5. lock'[SessionLock(rid[q])] = q
    BY <2>1, <2>3, LocksAreKept, NoneAssumption DEF LockIds
  <2> QED BY <2>2, <2>3, <2>4, <2>5
<1>3. CASE Handle(q) \/ Client(q) \/ Crash(q)
  <2>1. Finish(q) => pc'[q] = "idle"
    BY DEF Finish, Goto
  <2>2. LockSession(q) /\ SessionMayEnd(q)
    BY <1>1, <1>3, <2>1
       DEF Handle, Client, Crash, LockOverdue, Reconcile, AfterSweep, Read, CreateDecides,
           RescheduleDecides, CancelDecides, SeekCalendars, LockCalendar, CheckConflict,
           Insert, Write, Activate, LockRow, LockSession, Complete, DeadlockVictim, Reject,
           Arrive, ArriveList, Begin, ArriveComplete, Goto, request
  <2>3. rid[q] \in Reservations
    BY <2>2 DEF LockSession, RequestsWellFormed
  <2> QED BY <2>2, <2>3 DEF LockSession, SessionMayEnd, Take, LockIds, tables, request
<1>4. CASE ~\E p \in Procs : Handle(p) \/ Client(p) \/ Crash(p)
  <2>1. UNCHANGED <<lock, pc, request>>
    BY <1>4, BystandersKeepRequests
  <2>2. UNCHANGED ses
    BY <1>4
       DEF Next, Operator, SetConnector, SetSite, SetVehicle, Tick, vars, tables
  <2> QED BY <1>1, <2>1, <2>2 DEF request, CompletionsHoldTheirSession
<1> QED BY <1>2, <1>3, <1>4

\* Creations and reschedules decide on CONFIRMED rows, cancellations on cancelled
\* ones.
LEMMA DecidedPreserved ==
  ASSUME TypeOK, RequestsWellFormed, DecidedStatuses, [Next]_vars
  PROVE  DecidedStatuses'
<1> USE DEF TypeOK
<1> DEFINE Decided(q) ==
             pc[q] \in {"calendars", "check", "write"} =>
               /\ op[q] \in {"create", "reschedule"} => want[q].status = "CONFIRMED"
               /\ op[q] = "cancel" => want[q].status \in {"CANCELLED", "LATE_CANCELLED"}
<1>1. ASSUME NEW q \in Procs, pc'[q] = pc[q] /\ op'[q] = op[q] /\ want'[q] = want[q]
      PROVE  Decided(q)'
  BY <1>1 DEF DecidedStatuses
<1>2. ASSUME NEW q \in Procs, Finish(q) PROVE Decided(q)'
  BY <1>2 DEF Finish, Goto
<1>3. ASSUME NEW q \in Procs, Handle(q) \/ Client(q) \/ Crash(q) PROVE Decided(q)'
  <2>1. CASE CreateDecides(q) \/ RescheduleDecides(q)
    <3>1. ASSUME NEW row \in Row, row.status = "CONFIRMED", SeekCalendars(q, row)
          PROVE  Decided(q)'
      BY <2>1, <3>1 DEF SeekCalendars, Goto, CreateDecides, RescheduleDecides
    <3> QED BY <1>2, <2>1, <3>1, DecidedRow DEF Reject
  <2>2. CASE CancelDecides(q)
    <3>1. seen[q] \in Row
      BY <2>2 DEF CancelDecides, RequestsWellFormed
    <3>2. [seen[q] EXCEPT !.status = CancelledStatus(seen[q], now)].status
            \in {"CANCELLED", "LATE_CANCELLED"}
      BY <3>1 DEF Row, CancelledStatus
    <3> QED BY <1>2, <2>2, <3>2 DEF CancelDecides, Goto, Reject
  <2>3. CASE LockCalendar(q)
    BY <2>3 DEF LockCalendar, Goto, request, DecidedStatuses
  <2>4. CASE CheckConflict(q)
    BY <1>2, <2>4 DEF CheckConflict, Reject, Goto, DecidedStatuses
  <2>5. CASE LockRow(q)
    BY <2>5 DEF LockRow, Goto
  <2>6. CASE Read(q) \/ LockSession(q) \/ Client(q)
    BY <1>2, <2>6 DEF Read, LockSession, Client, Arrive, ArriveList, Begin, AfterSweep,
                      ArriveComplete, Reject, Goto
  <2>8. CASE LockOverdue(q)
    BY <2>8 DEF LockOverdue
  <2>9. CASE Reconcile(q)
    BY <1>2, <2>9 DEF Reconcile, AfterSweep, Goto
  <2>7. CASE Insert(q) \/ Write(q) \/ Activate(q) \/ Complete(q) \/ DeadlockVictim(q) \/ Crash(q)
    BY <1>2, <2>7 DEF Insert, Write, Activate, Complete, DeadlockVictim, Crash, Reject
  <2> QED BY <1>3, <2>1, <2>2, <2>3, <2>4, <2>5, <2>6, <2>7, <2>8, <2>9 DEF Handle
<1>4. ASSUME NEW q \in Procs PROVE Decided(q)'
  <2>1. CASE \E p \in Procs \ {q} : Handle(p) \/ Client(p) \/ Crash(p)
    BY <1>1, <2>1, OthersUntouched
  <2>2. CASE ~\E p \in Procs : Handle(p) \/ Client(p) \/ Crash(p)
    BY <1>1, <2>2, BystandersKeepRequests DEF request
  <2> QED BY <1>3, <2>1, <2>2
<1> QED BY <1>4 DEF DecidedStatuses

\* A request takes locks for itself only.
LEMMA LocksAreOwn ==
  ASSUME TypeOK, NEW p \in Procs, NEW q \in Procs, p # q,
         Handle(p) \/ Client(p) \/ Crash(p), NEW x \in LockIds
  PROVE  lock'[x] = q <=> lock[x] = q
<1> USE DEF TypeOK
<1>1. Finish(p) => (lock'[x] = q => lock[x] = q)
  BY NoneAssumption DEF Finish, Released
<1>2. ASSUME NEW y, Take(y, p)
      PROVE  lock'[x] = q => lock[x] = q
  BY <1>2 DEF Take
<1>3. CASE Crash(p)
  BY <1>1, <1>3, LocksAreKept, NoneAssumption DEF Crash, Reject
<1>4. CASE Client(p)
  BY <1>4, LocksAreKept, NoneAssumption DEF Client, Arrive, ArriveList, Begin, ArriveComplete
<1>5. CASE Handle(p)
  <2>1. lock'[x] = q => lock[x] = q
    BY <1>1, <1>2, <1>5, NoneAssumption
       DEF Handle, LockOverdue, Reconcile, Released, Read, CreateDecides, RescheduleDecides,
           CancelDecides, SeekCalendars, LockCalendar, CheckConflict, Insert, Write, LockRow,
           Activate, LockSession, Complete, DeadlockVictim, Reject
  <2> QED BY <1>5, <2>1, LocksAreKept, NoneAssumption
<1> QED BY <1>3, <1>4, <1>5

\* The reasons one request holds its locks for, and the order of its calendars.
LocksFor(p) ==
  /\ \A r \in Reservations : lock[RowLock(r)] = p =>
       \/ op[p] = "activate" /\ pc[p] \in {"calendars", "check"} /\ rid[p] = r
       \/ pc[p] = "sweep" /\ r \notin due[p]
  /\ \A r \in Reservations : lock[SessionLock(r)] = p =>
       op[p] = "complete" /\ pc[p] = "row" /\ rid[p] = r
  /\ \A x \in Calendars : lock[CalendarLock(x)] = p =>
       op[p] # "cancel" /\ pc[p] \in {"calendars", "check", "write"}

OrderFor(p) ==
  /\ pc[p] = "session" => op[p] = "complete"
  /\ pc[p] = "calendars" => op[p] # "cancel"
  /\ pc[p] = "write" => op[p] \in {"create", "cancel", "reschedule"}
  /\ pc[p] = "calendars" =>
       \A x \in Calendars : lock[CalendarLock(x)] = p =>
         \A y \in Pending(p) : CalendarRank[x] < CalendarRank[y]

\* The calendars a request waits for are calendars.
LEMMA PendingAreCalendars ==
  ASSUME TypeOK, NEW p \in Procs, want[p] \in Row
  PROVE  Pending(p) \subseteq Calendars
BY DEF Pending, Row, Calendars

\* The three kinds of locks, and the locks of different rows, are different locks.
LEMMA LockKinds ==
  /\ \A r \in Reservations : RowLock(r) \in LockIds /\ SessionLock(r) \in LockIds
  /\ \A x \in Calendars : CalendarLock(x) \in LockIds
  /\ \A r, s \in Reservations : RowLock(r) # SessionLock(s)
  /\ \A r \in Reservations, x \in Calendars :
       RowLock(r) # CalendarLock(x) /\ SessionLock(r) # CalendarLock(x)
  /\ \A r, s \in Reservations : RowLock(r) = RowLock(s) => r = s
  /\ \A r, s \in Reservations : SessionLock(r) = SessionLock(s) => r = s
  /\ \A x, y \in Calendars : CalendarLock(x) = CalendarLock(y) => x = y
BY DEF LockIds, RowLock, SessionLock, CalendarLock

\* A request that has ended holds nothing.
LEMMA EndedHoldsNothing ==
  ASSUME TypeOK, NEW p \in Procs, Finish(p)
  PROVE  LocksFor(p)' /\ OrderFor(p)'
<1>1. \A x \in LockIds : lock'[x] # p
  BY NoneAssumption DEF Finish, Released
<1>2. pc'[p] = "idle"
  BY DEF TypeOK, Finish, Goto
<1> QED BY <1>1, <1>2, LockKinds DEF LocksFor, OrderFor

\* The next calendar a request takes comes after those it has, and before those
\* it still seeks.
LEMMA LockCalendarKeepsOrder ==
  ASSUME TypeOK, RequestsWellFormed, NEW p \in Procs, LocksFor(p), OrderFor(p), LockCalendar(p)
  PROVE  LocksFor(p)' /\ OrderFor(p)'
<1> USE DEF TypeOK
<1>1. pc[p] = "calendars" /\ want[p] \in Row
  BY DEF LockCalendar, RequestsWellFormed
<1>2. PICK x \in Calendars :
        /\ NextCalendar(p, x)
        /\ Take(CalendarLock(x), p)
        /\ Goto(p, IF Pending(p) = {x} THEN "check" ELSE "calendars")
  BY DEF LockCalendar
<1>3. UNCHANGED <<op, rid, want>>
  BY DEF LockCalendar, request
<1>4. \A y \in LockIds : lock'[y] = IF y = CalendarLock(x) THEN p ELSE lock[y]
  BY <1>2, LockKinds DEF Take
<1>5. pc'[p] \in {"calendars", "check"}
  BY <1>2 DEF Goto
<1>6. LocksFor(p)'
  <2>1. ASSUME NEW r \in Reservations
        PROVE  lock'[RowLock(r)] = lock[RowLock(r)] /\ lock'[SessionLock(r)] = lock[SessionLock(r)]
    BY <1>4, <2>1, LockKinds
  <2>2. op[p] # "cancel"
    BY <1>1 DEF OrderFor
  <2>3. ASSUME NEW r \in Reservations, lock'[RowLock(r)] = p
        PROVE  op'[p] = "activate" /\ pc'[p] \in {"calendars", "check"} /\ rid'[p] = r
    BY <1>1, <1>3, <1>5, <2>1, <2>3 DEF LocksFor
  <2>4. ASSUME NEW r \in Reservations, lock'[SessionLock(r)] = p
        PROVE  FALSE
    BY <1>1, <2>1, <2>4 DEF LocksFor
  <2> QED BY <1>3, <1>5, <2>2, <2>3, <2>4 DEF LocksFor
<1>7. OrderFor(p)'
  <2>1. ASSUME NEW y \in Pending(p)'
        PROVE  y \in Pending(p) /\ y # x /\ y \in Calendars
    <3>1. y \in {want[p].vehicle, want[p].connector} /\ lock'[CalendarLock(y)] # p
      BY <1>3, <2>1 DEF Pending
    <3>2. y \in Calendars
      BY <1>1, <3>1 DEF Row, Calendars
    <3> QED BY <1>4, <3>1, <3>2, LockKinds DEF Pending
  <2>2. ASSUME NEW z \in Calendars, lock'[CalendarLock(z)] = p, NEW y \in Pending(p)'
        PROVE  CalendarRank[z] < CalendarRank[y]
    <3>1. y \in Pending(p) /\ y # x /\ y \in Calendars
      BY <2>1
    <3>2. CASE z = x
      <4>1. CalendarRank[x] <= CalendarRank[y]
        BY <1>2, <3>1 DEF NextCalendar
      <4> QED BY <3>1, <3>2, <4>1, ChargingAssumption DEF ChargingAssumption
    <3>3. CASE z # x
      <4>1. lock[CalendarLock(z)] = p
        BY <1>4, <2>2, <3>3, LockKinds
      <4> QED BY <1>1, <3>1, <4>1 DEF OrderFor
    <3> QED BY <3>2, <3>3
  <2> QED BY <1>1, <1>3, <1>5, <2>2 DEF OrderFor
<1> QED BY <1>6, <1>7

\* Every step of a request keeps its locks in order.
LEMMA OwnLocksKept ==
  ASSUME TypeOK, RequestsWellFormed, NEW p \in Procs, LocksFor(p), OrderFor(p),
         Handle(p) \/ Client(p) \/ Crash(p)
  PROVE  LocksFor(p)' /\ OrderFor(p)'
<1> USE DEF TypeOK
<1>1. CASE Finish(p)
  BY <1>1, EndedHoldsNothing
<1>2. CASE LockCalendar(p)
  BY <1>2, LockCalendarKeepsOrder
<1>3. CASE LockRow(p)
  <2>1. rid[p] \in Reservations /\ pc[p] = "row" /\ op[p] = "activate"
    BY <1>3 DEF LockRow, RequestsWellFormed
  <2>2. op'[p] = op[p] /\ rid'[p] = rid[p] /\ pc'[p] = "calendars"
    BY <1>3 DEF LockRow, Goto
  <2>3. \A y \in LockIds : lock'[y] = p => y = RowLock(rid[p]) \/ lock[y] = p
    BY <1>3, <2>1, LockKinds DEF LockRow, Take
  <2>4. \A x \in Calendars : lock'[CalendarLock(x)] # p
    BY <2>1, <2>3, LockKinds DEF LocksFor
  <2>5. \A r \in Reservations : lock'[SessionLock(r)] # p
    BY <2>1, <2>3, LockKinds DEF LocksFor
  <2>6. \A r \in Reservations : lock'[RowLock(r)] = p => r = rid[p]
    BY <2>1, <2>3, LockKinds DEF LocksFor
  <2> QED BY <2>1, <2>2, <2>4, <2>5, <2>6 DEF LocksFor, OrderFor
<1>4. CASE LockSession(p) /\ SessionMayEnd(p)
  <2>1. rid[p] \in Reservations /\ pc[p] = "session" /\ op[p] = "complete"
    BY <1>4 DEF LockSession, RequestsWellFormed, OrderFor
  <2>2. op'[p] = op[p] /\ rid'[p] = rid[p] /\ pc'[p] = "row"
    BY <1>4 DEF LockSession, Goto, request
  <2>3. \A y \in LockIds : lock'[y] = p => y = SessionLock(rid[p]) \/ lock[y] = p
    BY <1>4, <2>1, LockKinds DEF LockSession, Take
  <2>4. \A x \in Calendars : lock'[CalendarLock(x)] # p
    BY <2>1, <2>3, LockKinds DEF LocksFor
  <2>5. \A r \in Reservations : lock'[RowLock(r)] # p
    BY <2>1, <2>3, LockKinds DEF LocksFor
  <2>6. \A r \in Reservations : lock'[SessionLock(r)] = p => r = rid[p]
    BY <2>1, <2>3, LockKinds DEF LocksFor
  <2> QED BY <2>1, <2>2, <2>4, <2>5, <2>6 DEF LocksFor, OrderFor
<1>5. CASE Read(p)
  <2>1. pc[p] = "read" /\ lock' = lock /\ op' = op /\ pc'[p] \in {"row", "decide"}
    BY <1>5 DEF Read, Goto
  <2> QED BY <2>1, LockKinds DEF LocksFor, OrderFor
<1>6. ASSUME NEW row \in Row, SeekCalendars(p, row), CreateDecides(p) \/ RescheduleDecides(p)
      PROVE  LocksFor(p)' /\ OrderFor(p)'
  <2>1. pc[p] = "decide" /\ lock' = lock /\ op' = op /\ op[p] # "cancel" /\ pc'[p] = "calendars"
    BY <1>6 DEF SeekCalendars, Goto, CreateDecides, RescheduleDecides
  <2> QED BY <2>1, LockKinds DEF LocksFor, OrderFor
<1>7. CASE CancelDecides(p) /\ ~Reject(p)
  <2>1. pc[p] = "decide" /\ lock' = lock /\ op' = op /\ op[p] = "cancel" /\ pc'[p] = "write"
    BY <1>7 DEF CancelDecides, Goto
  <2> QED BY <2>1, LockKinds DEF LocksFor, OrderFor
<1>8. CASE CheckConflict(p) /\ ~Reject(p)
  <2>1. /\ pc[p] = "check" /\ lock' = lock /\ op' = op /\ rid' = rid
        /\ op[p] \in {"create", "reschedule"} /\ pc'[p] = "write"
    BY <1>8 DEF CheckConflict, Goto
  <2> QED BY <2>1, LockKinds DEF LocksFor, OrderFor
<1>12. CASE LockOverdue(p)
  <2>1. PICK r \in due[p] : Take(RowLock(r), p) /\ due' = [due EXCEPT ![p] = @ \ {r}]
    BY <1>12 DEF LockOverdue
  <2>2. r \in Reservations /\ pc[p] = "sweep" /\ UNCHANGED <<pc, op>> /\ due'[p] = due[p] \ {r}
    BY <1>12, <2>1 DEF LockOverdue
  <2>3. \A y \in LockIds : lock'[y] = p => y = RowLock(r) \/ lock[y] = p
    BY <2>1, <2>2, LockKinds DEF Take
  <2>4. \A x \in Calendars : lock'[CalendarLock(x)] # p
    BY <2>2, <2>3, LockKinds DEF LocksFor
  <2>5. \A t \in Reservations : lock'[SessionLock(t)] # p
    BY <2>2, <2>3, LockKinds DEF LocksFor
  <2>6. \A t \in Reservations : lock'[RowLock(t)] = p => t \notin due'[p]
    BY <2>2, <2>3, LockKinds DEF LocksFor
  <2> QED BY <2>2, <2>4, <2>5, <2>6 DEF LocksFor, OrderFor
<1>13. CASE Reconcile(p) /\ ~Finish(p)
  <2>1. pc'[p] \in {"decide", "read"} /\ lock' = Released(p)
    BY <1>13 DEF Reconcile, AfterSweep, Goto
  <2>2. \A x \in LockIds : lock'[x] # p
    BY <2>1, NoneAssumption DEF Released
  <2> QED BY <2>1, <2>2, LockKinds DEF LocksFor, OrderFor
<1>9. CASE Client(p)
  <2>1. /\ pc[p] = "idle" /\ lock' = lock /\ pc'[p] \in {"sweep", "decide", "read", "session"}
        /\ pc'[p] = "session" => op'[p] = "complete"
    BY <1>9 DEF Client, Arrive, ArriveList, Begin, AfterSweep, ArriveComplete, Goto
  <2> QED BY <2>1, LockKinds DEF LocksFor, OrderFor
<1>10. CASE Crash(p)
  BY <1>1, <1>10 DEF Crash, Reject
<1>11. CASE Handle(p)
  <2>1. CASE CreateDecides(p) \/ RescheduleDecides(p)
    BY <1>1, <1>6, <2>1, DecidedRow DEF Reject
  <2> QED BY <1>1, <1>2, <1>3, <1>4, <1>5, <1>7, <1>8, <1>11, <1>12, <1>13, <2>1
          DEF Handle, Insert, Write, Activate, LockSession, Complete, DeadlockVictim, Reject
<1> QED BY <1>9, <1>10, <1>11

\* Locks have their owners and calendars their order, whatever requests do.
LEMMA LockOrderPreserved ==
  ASSUME TypeOK, RequestsWellFormed, LocksHaveOwners, CalendarsInOrder, [Next]_vars
  PROVE  LocksHaveOwners' /\ CalendarsInOrder'
<1>1. ASSUME NEW q \in Procs PROVE LocksFor(q) /\ OrderFor(q)
  BY DEF LocksHaveOwners, CalendarsInOrder, LocksFor, OrderFor
<1>2. ASSUME NEW q \in Procs PROVE LocksFor(q)' /\ OrderFor(q)'
  <2>1. CASE Handle(q) \/ Client(q) \/ Crash(q)
    BY <1>1, <2>1, OwnLocksKept
  <2>2. ASSUME /\ \A x \in LockIds : lock'[x] = q <=> lock[x] = q
               /\ pc'[q] = pc[q] /\ op'[q] = op[q] /\ rid'[q] = rid[q] /\ want'[q] = want[q]
               /\ due'[q] = due[q]
        PROVE  LocksFor(q)' /\ OrderFor(q)'
    <3>1. LocksFor(q)'
      BY <1>1, <2>2, LockKinds DEF LocksFor
    <3>2. ASSUME pc[q] = "calendars", NEW y \in Pending(q)' PROVE y \in Pending(q)
      <4>1. y \in Calendars
        BY <2>2, <3>2 DEF Pending, RequestsWellFormed, Row, Calendars
      <4> QED BY <2>2, <3>2, <4>1, LockKinds DEF Pending
    <3> QED BY <1>1, <2>2, <3>1, <3>2, LockKinds DEF OrderFor
  <2>3. CASE \E p \in Procs \ {q} : Handle(p) \/ Client(p) \/ Crash(p)
    <3>1. PICK p \in Procs \ {q} : Handle(p) \/ Client(p) \/ Crash(p)
      BY <2>3
    <3>2. \A x \in LockIds : lock'[x] = q <=> lock[x] = q
      BY <3>1, LocksAreOwn
    <3> QED BY <2>2, <3>1, <3>2, OthersUntouched
  <2>4. CASE ~\E p \in Procs : Handle(p) \/ Client(p) \/ Crash(p)
    BY <2>2, <2>4, BystandersKeepRequests DEF request
  <2> QED BY <2>1, <2>3, <2>4
<1> QED BY <1>2 DEF LocksHaveOwners, CalendarsInOrder, LocksFor, OrderFor

\* The initial state satisfies the inductive invariant.
LEMMA InitProtects ==
  ASSUME Init PROVE LocksProtect
<1>1. TypeOK
  BY DEF Init, TypeOK, Steps, ConnectorStatus
<1>2. \A p \in Procs : pc[p] = "idle" /\ \A x \in LockIds : lock[x] # p
  BY NoneAssumption DEF Init
<1>3. LocksHaveOwners /\ CalendarsInOrder
  BY <1>2, LockKinds DEF LocksHaveOwners, CalendarsInOrder
<1> QED BY <1>1, <1>3
        DEF Init, LocksProtect, RequestsWellFormed, CreatesAreFresh, ActivationsHoldTheirRow,
            CompletionsHoldTheirSession, DecidedStatuses

\* Row and session locks protect what requests have read under them: the inductive
\* invariant of the charging core.
THEOREM LocksProtectAlways == Spec => []LocksProtect
<1>1. LocksProtect /\ [Next]_vars => LocksProtect'
  BY TypesPreserved, WellFormedPreserved, FreshPreserved, ActivationsPreserved,
     CompletionsPreserved, DecidedPreserved, LockOrderPreserved
     DEF LocksProtect
<1> QED BY <1>1, InitProtects, PTL DEF Spec

\* Every variable keeps its type.
THEOREM TypeCorrect == Spec => []TypeOK
BY LocksProtectAlways, PTL DEF LocksProtect

-----------------------------------------------------------------------------
(* Safety.                                                                 *)

\* How a step changes a reservation row: it appears, it is written over by a
\* cancellation or a reschedule, it is activated, completed, or closed as a
\* no-show.  A writer that makes a row hold an interval has passed the exclusion
\* constraints.
LEMMA RowChanges ==
  ASSUME LocksProtect, [Next]_vars, NEW r \in Reservations, res'[r] # res[r]
  PROVE  \/ /\ res'[r] \in Row /\ Admits(r, res'[r])
            /\ \A q \in Reservations \ {r} : res'[q] = res[q]
            /\ \/ res'[r].status \in {"CONFIRMED", "CANCELLED", "LATE_CANCELLED"}
               \/ res[r] # None /\ res'[r].status = res[r].status
            /\ \/ res[r] = None /\ res'[r].status = "CONFIRMED"
               \/ res[r] \in Row /\ res[r].status = "CONFIRMED"
               \/ r \in overtaken'
            /\ ses' = ses
         \/ /\ res[r] \in Row /\ res[r].status = "CONFIRMED" /\ res'[r] = Activated(res[r])
            /\ \A q \in Reservations \ {r} : res'[q] = res[q]
            /\ ses'[r] # None /\ ses'[r].status = "ACTIVE"
         \/ /\ res[r] \in Row /\ res[r].status = "ACTIVE" /\ res'[r] = Completed(res[r])
            /\ \A q \in Reservations \ {r} : res'[q] = res[q]
            /\ ses'[r] # None /\ ses'[r].status = "COMPLETED"
         \/ /\ \E p \in Procs : Reconcile(p)
            /\ ses' = ses
            /\ res[r] \in Row /\ res[r].status = "CONFIRMED"
            /\ res'[r] = [res[r] EXCEPT !.status = "NO_SHOW"]
<1> USE DEF LocksProtect, TypeOK
<1>1. ASSUME NEW p \in Procs, Reconcile(p)
      PROVE  /\ ses' = ses
             /\ res[r] \in Row /\ res[r].status = "CONFIRMED"
             /\ res'[r] = [res[r] EXCEPT !.status = "NO_SHOW"]
  BY <1>1, ReconcileTouches DEF Reconcile
<1>2. ASSUME NEW p \in Procs, Handle(p), ~Reconcile(p)
      PROVE  /\ rid[p] = r
             /\ \A q \in Reservations \ {r} : res'[q] = res[q]
             /\ Insert(p) \/ Write(p) \/ Activate(p) \/ Complete(p)
  <2>1. rid[p] = r
    BY <1>2, OwnRowOnly
  <2>2. Insert(p) \/ Write(p) \/ Activate(p) \/ Complete(p)
    BY <1>2 DEF Handle, LockOverdue, Read, CreateDecides, RescheduleDecides, CancelDecides,
                SeekCalendars, LockCalendar, CheckConflict, LockRow, LockSession,
                DeadlockVictim, Reject, tables
  <2> QED BY <1>2, <2>1, <2>2, OwnRowOnly
<1>3. ASSUME NEW p \in Procs, Insert(p), rid[p] = r
      PROVE  /\ res'[r] \in Row /\ Admits(r, res'[r]) /\ ses' = ses
             /\ res'[r].status = "CONFIRMED" /\ res[r] = None
  <2>1. want[p] \in Row /\ want[p].status = "CONFIRMED"
    BY <1>3 DEF Insert, RequestsWellFormed, DecidedStatuses
  <2>2. Admits(r, want[p]) /\ res'[r] = want[p] /\ ses' = ses /\ res[r] = None
    BY <1>3 DEF Insert, CreatesAreFresh
  <2> QED BY <2>1, <2>2
<1>4. ASSUME NEW p \in Procs, Write(p), rid[p] = r
      PROVE  /\ res'[r] \in Row /\ Admits(r, res'[r]) /\ ses' = ses
             /\ \/ res'[r].status \in {"CONFIRMED", "CANCELLED", "LATE_CANCELLED"}
                \/ res[r] # None /\ res'[r].status = res[r].status
             /\ \/ res[r] \in Row /\ res[r].status = "CONFIRMED"
                \/ r \in overtaken'
  <2> DEFINE new == Merged(res[r], seen[p], want[p])
  <2>1. res[r] \in Row /\ seen[p] \in Row /\ want[p] \in Row
    BY <1>4, NoneAssumption DEF Write, RequestsWellFormed
  <2>2. new \in Row /\ new.status \in {want[p].status, res[r].status}
    BY <2>1 DEF Merged, Column, Row
  <2>3. want[p].status \in {"CONFIRMED", "CANCELLED", "LATE_CANCELLED"}
    BY <1>4 DEF Write, DecidedStatuses
  <2>4. Admits(r, new) /\ res'[r] = new /\ ses' = ses
    BY <1>4 DEF Write
  <2>5. \/ new.status \in {"CONFIRMED", "CANCELLED", "LATE_CANCELLED"}
        \/ new.status = res[r].status
    BY <2>2, <2>3
  <2>6. res[r] # None
    BY <2>1, NoneAssumption
  <2>7. res[r].status = "CONFIRMED" \/ r \in overtaken'
    BY <1>4 DEF Write
  <2> HIDE DEF new
  <2> QED BY <2>1, <2>2, <2>4, <2>5, <2>6, <2>7
<1>5. ASSUME NEW p \in Procs, Activate(p), rid[p] = r
      PROVE  /\ res[r] \in Row /\ res[r].status = "CONFIRMED" /\ res'[r] = Activated(res[r])
             /\ ses'[r] # None /\ ses'[r].status = "ACTIVE"
  <2>1. want[p] \in Row /\ want[p] = res[r] /\ at[p] \in Int
    BY <1>5 DEF Activate, RequestsWellFormed, ActivationsHoldTheirRow
  <2>2. MayStart(p) /\ res'[r] = Activated(want[p]) /\ ses'[r] = Started(want[p], at[p])
    BY <1>5 DEF Activate, tables
  <2>3. Started(want[p], at[p]) \in Session /\ Started(want[p], at[p]).status = "ACTIVE"
    BY <2>1 DEF Row, Session, Started
  <2>4. want[p].status = "CONFIRMED"
    BY <2>2 DEF MayStart, MayActivate
  <2> QED BY <2>1, <2>2, <2>3, <2>4, NoneAssumption
<1>6. ASSUME NEW p \in Procs, Complete(p), rid[p] = r
      PROVE  /\ res[r] \in Row /\ res[r].status = "ACTIVE" /\ res'[r] = Completed(res[r])
             /\ ses'[r] # None /\ ses'[r].status = "COMPLETED"
  <2>1. res[r] \in Row /\ ses[r] \in Session /\ at[p] \in Int
    BY <1>6, NoneAssumption DEF Complete, RequestsWellFormed
  <2>2. res[r].status = "ACTIVE" /\ res'[r] = Completed(res[r]) /\ ses'[r] = Ended(ses[r], at[p])
    BY <1>6 DEF Complete, tables
  <2>3. Ended(ses[r], at[p]) \in Session /\ Ended(ses[r], at[p]).status = "COMPLETED"
    BY <2>1 DEF Session, Ended
  <2> QED BY <2>1, <2>2, <2>3, NoneAssumption
<1>7. CASE \E p \in Procs : Handle(p)
  <2>1. PICK p \in Procs : Handle(p)
    BY <1>7
  <2>7. CASE Reconcile(p)
    BY <1>1, <2>7
  <2>2. \/ /\ rid[p] = r
           /\ \A q \in Reservations \ {r} : res'[q] = res[q]
           /\ Insert(p) \/ Write(p) \/ Activate(p) \/ Complete(p)
        \/ Reconcile(p)
    BY <1>2, <2>1
  <2>3. CASE Insert(p) /\ ~Reconcile(p)
    BY <1>3, <2>2, <2>3
  <2>4. CASE Write(p) /\ ~Reconcile(p)
    BY <1>4, <2>2, <2>4
  <2>5. CASE Activate(p) /\ ~Reconcile(p)
    BY <1>5, <2>2, <2>5
  <2>6. CASE Complete(p) /\ ~Reconcile(p)
    BY <1>6, <2>2, <2>6
  <2> QED BY <2>2, <2>3, <2>4, <2>5, <2>6, <2>7
<1>9. CASE \E p \in Procs : Client(p)
  BY <1>9 DEF Client, Arrive, ArriveList, Begin, ArriveComplete, tables
<1>10. CASE Operator \/ Tick \/ UNCHANGED vars \/ \E p \in Procs : Crash(p)
  BY <1>10 DEF Operator, SetConnector, SetSite, SetVehicle, Tick, Crash, Reject, vars, tables
<1> QED BY <1>7, <1>9, <1>10 DEF Next

\* Two rows hold compatible intervals unless one of them stands in the way of the
\* other; the relation is symmetric.
LEMMA ConflictsSymmetric ==
  ASSUME NEW a \in Row, NEW b \in Row, Blocking(a), Conflicts(b, a)
  PROVE  Blocking(b) => Conflicts(a, b)
BY DEF Conflicts, SameCalendar, Overlap

\* The compatibility of two rows depends on who holds an interval, where and when.
Compatible(q, r) ==
  res[q] # None /\ res[r] # None /\ Blocking(res[q]) => ~Conflicts(res[q], res[r])

\* Calendar exclusivity as the exclusion constraints state it.
NoClash == \A q, r \in Reservations : q # r => Compatible(q, r)

\* A step leaves a row that holds an interval where it was, or has had it admitted
\* by the exclusion constraints while every other row stayed.
LEMMA BlockingChanges ==
  ASSUME LocksProtect, [Next]_vars, NEW r \in Reservations
  PROVE  \/ /\ res'[r] \in Row /\ Admits(r, res'[r])
            /\ \A q \in Reservations \ {r} : res'[q] = res[q]
         \/ res'[r] # None /\ Blocking(res'[r]) =>
              /\ res[r] \in Row /\ Blocking(res[r]) /\ res'[r] \in Row
              /\ res'[r].vehicle = res[r].vehicle
              /\ res'[r].connector = res[r].connector
              /\ res'[r].start = res[r].start /\ res'[r].end = res[r].end
<1> USE DEF BlockingStatuses
<1>1. CASE res'[r] = res[r]
  BY <1>1 DEF LocksProtect, TypeOK
<1>2. CASE res'[r] # res[r]
  <2>1. ASSUME res[r] \in Row, res[r].status = "CONFIRMED"
        PROVE  ~Blocking([res[r] EXCEPT !.status = "NO_SHOW"])
    BY <2>1 DEF Blocking, Row
  <2>2. ASSUME res[r] \in Row
        PROVE  ~Blocking(Completed(res[r]))
    BY <2>2 DEF Blocking, Row, Completed
  <2>3. ASSUME res[r] \in Row, res[r].status = "CONFIRMED"
        PROVE  /\ Blocking(res[r]) /\ Activated(res[r]) \in Row
               /\ Activated(res[r]).vehicle = res[r].vehicle
               /\ Activated(res[r]).connector = res[r].connector
               /\ Activated(res[r]).start = res[r].start
               /\ Activated(res[r]).end = res[r].end
    BY <2>3 DEF Blocking, Row, Activated, ReservationStatus
  <2> QED BY <1>2, <2>1, <2>2, <2>3, RowChanges
<1> QED BY <1>1, <1>2

\* No step makes two held intervals meet: a write that blocks has been admitted,
\* an activation keeps the interval it found under its row lock, and every other
\* change only gives an interval up.
LEMMA NoClashPreserved ==
  ASSUME LocksProtect, NoClash, [Next]_vars
  PROVE  NoClash'
<1>2. SUFFICES ASSUME NEW q \in Reservations, NEW r \in Reservations, q # r,
                      res'[q] # None, res'[r] # None, Blocking(res'[q]), Conflicts(res'[q],
                      res'[r])
               PROVE  FALSE
  BY DEF NoClash, Compatible
<1>3. res'[q] \in Row /\ res'[r] \in Row /\ Blocking(res'[r])
  <2>1. TypeOK'
    BY TypesPreserved DEF LocksProtect
  <2> QED BY <1>2, <2>1 DEF TypeOK, Conflicts
<1>4. ASSUME NEW s \in Reservations, NEW t \in Reservations, s # t,
             res'[s] \in Row, Admits(s, res'[s]), Blocking(res'[s]),
             res'[t] = res[t], res'[t] # None
      PROVE  ~Conflicts(res'[s], res'[t])
  BY <1>4 DEF Admits, Clash
<1>5. CASE Admits(q, res'[q]) /\ \A t \in Reservations \ {q} : res'[t] = res[t]
  BY <1>2, <1>3, <1>4, <1>5
<1>6. CASE Admits(r, res'[r]) /\ \A t \in Reservations \ {r} : res'[t] = res[t]
  <2>1. ~Conflicts(res'[r], res'[q])
    BY <1>2, <1>3, <1>4, <1>6
  <2> QED BY <1>2, <1>3, <2>1, ConflictsSymmetric
<1>7. CASE /\ ~(Admits(q, res'[q]) /\ \A t \in Reservations \ {q} : res'[t] = res[t])
           /\ ~(Admits(r, res'[r]) /\ \A t \in Reservations \ {r} : res'[t] = res[t])
  <2>1. /\ res[q] \in Row /\ Blocking(res[q]) /\ res'[q].vehicle = res[q].vehicle
        /\ res'[q].connector = res[q].connector
        /\ res'[q].start = res[q].start /\ res'[q].end = res[q].end
    BY <1>2, <1>3, <1>7, BlockingChanges
  <2>2. /\ res[r] \in Row /\ Blocking(res[r]) /\ res'[r].vehicle = res[r].vehicle
        /\ res'[r].connector = res[r].connector
        /\ res'[r].start = res[r].start /\ res'[r].end = res[r].end
    BY <1>2, <1>3, <1>7, BlockingChanges
  <2>3. Conflicts(res[q], res[r])
    BY <1>2, <2>1, <2>2 DEF Conflicts, SameCalendar, Overlap
  <2> QED BY <1>2, <2>1, <2>2, <2>3, NoneAssumption DEF NoClash, Compatible
<1> QED BY <1>5, <1>6, <1>7

\* Calendar exclusivity holds in every reachable state, for any number of
\* concurrent requests: the advisory locks are not needed for it, the exclusion
\* constraints and the row lock of the activation are.
THEOREM NoDoubleBookingAlways == Spec => []NoDoubleBooking
<1>1. Init => NoClash
  BY DEF Init, NoClash, Compatible
<1>2. LocksProtect /\ NoClash /\ [Next]_vars => NoClash'
  BY NoClashPreserved
<1>3. LocksProtect /\ NoClash => NoDoubleBooking
  <2>1. ASSUME NEW a \in Row, NEW b \in Row
        PROVE  a.start \in Int /\ a.end \in Int /\ b.start \in Int /\ b.end \in Int
    BY DEF Row
  <2> QED BY <2>1 DEF LocksProtect, TypeOK, NoClash, Compatible, Conflicts, Blocking,
                      BlockingStatuses, SameCalendar, Overlap, NoDoubleBooking
<1> QED BY <1>1, <1>2, <1>3, LocksProtectAlways, PTL DEF Spec

\* How a step changes a session: it starts with the activation of its reservation,
\* on a vehicle and a connector no ACTIVE session uses, or it ends with its
\* completion.
LEMMA SessionChanges ==
  ASSUME LocksProtect, [Next]_vars, NEW r \in Reservations, ses'[r] # ses[r]
  PROVE  /\ \A q \in Reservations \ {r} : ses'[q] = ses[q]
         /\ \/ /\ ses[r] = None /\ ses'[r] \in Session /\ ses'[r].status = "ACTIVE"
               /\ NoActiveSession(ses'[r].vehicle, ses'[r].connector)
               /\ res'[r].status = "ACTIVE" /\ res'[r] # None
               /\ res'[r].vehicle = ses'[r].vehicle /\ res'[r].connector = ses'[r].connector
            \/ /\ ses[r] \in Session /\ ses[r].status = "ACTIVE"
               /\ ses'[r] \in Session /\ ses'[r].status = "COMPLETED"
               /\ ses'[r].vehicle = ses[r].vehicle /\ ses'[r].connector = ses[r].connector
               /\ ses'[r].started = ses[r].started
               /\ res'[r].status = "COMPLETED" /\ res'[r] # None
               /\ res[r] \in Row /\ res'[r].vehicle = res[r].vehicle
               /\ res'[r].connector = res[r].connector
<1> USE DEF LocksProtect, TypeOK
<1>1. \E p \in Procs : Activate(p) \/ Complete(p)
  BY DEF Next, Handle, Client, Operator, LockOverdue, Reconcile, Read, CreateDecides,
         RescheduleDecides, CancelDecides, SeekCalendars, LockCalendar, CheckConflict,
         Insert, Write, LockRow, LockSession, DeadlockVictim, Crash, Reject, Arrive,
         ArriveList, Begin, ArriveComplete, SetConnector, SetSite, SetVehicle, Tick, tables,
         vars
<1>2. PICK p \in Procs : Activate(p) \/ Complete(p)
  BY <1>1
<1>3. rid[p] = r /\ \A q \in Reservations \ {r} : ses'[q] = ses[q]
  BY <1>2, OwnRowOnly DEF Handle
<1>4. CASE Activate(p)
  <2>1. want[p] \in Row /\ at[p] \in Int
    BY <1>4 DEF Activate, RequestsWellFormed
  <2>2. /\ MayStart(p) /\ res'[r] = Activated(want[p]) /\ ses'[r] = Started(want[p], at[p])
        /\ ses[r] = None
    BY <1>3, <1>4 DEF Activate, MayStart, tables
  <2>3. /\ Started(want[p], at[p]) \in Session
        /\ Started(want[p], at[p]).status = "ACTIVE"
        /\ Started(want[p], at[p]).vehicle = want[p].vehicle
        /\ Started(want[p], at[p]).connector = want[p].connector
        /\ Activated(want[p]).status = "ACTIVE"
        /\ Activated(want[p]).vehicle = want[p].vehicle
        /\ Activated(want[p]).connector = want[p].connector
        /\ Activated(want[p]) \in Row
    BY <2>1 DEF Row, Session, Started, Activated, ReservationStatus
  <2>4. NoActiveSession(want[p].vehicle, want[p].connector)
    BY <2>2 DEF MayStart
  <2> QED BY <1>3, <2>2, <2>3, <2>4, NoneAssumption
<1>5. CASE Complete(p)
  <2>1. res[r] \in Row /\ ses[r] \in Session /\ ses[r].status = "ACTIVE" /\ at[p] \in Int
    BY <1>3, <1>5, NoneAssumption DEF Complete, RequestsWellFormed, CompletionsHoldTheirSession
  <2>2. res'[r] = Completed(res[r]) /\ ses'[r] = Ended(ses[r], at[p])
    BY <1>3, <1>5 DEF Complete, tables
  <2>3. /\ Ended(ses[r], at[p]) \in Session
        /\ Ended(ses[r], at[p]).status = "COMPLETED"
        /\ Ended(ses[r], at[p]).vehicle = ses[r].vehicle
        /\ Ended(ses[r], at[p]).connector = ses[r].connector
        /\ Ended(ses[r], at[p]).started = ses[r].started
        /\ Completed(res[r]).status = "COMPLETED"
        /\ Completed(res[r]).vehicle = res[r].vehicle
        /\ Completed(res[r]).connector = res[r].connector
        /\ Completed(res[r]) \in Row
    BY <2>1 DEF Session, Ended, Row, Completed, ReservationStatus
  <2> QED BY <1>3, <2>1, <2>2, <2>3, NoneAssumption
<1> QED BY <1>2, <1>4, <1>5

\* No vehicle and no connector ever charges twice, for any number of requests and
\* whatever an operator does to connector statuses.
THEOREM ActiveSessionsExclusiveAlways == Spec => []ActiveSessionsExclusive
<1>1. Init => ActiveSessionsExclusive
  BY DEF Init, ActiveSessionsExclusive
<1>2. ASSUME LocksProtect, ActiveSessionsExclusive, [Next]_vars
      PROVE  ActiveSessionsExclusive'
  <2>1. SUFFICES ASSUME NEW q \in Reservations, NEW r \in Reservations, q # r,
                        ses'[q] # None, ses'[r] # None,
                        ses'[q].status = "ACTIVE", ses'[r].status = "ACTIVE"
                 PROVE  ses'[q].vehicle # ses'[r].vehicle /\ ses'[q].connector # ses'[r].connector
    BY DEF ActiveSessionsExclusive
  <2>2. CASE ses'[q] = ses[q] /\ ses'[r] = ses[r]
    BY <1>2, <2>1, <2>2 DEF ActiveSessionsExclusive
  <2>3. CASE ses'[q] # ses[q]
    <3>1. ses'[r] = ses[r] /\ NoActiveSession(ses'[q].vehicle, ses'[q].connector)
      BY <1>2, <2>1, <2>3, SessionChanges
    <3> QED BY <2>1, <3>1 DEF NoActiveSession
  <2>4. CASE ses'[r] # ses[r]
    <3>1. ses'[q] = ses[q] /\ NoActiveSession(ses'[r].vehicle, ses'[r].connector)
      BY <1>2, <2>1, <2>4, SessionChanges
    <3> QED BY <2>1, <3>1 DEF NoActiveSession
  <2> QED BY <2>2, <2>3, <2>4
<1> QED BY <1>1, <1>2, LocksProtectAlways, PTL DEF Spec

\* Connectors and sessions change together, unless an operator writes a status.
LEMMA ConnectorChanges ==
  ASSUME LocksProtect, [Next]_vars,
         ~\E c \in Connectors, s \in ConnectorStatus : SetConnector(c, s)
  PROVE  \/ UNCHANGED <<ses, conn>>
         \/ \E r \in Reservations :
              /\ \A q \in Reservations \ {r} : ses'[q] = ses[q]
              /\ ses[r] = None /\ ses'[r] # None /\ ses'[r].status = "ACTIVE"
              /\ conn[ses'[r].connector] # "CHARGING"
              /\ conn' = [conn EXCEPT ![ses'[r].connector] = "CHARGING"]
         \/ \E r \in Reservations :
              /\ \A q \in Reservations \ {r} : ses'[q] = ses[q]
              /\ ses[r] # None /\ ses[r].status = "ACTIVE"
              /\ ses'[r] # None /\ ses'[r].status = "COMPLETED"
              /\ \E s \in ConnectorStatus \ {"CHARGING"} :
                   conn' = [conn EXCEPT ![ses[r].connector] = s]
<1> USE DEF LocksProtect, TypeOK
<1>1. ASSUME NEW p \in Procs, Activate(p), MayStart(p)
      PROVE  \E r \in Reservations :
              /\ \A q \in Reservations \ {r} : ses'[q] = ses[q]
              /\ ses[r] = None /\ ses'[r] # None /\ ses'[r].status = "ACTIVE"
              /\ conn[ses'[r].connector] # "CHARGING"
              /\ conn' = [conn EXCEPT ![ses'[r].connector] = "CHARGING"]
  <2>1. rid[p] \in Reservations /\ want[p] \in Row /\ at[p] \in Int
    BY <1>1 DEF Activate, RequestsWellFormed
  <2>2. /\ Started(want[p], at[p]) \in Session
        /\ Started(want[p], at[p]).status = "ACTIVE"
        /\ Started(want[p], at[p]).connector = want[p].connector
    BY <2>1 DEF Row, Session, Started
  <2>3. /\ ses' = [ses EXCEPT ![rid[p]] = Started(want[p], at[p])]
        /\ conn' = [conn EXCEPT ![want[p].connector] = "CHARGING"]
        /\ ses[rid[p]] = None /\ conn[want[p].connector] # "CHARGING"
    BY <1>1 DEF Activate, MayStart
  <2>4. ses'[rid[p]] = Started(want[p], at[p])
    BY <2>1, <2>3
  <2>5. \A q \in Reservations \ {rid[p]} : ses'[q] = ses[q]
    BY <2>3
  <2> QED BY <2>1, <2>2, <2>3, <2>4, <2>5, NoneAssumption
<1>2. ASSUME NEW p \in Procs, Complete(p), res[rid[p]].status = "ACTIVE"
      PROVE  \E r \in Reservations :
              /\ \A q \in Reservations \ {r} : ses'[q] = ses[q]
              /\ ses[r] # None /\ ses[r].status = "ACTIVE"
              /\ ses'[r] # None /\ ses'[r].status = "COMPLETED"
              /\ \E s \in ConnectorStatus \ {"CHARGING"} :
                   conn' = [conn EXCEPT ![ses[r].connector] = s]
  <2> DEFINE r == rid[p]
  <2>1. /\ r \in Reservations /\ ses[r] \in Session /\ ses[r].status = "ACTIVE" /\ ses[r] # None
        /\ at[p] \in Int
    BY <1>2, NoneAssumption DEF Complete, RequestsWellFormed, CompletionsHoldTheirSession
  <2>2. Ended(ses[r], at[p]) \in Session /\ Ended(ses[r], at[p]).status = "COMPLETED"
    BY <2>1 DEF Session, Ended
  <2>3. /\ ses' = [ses EXCEPT ![r] = Ended(ses[r], at[p])]
        /\ conn' = [conn EXCEPT ![ses[r].connector] = Restored(r, ses[r].connector, at[p])]
    BY <1>2 DEF Complete
  <2>4. Restored(r, ses[r].connector, at[p]) \in ConnectorStatus \ {"CHARGING"}
    BY DEF Restored, ConnectorStatus
  <2>5. ses'[r] = Ended(ses[r], at[p]) /\ \A q \in Reservations \ {r} : ses'[q] = ses[q]
    BY <2>1, <2>3
  <2> HIDE DEF r
  <2> QED BY <2>1, <2>2, <2>3, <2>4, <2>5, NoneAssumption
<1>3. ASSUME NEW p \in Procs, Activate(p), ~MayStart(p)
      PROVE  UNCHANGED <<ses, conn>>
  BY <1>3 DEF Activate, tables
<1>4. ASSUME NEW p \in Procs, Complete(p), res[rid[p]].status # "ACTIVE"
      PROVE  UNCHANGED <<ses, conn>>
  BY <1>4 DEF Complete, tables
<1>5. ASSUME ~\E p \in Procs : Activate(p) \/ Complete(p)
      PROVE  UNCHANGED <<ses, conn>>
  BY <1>5
     DEF Next, Handle, Client, Operator, LockOverdue, Reconcile, Read, CreateDecides,
         RescheduleDecides, CancelDecides, SeekCalendars, LockCalendar, CheckConflict,
         Insert, Write, LockRow, LockSession, DeadlockVictim, Crash, Reject, Arrive,
         ArriveList, Begin, ArriveComplete, SetSite, SetVehicle, Tick, tables, vars
<1> QED BY <1>1, <1>2, <1>3, <1>4, <1>5

\* As long as no operator writes a connector's status by hand, CHARGING is shown
\* exactly where a session is ACTIVE: a session starts on a connector that does not
\* charge, and its completion gives back a connector no other session uses.
THEOREM ChargingIsVisibleAlways ==
  Spec /\ [][~\E c \in Connectors, s \in ConnectorStatus : SetConnector(c, s)]_vars
    => []ChargingIsVisible
<1> DEFINE NoHand == ~\E c \in Connectors, s \in ConnectorStatus : SetConnector(c, s)
<1>1. Init => ChargingIsVisible
  BY DEF Init, ChargingIsVisible
<1>2. ASSUME LocksProtect, ActiveSessionsExclusive, ChargingIsVisible, [Next]_vars,
             [NoHand]_vars
      PROVE  ChargingIsVisible'
  <2>1. CASE UNCHANGED vars
    BY <1>2, <2>1 DEF vars, ChargingIsVisible
  <2>2. CASE NoHand
    <3>1. CASE UNCHANGED <<ses, conn>>
      BY <1>2, <3>1 DEF ChargingIsVisible
    <3>2. ASSUME NEW r \in Reservations,
                 \A q \in Reservations \ {r} : ses'[q] = ses[q],
                 ses[r] = None /\ ses'[r] # None /\ ses'[r].status = "ACTIVE",
                 conn[ses'[r].connector] # "CHARGING",
                 conn' = [conn EXCEPT ![ses'[r].connector] = "CHARGING"]
          PROVE  ChargingIsVisible'
      <4>1. conn \in [Connectors -> ConnectorStatus]
        BY <1>2 DEF LocksProtect, TypeOK
      <4>2. SUFFICES ASSUME NEW c \in Connectors
                     PROVE  conn'[c] = "CHARGING" <=>
                              \E q \in Reservations :
                                ses'[q] # None /\ ses'[q].status = "ACTIVE" /\ ses'[q].connector = c
        BY DEF ChargingIsVisible
      <4>3. CASE c = ses'[r].connector
        BY <3>2, <4>1, <4>3
      <4>4. CASE c # ses'[r].connector
        <5>1. conn'[c] = conn[c]
          BY <3>2, <4>1, <4>4
        <5> QED BY <1>2, <3>2, <4>4, <5>1 DEF ChargingIsVisible
      <4> QED BY <4>3, <4>4
    <3>3. ASSUME NEW r \in Reservations, NEW s \in ConnectorStatus \ {"CHARGING"},
                 \A q \in Reservations \ {r} : ses'[q] = ses[q],
                 ses[r] # None /\ ses[r].status = "ACTIVE",
                 ses'[r] # None /\ ses'[r].status = "COMPLETED",
                 conn' = [conn EXCEPT ![ses[r].connector] = s]
          PROVE  ChargingIsVisible'
      <4>1. conn \in [Connectors -> ConnectorStatus]
        BY <1>2 DEF LocksProtect, TypeOK
      <4>2. SUFFICES ASSUME NEW c \in Connectors
                     PROVE  conn'[c] = "CHARGING" <=>
                              \E q \in Reservations :
                                ses'[q] # None /\ ses'[q].status = "ACTIVE" /\ ses'[q].connector = c
        BY DEF ChargingIsVisible
      <4>3. CASE c = ses[r].connector
        <5>1. conn'[c] # "CHARGING"
          BY <3>3, <4>1, <4>3
        <5>2. ASSUME NEW q \in Reservations, q # r, ses[q] # None, ses[q].status = "ACTIVE"
              PROVE  ses[q].connector # c
          BY <1>2, <3>3, <4>3, <5>2 DEF ActiveSessionsExclusive
        <5> QED BY <3>3, <5>1, <5>2
      <4>4. CASE c # ses[r].connector
        <5>1. conn'[c] = conn[c]
          BY <3>3, <4>1, <4>4
        <5> QED BY <1>2, <3>3, <4>4, <5>1 DEF ChargingIsVisible
      <4> QED BY <4>3, <4>4
    <3> QED BY <1>2, <2>2, <3>1, <3>2, <3>3, ConnectorChanges
  <2> QED BY <1>2, <2>1, <2>2
<1> QED BY <1>1, <1>2, LocksProtectAlways, ActiveSessionsExclusiveAlways, PTL DEF Spec

\* Activation and completion change reservation and session together: an ACTIVE
\* reservation always has its ACTIVE session, a COMPLETED one its COMPLETED session.
THEOREM ReservationHasSessionAlways == Spec => []ReservationHasSession
<1>1. Init => ReservationHasSession
  BY DEF Init, ReservationHasSession
<1>2. ASSUME LocksProtect, ReservationHasSession, [Next]_vars
      PROVE  ReservationHasSession'
  <2> DEFINE Has(r) == res'[r] # None /\ res'[r].status \in {"ACTIVE", "COMPLETED"}
                         => ses'[r] # None /\ ses'[r].status = res'[r].status
  <2>1. ASSUME NEW r \in Reservations, ses'[r] # ses[r] PROVE Has(r)
    BY <1>2, <2>1, SessionChanges, NoneAssumption
  <2>2. ASSUME NEW r \in Reservations, ses'[r] = ses[r] PROVE Has(r)
    <3>1. CASE res'[r] = res[r]
      BY <1>2, <2>2, <3>1 DEF ReservationHasSession
    <3>2. CASE res'[r] # res[r]
      <4>1. ASSUME res[r] \in Row
            PROVE  /\ Activated(res[r]).status = "ACTIVE"
                   /\ Completed(res[r]).status = "COMPLETED"
                   /\ [res[r] EXCEPT !.status = "NO_SHOW"].status = "NO_SHOW"
        BY <4>1 DEF Row, Activated, Completed
      <4>2. \/ ses' = ses /\ res'[r].status \in {"CONFIRMED", "CANCELLED", "LATE_CANCELLED"}
            \/ ses' = ses /\ res[r] # None /\ res'[r].status = res[r].status
            \/ ses'[r] # None /\ ses'[r].status = "ACTIVE" /\ res'[r].status = "ACTIVE"
            \/ ses'[r] # None /\ ses'[r].status = "COMPLETED" /\ res'[r].status = "COMPLETED"
            \/ res'[r].status = "NO_SHOW"
        BY <1>2, <3>2, <4>1, RowChanges
      <4> QED BY <1>2, <2>2, <4>2 DEF ReservationHasSession
    <3> QED BY <3>1, <3>2
  <2> QED BY <2>1, <2>2 DEF ReservationHasSession
<1> QED BY <1>1, <1>2, LocksProtectAlways, PTL DEF Spec

\* A session is never removed, replaced or reopened, even when its reservation has
\* been put back to CONFIRMED by a stale write.
THEOREM SessionsAreHistoryAlways == Spec => SessionsAreHistory
<1>1. ASSUME LocksProtect, [Next]_vars
      PROVE  [\A r \in Reservations : ses[r] # None =>
                /\ ses'[r] # None
                /\ ses'[r].vehicle = ses[r].vehicle
                /\ ses'[r].connector = ses[r].connector
                /\ ses'[r].started = ses[r].started
                /\ ses[r].status = "COMPLETED" => ses'[r] = ses[r]]_vars
  <2>1. ASSUME NEW r \in Reservations, ses[r] # None, ses'[r] # ses[r]
        PROVE  /\ ses'[r] # None
               /\ ses'[r].vehicle = ses[r].vehicle
               /\ ses'[r].connector = ses[r].connector
               /\ ses'[r].started = ses[r].started
               /\ ses[r].status # "COMPLETED"
    BY <1>1, <2>1, SessionChanges, NoneAssumption
  <2> QED BY <2>1
<1> QED BY <1>1, LocksProtectAlways, PTL DEF Spec, SessionsAreHistory

\* The transitions under the row lock start where the lifecycle says.
THEOREM LockedTransitionsAlways == Spec => LockedTransitions
<1> DEFINE Step(r) ==
      res'[r] # None /\ (res[r] = None \/ res[r].status # res'[r].status) =>
        /\ res'[r].status \in {"ACTIVE", "NO_SHOW"} => res[r] # None /\ res[r].status = "CONFIRMED"
        /\ res'[r].status = "COMPLETED" => res[r] # None /\ res[r].status = "ACTIVE"
<1>1. ASSUME LocksProtect, [Next]_vars, NEW r \in Reservations
      PROVE  Step(r)
  <2>1. CASE res'[r] = res[r]
    BY <2>1
  <2>2. CASE res'[r] # res[r]
    <3>1. ASSUME res[r] \in Row
          PROVE  /\ res[r] # None
                 /\ Activated(res[r]).status = "ACTIVE"
                 /\ Completed(res[r]).status = "COMPLETED"
                 /\ [res[r] EXCEPT !.status = "NO_SHOW"].status = "NO_SHOW"
      BY <3>1, NoneAssumption DEF Row, Activated, Completed
    <3> QED BY <1>1, <2>2, <3>1, RowChanges
  <2> QED BY <2>1, <2>2
<1>2. LocksProtect /\ [Next]_vars => [\A r \in Reservations : Step(r)]_vars
  BY <1>1
<1> QED BY <1>2, LocksProtectAlways, PTL DEF Spec, LockedTransitions

\* A row that was overtaken once stays marked.
LEMMA OvertakenGrows ==
  ASSUME [Next]_vars
  PROVE  overtaken \subseteq overtaken'
<1>1. ASSUME NEW p \in Procs, Handle(p) \/ Client(p) \/ Crash(p)
      PROVE  overtaken \subseteq overtaken'
  BY <1>1 DEF Handle, Client, Crash, LockOverdue, Reconcile, Read, CreateDecides,
              RescheduleDecides, CancelDecides, SeekCalendars, LockCalendar, CheckConflict,
              Insert, Write, LockRow, Activate, LockSession, Complete, DeadlockVictim,
              Reject, Arrive, ArriveList, Begin, ArriveComplete, outside
<1> QED BY <1>1 DEF Next, Operator, SetConnector, SetSite, SetVehicle, Tick, vars, outside

\* Reservation and session agree, row by row, until an unlocked write overtakes the
\* row: a write that finds the row CONFIRMED finds no session either.
THEOREM SessionAgreesAlways == Spec => []SessionAgrees
<1> DEFINE Agrees(r) ==
      /\ ses[r] = None => res[r] = None \/ res[r].status \notin {"ACTIVE", "COMPLETED"}
      /\ ses[r] # None => /\ res[r] # None
                          /\ res[r].status = ses[r].status
                          /\ res[r].vehicle = ses[r].vehicle
                          /\ res[r].connector = ses[r].connector
<1>1. Init => SessionAgrees
  BY DEF Init, SessionAgrees
<1>2. ASSUME LocksProtect, SessionAgrees, [Next]_vars, NEW r \in Reservations \ overtaken'
      PROVE  Agrees(r)'
  <2> USE DEF LocksProtect, TypeOK
  <2>1. Agrees(r)
    BY <1>2, OvertakenGrows DEF SessionAgrees
  <2>2. CASE ses'[r] # ses[r]
    BY <1>2, <2>1, <2>2, SessionChanges, NoneAssumption
  <2>3. CASE ses'[r] = ses[r] /\ res'[r] = res[r]
    BY <2>1, <2>3
  <2>4. CASE ses'[r] = ses[r] /\ res'[r] # res[r]
    <3>1. ASSUME ses[r] # None PROVE ses[r].status \in {"ACTIVE", "COMPLETED"}
      BY <1>2, <3>1 DEF Session
    <3>2. ASSUME res[r] \in Row
          PROVE  /\ Activated(res[r]).status = "ACTIVE"
                 /\ Completed(res[r]).status = "COMPLETED"
                 /\ Completed(res[r]).vehicle = res[r].vehicle
                 /\ Completed(res[r]).connector = res[r].connector
                 /\ [res[r] EXCEPT !.status = "NO_SHOW"].status = "NO_SHOW"
      BY <3>2 DEF Row, Activated, Completed
    <3> QED BY <1>2, <2>1, <2>4, <3>1, <3>2, RowChanges, NoneAssumption
  <2> QED BY <2>2, <2>3, <2>4
<1>3. LocksProtect /\ SessionAgrees /\ [Next]_vars => SessionAgrees'
  BY <1>2 DEF SessionAgrees
<1> QED BY <1>1, <1>3, LocksProtectAlways, PTL DEF Spec

\* Nothing but an unlocked write that overtakes it reaches a finished row, and an
\* ACTIVE row only completes.
THEOREM FinishedRowsStayAlways == Spec => FinishedRowsStay
<1> DEFINE Stays(r) ==
      res[r] # None =>
        /\ res[r].status \in {"COMPLETED", "CANCELLED", "LATE_CANCELLED", "NO_SHOW"} =>
             res'[r] = res[r]
        /\ res[r].status = "ACTIVE" =>
             res'[r] \in {res[r], [res[r] EXCEPT !.status = "COMPLETED"]}
<1>1. ASSUME LocksProtect, [Next]_vars, NEW r \in Reservations \ overtaken'
      PROVE  Stays(r)
  <2>1. CASE res'[r] = res[r]
    BY <2>1
  <2>2. CASE res'[r] # res[r]
    BY <1>1, <2>2, RowChanges DEF Completed
  <2> QED BY <2>1, <2>2
<1>2. LocksProtect /\ [Next]_vars =>
        [\A r \in Reservations \ overtaken' : Stays(r)]_vars
  BY <1>1
<1> QED BY <1>2, LocksProtectAlways, PTL DEF Spec, FinishedRowsStay

-----------------------------------------------------------------------------
(* Lock cycles.                                                            *)

\* Who waits for whom: a wait for a row is for an activation of that row, or for a
\* reconciliation that has come past it; a wait for a session is for a completion
\* that waits for a row, and a wait for a calendar for a request that holds it.
LEMMA WaitsAreOrdered ==
  ASSUME LocksProtect, NEW p \in Procs, NEW q \in Procs, WaitsFor(p, q)
  PROVE  \/ /\ pc[p] \in {"row", "write", "sweep"}
            /\ \/ /\ op[q] = "activate" /\ pc[q] \in {"calendars", "check"}
                  /\ pc[p] # "sweep" => rid[q] = rid[p]
               \/ pc[q] = "sweep"
         \/ pc[p] = "session" /\ pc[q] = "row"
         \/ /\ pc[p] = "calendars"
            /\ \E x \in Calendars : NextCalendar(p, x) /\ lock[CalendarLock(x)] = q
<1> USE DEF LocksProtect
<1>1. PICK x \in LockIds : WaitsAt(p, x) /\ lock[x] = q
  BY DEF WaitsFor
<1>2. CASE pc[p] = "calendars"
  BY <1>1, <1>2 DEF WaitsAt
<1>3. CASE pc[p] = "session"
  <2>1. rid[p] \in Reservations /\ lock[SessionLock(rid[p])] = q
    BY <1>1, <1>3 DEF WaitsAt, RequestsWellFormed, CalendarsInOrder
  <2> QED BY <1>3, <2>1 DEF LocksHaveOwners
<1>4. CASE pc[p] \in {"row", "write"}
  <2>1. rid[p] \in Reservations /\ lock[RowLock(rid[p])] = q
    BY <1>1, <1>4 DEF WaitsAt, RequestsWellFormed
  <2> QED BY <1>4, <2>1 DEF LocksHaveOwners
<1>5. CASE pc[p] = "sweep"
  <2>1. PICK r \in Reservations : lock[RowLock(r)] = q
    BY <1>1, <1>5 DEF WaitsAt, TypeOK
  <2> QED BY <1>5, <2>1 DEF LocksHaveOwners
<1> QED BY <1>1, <1>2, <1>3, <1>4, <1>5 DEF WaitsAt

\* Of any numbers there is a least one.
LEMMA LeastNumber ==
  ASSUME NEW S \in SUBSET Nat, S # {}
  PROVE  \E n \in S : \A m \in S : n <= m
<1> DEFINE Less == {ij \in Nat \X Nat : ij[1] < ij[2]}
<1>1. IsWellFoundedOn(Less, Nat)
  BY NatLessThanWellFounded DEF OpToRel
<1>2. PICK n \in S : \A m \in S : <<m, n>> \notin Less
  <2> HIDE DEF Less
  <2> QED BY <1>1, WFMin
<1>3. \A m \in S : ~(m < n)
  BY <1>2
<1> QED BY <1>3

\* A finite set has a member whose number is the greatest.
LEMMA GreatestOfFinite ==
  ASSUME NEW S, IsFiniteSet(S), S # {}, NEW h \in [S -> Nat]
  PROVE  \E p \in S : \A q \in S : h[q] <= h[p]
<1> DEFINE Lacks(U) == ~\E p \in U : \A q \in U : h[q] <= h[p]
           bad == {n \in Nat : \E U \in SUBSET S : U # {} /\ Cardinality(U) = n /\ Lacks(U)}
<1>1. SUFFICES ASSUME Lacks(S) PROVE FALSE
  OBVIOUS
<1>2. Cardinality(S) \in bad
  BY <1>1, FS_CardinalityType
<1>3. PICK n \in bad : \A m \in bad : n <= m
  <2>1. bad \in SUBSET Nat /\ bad # {}
    BY <1>2
  <2> HIDE DEF bad
  <2> QED BY <2>1, LeastNumber
<1>4. PICK U \in SUBSET S : U # {} /\ Cardinality(U) = n /\ Lacks(U)
  BY <1>3
<1>5. PICK p \in U : TRUE
  BY <1>4
<1>6. IsFiniteSet(U)
  BY FS_Subset
<1>7. Cardinality(U \ {p}) = n - 1 /\ n \in Nat /\ Cardinality(U \ {p}) \in Nat
  <2>1. IsFiniteSet(U \ {p}) /\ Cardinality(U \ {p}) = Cardinality(U) - 1
    BY <1>5, <1>6, FS_RemoveElement
  <2> QED BY <1>4, <1>6, <2>1, FS_CardinalityType
<1>8. U \ {p} # {}
  BY <1>4, <1>5
<1>9. ~Lacks(U \ {p})
  <2>1. n - 1 \notin bad
    BY <1>3, <1>7
  <2> HIDE DEF Lacks
  <2> QED BY <1>4, <1>7, <1>8, <2>1
<1>10. PICK q \in U \ {p} : \A r \in U \ {p} : h[r] <= h[q]
  BY <1>9
<1>11. h[p] \in Nat /\ h[q] \in Nat /\ \A r \in U : h[r] \in Nat
  BY <1>4
<1>12. CASE h[p] <= h[q]
  BY <1>4, <1>10, <1>12
<1>13. CASE h[q] <= h[p]
  <2>1. ASSUME NEW r \in U PROVE h[r] <= h[p]
    BY <1>10, <1>11, <1>13
  <2> QED BY <1>4, <1>5, <2>1
<1> QED BY <1>11, <1>12, <1>13

\* A request at the end of a wait holds something that somebody wants, so the
\* members of a cycle reconcile, seek calendars, or write a reschedule.
LEMMA CycleMembers ==
  ASSUME LocksProtect, NEW S \in SUBSET Procs, Cycle(S), NEW p \in S
  PROVE  pc[p] \in {"sweep", "calendars"} \/ (pc[p] = "write" /\ op[p] = "reschedule")
<1> USE DEF LocksProtect
<1>1. PICK o \in S : WaitsFor(o, p)
  BY DEF Cycle
<1>2. pc[p] # "session"
  BY <1>1, WaitsAreOrdered DEF LocksHaveOwners
<1>3. pc[p] # "row"
  <2>1. PICK n \in S : WaitsFor(n, o)
    BY DEF Cycle
  <2>2. pc[o] # "session"
    BY <2>1, WaitsAreOrdered DEF LocksHaveOwners
  <2> QED BY <1>1, <2>2, WaitsAreOrdered DEF LocksHaveOwners
<1>4. PICK q \in S : WaitsFor(p, q)
  BY DEF Cycle
<1>5. pc[p] \in {"sweep", "calendars"} \/ (pc[p] = "write" /\ op[p] # "create")
  BY <1>2, <1>3, <1>4 DEF WaitsFor, WaitsAt
<1>6. pc[p] = "write" => op[p] # "cancel"
  BY <1>1, WaitsAreOrdered DEF LocksHaveOwners
<1> QED BY <1>5, <1>6 DEF CalendarsInOrder

\* Whom the members of a cycle wait for.
LEMMA CycleWaits ==
  ASSUME LocksProtect, NEW S \in SUBSET Procs, Cycle(S), NEW p \in S, NEW q \in S, WaitsFor(p, q)
  PROVE  /\ pc[p] = "calendars" =>
              /\ pc[q] \in {"calendars", "write"}
              /\ \E x \in Calendars : NextCalendar(p, x) /\ lock[CalendarLock(x)] = q
         /\ pc[p] # "calendars" =>
              \/ /\ op[q] = "activate" /\ pc[q] = "calendars"
                 /\ pc[p] = "write" => rid[q] = rid[p]
              \/ pc[q] = "sweep"
<1>1. /\ pc[p] \in {"sweep", "calendars", "write"}
      /\ pc[q] \in {"sweep", "calendars", "write"}
  BY CycleMembers
<1>2. CASE pc[p] = "calendars"
  BY <1>1, <1>2, WaitsAreOrdered DEF LocksProtect, LocksHaveOwners
<1>3. CASE pc[p] # "calendars"
  BY <1>1, <1>3, WaitsAreOrdered
<1> QED BY <1>2, <1>3

\* The rank of the calendar a request seeks next.
Sought(p) == CalendarRank[CHOOSE x \in Calendars : NextCalendar(p, x)]

\* A member that seeks a calendar from another that seeks one seeks a lower one.
LEMMA SeekersDescend ==
  ASSUME LocksProtect, NEW S \in SUBSET Procs, Cycle(S), NEW p \in S, NEW q \in S, WaitsFor(p, q),
         pc[p] = "calendars", pc[q] = "calendars"
  PROVE  Sought(p) < Sought(q)
<1>1. PICK x \in Calendars : NextCalendar(p, x) /\ lock[CalendarLock(x)] = q
  BY CycleWaits
<1>2. PICK n \in S : WaitsFor(q, n)
  BY DEF Cycle
<1>3. PICK y \in Calendars : NextCalendar(q, y)
  BY <1>2, CycleWaits
<1>4. ASSUME NEW s \in S, NEW z \in Calendars, NextCalendar(s, z)
      PROVE  Sought(s) = CalendarRank[z]
  BY <1>4, ChargingAssumption DEF Sought, NextCalendar, ChargingAssumption
<1>5. CalendarRank[x] < CalendarRank[y]
  BY <1>1, <1>3 DEF LocksProtect, CalendarsInOrder, NextCalendar
<1> QED BY <1>1, <1>3, <1>4, <1>5

\* What whoever seeks a calendar in a cycle seeks has a rank.
LEMMA SeekersHaveRanks ==
  ASSUME LocksProtect, NEW S \in SUBSET Procs, Cycle(S), NEW p \in S, pc[p] = "calendars"
  PROVE  Sought(p) \in Nat
<1>1. PICK q \in S : WaitsFor(p, q)
  BY DEF Cycle
<1>2. \E x \in Calendars : NextCalendar(p, x)
  BY <1>1, CycleWaits
<1> QED BY <1>2, ChargingAssumption DEF Sought, ChargingAssumption

\* Without a reschedule at its write, whoever seeks the highest calendar would wait
\* for a member that seeks a higher one, so nobody seeks a calendar.
LEMMA CyclesWithoutReschedule ==
  ASSUME LocksProtect, NEW S \in SUBSET Procs, Cycle(S), \A p \in S : pc[p] # "write"
  PROVE  \A p \in S : pc[p] = "sweep"
<1> DEFINE seekers == {p \in S : pc[p] = "calendars"}
           h == [p \in seekers |-> Sought(p)]
<1>1. CASE seekers = {}
  BY <1>1, CycleMembers
<1>2. CASE seekers # {}
  <2>1. IsFiniteSet(seekers) /\ h \in [seekers -> Nat]
    BY SeekersHaveRanks, FS_Subset DEF Cycle
  <2>2. PICK p \in seekers : \A q \in seekers : h[q] <= h[p]
    <3> HIDE DEF h, seekers
    <3> QED BY <1>2, <2>1, GreatestOfFinite
  <2>3. PICK q \in S : WaitsFor(p, q)
    BY DEF Cycle
  <2>4. q \in seekers
    BY <2>3, CycleWaits
  <2>5. Sought(p) < Sought(q) /\ Sought(q) <= Sought(p)
    BY <2>2, <2>3, <2>4, SeekersDescend
  <2> QED BY <2>4, <2>5, SeekersHaveRanks
<1> QED BY <1>1, <1>2

\* With one, somebody seeks the calendars it holds, and whoever seeks the lowest
\* calendar is not waited for by another seeker; so one of them holds a row.
LEMMA CyclesNeedAnActivation ==
  ASSUME LocksProtect, NEW S \in SUBSET Procs, Cycle(S), NEW w \in S, pc[w] = "write"
  PROVE  \E q \in S : op[q] = "activate" /\ pc[q] = "calendars"
<1> DEFINE ranks == {Sought(p) : p \in {q \in S : pc[q] = "calendars"}}
<1>1. PICK o \in S : WaitsFor(o, w)
  BY DEF Cycle
<1>2. pc[o] = "calendars"
  BY <1>1, CycleWaits
<1>3. PICK k \in ranks : \A l \in ranks : k <= l
  <2>1. ranks \in SUBSET Nat /\ ranks # {}
    BY <1>2, SeekersHaveRanks
  <2> HIDE DEF ranks
  <2> QED BY <2>1, LeastNumber
<1>4. PICK p \in S : pc[p] = "calendars" /\ Sought(p) = k
  BY <1>3
<1>5. PICK n \in S : WaitsFor(n, p)
  BY DEF Cycle
<1>6. CASE pc[n] = "calendars"
  <2>1. Sought(n) < Sought(p) /\ Sought(p) <= Sought(n)
    BY <1>3, <1>4, <1>5, <1>6, SeekersDescend
  <2> QED BY <1>4, <1>6, <2>1, SeekersHaveRanks
<1>7. CASE pc[n] # "calendars"
  BY <1>4, <1>5, <1>7, CycleWaits
<1> QED BY <1>6, <1>7

\* The lock cycles the database has to break are those of reconciliations alone, and
\* those that join a reschedule and an activation: of one reservation, or with a
\* reconciliation between them.  For any number of requests and calendars.
THEOREM CyclesNeedRowAndCalendarAlways == Spec => []CyclesNeedRowAndCalendar
<1>1. ASSUME LocksProtect, NEW S \in SUBSET Procs, Cycle(S), ~\A p \in S : pc[p] = "sweep"
      PROVE  \E p, q \in S :
               /\ op[p] = "reschedule" /\ pc[p] = "write"
               /\ op[q] = "activate" /\ pc[q] = "calendars"
               /\ rid[p] = rid[q] \/ \E s \in S : pc[s] = "sweep"
  <2>1. PICK w \in S : pc[w] = "write" /\ op[w] = "reschedule"
    BY <1>1, CyclesWithoutReschedule, CycleMembers
  <2>2. CASE \E s \in S : pc[s] = "sweep"
    BY <1>1, <2>1, <2>2, CyclesNeedAnActivation
  <2>3. CASE ~\E s \in S : pc[s] = "sweep"
    <3>1. PICK q \in S : WaitsFor(w, q)
      BY <1>1 DEF Cycle
    <3>2. op[q] = "activate" /\ pc[q] = "calendars" /\ rid[q] = rid[w]
      BY <1>1, <2>1, <2>3, <3>1, CycleWaits
    <3> QED BY <2>1, <3>2
  <2> QED BY <2>2, <2>3
<1>2. LocksProtect => CyclesNeedRowAndCalendar
  BY <1>1 DEF CyclesNeedRowAndCalendar
<1> QED BY <1>2, LocksProtectAlways, PTL

-----------------------------------------------------------------------------
(* The abstract calendar.                                                  *)

\* Every step of the handlers is a step of the abstract calendar or leaves its
\* bookings as they are.
LEMMA StepIsCalendarStep ==
  ASSUME LocksProtect, NoClash, [Next]_vars
  PROVE  [Calendar!Next]_Held
<1> USE DEF LocksProtect
<1>1. TypeOK /\ TypeOK' /\ NoClash'
  BY TypesPreserved, NoClashPreserved
<1> DEFINE In(r)  == res[r] # None /\ res[r].status \in {"CONFIRMED", "ACTIVE"}
<1>2. ASSUME NEW r \in Reservations, Admits(r, res'[r]), res'[r] \in Row,
             \A q \in Reservations \ {r} : res'[q] = res[q]
      PROVE  [Calendar!Next]_Held
  <2>1. \A q \in Reservations \ {r} : BookingOf(q)' = BookingOf(q) /\ (In(q)' <=> In(q))
    BY <1>2 DEF BookingOf
  <2>2. CASE ~In(r)'
    <3>1. Held' \subseteq Held
      BY <2>1, <2>2 DEF Held
    <3> QED BY <3>1 DEF Calendar!Next, Calendar!Release
  <2>3. CASE In(r)'
    <3>1. BookingOf(r)' \in Held'
      BY <2>3 DEF Held
    <3>2. BookingOf(r)' \in Calendar!Booking
      BY <1>2 DEF Calendar!Booking, BookingOf, Row
    <3>3. BookingOf(r)'.id = r /\ \A q \in Reservations : BookingOf(q).id = q
      BY DEF BookingOf
    <3>4. Held' = {a \in Held : a.id # BookingOf(r)'.id} \cup {BookingOf(r)'}
      BY <2>1, <2>3, <3>3 DEF Held
    <3>5. Calendar!Consistent(Held')
      <4>1. ASSUME NEW p \in Reservations, NEW q \in Reservations, In(p)', In(q)'
            PROVE  /\ ~Calendar!Clashing(BookingOf(p)', BookingOf(q)')
                   /\ BookingOf(p)'.id = BookingOf(q)'.id => BookingOf(p)' = BookingOf(q)'
        <5>1. BookingOf(p)'.id = p /\ BookingOf(q)'.id = q
          BY DEF BookingOf
        <5>2. p # q => ~Conflicts(res'[p], res'[q]) /\ Blocking(res'[p]) /\ Blocking(res'[q])
          BY <1>1, <4>1 DEF NoClash, Compatible, Blocking, BlockingStatuses
        <5>3. p # q => ~Calendar!Clashing(BookingOf(p)', BookingOf(q)')
          BY <5>2 DEF Calendar!Clashing, BookingOf, Conflicts, SameCalendar, Overlap
        <5> QED BY <5>1, <5>3 DEF Calendar!Clashing
      <4> QED BY <4>1 DEF Calendar!Consistent, Held
    <3>6. Calendar!Book(BookingOf(r)')
      BY <3>2, <3>4, <3>5 DEF Calendar!Book
    <3> QED BY <3>1, <3>6 DEF Calendar!Next
  <2> QED BY <2>2, <2>3
<1>3. CASE \E r \in Reservations : /\ Admits(r, res'[r]) /\ res'[r] \in Row
                                 /\ \A q \in Reservations \ {r} : res'[q] = res[q]
  BY <1>2, <1>3
<1>4. CASE ~\E r \in Reservations : /\ Admits(r, res'[r]) /\ res'[r] \in Row
                                  /\ \A q \in Reservations \ {r} : res'[q] = res[q]
  <2>1. ASSUME NEW r \in Reservations, In(r)'
        PROVE  In(r) /\ BookingOf(r)' = BookingOf(r)
    <3>1. Blocking(res'[r])
      BY <2>1 DEF Blocking, BlockingStatuses
    <3>2. /\ res[r] \in Row /\ Blocking(res[r])
          /\ res'[r].vehicle = res[r].vehicle
          /\ res'[r].connector = res[r].connector
          /\ res'[r].start = res[r].start /\ res'[r].end = res[r].end
      BY <1>4, <2>1, <3>1, BlockingChanges
    <3> QED BY <3>2, NoneAssumption DEF BookingOf, Blocking, BlockingStatuses
  <2>2. Held' \subseteq Held
    BY <2>1 DEF Held
  <2> QED BY <2>2 DEF Calendar!Next, Calendar!Release
<1> QED BY <1>3, <1>4

\* The request handlers implement the abstract booking calendar.
THEOREM ImplementsCalendar == Spec => CalendarSpec
<1>1. Init => Calendar!Init /\ NoClash
  BY DEF Init, Calendar!Init, Held, NoClash, Compatible
<1>2. LocksProtect /\ NoClash /\ [Next]_vars => NoClash' /\ [Calendar!Next]_Held
  BY NoClashPreserved, StepIsCalendarStep
<1> QED BY <1>1, <1>2, LocksProtectAlways, PTL DEF Spec, CalendarSpec, Calendar!Spec
===============================================================================
