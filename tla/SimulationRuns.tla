---------------------------- MODULE SimulationRuns ----------------------------
(***************************************************************************)
(* A simulation run as the backend keeps it: its lifecycle, its logical    *)
(* clock, the receipts that make simulated mutations safe to retry, and    *)
(* the reservations that carry its provenance beside those of real users.  *)
(*                                                                         *)
(* A process is a request thread: a simulated mutation takes the run's row *)
(* lock and then commits mutation, receipt and clock together; a PATCH of  *)
(* the run reads without a lock and writes afterwards.  So do, whatever    *)
(* the run's lock, the requests that cancel or reschedule a reservation.   *)
(*                                                                         *)
(* Histories record what the code does not prevent: `breach' a PATCH that  *)
(* overlaps the start of the run, `touched' the reservations of the run    *)
(* that requests without simulation headers have written since a           *)
(* completion of the run last looked at them or the run was cancelled, and *)
(* `overtaken' those that were cancelled or rescheduled after they had     *)
(* left CONFIRMED.                                                         *)
(***************************************************************************)
EXTENDS ReservationRules

CONSTANTS
  Procs,        (* request threads                                         *)
  Events,       (* simulation event identifiers                            *)
  Effect,       (* the operation and the reservation each event is about   *)
  Times,        (* instants the simulator sends                            *)
  Simulated,    (* reservations of the run, all of one vehicle             *)
  Real,         (* reservations of real users                              *)
  Start,        (* start each reservation is booked with                   *)
  Moves,        (* starts that requests reschedule to                      *)
  WindowEnds,   (* ends of the logical window managers choose              *)
  RealNow,      (* the real time                                           *)
  Enabled,      (* optional operations of this instance                    *)
  None

Reservations == Simulated \cup Real

Run == [status : {"DRAFT", "RUNNING", "COMPLETED", "CANCELLED"},
        end : WindowEnds, last : Times \cup {None}]

Row(start, s) == [start |-> start, end |-> start + MinDuration, status |-> s]

Starts(r) == {Start[r]} \cup (IF r \in Real THEN {} ELSE Moves)

\* The rows a reservation may have.
RowsOf(r) == {Row(t, s) : t \in Starts(r), s \in ReservationStatus}

Rows == UNION {RowsOf(r) : r \in Simulated}

Sessions == [started : Times \cup {RealNow}, open : BOOLEAN]

ASSUME SimulationAssumption ==
  /\ Simulated \cap Real = {}
  /\ Effect \in [Events -> [op : {"create", "cancel", "activate", "complete"},
                            res : Simulated \cup {None}]]
  /\ \A e \in Events : Effect[e].op # "create" => Effect[e].res # None
  /\ Times \subseteq Nat /\ WindowEnds \subseteq Nat \ {0} /\ WindowEnds # {}
  /\ Start \in [Reservations -> Nat] /\ Moves \subseteq Nat /\ RealNow \in Nat
  /\ Enabled \subseteq {"patch", "cancel", "direct"}
  /\ None \notin Procs \cup Nat \cup Reservations \cup Events \cup Run \cup Sessions
  /\ \A r \in Reservations : None \notin RowsOf(r)

VARIABLES
  run,       (* status, end of the window, last accepted instant           *)
  res,       (* reservation rows                                           *)
  ses,       (* the charging session of a reservation                      *)
  receipts,  (* instant each accepted event was sent with                  *)
  applied,   (* how often the mutation of each event has been committed    *)
  lock,      (* holder of the run's row lock                               *)
  held,      (* overdue rows that this holder has locked to sweep them     *)
  pc, event, sent,   (* step, event and instant of a simulated mutation    *)
  seen,              (* run as a request has read it                       *)
  about, copy,       (* reservation, and its row as a request has read it  *)
  breach, overtaken, touched    (* histories, see above                    *)

tables    == <<res, ses, receipts, applied>>
request   == <<pc, event, sent, seen, about, copy>>
histories == <<breach, overtaken, touched>>
vars      == <<run, tables, lock, held, request, histories>>

Steps == {"idle", "lock", "mutate", "commit", "reread", "update", "complete", "base",
          "write"}

TypeOK ==
  /\ run \in Run
  /\ res = [r \in Reservations |-> res[r]]
  /\ \A r \in Reservations : res[r] \in RowsOf(r) \cup (IF r \in Real THEN {} ELSE {None})
  /\ ses \in [Simulated -> Sessions \cup {None}]
  /\ receipts \in [Events -> Times \cup {None}]
  /\ applied \in [Events -> Nat]
  /\ lock \in Procs \cup {None}
  /\ held \subseteq Simulated
  /\ pc \in [Procs -> Steps]
  /\ event \in [Procs -> Events \cup {None}]
  /\ sent \in [Procs -> Times \cup {None}]
  /\ seen \in [Procs -> [loaded : Run \cup {None}, new : Run \cup {None}]]
  /\ about \in [Procs -> Simulated \cup {None}]
  /\ copy \in [Procs -> [loaded : Rows \cup {None}, new : Rows \cup {None}]]
  /\ breach \subseteq {"patch"}
  /\ overtaken \subseteq Simulated /\ touched \subseteq Simulated

Nothing == [loaded |-> None, new |-> None]

Init ==
  /\ \E e \in WindowEnds : run = [status |-> "DRAFT", end |-> e, last |-> None]
  /\ res = [r \in Reservations |-> IF r \in Real THEN Row(Start[r], "CONFIRMED") ELSE None]
  /\ ses = [r \in Simulated |-> None]
  /\ receipts = [e \in Events |-> None]
  /\ applied = [e \in Events |-> 0]
  /\ lock = None /\ held = {}
  /\ pc = [p \in Procs |-> "idle"]
  /\ event = [p \in Procs |-> None]
  /\ sent = [p \in Procs |-> None]
  /\ seen = [p \in Procs |-> Nothing]
  /\ about = [p \in Procs |-> None]
  /\ copy = [p \in Procs |-> Nothing]
  /\ breach = {} /\ overtaken = {} /\ touched = {}

Goto(p, l) == pc' = [pc EXCEPT ![p] = l]

\* The request ends; its transaction is committed or rolled back.
Answer(p) ==
  /\ Goto(p, "idle")
  /\ event' = [event EXCEPT ![p] = None]
  /\ sent' = [sent EXCEPT ![p] = None]
  /\ seen' = [seen EXCEPT ![p] = Nothing]
  /\ about' = [about EXCEPT ![p] = None]
  /\ copy' = [copy EXCEPT ![p] = Nothing]
  /\ held' = IF lock = p THEN {} ELSE held
  /\ lock' = IF lock = p THEN None ELSE lock

-----------------------------------------------------------------------------
(* Reconciliation, by provenance.                                          *)

\* The slip of reconciling every overdue reservation.
WholeTable(rows) == Reservations

Partition(rows) == rows

Reconciled(rows, t) ==
  [r \in Reservations |->
     IF r \in Partition(rows) /\ res[r] # None /\ Overdue(res[r], t)
     THEN Row(res[r].start, "NO_SHOW") ELSE res[r]]

\* Any reservation request without simulation headers.
RealReconcile ==
  /\ res' = Reconciled(Real, RealNow)
  /\ UNCHANGED <<run, ses, receipts, applied, lock, held, request, histories>>

-----------------------------------------------------------------------------
(* Rows and sessions, whoever writes them.                                 *)

\* The vehicle's calendar has room for the row, its own reservation aside.
CalendarFree(rows, r, row) ==
  \A q \in Simulated \ {r} :
    rows[q] # None => ~(Blocking(rows[q]) /\ Overlap(rows[q], row))

\* A reschedule holds the calendars from its check to its write.
CalendarLocked == \E p \in Procs : pc[p] = "update" /\ copy[p].new.status = "CONFIRMED"

Open(r) == ses[r] # None /\ ses[r].open

\* Under the row lock: one session for a reservation, one open for the vehicle.
MayBegin(row, r, t) ==
  /\ row # None /\ MayActivate(row, t)
  /\ ses[r] = None /\ \A q \in Simulated : ~Open(q)

MayEnd(row, r, t) ==
  Open(r) /\ row # None /\ row.status = "ACTIVE" /\ ses[r].started <= t

Begun(t) == [started |-> t, open |-> TRUE]

Ended(r) == [ses[r] EXCEPT !.open = FALSE]

\* A request that cancels or reschedules decides on an unlocked read, ...
DecideOn(p, r, row) ==
  /\ about' = [about EXCEPT ![p] = r]
  /\ copy' = [copy EXCEPT ![p].new = row]
  /\ Goto(p, "reread")
  /\ UNCHANGED <<event, sent, seen>>

Cancelled(row, t) == Row(row.start, CancelledStatus(row, t))

\* ... takes a second unlocked read as the base of its write, after the check of
\* the calendars if it moves the row, ...
Reread(p) ==
  LET r == about[p]  new == copy[p].new IN
  /\ pc[p] = "reread"
  /\ new.status = "CONFIRMED" => ~CalendarLocked
  /\ IF new.status = "CONFIRMED" /\ ~CalendarFree(res, r, new)
     THEN Answer(p)
     ELSE /\ copy' = [copy EXCEPT ![p].loaded = res[r]]
          /\ Goto(p, IF lock = p THEN "commit" ELSE "update")
          /\ UNCHANGED <<event, sent, seen, about, lock, held>>
  /\ UNCHANGED <<run, tables, histories>>

Column(current, loaded, new) == IF new = loaded THEN current ELSE new

\* ... and the UPDATE sets the columns in which the two differ, ...
Merged(p) ==
  LET now == res[about[p]]  c == copy[p] IN
  Row(Column(now.start, c.loaded.start, c.new.start),
      Column(now.status, c.loaded.status, c.new.status))

\* ... where the exclusion constraint admits what comes out.
Admitted(p, rows) == Blocking(Merged(p)) => CalendarFree(rows, about[p], Merged(p))

Overtaken(p) == IF res[about[p]].status = "CONFIRMED" THEN overtaken ELSE overtaken \cup {about[p]}

-----------------------------------------------------------------------------
(* A simulated mutation.                                                   *)

InWindow(r, t) == t <= r.end

\* The context is checked on an unlocked read of the run.  A retry sends the
\* event again while its first copy may still be on its way.
Arrive(p, e, t) ==
  /\ pc[p] = "idle"
  /\ run.status = "RUNNING" /\ InWindow(run, t)
  /\ event' = [event EXCEPT ![p] = e]
  /\ sent' = [sent EXCEPT ![p] = t]
  /\ Goto(p, "lock")
  /\ UNCHANGED <<run, tables, lock, held, seen, about, copy, histories>>

\* The slip of relying on the status the context was checked with.
ContextChecked(r) == r.status # "DRAFT"

StillRunning(r) == r.status = "RUNNING"

\* The slip of trusting that events are never sent again.
SentOnce(e) == FALSE

Accepted(e) == receipts[e] # None

\* The slip of comparing with the start of the window only.
AnyInstant(t) == t >= 0

Forward(t) == run.last = None \/ t >= run.last

OverdueAt(t) == {r \in Partition(Simulated) : res[r] # None /\ Overdue(res[r], t)}

\* The completion of a session reconciles nothing.
ToSweep(op, t) == IF op = "complete" THEN {} ELSE OverdueAt(t)

\* SELECT ... FOR UPDATE, then the checks that end in a replay or a rejection,
\* and the sweep of the run's own reservations, which keeps their rows locked.
Lock(p) ==
  /\ pc[p] = "lock" /\ lock = None
  /\ IF StillRunning(run) /\ ~Accepted(event[p]) /\ InWindow(run, sent[p]) /\ Forward(sent[p])
     THEN /\ lock' = p
          /\ held' = ToSweep(Effect[event[p]].op, sent[p])
          /\ Goto(p, "mutate")
          /\ UNCHANGED <<event, sent, seen, about, copy>>
     ELSE Answer(p)
  /\ UNCHANGED <<run, tables, histories>>

\* The rows as the transaction that holds the run's lock sees them.
AfterSweep ==
  [r \in Reservations |-> IF r \in held THEN Row(res[r].start, "NO_SHOW") ELSE res[r]]

\* A creation inserts a row of its own; every other operation names its row.
Targets(e) ==
  IF Effect[e].op = "create" THEN {r \in Simulated : res[r] = None} ELSE {Effect[e].res}

Allowed(op, r, t) ==
  CASE op = "create"   -> /\ ValidInterval(Start[r], Start[r] + MinDuration, t)
                          /\ CalendarFree(AfterSweep, r, Row(Start[r], "CONFIRMED"))
    [] op = "activate" -> MayBegin(AfterSweep[r], r, t)
    [] op = "complete" -> MayEnd(res[r], r, t)

RowAfter(op, r) ==
  CASE op = "create"   -> Row(Start[r], "CONFIRMED")
    [] op = "activate" -> Row(res[r].start, "ACTIVE")
    [] op = "complete" -> Row(res[r].start, "COMPLETED")

SessionAfter(op, r, t) ==
  CASE op = "create"   -> ses[r]
    [] op = "activate" -> Begun(t)
    [] op = "complete" -> Ended(r)

\* Receipt and clock, in the transaction of the mutation.
Accept(p) ==
  /\ receipts' = [receipts EXCEPT ![event[p]] = sent[p]]
  /\ applied' = [applied EXCEPT ![event[p]] = @ + 1]
  /\ run' = [run EXCEPT !.last = sent[p]]

\* A domain rejection rolls everything back, the sweep included.
Reject == UNCHANGED <<run, tables, overtaken>>

\* What creation, activation and completion check is locked until they commit.
Mutate(p) ==
  LET e == event[p]  op == Effect[e].op
      allowed == {r \in Targets(e) : Allowed(op, r, sent[p])} IN
  /\ pc[p] = "mutate" /\ op # "cancel"
  /\ op # "complete" => ~CalendarLocked
  /\ \/ allowed = {} /\ Reject
     \/ \E r \in allowed :
          /\ res' = [AfterSweep EXCEPT ![r] = RowAfter(op, r)]
          /\ ses' = [ses EXCEPT ![r] = SessionAfter(op, r, sent[p])]
          /\ Accept(p) /\ UNCHANGED overtaken
  /\ Answer(p)
  /\ UNCHANGED <<breach, touched>>

\* A cancellation locks the run, not the reservation.
DecideCancel(p) ==
  LET r == Effect[event[p]].res IN
  /\ pc[p] = "mutate" /\ Effect[event[p]].op = "cancel"
  /\ IF AfterSweep[r] # None /\ MayCancel(AfterSweep[r], sent[p])
     THEN DecideOn(p, r, Cancelled(res[r], sent[p])) /\ UNCHANGED <<lock, held>>
     ELSE Answer(p)
  /\ UNCHANGED <<run, tables, histories>>

CommitCancel(p) ==
  /\ pc[p] = "commit"
  /\ \/ ~Admitted(p, AfterSweep) /\ Reject
     \/ /\ Admitted(p, AfterSweep)
        /\ res' = [AfterSweep EXCEPT ![about[p]] = Merged(p)]
        /\ overtaken' = Overtaken(p)
        /\ Accept(p) /\ UNCHANGED ses
  /\ Answer(p)
  /\ UNCHANGED <<breach, touched>>

\* The connection or the process is lost, or the request is the victim of a
\* deadlock: nothing of the transaction remains.
Lost(p) ==
  /\ pc[p] # "idle"
  /\ Answer(p)
  /\ UNCHANGED <<run, tables, histories>>

-----------------------------------------------------------------------------
(* Requests about reservations of the run that do not carry the simulation *)
(* headers: decided in real time, without the run's lock, whatever the     *)
(* reservation's provenance and the run's status.                          *)

DirectCancel(p, r) ==
  /\ "direct" \in Enabled
  /\ pc[p] = "idle" /\ res[r] # None /\ MayCancel(res[r], RealNow)
  /\ DecideOn(p, r, Cancelled(res[r], RealNow))
  /\ res' = Reconciled(Real, RealNow)
  /\ UNCHANGED <<run, ses, receipts, applied, lock, held, histories>>

DirectReschedule(p, r, start) ==
  /\ "direct" \in Enabled
  /\ pc[p] = "idle" /\ res[r] # None /\ MayReschedule(res[r], RealNow)
  /\ ValidInterval(start, start + MinDuration, RealNow) /\ start # res[r].start
  /\ DecideOn(p, r, Row(start, "CONFIRMED"))
  /\ res' = Reconciled(Real, RealNow)
  /\ UNCHANGED <<run, ses, receipts, applied, lock, held, histories>>

\* The write waits for the lock of its row only.
DirectWrite(p) ==
  /\ pc[p] = "update" /\ about[p] \notin held
  /\ IF Admitted(p, res)
     THEN /\ res' = [res EXCEPT ![about[p]] = Merged(p)]
          /\ overtaken' = Overtaken(p)
          /\ touched' = touched \cup {about[p]}
     ELSE UNCHANGED <<res, overtaken, touched>>
  /\ Answer(p)
  /\ UNCHANGED <<run, ses, receipts, applied, breach>>

\* Activation and completion check under the lock of the row.
DirectActivate(r) ==
  /\ "direct" \in Enabled
  /\ r \notin held /\ ~CalendarLocked /\ MayBegin(res[r], r, RealNow)
  /\ res' = [Reconciled(Real, RealNow) EXCEPT ![r] = RowAfter("activate", r)]
  /\ ses' = [ses EXCEPT ![r] = Begun(RealNow)]
  /\ touched' = touched \cup {r}
  /\ UNCHANGED <<run, receipts, applied, lock, held, request, breach, overtaken>>

DirectComplete(r) ==
  /\ "direct" \in Enabled
  /\ r \notin held /\ MayEnd(res[r], r, RealNow)
  /\ res' = [res EXCEPT ![r] = RowAfter("complete", r)]
  /\ ses' = [ses EXCEPT ![r] = Ended(r)]
  /\ touched' = touched \cup {r}
  /\ UNCHANGED <<run, receipts, applied, lock, held, request, breach, overtaken>>

-----------------------------------------------------------------------------
(* The managers of the run.                                                *)

StartRun ==
  /\ lock = None /\ run.status = "DRAFT"
  /\ run' = [run EXCEPT !.status = "RUNNING"]
  /\ UNCHANGED <<tables, lock, held, request, histories>>

\* The slip of not looking for sessions that are still charging.
AlwaysQuiet == TRUE

Quiet == \A r \in Simulated : ~Open(r)

\* Completion, in one transaction under the run's lock: the sweep at the end of the
\* window, which keeps its rows locked, and the look for open sessions, ...
Settle(p) ==
  /\ pc[p] = "idle" /\ lock = None /\ run.status = "RUNNING" /\ Quiet
  /\ lock' = p
  /\ held' = OverdueAt(run.end)
  /\ touched' = {}
  /\ Goto(p, "complete")
  /\ UNCHANGED <<run, tables, event, sent, seen, about, copy, breach, overtaken>>

\* ... then the status.  A session that a request without headers opens in between
\* goes unseen.
CompleteRun(p) ==
  /\ pc[p] = "complete"
  /\ res' = AfterSweep
  /\ run' = [run EXCEPT !.status = "COMPLETED"]
  /\ Answer(p)
  /\ UNCHANGED <<ses, receipts, applied, histories>>

CancelRun ==
  /\ "cancel" \in Enabled
  /\ lock = None /\ run.status \in {"DRAFT", "RUNNING"}
  /\ run' = [run EXCEPT !.status = "CANCELLED"]
  /\ touched' = {}
  /\ UNCHANGED <<tables, lock, held, request, breach, overtaken>>

\* SimulationRun.validate and the check constraint of the table.
ClockInWindow(r) == r.last # None => InWindow(r, r.last)

\* PATCH: an unlocked read decides, a second unlocked read is the base of the
\* write, and the UPDATE sets the columns in which the two differ.
PatchRead(p, e) ==
  LET new == [run EXCEPT !.end = e] IN
  /\ "patch" \in Enabled
  /\ pc[p] = "idle" /\ run.status = "DRAFT" /\ ClockInWindow(new)
  /\ seen' = [seen EXCEPT ![p].new = new]
  /\ Goto(p, "base")
  /\ UNCHANGED <<run, tables, lock, held, event, sent, about, copy, histories>>

PatchBase(p) ==
  /\ pc[p] = "base"
  /\ seen' = [seen EXCEPT ![p].loaded = run]
  /\ Goto(p, "write")
  /\ UNCHANGED <<run, tables, lock, held, event, sent, about, copy, histories>>

\* A row that breaks the constraint is an error, and nothing is written.
PatchWrite(p) ==
  LET s == seen[p]
      row == [f \in DOMAIN run |-> Column(run[f], s.loaded[f], s.new[f])] IN
  /\ pc[p] = "write" /\ lock = None
  /\ run' = IF ClockInWindow(row) THEN row ELSE run
  /\ breach' = IF {run.status, s.loaded.status} = {"DRAFT"} THEN breach
               ELSE breach \cup {"patch"}
  /\ Answer(p)
  /\ UNCHANGED <<tables, overtaken, touched>>

-----------------------------------------------------------------------------
Next ==
  \/ \E p \in Procs :
       \/ \E e \in Events, t \in Times : Arrive(p, e, t)
       \/ Lock(p) \/ Mutate(p) \/ DecideCancel(p) \/ CommitCancel(p) \/ Lost(p)
       \/ \E r \in Simulated :
            DirectCancel(p, r) \/ \E start \in Moves : DirectReschedule(p, r, start)
       \/ Reread(p) \/ DirectWrite(p)
       \/ \E e \in WindowEnds : PatchRead(p, e)
       \/ PatchBase(p) \/ PatchWrite(p)
       \/ Settle(p) \/ CompleteRun(p)
  \/ \E r \in Simulated : DirectActivate(r) \/ DirectComplete(r)
  \/ StartRun \/ CancelRun
  \/ RealReconcile

Spec == Init /\ [][Next]_vars

-----------------------------------------------------------------------------
(* Properties.                                                             *)

\* The instant by which the holder of the run's lock has swept.
SweptAt(p) == IF pc[p] = "complete" THEN run.end ELSE sent[p]

\* What a request carries while it is on its way, and what the row locks protect
\* from its checks to its commit: status and clock of the run, the missing
\* receipt, and that the rows it sweeps are overdue.
LockProtectsRun ==
  /\ \A p \in Procs :
       /\ pc[p] = "lock" => event[p] # None /\ sent[p] # None
       /\ pc[p] \in {"base", "write"} => seen[p].new # None /\ seen[p].new.status = "DRAFT"
       /\ pc[p] = "write" => seen[p].loaded # None
       /\ pc[p] \in {"mutate", "commit", "complete"} => lock = p
       /\ lock = p =>
            /\ pc[p] \in {"mutate", "reread", "commit", "complete"}
            /\ StillRunning(run)
            /\ \A r \in held : res[r] # None /\ Overdue(res[r], SweptAt(p))
       /\ lock = p /\ pc[p] # "complete" =>
            /\ event[p] # None /\ sent[p] # None /\ receipts[event[p]] = None
            /\ InWindow(run, sent[p]) /\ Forward(sent[p])
  /\ lock = None => held = {}

\* What a request that cancels or reschedules knows between its reads and its
\* write, none of which a lock protects.
CopiesOfRows ==
  \A p \in Procs :
    /\ pc[p] \in {"reread", "update", "commit"} =>
         /\ about[p] \in Simulated /\ res[about[p]] # None
         /\ copy[p].new \in RowsOf(about[p])
         /\ copy[p].new.status \in {"CONFIRMED", "CANCELLED", "LATE_CANCELLED"}
    /\ pc[p] \in {"update", "commit"} => copy[p].loaded \in RowsOf(about[p])

\* Exactly one effect for each receipt, however often and however concurrently
\* an event is sent, and nothing of an event that was rejected or lost.
AppliedOnce ==
  \A e \in Events : applied[e] = IF receipts[e] = None THEN 0 ELSE 1

\* The logical clock of the run never leaves its window, and unless a PATCH
\* overtook the start of the run it is the latest instant accepted.
ClockIsLatest ==
  LET accepted == {receipts[e] : e \in Events} \ {None} IN
  /\ ClockInWindow(run)
  /\ "patch" \notin breach =>
       IF accepted = {} THEN run.last = None
       ELSE run.last \in accepted /\ \A t \in accepted : t <= run.last

\* Unless a PATCH overtook its start, a draft has no clock, nor has any copy of it.
DraftsHaveNoClock ==
  "patch" \notin breach =>
    /\ run.status = "DRAFT" => run.last = None
    /\ \A p \in Procs :
         /\ seen[p].new # None => seen[p].new.last = None
         /\ seen[p].loaded # None /\ seen[p].loaded.status = "DRAFT" => seen[p].loaded.last = None

\* The inductive invariant: one effect for each receipt, and a clock that is the
\* latest instant accepted, from what the row lock protects.
SimulationInv ==
  /\ TypeOK /\ LockProtectsRun /\ CopiesOfRows
  /\ AppliedOnce /\ ClockIsLatest /\ DraftsHaveNoClock

\* Nobody misses a reservation by someone else's clock: a real one is a no-show
\* only in real time, and a simulated one only at an instant its run has
\* reached (whatever real-time requests do to it, unless one moved its start
\* on the strength of a read that was out of date).
NoShowByOwnClock ==
  \A r \in Reservations :
    res[r] # None /\ res[r].status = "NO_SHOW" =>
      IF r \in Real THEN res[r].start + GracePeriod < RealNow
      ELSE \/ "patch" \in breach \/ r \in overtaken
           \/ run.last # None /\ res[r].start + GracePeriod < run.last
           \/ run.status = "COMPLETED" /\ res[r].start + GracePeriod < run.end

\* A completed run leaves nothing open, however requests without headers have
\* interfered with it before, and only they open something after it has looked: no
\* session is charging and no reservation is overdue at the end of its window.  In
\* every state the open sessions are those of ACTIVE reservations, but for rows that
\* a cancellation or reschedule wrote over after they had left CONFIRMED.
CompletedRunIsSettled ==
  /\ \A r \in Simulated \ overtaken :
       Open(r) <=> res[r] # None /\ res[r].status = "ACTIVE"
  /\ \A p \in Procs : pc[p] = "complete" =>
       \A r \in Simulated \ touched :
         ~Open(r) /\ (res[r] # None /\ Overdue(res[r], run.end) => r \in held)
  /\ run.status = "COMPLETED" /\ "patch" \notin breach =>
       \A r \in Simulated \ touched :
         ~Open(r) /\ (res[r] # None => ~Overdue(res[r], run.end))

\* A finished run is closed: mutations that were admitted while it was running
\* and reach the lock after it ended change nothing, even if a PATCH takes the
\* run out of its terminal status; only rows that requests without headers have
\* written since its end began change at all.
ClosedRunsStay ==
  [][run.status \in {"COMPLETED", "CANCELLED"} =>
       /\ receipts' = receipts
       /\ \A r \in Simulated \ touched' : res'[r] = res[r] /\ ses'[r] = ses[r]]_vars

\* Seen from the simulator, every step of the backend is one of the journal, or none:
\* receipt, effect and clock appear together, once for each event.
Phase ==
  CASE run.status = "DRAFT"   -> "draft"
    [] run.status = "RUNNING" -> "open"
    [] OTHER                  -> "closed"

Journal == INSTANCE RunJournal WITH
  phase <- Phase, journal <- receipts, effects <- applied, clock <- run.last,
  overruled <- "patch" \in breach

JournalSpec == Journal!Spec

\* The documented lifecycle: no way back, and none out of a terminal status.
NeverReopened ==
  [][run'.status # run.status =>
       \/ run.status = "DRAFT" /\ run'.status \in {"RUNNING", "CANCELLED"}
       \/ run.status = "RUNNING" /\ run'.status \in {"COMPLETED", "CANCELLED"}]_vars
=============================================================================
