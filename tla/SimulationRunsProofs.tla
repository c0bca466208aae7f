------------------------- MODULE SimulationRunsProofs -------------------------
(***************************************************************************)
(* Any number of events, instants, reservations and requests.  The         *)
(* invariant of the runs is inductive: the row lock makes the checks of a  *)
(* mutation hold until its commit.  The two properties of the rows follow  *)
(* from it step by step, the rows apart that were overtaken.               *)
(***************************************************************************)
EXTENDS SimulationRuns, TLAPS

\* The inductive invariant.
Inv == SimulationInv /\ NoShowByOwnClock /\ CompletedRunIsSettled

\* The commit of a creation, an activation or a completion, ...
Commits(p, r) ==
  LET op == Effect[event[p]].op IN
  /\ op # "cancel" /\ r \in Targets(event[p]) /\ Allowed(op, r, sent[p])
  /\ res' = [AfterSweep EXCEPT ![r] = RowAfter(op, r)]
  /\ ses' = [ses EXCEPT ![r] = SessionAfter(op, r, sent[p])]
  /\ Accept(p) /\ overtaken' = overtaken

\* ... and of a cancellation.
CommitsCancel(p) ==
  /\ res' = [AfterSweep EXCEPT ![about[p]] = Merged(p)]
  /\ overtaken' = Overtaken(p)
  /\ Accept(p) /\ ses' = ses

\* The row that a PATCH of the run writes.
Patched(p) == [f \in DOMAIN run |-> Column(run[f], seen[p].loaded[f], seen[p].new[f])]

\* Whatever a step does with rows and sessions, they remain rows and sessions.
RowsRemain ==
  /\ res' = [r \in Reservations |-> res'[r]]
  /\ \A r \in Reservations :
       /\ res'[r] \in RowsOf(r) \cup (IF r \in Real THEN {} ELSE {None})
       /\ res[r] # None => res'[r] # None
  /\ ses' \in [Simulated -> Sessions \cup {None}]

\* The reservation became a no-show by the instant t.
Swept(q, t) ==
  /\ res[q] # None /\ res[q].status = "CONFIRMED"
  /\ res[q].start + GracePeriod < t
  /\ res'[q] = Row(res[q].start, "NO_SHOW")

-----------------------------------------------------------------------------
(* Rows, and what a step does with them.                                   *)

\* Simulated and real reservations are different ones.
LEMMA ReservationSets ==
  /\ Simulated \subseteq Reservations /\ Real \subseteq Reservations
  /\ \A r \in Simulated : r \notin Real /\ r \in Reservations
  BY SimulationAssumption DEF Reservations

\* The columns of a row.
LEMMA RowFacts ==
  ASSUME NEW r \in Reservations, NEW t \in Starts(r), NEW s \in ReservationStatus
  PROVE  /\ Row(t, s) \in RowsOf(r) /\ Row(t, s) # None
         /\ Row(t, s).status = s /\ Row(t, s).start = t
         /\ t \in Nat
<1>1. Row(t, s) \in RowsOf(r)
  BY DEF RowsOf
<1>2. t \in Nat
  BY SimulationAssumption DEF Starts
<1> QED
  BY <1>1, <1>2, SimulationAssumption DEF Row

\* A row that a reservation may have.
LEMMA RowsOfFacts ==
  ASSUME NEW r \in Reservations, NEW row \in RowsOf(r)
  PROVE  /\ row # None /\ row.start \in Starts(r) /\ row.status \in ReservationStatus
         /\ row = Row(row.start, row.status) /\ row.start \in Nat
<1>1. PICK t \in Starts(r), s \in ReservationStatus : row = Row(t, s)
  BY DEF RowsOf
<1> QED
  BY <1>1, RowFacts

\* The row of a reservation is one of them.
LEMMA RowOf ==
  ASSUME TypeOK, NEW r \in Reservations, res[r] # None
  PROVE  /\ res[r] \in RowsOf(r) /\ res[r].start \in Starts(r) /\ res[r].start \in Nat
         /\ res[r].status \in ReservationStatus
<1>1. res[r] \in RowsOf(r)
  BY DEF TypeOK
<1> QED
  BY <1>1, RowsOfFacts

\* Being overdue, written out.
LEMMA OverdueFacts ==
  ASSUME TypeOK, NEW r \in Reservations, res[r] # None, NEW t \in Nat
  PROVE  Overdue(res[r], t) <=> res[r].status = "CONFIRMED" /\ res[r].start + GracePeriod < t
  BY RowOf, RulesAssumption DEF Overdue

\* A row that is marked as a no-show.
LEMMA MarkedRow ==
  ASSUME TypeOK, NEW r \in Reservations, res[r] # None
  PROVE  /\ Row(res[r].start, "NO_SHOW") \in RowsOf(r) /\ Row(res[r].start, "NO_SHOW") # None
         /\ Row(res[r].start, "NO_SHOW").status = "NO_SHOW"
         /\ Row(res[r].start, "NO_SHOW").start = res[r].start
<1>1. res[r].start \in Starts(r) /\ "NO_SHOW" \in ReservationStatus
  BY RowOf DEF ReservationStatus
<1> QED
  BY <1>1, RowFacts

\* Reconciliation touches the rows it is given and leaves the others.
LEMMA ReconciledRows ==
  ASSUME TypeOK, NEW rows \in SUBSET Reservations, NEW t \in Nat, NEW r \in Reservations
  PROVE  /\ Reconciled(rows, t) = [q \in Reservations |-> Reconciled(rows, t)[q]]
         /\ Reconciled(rows, t)[r] \in RowsOf(r) \cup (IF r \in Real THEN {} ELSE {None})
         /\ res[r] # None => Reconciled(rows, t)[r] # None
         /\ Reconciled(rows, t)[r] # res[r] =>
              /\ r \in rows /\ res[r] # None /\ res[r].status = "CONFIRMED"
              /\ res[r].start + GracePeriod < t
              /\ Reconciled(rows, t)[r] = Row(res[r].start, "NO_SHOW")
         /\ r \in rows /\ res[r] # None => ~Overdue(Reconciled(rows, t)[r], t)
<1>1. Reconciled(rows, t) = [q \in Reservations |-> Reconciled(rows, t)[q]]
  BY DEF Reconciled
<1>2. Reconciled(rows, t)[r] = IF r \in rows /\ res[r] # None /\ Overdue(res[r], t)
                               THEN Row(res[r].start, "NO_SHOW") ELSE res[r]
  BY DEF Reconciled, Partition
<1>3. CASE r \in rows /\ res[r] # None /\ Overdue(res[r], t)
  <2>1. ~Overdue(Row(res[r].start, "NO_SHOW"), t)
    BY <1>3, MarkedRow DEF Overdue
  <2> QED
    BY <1>1, <1>2, <1>3, <2>1, MarkedRow, OverdueFacts
<1>4. CASE ~(r \in rows /\ res[r] # None /\ Overdue(res[r], t))
  BY <1>1, <1>2, <1>4 DEF TypeOK
<1> QED
  BY <1>3, <1>4

\* So does the sweep of a mutation that holds the run's lock.
LEMMA SweptRows ==
  ASSUME TypeOK, LockProtectsRun, NEW p \in Procs, lock = p, NEW r \in Reservations
  PROVE  /\ held \subseteq Simulated
         /\ AfterSweep = [q \in Reservations |-> AfterSweep[q]]
         /\ AfterSweep[r] \in RowsOf(r) \cup (IF r \in Real THEN {} ELSE {None})
         /\ res[r] # None <=> AfterSweep[r] # None
         /\ AfterSweep[r] # res[r] =>
              /\ r \in Simulated /\ res[r] # None /\ res[r].status = "CONFIRMED"
              /\ res[r].start + GracePeriod < SweptAt(p)
              /\ AfterSweep[r] = Row(res[r].start, "NO_SHOW")
         /\ AfterSweep[r] # res[r] => AfterSweep[r].status = "NO_SHOW"
<1>1. AfterSweep = [q \in Reservations |-> AfterSweep[q]]
  BY DEF AfterSweep
<1>2. AfterSweep[r] = IF r \in held THEN Row(res[r].start, "NO_SHOW") ELSE res[r]
  BY DEF AfterSweep
<1>3. /\ SweptAt(p) \in Nat /\ held \subseteq Simulated
      /\ r \in held => r \in Simulated /\ res[r] # None /\ Overdue(res[r], SweptAt(p))
  <2>1. /\ sent[p] \in Times \cup {None} /\ Times \subseteq Nat
        /\ run.end \in Nat /\ held \subseteq Simulated
    BY SimulationAssumption DEF TypeOK, Run
  <2>2. pc[p] # "complete" => sent[p] # None
    BY DEF LockProtectsRun
  <2>3. SweptAt(p) \in Nat
    BY <2>1, <2>2 DEF SweptAt
  <2>4. \A q \in held : res[q] # None /\ Overdue(res[q], SweptAt(p))
    BY DEF LockProtectsRun
  <2> QED
    BY <2>1, <2>3, <2>4
<1>4. CASE r \in held
  BY <1>1, <1>2, <1>3, <1>4, MarkedRow, OverdueFacts
<1>5. CASE r \notin held
  BY <1>1, <1>2, <1>5 DEF TypeOK
<1> QED
  BY <1>3, <1>4, <1>5

\* One row more is written.
LEMMA OneRow ==
  ASSUME NEW base, base = [q \in Reservations |-> base[q]],
         \A q \in Reservations :
           /\ base[q] \in RowsOf(q) \cup (IF q \in Real THEN {} ELSE {None})
           /\ res[q] # None => base[q] # None,
         NEW r \in Reservations, NEW row \in RowsOf(r), res' = [base EXCEPT ![r] = row],
         ses' \in [Simulated -> Sessions \cup {None}]
  PROVE  /\ RowsRemain
         /\ res'[r] = row /\ \A q \in Reservations : q # r => res'[q] = base[q]
<1>1. res' = [q \in Reservations |-> IF q = r THEN row ELSE base[q]]
  OBVIOUS
<1>2. \A q \in Reservations : res'[q] = IF q = r THEN row ELSE base[q]
  BY <1>1
<1>3. res' = [q \in Reservations |-> res'[q]]
  BY <1>1
<1>4. row # None
  BY RowsOfFacts
<1> QED
  BY <1>2, <1>3, <1>4 DEF RowsRemain

\* Sessions begin and end as sessions.
LEMMA SessionFacts ==
  /\ \A t \in Times \cup {RealNow} :
       /\ Begun(t) \in Sessions /\ Begun(t) # None /\ Begun(t).open
  /\ \A r \in Simulated : TypeOK /\ ses[r] # None => Ended(r) \in Sessions /\ ~Ended(r).open
<1>1. \A t \in Times \cup {RealNow} :
        /\ Begun(t) \in Sessions /\ Begun(t) # None /\ Begun(t).open
  <2>1. \A t \in Times \cup {RealNow} : Begun(t) \in Sessions /\ Begun(t).open
    BY DEF Begun, Sessions
  <2> QED
    BY <2>1, SimulationAssumption
<1>2. ASSUME NEW r \in Simulated, TypeOK, ses[r] # None
      PROVE  Ended(r) \in Sessions /\ ~Ended(r).open
  <2>1. ses[r] \in Sessions
    BY <1>2 DEF TypeOK
  <2> QED
    BY <2>1 DEF Ended, Sessions
<1> QED
  BY <1>1, <1>2

-----------------------------------------------------------------------------
(* Types, what the lock protects, receipts and the clock.                  *)

\* The end of a request.
LEMMA AnswerFacts ==
  ASSUME TypeOK, NEW p \in Procs, Answer(p)
  PROVE  /\ lock' \in Procs \cup {None} /\ held' \subseteq Simulated
         /\ event' \in [Procs -> Events \cup {None}] /\ sent' \in [Procs -> Times \cup {None}]
         /\ pc' \in [Procs -> Steps] /\ about' \in [Procs -> Simulated \cup {None}]
         /\ seen' \in [Procs -> [loaded : Run \cup {None}, new : Run \cup {None}]]
         /\ copy' \in [Procs -> [loaded : Rows \cup {None}, new : Rows \cup {None}]]
         /\ pc'[p] = "idle" /\ seen'[p].new = None /\ seen'[p].loaded = None
         /\ \A q \in Procs : q # p =>
              UNCHANGED <<pc[q], event[q], sent[q], seen[q], about[q], copy[q]>>
         /\ lock' = (IF lock = p THEN None ELSE lock) /\ held' = (IF lock = p THEN {} ELSE held)
  BY DEF Answer, Goto, Nothing, TypeOK, Steps

\* What the row locks protect for others survives the end of a request.
LEMMA AnswerLock ==
  ASSUME TypeOK, LockProtectsRun, NEW p \in Procs, Answer(p),
         \A q \in Procs : q # p /\ lock = q =>
           run' = run /\ receipts' = receipts /\ \A r \in held : res'[r] = res[r]
  PROVE  LockProtectsRun'
<1>1. p # None
  BY SimulationAssumption
<1>2. ASSUME NEW q \in Procs, q # p
      PROVE  /\ pc'[q] = "lock" => event'[q] # None /\ sent'[q] # None
             /\ pc'[q] \in {"base", "write"} => seen'[q].new # None /\ seen'[q].new.status = "DRAFT"
             /\ pc'[q] = "write" => seen'[q].loaded # None
             /\ pc'[q] \in {"mutate", "commit", "complete"} => lock' = q
             /\ lock' = q =>
                  /\ pc'[q] \in {"mutate", "reread", "commit", "complete"}
                  /\ run'.status = "RUNNING"
                  /\ \A r \in held' : res'[r] # None /\ Overdue(res'[r], SweptAt(q)')
             /\ lock' = q /\ pc'[q] # "complete" =>
                  /\ event'[q] # None /\ sent'[q] # None /\ receipts'[event'[q]] = None
                  /\ sent'[q] <= run'.end /\ (run'.last = None \/ sent'[q] >= run'.last)
  <2>1. UNCHANGED <<pc[q], event[q], sent[q], seen[q]>>
    BY <1>2, AnswerFacts
  <2>2. q # None
    BY SimulationAssumption
  <2>3. lock' = q => lock = q /\ held' = held
    BY <1>2, <2>2, AnswerFacts
  <2>4. lock = q => /\ lock' = q /\ held' = held /\ run' = run /\ receipts' = receipts
                    /\ \A r \in held : res'[r] = res[r]
    BY <1>2, AnswerFacts
  <2> QED
    BY <2>1, <2>3, <2>4 DEF LockProtectsRun, StillRunning, SweptAt, InWindow, Forward, SweptAt
<1>3. lock' # p /\ pc'[p] = "idle"
  BY <1>1, AnswerFacts
<1>4. lock' = None => held' = {}
  BY AnswerFacts DEF LockProtectsRun
<1> QED
  BY <1>2, <1>3, <1>4 DEF LockProtectsRun, StillRunning, SweptAt, InWindow, Forward

\* So does what requests know of rows.
LEMMA AnswerCopies ==
  ASSUME TypeOK, CopiesOfRows, NEW p \in Procs, Answer(p), RowsRemain
  PROVE  CopiesOfRows'
<1>1. ASSUME NEW q \in Procs, q # p, pc'[q] \in {"reread", "update", "commit"}
      PROVE  /\ about'[q] \in Simulated /\ res'[about'[q]] # None
             /\ copy'[q].new \in RowsOf(about'[q])
             /\ copy'[q].new.status \in {"CONFIRMED", "CANCELLED", "LATE_CANCELLED"}
             /\ pc'[q] \in {"update", "commit"} => copy'[q].loaded \in RowsOf(about'[q])
  <2>1. UNCHANGED <<pc[q], about[q], copy[q]>>
    BY <1>1, AnswerFacts
  <2>2. about[q] \in Simulated /\ res[about[q]] # None
    BY <1>1, <2>1 DEF CopiesOfRows
  <2>3. res'[about[q]] # None
    BY <2>2, ReservationSets DEF RowsRemain
  <2> QED
    BY <1>1, <2>1, <2>2, <2>3 DEF CopiesOfRows
<1>2. pc'[p] = "idle"
  BY AnswerFacts
<1> QED
  BY <1>1, <1>2 DEF CopiesOfRows

\* The end of a request that does not concern the run, whatever its rows.
LEMMA AnswerRest ==
  ASSUME SimulationInv, NEW p \in Procs, Answer(p), UNCHANGED <<run, receipts, applied, breach>>,
         RowsRemain, \A r \in held : res'[r] = res[r],
         overtaken' \subseteq Simulated, touched' \subseteq Simulated
  PROVE  SimulationInv'
<1>1. /\ TypeOK /\ LockProtectsRun /\ CopiesOfRows
      /\ AppliedOnce /\ ClockIsLatest /\ DraftsHaveNoClock
  BY DEF SimulationInv
<1>2. TypeOK'
  BY <1>1, AnswerFacts DEF TypeOK, RowsRemain
<1>3. LockProtectsRun' /\ CopiesOfRows'
  BY <1>1, AnswerLock, AnswerCopies
<1>4. AppliedOnce' /\ ClockIsLatest'
  BY <1>1 DEF AppliedOnce, ClockIsLatest, ClockInWindow, InWindow
<1>5. DraftsHaveNoClock'
  BY <1>1, AnswerFacts DEF DraftsHaveNoClock
<1> QED
  BY <1>2, <1>3, <1>4, <1>5 DEF SimulationInv

\* Rows that nobody touches remain.
LEMMA RowsAtRest ==
  ASSUME TypeOK, UNCHANGED <<res, ses>>
  PROVE  RowsRemain
  BY DEF TypeOK, RowsRemain

\* Steps that leave the requests alone, and with them the lock.
LEMMA RequestsRest ==
  ASSUME SimulationInv, UNCHANGED <<lock, held, request, receipts, applied, breach>>,
         run' \in Run, run'.end = run.end, run'.last = run.last,
         run' = run \/ (lock = None /\ run'.status # "DRAFT"),
         RowsRemain, \A r \in held : res'[r] = res[r],
         overtaken' \subseteq Simulated, touched' \subseteq Simulated
  PROVE  SimulationInv'
<1>1. /\ TypeOK /\ LockProtectsRun /\ CopiesOfRows
      /\ AppliedOnce /\ ClockIsLatest /\ DraftsHaveNoClock
  BY DEF SimulationInv
<1>2. TypeOK'
  BY <1>1 DEF TypeOK, RowsRemain, request
<1>3. LockProtectsRun'
  <2>1. \A q \in Procs : lock = q => run' = run
    BY SimulationAssumption
  <2> QED
    BY <1>1, <2>1 DEF LockProtectsRun, StillRunning, SweptAt, InWindow, Forward, request
<1>4. CopiesOfRows'
  BY <1>1, ReservationSets DEF CopiesOfRows, RowsRemain, request
<1>5. AppliedOnce' /\ ClockIsLatest'
  BY <1>1 DEF AppliedOnce, ClockIsLatest, ClockInWindow, InWindow
<1>6. DraftsHaveNoClock'
  BY <1>1 DEF DraftsHaveNoClock, request
<1> QED
  BY <1>2, <1>3, <1>4, <1>5, <1>6 DEF SimulationInv

\* What a mutation accepts, and what becomes of the run.
LEMMA AcceptFacts ==
  ASSUME TypeOK, LockProtectsRun, NEW p \in Procs, lock = p, pc[p] # "complete"
  PROVE  /\ event[p] \in Events /\ sent[p] \in Times /\ sent[p] \in Nat /\ sent[p] # None
         /\ Effect[event[p]].op \in {"create", "cancel", "activate", "complete"}
         /\ run.status = "RUNNING" /\ receipts[event[p]] = None
         /\ InWindow(run, sent[p]) /\ Forward(sent[p]) /\ run \in Run
         /\ run.last # None => run.last \in Nat /\ run.last <= sent[p]
         /\ Accept(p) =>
              run' \in Run /\ run'.status = "RUNNING" /\ run'.end = run.end /\ run'.last = sent[p]
<1>1. event[p] \in Events /\ sent[p] \in Times
  BY DEF TypeOK, LockProtectsRun
<1>2. /\ run.status = "RUNNING" /\ receipts[event[p]] = None
      /\ InWindow(run, sent[p]) /\ Forward(sent[p])
  BY DEF LockProtectsRun, StillRunning
<1>3. sent[p] \in Nat /\ sent[p] # None
  BY <1>1, SimulationAssumption
<1>4. Effect[event[p]].op \in {"create", "cancel", "activate", "complete"}
  BY <1>1, SimulationAssumption
<1>5. run \in Run
  BY DEF TypeOK
<1>6. run.last # None => run.last \in Nat
  BY <1>5, SimulationAssumption DEF Run
<1>7. run.last # None => run.last <= sent[p]
  BY <1>2, <1>3, <1>6 DEF Forward
<1>8. Accept(p) =>
        run' \in Run /\ run'.status = "RUNNING" /\ run'.end = run.end /\ run'.last = sent[p]
  BY <1>1, <1>2, <1>5 DEF Accept, Run
<1> QED
  BY <1>1, <1>2, <1>3, <1>4, <1>5, <1>6, <1>7, <1>8

\* Under the run's lock a commit adds one effect, one receipt and a later clock.
LEMMA AcceptInv ==
  ASSUME SimulationInv, NEW p \in Procs, lock = p, pc[p] # "complete", Accept(p), Answer(p), RowsRemain,
         breach' = breach, overtaken' \subseteq Simulated, touched' \subseteq Simulated
  PROVE  SimulationInv'
<1>1. /\ TypeOK /\ LockProtectsRun /\ CopiesOfRows
      /\ AppliedOnce /\ ClockIsLatest /\ DraftsHaveNoClock
  BY DEF SimulationInv
<1> DEFINE e == event[p]
           t == sent[p]
<1>2. /\ e \in Events /\ t \in Times /\ t \in Nat /\ t # None /\ receipts[e] = None
      /\ InWindow(run, t) /\ run' \in Run
      /\ run.last # None => run.last \in Nat /\ run.last <= t
      /\ run.status = "RUNNING" /\ run'.status = "RUNNING" /\ run'.end = run.end /\ run'.last = t
  BY <1>1, AcceptFacts
<1>3. receipts' = [receipts EXCEPT ![e] = t] /\ applied' = [applied EXCEPT ![e] = @ + 1]
  BY DEF Accept
<1>4. receipts' \in [Events -> Times \cup {None}] /\ applied' \in [Events -> Nat]
  BY <1>1, <1>2, <1>3 DEF TypeOK
<1>5. TypeOK'
  BY <1>1, <1>2, <1>4, AnswerFacts DEF TypeOK, RowsRemain
<1>6. LockProtectsRun' /\ CopiesOfRows'
  BY <1>1, AnswerLock, AnswerCopies
<1>7. AppliedOnce'
  BY <1>1, <1>2, <1>3 DEF AppliedOnce, TypeOK
<1>8. ClockIsLatest'
  <2> DEFINE before == {receipts[d] : d \in Events} \ {None}
             after == {receipts'[d] : d \in Events} \ {None}
  <2>1. after = before \cup {t}
    BY <1>1, <1>2, <1>3 DEF TypeOK
  <2>2. before \subseteq Nat
    BY <1>1, SimulationAssumption DEF TypeOK
  <2>3. "patch" \notin breach => \A u \in before : u <= t
    BY <1>1, <1>2, <2>2 DEF ClockIsLatest
  <2>4. ClockInWindow(run')
    BY <1>2 DEF ClockInWindow, InWindow
  <2> HIDE DEF before
  <2> QED
    BY <1>2, <2>1, <2>3, <2>4 DEF ClockIsLatest
<1>9. DraftsHaveNoClock'
  BY <1>1, <1>2, AnswerFacts DEF DraftsHaveNoClock
<1> QED
  BY <1>5, <1>6, <1>7, <1>8, <1>9 DEF SimulationInv

\* PATCH commits a row of its own making only where nobody holds the run.
LEMMA PatchWriteInv ==
  ASSUME SimulationInv, NEW p \in Procs, PatchWrite(p)
  PROVE  /\ SimulationInv'
         /\ "patch" \notin breach' =>
              breach' = breach /\ run.status = "DRAFT" /\ run.last = None
              /\ run'.status = "DRAFT" /\ run'.last = None
<1>1. /\ TypeOK /\ LockProtectsRun /\ CopiesOfRows
      /\ AppliedOnce /\ ClockIsLatest /\ DraftsHaveNoClock
  BY DEF SimulationInv
<1> DEFINE row == Patched(p)
           s == seen[p]
<1>2. /\ pc[p] = "write" /\ lock = None /\ Answer(p) /\ UNCHANGED <<tables, overtaken, touched>>
      /\ run' = IF ClockInWindow(row) THEN row ELSE run
      /\ breach' = IF {run.status, s.loaded.status} = {"DRAFT"} THEN breach
                   ELSE breach \cup {"patch"}
  BY DEF PatchWrite, Patched
<1>3. /\ run \in Run /\ s.loaded \in Run /\ s.new \in Run /\ s.new.status = "DRAFT"
  BY <1>1, <1>2 DEF TypeOK, LockProtectsRun
<1>4. row = [status |-> Column(run.status, s.loaded.status, s.new.status),
             end |-> Column(run.end, s.loaded.end, s.new.end),
             last |-> Column(run.last, s.loaded.last, s.new.last)]
  BY <1>3 DEF Patched, Run
<1>5. row \in Run
  BY <1>3, <1>4 DEF Column, Run
<1>6. run' \in Run /\ ClockInWindow(run')
  BY <1>1, <1>2, <1>3, <1>5 DEF ClockIsLatest
<1>7. "patch" \notin breach' =>
        breach' = breach /\ run.status = "DRAFT" /\ run.last = None
        /\ run'.status = "DRAFT" /\ run'.last = None
  <2>1. SUFFICES ASSUME "patch" \notin breach'
                 PROVE  /\ breach' = breach /\ run.status = "DRAFT" /\ run.last = None
                        /\ run'.status = "DRAFT" /\ run'.last = None
    OBVIOUS
  <2>2. breach' = breach /\ run.status = "DRAFT" /\ s.loaded.status = "DRAFT"
    <3>1. {run.status, s.loaded.status} = {"DRAFT"} /\ breach' = breach
      BY <1>2, <2>1
    <3> QED
      BY <3>1
  <2>3. run.last = None /\ s.new.last = None /\ s.loaded.last = None
    BY <1>1, <1>3, <2>1, <2>2, SimulationAssumption DEF DraftsHaveNoClock
  <2>4. row.status = "DRAFT" /\ row.last = None
    BY <1>3, <1>4, <2>2, <2>3 DEF Column
  <2> QED
    BY <1>2, <2>2, <2>3, <2>4
<1>8. RowsRemain
  BY <1>1, <1>2, RowsAtRest DEF tables
<1>9. TypeOK'
  BY <1>1, <1>2, <1>6, AnswerFacts DEF TypeOK, tables
<1>10. LockProtectsRun' /\ CopiesOfRows'
  <2>1. \A q \in Procs : lock # q
    BY <1>2, SimulationAssumption
  <2> QED
    BY <1>1, <1>2, <1>8, <2>1, AnswerLock, AnswerCopies
<1>11. AppliedOnce'
  BY <1>1, <1>2 DEF AppliedOnce, tables
<1>12. ClockIsLatest'
  BY <1>1, <1>2, <1>6, <1>7 DEF ClockIsLatest, tables
<1>13. DraftsHaveNoClock'
  BY <1>1, <1>7, <1>2, AnswerFacts DEF DraftsHaveNoClock
<1> QED
  BY <1>7, <1>9, <1>10, <1>11, <1>12, <1>13 DEF SimulationInv

\* A request that has decided on what it read.
LEMMA DecideInv ==
  ASSUME SimulationInv, NEW p \in Procs, NEW r \in Simulated, NEW row \in RowsOf(r),
         row.status \in {"CONFIRMED", "CANCELLED", "LATE_CANCELLED"}, res[r] # None,
         DecideOn(p, r, row), pc[p] \in {"idle", "mutate"},
         UNCHANGED <<run, ses, receipts, applied, lock, held, histories>>,
         RowsRemain, \A q \in Simulated : res'[q] = res[q]
  PROVE  SimulationInv'
<1>1. /\ TypeOK /\ LockProtectsRun /\ CopiesOfRows
      /\ AppliedOnce /\ ClockIsLatest /\ DraftsHaveNoClock
  BY DEF SimulationInv
<1>2. /\ about' = [about EXCEPT ![p] = r] /\ copy' = [copy EXCEPT ![p].new = row]
      /\ pc' = [pc EXCEPT ![p] = "reread"] /\ UNCHANGED <<event, sent, seen>>
  BY DEF DecideOn, Goto
<1>3. row \in Rows
  BY DEF Rows
<1>4. /\ pc'[p] = "reread" /\ about'[p] = r /\ copy'[p].new = row
      /\ \A q \in Procs : q # p => UNCHANGED <<pc[q], about[q], copy[q]>>
  BY <1>1, <1>2 DEF TypeOK
<1>5. TypeOK'
  <2>1. pc' \in [Procs -> Steps]
    BY <1>1, <1>2 DEF TypeOK, Steps
  <2> QED
    BY <1>1, <1>2, <1>3, <2>1 DEF TypeOK, RowsRemain, histories
<1>6. LockProtectsRun'
  <2>1. \A q \in held : res'[q] = res[q]
    BY <1>1 DEF TypeOK
  <2>2. ASSUME NEW q \in Procs
        PROVE  /\ pc'[q] # "reread" => pc'[q] = pc[q]
               /\ pc'[q] = "complete" <=> pc[q] = "complete"
    BY <1>4
  <2> QED
    BY <1>1, <1>2, <2>1, <2>2 DEF LockProtectsRun, StillRunning, SweptAt, InWindow, Forward
<1>7. CopiesOfRows'
  <2>1. ASSUME NEW q \in Procs, q # p, pc'[q] \in {"reread", "update", "commit"}
        PROVE  about[q] \in Simulated /\ res'[about[q]] # None
    BY <1>1, <1>4, <2>1 DEF CopiesOfRows
  <2> QED
    BY <1>1, <1>4, <2>1 DEF CopiesOfRows
<1>8. AppliedOnce' /\ ClockIsLatest' /\ DraftsHaveNoClock'
  BY <1>1, <1>2 DEF AppliedOnce, ClockIsLatest, DraftsHaveNoClock, ClockInWindow, InWindow, histories
<1> QED
  BY <1>5, <1>6, <1>7, <1>8 DEF SimulationInv

\* The second read.
LEMMA RereadInv ==
  ASSUME SimulationInv, NEW p \in Procs, Reread(p)
  PROVE  SimulationInv'
<1>1. /\ TypeOK /\ LockProtectsRun /\ CopiesOfRows
      /\ AppliedOnce /\ ClockIsLatest /\ DraftsHaveNoClock
  BY DEF SimulationInv
<1>2. pc[p] = "reread" /\ UNCHANGED <<run, tables, histories>>
  BY DEF Reread
<1>3. RowsRemain
  BY <1>1, <1>2, RowsAtRest DEF tables
<1>4. CASE Answer(p)
  BY <1>1, <1>2, <1>3, <1>4, AnswerRest DEF tables, histories, TypeOK
<1>5. CASE ~Answer(p)
  <2> DEFINE r == about[p]
             step == IF lock = p THEN "commit" ELSE "update"
  <2>1. /\ copy' = [copy EXCEPT ![p].loaded = res[r]] /\ pc' = [pc EXCEPT ![p] = step]
        /\ UNCHANGED <<event, sent, seen, about, lock, held>>
    BY <1>5 DEF Reread, Goto
  <2>2. r \in Simulated /\ r \in Reservations /\ res[r] \in RowsOf(r)
    BY <1>1, <1>2, ReservationSets, RowOf DEF CopiesOfRows
  <2>3. res[r] \in Rows
    BY <2>2 DEF Rows
  <2>4. /\ pc'[p] = step /\ copy'[p].loaded = res[r] /\ copy'[p].new = copy[p].new
        /\ \A q \in Procs : q # p => UNCHANGED <<pc[q], copy[q]>>
    BY <1>1, <2>1 DEF TypeOK
  <2>5. TypeOK'
    BY <1>1, <1>2, <2>1, <2>3 DEF TypeOK, Steps, tables, histories
  <2>6. LockProtectsRun'
    <3>1. ASSUME NEW q \in Procs
          PROVE  /\ pc'[q] \notin {"commit", "update"} => pc'[q] = pc[q]
                 /\ pc'[q] = "commit" => pc[q] = "commit" \/ lock = q
                 /\ pc'[q] = "update" => pc[q] = "update" \/ lock # q
                 /\ pc'[q] = "complete" <=> pc[q] = "complete"
      <4>1. q # p => pc'[q] = pc[q]
        BY <2>4
      <4> QED
        BY <1>2, <2>4, <4>1
    <3> HIDE DEF step
    <3> QED
      BY <1>1, <1>2, <2>1, <3>1 DEF LockProtectsRun, StillRunning, SweptAt, InWindow, Forward, tables
  <2>7. CopiesOfRows'
    BY <1>1, <1>2, <2>1, <2>2, <2>4 DEF CopiesOfRows, tables
  <2>8. AppliedOnce' /\ ClockIsLatest' /\ DraftsHaveNoClock'
    BY <1>1, <1>2, <2>1 DEF AppliedOnce, ClockIsLatest, DraftsHaveNoClock, ClockInWindow, InWindow,
       tables, histories
  <2> QED
    BY <2>5, <2>6, <2>7, <2>8 DEF SimulationInv
<1> QED
  BY <1>4, <1>5

\* The steps of a request about the run up to its end.
LEMMA OnItsWay ==
  ASSUME SimulationInv, NEW p \in Procs,
         \/ \E e \in Events, t \in Times : Arrive(p, e, t)
         \/ Lock(p) \/ Lost(p) \/ PatchBase(p)
         \/ \E e \in WindowEnds : PatchRead(p, e)
  PROVE  SimulationInv'
<1>1. /\ TypeOK /\ LockProtectsRun /\ CopiesOfRows
      /\ AppliedOnce /\ ClockIsLatest /\ DraftsHaveNoClock
  BY DEF SimulationInv
<1>2. UNCHANGED <<run, tables, histories>>
  BY DEF Arrive, Lock, Lost, PatchBase, PatchRead
<1>3. AppliedOnce' /\ ClockIsLatest'
  BY <1>1, <1>2 DEF AppliedOnce, ClockIsLatest, ClockInWindow, InWindow, tables, histories
<1>4. CASE Answer(p)
  <2>1. RowsRemain
    BY <1>1, <1>2, RowsAtRest DEF tables
  <2> QED
    BY <1>1, <1>2, <1>4, <2>1, AnswerRest DEF tables, histories, TypeOK
<1>5. ASSUME NEW e \in Events, NEW t \in Times, Arrive(p, e, t)
      PROVE  SimulationInv'
  <2>1. e # None /\ t # None
    BY SimulationAssumption
  <2>2. /\ pc[p] = "idle" /\ pc' = [pc EXCEPT ![p] = "lock"] /\ event' = [event EXCEPT ![p] = e]
        /\ sent' = [sent EXCEPT ![p] = t] /\ UNCHANGED <<lock, held, seen, about, copy>>
    BY <1>5 DEF Arrive, Goto
  <2>3. TypeOK'
    BY <1>1, <1>2, <2>2 DEF TypeOK, tables, histories, Steps
  <2>4. lock # p
    BY <1>1, <2>2 DEF LockProtectsRun
  <2>5. LockProtectsRun'
    BY <1>1, <1>2, <2>1, <2>2, <2>4 DEF TypeOK, LockProtectsRun, StillRunning, SweptAt, InWindow, Forward, tables
  <2>6. CopiesOfRows' /\ DraftsHaveNoClock'
    BY <1>1, <1>2, <2>2 DEF TypeOK, CopiesOfRows, DraftsHaveNoClock, tables, histories
  <2> QED
    BY <1>3, <2>3, <2>5, <2>6 DEF SimulationInv
<1>6. CASE Lock(p) /\ ~Answer(p)
  <2>1. /\ pc[p] = "lock" /\ lock = None /\ lock' = p /\ pc' = [pc EXCEPT ![p] = "mutate"]
        /\ held' = ToSweep(Effect[event[p]].op, sent[p])
        /\ UNCHANGED <<event, sent, seen, about, copy>>
        /\ StillRunning(run) /\ ~Accepted(event[p]) /\ InWindow(run, sent[p]) /\ Forward(sent[p])
    BY <1>6 DEF Lock, Goto
  <2>2. held' \subseteq Simulated /\ \A r \in held' : res[r] # None /\ Overdue(res[r], sent[p])
    BY <2>1 DEF ToSweep, OverdueAt, Partition
  <2>3. TypeOK'
    BY <1>1, <1>2, <2>1, <2>2 DEF TypeOK, tables, histories, Steps
  <2>4. \A q \in Procs : lock # q /\ pc[q] \notin {"mutate", "commit", "complete"} /\ (lock' = q => q = p)
    BY <1>1, <2>1, SimulationAssumption DEF LockProtectsRun
  <2>5. lock' # None /\ event[p] # None /\ sent[p] # None
    BY <1>1, <2>1, SimulationAssumption DEF LockProtectsRun
  <2>6. LockProtectsRun'
    BY <1>1, <1>2, <2>1, <2>2, <2>4, <2>5 DEF TypeOK, LockProtectsRun, StillRunning, SweptAt, Accepted, InWindow,
       Forward, tables
  <2>7. CopiesOfRows' /\ DraftsHaveNoClock'
    BY <1>1, <1>2, <2>1 DEF TypeOK, CopiesOfRows, DraftsHaveNoClock, tables, histories
  <2> QED
    BY <1>3, <2>3, <2>6, <2>7 DEF SimulationInv
<1>7. ASSUME NEW e \in WindowEnds, PatchRead(p, e)
      PROVE  SimulationInv'
  <2> DEFINE new == [run EXCEPT !.end = e]
  <2>1. /\ pc[p] = "idle" /\ run.status = "DRAFT" /\ UNCHANGED <<lock, held, event, sent, about, copy>>
        /\ seen' = [seen EXCEPT ![p].new = new] /\ pc' = [pc EXCEPT ![p] = "base"]
    BY <1>7 DEF PatchRead, Goto
  <2>2. /\ new \in Run /\ new.status = "DRAFT" /\ new.last = run.last /\ new # None
    BY <1>1, <2>1, SimulationAssumption DEF TypeOK, Run
  <2> HIDE DEF new
  <2>3. /\ seen'[p].new = new /\ seen'[p].loaded = seen[p].loaded
        /\ \A q \in Procs : q # p => seen'[q] = seen[q] /\ pc'[q] = pc[q]
        /\ pc'[p] = "base"
    BY <1>1, <2>1 DEF TypeOK
  <2>4. TypeOK'
    BY <1>1, <1>2, <2>1, <2>2 DEF TypeOK, tables, histories, Steps
  <2>5. lock # p
    BY <1>1, <2>1 DEF LockProtectsRun
  <2>6. LockProtectsRun'
    BY <1>1, <1>2, <2>1, <2>2, <2>3, <2>5 DEF LockProtectsRun, StillRunning, SweptAt, InWindow, Forward, tables
  <2>7. CopiesOfRows' /\ DraftsHaveNoClock'
    BY <1>1, <1>2, <2>1, <2>2, <2>3 DEF CopiesOfRows, DraftsHaveNoClock, tables, histories
  <2> QED
    BY <1>3, <2>4, <2>6, <2>7 DEF SimulationInv
<1>8. CASE PatchBase(p)
  <2>1. /\ pc[p] = "base" /\ UNCHANGED <<lock, held, event, sent, about, copy>>
        /\ seen' = [seen EXCEPT ![p].loaded = run] /\ pc' = [pc EXCEPT ![p] = "write"]
    BY <1>8 DEF PatchBase, Goto
  <2>2. run \in Run /\ run # None
    BY <1>1, SimulationAssumption DEF TypeOK
  <2>3. /\ seen'[p].loaded = run /\ seen'[p].new = seen[p].new
        /\ \A q \in Procs : q # p => seen'[q] = seen[q] /\ pc'[q] = pc[q]
        /\ pc'[p] = "write"
    BY <1>1, <2>1 DEF TypeOK
  <2>4. TypeOK'
    BY <1>1, <1>2, <2>1, <2>2 DEF TypeOK, tables, histories, Steps
  <2>5. lock # p
    BY <1>1, <2>1 DEF LockProtectsRun
  <2>6. LockProtectsRun'
    BY <1>1, <1>2, <2>1, <2>2, <2>3, <2>5 DEF LockProtectsRun, StillRunning, SweptAt, InWindow, Forward, tables
  <2>7. CopiesOfRows' /\ DraftsHaveNoClock'
    BY <1>1, <1>2, <2>1, <2>2, <2>3 DEF CopiesOfRows, DraftsHaveNoClock, tables, histories
  <2> QED
    BY <1>3, <2>4, <2>6, <2>7 DEF SimulationInv
<1> QED
  BY <1>4, <1>5, <1>6, <1>7, <1>8 DEF Lost

-----------------------------------------------------------------------------
(* The writes of rows and sessions.                                        *)

\* The row that a cancellation or reschedule writes.
LEMMA MergedRow ==
  ASSUME TypeOK, CopiesOfRows, NEW p \in Procs, pc[p] \in {"update", "commit"}
  PROVE  /\ about[p] \in Simulated /\ about[p] \in Reservations /\ res[about[p]] # None
         /\ Merged(p) \in RowsOf(about[p])
         /\ Merged(p).status \in {res[about[p]].status, "CONFIRMED", "CANCELLED", "LATE_CANCELLED"}
<1> DEFINE r == about[p]
           c == copy[p]
<1>1. r \in Simulated /\ r \in Reservations /\ res[r] # None
  BY ReservationSets DEF CopiesOfRows
<1>2. c.loaded \in RowsOf(r) /\ c.new \in RowsOf(r)
      /\ c.new.status \in {"CONFIRMED", "CANCELLED", "LATE_CANCELLED"}
  BY DEF CopiesOfRows
<1>3. /\ c.new.start \in Starts(r) /\ res[r].start \in Starts(r)
      /\ c.new.status \in ReservationStatus /\ res[r].status \in ReservationStatus
  BY <1>1, <1>2, RowsOfFacts, RowOf
<1> DEFINE start == Column(res[r].start, c.loaded.start, c.new.start)
           status == Column(res[r].status, c.loaded.status, c.new.status)
<1>4. start \in Starts(r) /\ status \in ReservationStatus /\ status \in {res[r].status, c.new.status}
  BY <1>3 DEF Column
<1>5. Merged(p) = Row(start, status)
  BY DEF Merged
<1> HIDE DEF start, status
<1>6. Merged(p) \in RowsOf(r) /\ Merged(p).status = status
  BY <1>1, <1>4, <1>5, RowFacts
<1> QED
  BY <1>1, <1>2, <1>4, <1>6

\* A row that was not overtaken had not left CONFIRMED.
LEMMA OvertakenFacts ==
  ASSUME TypeOK, CopiesOfRows, NEW p \in Procs, pc[p] \in {"update", "commit"},
         overtaken' = Overtaken(p)
  PROVE  /\ overtaken \subseteq overtaken' /\ overtaken' \subseteq Simulated
         /\ about[p] \notin overtaken' => res[about[p]].status = "CONFIRMED"
  BY MergedRow DEF Overtaken, TypeOK

\* A mutation ends its request, and commits as a whole or changes nothing.
LEMMA MutateCases ==
  ASSUME NEW p \in Procs, Mutate(p) \/ CommitCancel(p)
  PROVE  /\ pc[p] \in {"mutate", "commit"} /\ Answer(p) /\ UNCHANGED <<breach, touched>>
         /\ \/ UNCHANGED <<run, tables, overtaken>>
            \/ pc[p] = "mutate" /\ \E r : Commits(p, r)
            \/ pc[p] = "commit" /\ CommitsCancel(p)
  BY DEF Mutate, CommitCancel, Reject, Commits, CommitsCancel

\* The row that creation, activation or completion writes, and its session.
LEMMA CommitRow ==
  ASSUME TypeOK, LockProtectsRun, NEW p \in Procs, lock = p, pc[p] # "complete", NEW r, Commits(p, r)
  PROVE  LET op == Effect[event[p]].op IN
         /\ r \in Simulated /\ r \in Reservations
         /\ RowAfter(op, r) \in RowsOf(r) /\ RowAfter(op, r).status # "NO_SHOW"
         /\ ses' \in [Simulated -> Sessions \cup {None}]
         /\ \A q \in Simulated : q # r => ses'[q] = ses[q]
         /\ op = "create" => res[r] = None /\ ses'[r] = ses[r] /\ RowAfter(op, r).status = "CONFIRMED"
         /\ op # "create" => (Open(r)' <=> RowAfter(op, r).status = "ACTIVE")
<1> DEFINE op == Effect[event[p]].op
           t == sent[p]
<1>1. /\ event[p] \in Events /\ t \in Times /\ op \in {"create", "activate", "complete"}
      /\ r \in Targets(event[p]) /\ Allowed(op, r, t)
      /\ ses' = [ses EXCEPT ![r] = SessionAfter(op, r, t)]
  BY AcceptFacts DEF Commits
<1>2. r \in Simulated
  BY <1>1, SimulationAssumption DEF Targets
<1>3. r \in Reservations /\ r \notin Real /\ Start[r] \in Starts(r)
  BY <1>2, ReservationSets DEF Starts
<1>4. {"CONFIRMED", "ACTIVE", "COMPLETED"} \subseteq ReservationStatus
  BY DEF ReservationStatus
<1>5. CASE op = "create"
  <2>1. RowAfter(op, r) = Row(Start[r], "CONFIRMED") /\ SessionAfter(op, r, t) = ses[r]
    BY <1>5 DEF RowAfter, SessionAfter
  <2>2. res[r] = None
    BY <1>1, <1>5 DEF Targets
  <2>3. ses' = ses
    BY <1>1, <1>2, <2>1 DEF TypeOK
  <2> QED
    BY <1>2, <1>3, <1>4, <1>5, <2>1, <2>2, <2>3, RowFacts DEF TypeOK
<1>6. CASE op = "activate"
  <2>1. RowAfter(op, r) = Row(res[r].start, "ACTIVE") /\ SessionAfter(op, r, t) = Begun(t)
    BY <1>6 DEF RowAfter, SessionAfter
  <2>2. AfterSweep[r] # None
    BY <1>1, <1>6 DEF Allowed, MayBegin
  <2>3. res[r] # None
    BY <1>3, <2>2, SweptRows
  <2>4. res[r].start \in Starts(r)
    BY <1>3, <2>3, RowOf
  <2>5. Begun(t) \in Sessions /\ Begun(t) # None /\ Begun(t).open
    BY <1>1, SessionFacts
  <2>6. ses' \in [Simulated -> Sessions \cup {None}] /\ ses'[r] = Begun(t)
        /\ \A q \in Simulated : q # r => ses'[q] = ses[q]
    BY <1>1, <1>2, <2>1, <2>5 DEF TypeOK
  <2> QED
    BY <1>2, <1>3, <1>4, <1>6, <2>1, <2>4, <2>5, <2>6, RowFacts DEF Open
<1>7. CASE op = "complete"
  <2>1. RowAfter(op, r) = Row(res[r].start, "COMPLETED") /\ SessionAfter(op, r, t) = Ended(r)
    BY <1>7 DEF RowAfter, SessionAfter
  <2>2. res[r] # None /\ ses[r] # None
    BY <1>1, <1>7 DEF Allowed, MayEnd, Open
  <2>3. res[r].start \in Starts(r)
    BY <1>3, <2>2, RowOf
  <2>4. Ended(r) \in Sessions /\ ~Ended(r).open
    BY <1>2, <2>2, SessionFacts
  <2>5. ses' \in [Simulated -> Sessions \cup {None}] /\ ses'[r] = Ended(r)
        /\ \A q \in Simulated : q # r => ses'[q] = ses[q]
    BY <1>1, <1>2, <2>1, <2>4 DEF TypeOK
  <2> QED
    BY <1>2, <1>3, <1>4, <1>7, <2>1, <2>3, <2>4, <2>5, RowFacts DEF Open
<1> QED
  BY <1>1, <1>5, <1>6, <1>7

\* The rows after the commit of a mutation: its own and those of the sweep.
LEMMA CommitFacts ==
  ASSUME TypeOK, LockProtectsRun, CopiesOfRows, NEW p \in Procs,
         \/ pc[p] = "mutate" /\ \E r : Commits(p, r)
         \/ pc[p] = "commit" /\ CommitsCancel(p)
  PROVE  /\ lock = p /\ pc[p] # "complete" /\ SweptAt(p) = sent[p]
         /\ Accept(p) /\ RowsRemain /\ overtaken' \subseteq Simulated
         /\ overtaken \subseteq overtaken'
         /\ \E r \in Simulated : \A q \in Reservations :
              q # r => /\ q \in Simulated => ses'[q] = ses[q]
                       /\ res'[q] # res[q] => q \in Simulated /\ Swept(q, sent[p])
<1>1. lock = p /\ pc[p] # "complete" /\ SweptAt(p) = sent[p]
  BY DEF LockProtectsRun, SweptAt
<1>2. /\ AfterSweep = [q \in Reservations |-> AfterSweep[q]]
      /\ \A q \in Reservations :
           /\ AfterSweep[q] \in RowsOf(q) \cup (IF q \in Real THEN {} ELSE {None})
           /\ res[q] # None => AfterSweep[q] # None
           /\ AfterSweep[q] # res[q] =>
                /\ q \in Simulated /\ res[q] # None /\ res[q].status = "CONFIRMED"
                /\ res[q].start + GracePeriod < sent[p]
                /\ AfterSweep[q] = Row(res[q].start, "NO_SHOW")
  <2>1. AfterSweep = [q \in Reservations |-> AfterSweep[q]]
    BY DEF AfterSweep
  <2> QED
    BY <1>1, <2>1, SweptRows
<1>3. ASSUME NEW r, Commits(p, r)
      PROVE  /\ Accept(p) /\ RowsRemain /\ overtaken' = overtaken /\ r \in Simulated
             /\ \A q \in Reservations :
                  q # r => /\ q \in Simulated => ses'[q] = ses[q]
                           /\ res'[q] = AfterSweep[q]
  <2> DEFINE row == RowAfter(Effect[event[p]].op, r)
  <2>1. /\ r \in Simulated /\ r \in Reservations /\ row \in RowsOf(r)
        /\ ses' \in [Simulated -> Sessions \cup {None}]
        /\ \A q \in Simulated : q # r => ses'[q] = ses[q]
    BY <1>1, <1>3, CommitRow
  <2>2. Accept(p) /\ overtaken' = overtaken /\ res' = [AfterSweep EXCEPT ![r] = row]
    BY <1>3 DEF Commits
  <2> HIDE DEF row
  <2> QED
    BY <1>2, <2>1, <2>2, OneRow
<1>4. ASSUME pc[p] = "commit", CommitsCancel(p)
      PROVE  /\ Accept(p) /\ RowsRemain /\ about[p] \in Simulated
             /\ overtaken' \subseteq Simulated /\ overtaken \subseteq overtaken'
             /\ \A q \in Reservations :
                  q # about[p] => /\ q \in Simulated => ses'[q] = ses[q]
                                  /\ res'[q] = AfterSweep[q]
  <2>1. /\ about[p] \in Simulated /\ about[p] \in Reservations /\ Merged(p) \in RowsOf(about[p])
    BY <1>4, MergedRow
  <2>2. /\ Accept(p) /\ ses' = ses /\ overtaken' = Overtaken(p)
        /\ res' = [AfterSweep EXCEPT ![about[p]] = Merged(p)]
    BY <1>4 DEF CommitsCancel
  <2>3. overtaken' \subseteq Simulated /\ overtaken \subseteq overtaken'
    BY <1>4, <2>2, OvertakenFacts
  <2>4. ses' \in [Simulated -> Sessions \cup {None}]
    BY <2>2 DEF TypeOK
  <2> QED
    BY <1>2, <2>1, <2>2, <2>3, <2>4, OneRow
<1>5. CASE pc[p] = "mutate" /\ \E r : Commits(p, r)
  <2>1. PICK r : Commits(p, r)
    BY <1>5
  <2> QED
    BY <1>1, <1>2, <1>3, <2>1 DEF Swept, TypeOK
<1>6. CASE pc[p] = "commit" /\ CommitsCancel(p)
  BY <1>1, <1>2, <1>4, <1>6 DEF Swept
<1> QED
  BY <1>5, <1>6

\* The reconciliation that requests in real time begin with.
LEMMA RealRows ==
  ASSUME TypeOK, res' = Reconciled(Real, RealNow), UNCHANGED ses
  PROVE  /\ RowsRemain
         /\ \A q \in Simulated : res'[q] = res[q]
         /\ \A q \in Reservations : res'[q] # res[q] => q \in Real /\ Swept(q, RealNow)
<1>1. Real \in SUBSET Reservations /\ RealNow \in Nat
  BY ReservationSets, SimulationAssumption
<1>2. res' = [q \in Reservations |-> res'[q]]
  BY DEF Reconciled
<1>3. \A q \in Reservations :
        /\ res'[q] \in RowsOf(q) \cup (IF q \in Real THEN {} ELSE {None})
        /\ res[q] # None => res'[q] # None
        /\ res'[q] # res[q] => q \in Real /\ Swept(q, RealNow)
  BY <1>1, ReconciledRows DEF Swept
<1> QED
  BY <1>2, <1>3, ReservationSets DEF RowsRemain, TypeOK

\* The decisions of requests that cancel or reschedule.
LEMMA DecideCases ==
  ASSUME TypeOK, LockProtectsRun, NEW p \in Procs,
         \/ DecideCancel(p)
         \/ \E r \in Simulated :
              DirectCancel(p, r) \/ \E start \in Moves : DirectReschedule(p, r, start)
  PROVE  \/ Answer(p) /\ UNCHANGED <<run, tables, histories>>
         \/ \E r \in Simulated : \E row \in RowsOf(r) :
              /\ row.status \in {"CONFIRMED", "CANCELLED", "LATE_CANCELLED"} /\ res[r] # None
              /\ DecideOn(p, r, row) /\ pc[p] \in {"idle", "mutate"}
              /\ UNCHANGED <<run, ses, receipts, applied, lock, held, histories>>
              /\ res' = res \/ res' = Reconciled(Real, RealNow)
<1>1. ASSUME NEW r \in Simulated, res[r] # None, NEW t
      PROVE  /\ Cancelled(res[r], t) \in RowsOf(r)
             /\ Cancelled(res[r], t).status \in {"CANCELLED", "LATE_CANCELLED"}
  <2>1. /\ r \in Reservations /\ res[r].start \in Starts(r)
        /\ CancelledStatus(res[r], t) \in {"CANCELLED", "LATE_CANCELLED"}
        /\ CancelledStatus(res[r], t) \in ReservationStatus
    BY <1>1, ReservationSets, RowOf DEF CancelledStatus, ReservationStatus
  <2> QED
    BY <2>1, RowFacts DEF Cancelled
<1>2. CASE DecideCancel(p) /\ ~Answer(p)
  <2> DEFINE r == Effect[event[p]].res
  <2>1. /\ pc[p] = "mutate" /\ Effect[event[p]].op = "cancel" /\ AfterSweep[r] # None
        /\ DecideOn(p, r, Cancelled(res[r], sent[p])) /\ UNCHANGED <<run, tables, lock, held, histories>>
    BY <1>2 DEF DecideCancel
  <2>2. lock = p
    BY <2>1 DEF LockProtectsRun
  <2>3. r \in Simulated /\ r \in Reservations
    BY <2>1, <2>2, AcceptFacts, SimulationAssumption, ReservationSets
  <2>4. res[r] # None
    BY <2>1, <2>2, <2>3, SweptRows
  <2> HIDE DEF r
  <2> QED
    BY <1>1, <2>1, <2>3, <2>4 DEF tables
<1>3. ASSUME NEW r \in Simulated, DirectCancel(p, r)
      PROVE  \E row \in RowsOf(r) :
              /\ row.status \in {"CONFIRMED", "CANCELLED", "LATE_CANCELLED"} /\ res[r] # None
              /\ DecideOn(p, r, row) /\ pc[p] \in {"idle", "mutate"}
              /\ UNCHANGED <<run, ses, receipts, applied, lock, held, histories>>
              /\ res' = res \/ res' = Reconciled(Real, RealNow)
  BY <1>1, <1>3 DEF DirectCancel
<1>4. ASSUME NEW r \in Simulated, NEW start \in Moves, DirectReschedule(p, r, start)
      PROVE  \E row \in RowsOf(r) :
              /\ row.status \in {"CONFIRMED", "CANCELLED", "LATE_CANCELLED"} /\ res[r] # None
              /\ DecideOn(p, r, row) /\ pc[p] \in {"idle", "mutate"}
              /\ UNCHANGED <<run, ses, receipts, applied, lock, held, histories>>
              /\ res' = res \/ res' = Reconciled(Real, RealNow)
  <2>1. r \in Reservations /\ start \in Starts(r) /\ "CONFIRMED" \in ReservationStatus
    BY ReservationSets DEF Starts, ReservationStatus
  <2>2. Row(start, "CONFIRMED") \in RowsOf(r) /\ Row(start, "CONFIRMED").status = "CONFIRMED"
    BY <2>1, RowFacts
  <2> QED
    BY <1>4, <2>2 DEF DirectReschedule
<1>5. DecideCancel(p) => UNCHANGED <<run, tables, histories>>
  BY DEF DecideCancel
<1> QED
  BY <1>2, <1>3, <1>4, <1>5

\* The write of a request without headers.
LEMMA DirectWriteFacts ==
  ASSUME TypeOK, LockProtectsRun, CopiesOfRows, NEW p \in Procs, DirectWrite(p)
  PROVE  /\ Answer(p) /\ lock # p /\ UNCHANGED <<run, ses, receipts, applied, breach>>
         /\ RowsRemain /\ \A r \in held : res'[r] = res[r]
         /\ overtaken \subseteq overtaken' /\ overtaken' \subseteq Simulated
         /\ touched \subseteq touched' /\ touched' \subseteq Simulated
         /\ \A q \in Reservations : q # about[p] => res'[q] = res[q]
         /\ \/ res' = res
            \/ /\ about[p] \in touched' /\ overtaken' = Overtaken(p)
               /\ about[p] \in Reservations /\ res'[about[p]] = Merged(p)
<1>1. /\ pc[p] = "update" /\ about[p] \notin held /\ Answer(p)
      /\ UNCHANGED <<run, ses, receipts, applied, breach>>
  BY DEF DirectWrite
<1>2. lock # p
  BY <1>1 DEF LockProtectsRun
<1>3. CASE res' = res /\ overtaken' = overtaken /\ touched' = touched
  BY <1>1, <1>2, <1>3, RowsAtRest DEF TypeOK
<1>4. CASE /\ res' = [res EXCEPT ![about[p]] = Merged(p)]
           /\ overtaken' = Overtaken(p) /\ touched' = touched \cup {about[p]}
  <2>1. about[p] \in Simulated /\ about[p] \in Reservations /\ Merged(p) \in RowsOf(about[p])
    BY <1>1, MergedRow
  <2>2. overtaken \subseteq overtaken' /\ overtaken' \subseteq Simulated
    BY <1>1, <1>4, OvertakenFacts
  <2>3. /\ RowsRemain /\ res'[about[p]] = Merged(p)
        /\ \A q \in Reservations : q # about[p] => res'[q] = res[q]
    BY <1>1, <1>4, <2>1, OneRow DEF TypeOK
  <2>4. \A r \in held : res'[r] = res[r]
    BY <1>1, <2>3, ReservationSets DEF TypeOK
  <2> QED
    BY <1>1, <1>2, <1>4, <2>1, <2>2, <2>3, <2>4 DEF TypeOK
<1> QED
  BY <1>3, <1>4 DEF DirectWrite

\* Activation and completion without headers.
LEMMA DirectFacts ==
  ASSUME TypeOK, NEW r \in Simulated, DirectActivate(r) \/ DirectComplete(r)
  PROVE  /\ UNCHANGED <<run, receipts, applied, lock, held, request, breach, overtaken>>
         /\ RowsRemain /\ \A q \in held : res'[q] = res[q]
         /\ touched' = touched \cup {r}
         /\ res'[r] \in RowsOf(r) /\ res'[r].status # "NO_SHOW"
         /\ Open(r)' <=> res'[r].status = "ACTIVE"
         /\ \A q \in Simulated : q # r => res'[q] = res[q] /\ ses'[q] = ses[q]
         /\ \A q \in Real : res'[q] # res[q] => Swept(q, RealNow)
<1>1. r \in Reservations /\ r \notin Real
  BY ReservationSets
<1>2. {"ACTIVE", "COMPLETED"} \subseteq ReservationStatus
  BY DEF ReservationStatus
<1>3. CASE DirectActivate(r)
  <2> DEFINE base == Reconciled(Real, RealNow)
             row == Row(res[r].start, "ACTIVE")
  <2>1. /\ r \notin held /\ res[r] # None
        /\ res' = [base EXCEPT ![r] = row] /\ ses' = [ses EXCEPT ![r] = Begun(RealNow)]
    BY <1>3 DEF DirectActivate, MayBegin, RowAfter
  <2>2. row \in RowsOf(r) /\ row.status = "ACTIVE"
    BY <1>1, <1>2, <2>1, RowOf, RowFacts
  <2>3. Begun(RealNow) \in Sessions /\ Begun(RealNow) # None /\ Begun(RealNow).open
    BY SessionFacts
  <2>4. /\ ses' \in [Simulated -> Sessions \cup {None}] /\ ses'[r] = Begun(RealNow)
        /\ \A q \in Simulated : q # r => ses'[q] = ses[q]
    BY <2>1, <2>3 DEF TypeOK
  <2>5. Real \in SUBSET Reservations /\ RealNow \in Nat
    BY ReservationSets, SimulationAssumption
  <2>6. /\ base = [q \in Reservations |-> base[q]]
        /\ \A q \in Reservations :
             /\ base[q] \in RowsOf(q) \cup (IF q \in Real THEN {} ELSE {None})
             /\ res[q] # None => base[q] # None
             /\ base[q] # res[q] =>
                  /\ q \in Real /\ res[q] # None /\ res[q].status = "CONFIRMED"
                  /\ res[q].start + GracePeriod < RealNow
                  /\ base[q] = Row(res[q].start, "NO_SHOW")
    <3>1. base = [q \in Reservations |-> base[q]]
      BY DEF Reconciled
    <3> QED
      BY <2>5, <3>1, ReconciledRows
  <2> HIDE DEF base, row
  <2>7. RowsRemain /\ res'[r] = row /\ \A q \in Reservations : q # r => res'[q] = base[q]
    BY <1>1, <2>1, <2>2, <2>4, <2>6, OneRow
  <2>8. \A q \in Reservations : q # r /\ q \notin Real => res'[q] = res[q]
    BY <2>6, <2>7
  <2>9. \A q \in held : res'[q] = res[q]
    BY <2>1, <2>8, ReservationSets DEF TypeOK
  <2>10. \A q \in Real : res'[q] # res[q] => Swept(q, RealNow)
    BY <1>1, <2>5, <2>6, <2>7 DEF Swept
  <2> QED
    BY <1>3, <2>2, <2>3, <2>4, <2>7, <2>8, <2>9, <2>10, ReservationSets DEF DirectActivate, Open
<1>4. CASE DirectComplete(r)
  <2> DEFINE row == Row(res[r].start, "COMPLETED")
  <2>1. /\ r \notin held /\ res[r] # None /\ ses[r] # None
        /\ res' = [res EXCEPT ![r] = row] /\ ses' = [ses EXCEPT ![r] = Ended(r)]
    BY <1>4 DEF DirectComplete, MayEnd, Open, RowAfter
  <2>2. row \in RowsOf(r) /\ row.status = "COMPLETED"
    BY <1>1, <1>2, <2>1, RowOf, RowFacts
  <2>3. Ended(r) \in Sessions /\ ~Ended(r).open
    BY <2>1, SessionFacts
  <2>4. /\ ses' \in [Simulated -> Sessions \cup {None}] /\ ses'[r] = Ended(r)
        /\ \A q \in Simulated : q # r => ses'[q] = ses[q]
    BY <2>1, <2>3 DEF TypeOK
  <2> HIDE DEF row
  <2>5. RowsRemain /\ res'[r] = row /\ \A q \in Reservations : q # r => res'[q] = res[q]
    BY <1>1, <2>1, <2>2, <2>4, OneRow DEF TypeOK
  <2>6. \A q \in held : res'[q] = res[q]
    BY <2>1, <2>5, ReservationSets DEF TypeOK
  <2> QED
    BY <1>1, <1>4, <2>2, <2>3, <2>4, <2>5, <2>6, ReservationSets DEF DirectComplete, Open
<1> QED
  BY <1>3, <1>4

\* The managers' steps.
LEMMA ManagerFacts ==
  ASSUME TypeOK, StartRun \/ CancelRun
  PROVE  /\ UNCHANGED <<res, ses, receipts, applied, lock, held, request, breach, overtaken>>
         /\ lock = None /\ run.status \in {"DRAFT", "RUNNING"}
         /\ run' \in Run /\ run'.end = run.end /\ run'.last = run.last
         /\ run'.status \in {"RUNNING", "CANCELLED"}
         /\ RowsRemain /\ touched' \subseteq Simulated
<1>1. run \in Run /\ touched \subseteq Simulated
  BY DEF TypeOK
<1>2. UNCHANGED <<res, ses>>
  BY DEF StartRun, CancelRun, tables
<1>3. RowsRemain
  BY <1>2, RowsAtRest
<1>4. run' \in Run /\ run'.end = run.end /\ run'.last = run.last /\ run'.status \in {"RUNNING", "CANCELLED"}
  BY <1>1 DEF StartRun, CancelRun, Run
<1> QED
  BY <1>1, <1>2, <1>3, <1>4 DEF StartRun, CancelRun, tables, histories

\* The first step of a completion takes the lock.
LEMMA SettleInv ==
  ASSUME SimulationInv, NEW p \in Procs, Settle(p)
  PROVE  SimulationInv'
<1>1. /\ TypeOK /\ LockProtectsRun /\ CopiesOfRows
      /\ AppliedOnce /\ ClockIsLatest /\ DraftsHaveNoClock
  BY DEF SimulationInv
<1>2. /\ pc[p] = "idle" /\ lock = None /\ run.status = "RUNNING"
      /\ lock' = p /\ held' = OverdueAt(run.end) /\ touched' = {}
      /\ pc' = [pc EXCEPT ![p] = "complete"]
      /\ UNCHANGED <<run, tables, event, sent, seen, about, copy, breach, overtaken>>
  BY DEF Settle, Goto
<1>3. held' \subseteq Simulated /\ \A r \in held' : res[r] # None /\ Overdue(res[r], run.end)
  BY <1>2 DEF OverdueAt, Partition
<1>4. TypeOK'
  BY <1>1, <1>2, <1>3 DEF TypeOK, tables, Steps
<1>5. /\ pc'[p] = "complete" /\ \A q \in Procs : q # p => pc'[q] = pc[q]
      /\ \A q \in Procs : lock # q /\ pc[q] \notin {"mutate", "commit", "complete"}
      /\ lock' # None /\ \A q \in Procs : lock' = q => q = p
  BY <1>1, <1>2, SimulationAssumption DEF LockProtectsRun, TypeOK
<1>6. LockProtectsRun'
  BY <1>1, <1>2, <1>3, <1>5 DEF LockProtectsRun, StillRunning, SweptAt, InWindow, Forward, tables
<1>7. CopiesOfRows' /\ DraftsHaveNoClock'
  BY <1>1, <1>2, <1>5 DEF CopiesOfRows, DraftsHaveNoClock, tables
<1>8. AppliedOnce' /\ ClockIsLatest'
  BY <1>1, <1>2 DEF AppliedOnce, ClockIsLatest, ClockInWindow, InWindow, tables
<1> QED
  BY <1>4, <1>6, <1>7, <1>8 DEF SimulationInv

\* The last one marks what it has swept.
LEMMA CompleteFacts ==
  ASSUME TypeOK, LockProtectsRun, NEW p \in Procs, CompleteRun(p)
  PROVE  /\ Answer(p) /\ UNCHANGED <<ses, receipts, applied, breach, overtaken, touched>>
         /\ lock = p /\ run.status = "RUNNING"
         /\ run' \in Run /\ run'.end = run.end /\ run'.last = run.last /\ run'.status = "COMPLETED"
         /\ RowsRemain
         /\ \A q \in Reservations :
              /\ res'[q] # res[q] => q \in Simulated /\ Swept(q, run.end)
              /\ q \in held => res'[q] = Row(res[q].start, "NO_SHOW") /\ res[q] # None
<1>1. /\ pc[p] = "complete" /\ Answer(p) /\ res' = AfterSweep
      /\ run' = [run EXCEPT !.status = "COMPLETED"]
      /\ UNCHANGED <<ses, receipts, applied, breach, overtaken, touched>>
  BY DEF CompleteRun, histories
<1>2. /\ lock = p /\ run.status = "RUNNING" /\ SweptAt(p) = run.end
      /\ \A q \in held : res[q] # None
  BY <1>1 DEF LockProtectsRun, StillRunning, SweptAt
<1>3. /\ run' \in Run /\ run'.end = run.end /\ run'.last = run.last /\ run'.status = "COMPLETED"
  BY <1>1 DEF TypeOK, Run
<1>4. /\ AfterSweep = [q \in Reservations |-> AfterSweep[q]]
      /\ \A q \in Reservations : q \in held => AfterSweep[q] = Row(res[q].start, "NO_SHOW")
  BY DEF AfterSweep
<1>5. \A q \in Reservations :
        /\ AfterSweep[q] \in RowsOf(q) \cup (IF q \in Real THEN {} ELSE {None})
        /\ res[q] # None => AfterSweep[q] # None
        /\ AfterSweep[q] # res[q] => /\ q \in Simulated /\ res[q] # None /\ res[q].status = "CONFIRMED"
                                    /\ res[q].start + GracePeriod < run.end
                                    /\ AfterSweep[q] = Row(res[q].start, "NO_SHOW")
  BY <1>2, SweptRows
<1>6. RowsRemain
  BY <1>1, <1>4, <1>5 DEF RowsRemain, TypeOK
<1>7. \A q \in Reservations :
        /\ res'[q] # res[q] => q \in Simulated /\ Swept(q, run.end)
        /\ q \in held => res'[q] = Row(res[q].start, "NO_SHOW") /\ res[q] # None
  BY <1>1, <1>2, <1>4, <1>5 DEF Swept
<1> QED
  BY <1>1, <1>2, <1>3, <1>6, <1>7

\* Completion keeps receipts and clock.
LEMMA CompleteInv ==
  ASSUME SimulationInv, NEW p \in Procs, CompleteRun(p)
  PROVE  SimulationInv'
<1>1. /\ TypeOK /\ LockProtectsRun /\ CopiesOfRows
      /\ AppliedOnce /\ ClockIsLatest /\ DraftsHaveNoClock
  BY DEF SimulationInv
<1>2. /\ Answer(p) /\ UNCHANGED <<ses, receipts, applied, breach, overtaken, touched>>
      /\ lock = p /\ RowsRemain
      /\ run' \in Run /\ run'.end = run.end /\ run'.last = run.last /\ run'.status = "COMPLETED"
  BY <1>1, CompleteFacts
<1>3. TypeOK'
  BY <1>1, <1>2, AnswerFacts DEF TypeOK, RowsRemain
<1>4. LockProtectsRun' /\ CopiesOfRows'
  BY <1>1, <1>2, AnswerLock, AnswerCopies
<1>5. AppliedOnce' /\ ClockIsLatest'
  BY <1>1, <1>2 DEF AppliedOnce, ClockIsLatest, ClockInWindow, InWindow
<1>6. DraftsHaveNoClock'
  BY <1>1, <1>2, AnswerFacts DEF DraftsHaveNoClock
<1> QED
  BY <1>3, <1>4, <1>5, <1>6 DEF SimulationInv

\* Every step keeps receipts, effects and clock together.
LEMMA SimulationStep == SimulationInv /\ [Next]_vars => SimulationInv'
<1> SUFFICES ASSUME SimulationInv, [Next]_vars
             PROVE  SimulationInv'
  OBVIOUS
<1>1. /\ TypeOK /\ LockProtectsRun /\ CopiesOfRows /\ run \in Run
      /\ overtaken \subseteq Simulated /\ touched \subseteq Simulated /\ held \subseteq Simulated
  BY DEF SimulationInv, TypeOK
<1>2. ASSUME NEW p \in Procs, Mutate(p) \/ CommitCancel(p)
      PROVE  SimulationInv'
  <2>1. pc[p] \in {"mutate", "commit"} /\ Answer(p) /\ UNCHANGED <<breach, touched>>
    BY <1>2, MutateCases
  <2>2. CASE UNCHANGED <<run, tables, overtaken>>
    <3>1. RowsRemain
      BY <1>1, <2>2, RowsAtRest DEF tables
    <3> QED
      BY <1>1, <2>1, <2>2, <3>1, AnswerRest DEF tables
  <2>3. CASE \/ pc[p] = "mutate" /\ \E r : Commits(p, r)
             \/ pc[p] = "commit" /\ CommitsCancel(p)
    <3>1. lock = p /\ pc[p] # "complete" /\ Accept(p) /\ RowsRemain /\ overtaken' \subseteq Simulated
      BY <1>1, <2>3, CommitFacts
    <3> QED
      BY <1>1, <2>1, <3>1, AcceptInv
  <2> QED
    BY <1>2, <2>2, <2>3, MutateCases
<1>3. ASSUME NEW p \in Procs,
             \/ DecideCancel(p)
             \/ \E r \in Simulated :
                  DirectCancel(p, r) \/ \E start \in Moves : DirectReschedule(p, r, start)
      PROVE  SimulationInv'
  <2>1. CASE Answer(p) /\ UNCHANGED <<run, tables, histories>>
    <3>1. RowsRemain
      BY <1>1, <2>1, RowsAtRest DEF tables
    <3> QED
      BY <1>1, <2>1, <3>1, AnswerRest DEF tables, histories
  <2>2. ASSUME NEW r \in Simulated, NEW row \in RowsOf(r),
               row.status \in {"CONFIRMED", "CANCELLED", "LATE_CANCELLED"}, res[r] # None,
               DecideOn(p, r, row), pc[p] \in {"idle", "mutate"},
               UNCHANGED <<run, ses, receipts, applied, lock, held, histories>>,
               res' = res \/ res' = Reconciled(Real, RealNow)
        PROVE  SimulationInv'
    <3>1. RowsRemain /\ \A q \in Simulated : res'[q] = res[q]
      BY <1>1, <2>2, RowsAtRest, RealRows
    <3> QED
      BY <2>2, <3>1, DecideInv
  <2> QED
    BY <1>1, <1>3, <2>1, <2>2, DecideCases
<1>4. ASSUME NEW p \in Procs, DirectWrite(p)
      PROVE  SimulationInv'
  BY <1>1, <1>4, DirectWriteFacts, AnswerRest
<1>5. ASSUME NEW r \in Simulated, DirectActivate(r) \/ DirectComplete(r)
      PROVE  SimulationInv'
  <2>1. /\ UNCHANGED <<run, receipts, applied, lock, held, request, breach, overtaken>>
        /\ RowsRemain /\ (\A q \in held : res'[q] = res[q]) /\ touched' = touched \cup {r}
    BY <1>1, <1>5, DirectFacts
  <2> QED
    BY <1>1, <2>1, RequestsRest
<1>6. CASE StartRun \/ CancelRun
  <2>1. held = {}
    BY <1>1, <1>6, ManagerFacts DEF LockProtectsRun
  <2> QED
    BY <1>1, <1>6, <2>1, ManagerFacts, RequestsRest
<1>7. CASE RealReconcile
  <2>1. /\ UNCHANGED <<run, ses, receipts, applied, lock, held, request, breach, overtaken, touched>>
        /\ res' = Reconciled(Real, RealNow)
    BY <1>7 DEF RealReconcile, histories
  <2>2. RowsRemain /\ \A q \in Simulated : res'[q] = res[q]
    BY <1>1, <2>1, RealRows
  <2> QED
    BY <1>1, <2>1, <2>2, RequestsRest
<1>8. CASE UNCHANGED vars
  <2>1. UNCHANGED <<run, res, ses, receipts, applied, lock, held, request, breach, overtaken, touched>>
    BY <1>8 DEF vars, tables, histories
  <2>2. RowsRemain
    BY <1>1, <2>1, RowsAtRest
  <2> QED
    BY <1>1, <2>1, <2>2, RequestsRest
<1> QED
  BY <1>2, <1>3, <1>4, <1>5, <1>6, <1>7, <1>8, OnItsWay, RereadInv, PatchWriteInv,
     SettleInv, CompleteInv DEF Next

-----------------------------------------------------------------------------
(* The rows.                                                               *)

\* What a step may do with one row, whoever takes it, unless it is overtaken.
RowStep(q) ==
  \/ q \in overtaken'
  \/ res'[q] = res[q] /\ (q \in Simulated => ses'[q] = ses[q])
  \/ /\ q \in Simulated => ses'[q] = ses[q]
     /\ IF q \in Real THEN Swept(q, RealNow)
        ELSE \/ run'.last # None /\ Swept(q, run'.last)
             \/ run'.status = "COMPLETED" /\ Swept(q, run'.end)
  \/ /\ q \in Simulated
     /\ res'[q] \in RowsOf(q) /\ res'[q].status # "NO_SHOW"
     /\ Open(q)' <=> res'[q].status = "ACTIVE"

\* What it may do with the run.
RunStep ==
  \/ "patch" \in breach'
  \/ run' = run /\ breach' = breach /\ touched \subseteq touched'
  \/ /\ run.status # "COMPLETED" /\ breach' = breach
     /\ run.last # None => run'.last # None /\ run.last <= run'.last
     /\ run'.status = "COMPLETED" => \E p \in Procs : CompleteRun(p)

\* What a mutation does with its own row.
LEMMA OwnRow ==
  ASSUME SimulationInv, CompletedRunIsSettled, NEW p \in Procs, NEW r, pc[p] = "mutate",
         Commits(p, r)
  PROVE  RowStep(r)
<1>1. TypeOK /\ LockProtectsRun /\ lock = p
  BY DEF SimulationInv, LockProtectsRun
<1> DEFINE op == Effect[event[p]].op
           row == RowAfter(op, r)
<1>2. /\ r \in Simulated /\ r \in Reservations /\ row \in RowsOf(r) /\ row.status # "NO_SHOW"
      /\ op = "create" => res[r] = None /\ ses'[r] = ses[r] /\ row.status = "CONFIRMED"
      /\ op # "create" => (Open(r)' <=> row.status = "ACTIVE")
  BY <1>1, CommitRow
<1>3. AfterSweep = [q \in Reservations |-> AfterSweep[q]]
  BY DEF AfterSweep
<1>4. res'[r] = row /\ overtaken' = overtaken
  <2>1. res' = [AfterSweep EXCEPT ![r] = row] /\ overtaken' = overtaken
    BY DEF Commits
  <2> HIDE DEF row
  <2> QED
    BY <1>2, <1>3, <2>1
<1>5. r \notin overtaken /\ op = "create" => ~Open(r)'
  BY <1>2 DEF CompletedRunIsSettled, Open
<1> HIDE DEF op, row
<1> QED
  BY <1>2, <1>4, <1>5 DEF RowStep

\* What a cancellation or reschedule does with the row it is about.
LEMMA WrittenRow ==
  ASSUME TypeOK, CopiesOfRows, CompletedRunIsSettled, NEW p \in Procs,
         pc[p] \in {"update", "commit"}, overtaken' = Overtaken(p),
         NEW r, r = about[p], res'[r] = Merged(p), ses' = ses
  PROVE  RowStep(r)
<1>1. /\ r \in Simulated /\ res[r] # None /\ Merged(p) \in RowsOf(r)
      /\ Merged(p).status \in {res[r].status, "CONFIRMED", "CANCELLED", "LATE_CANCELLED"}
  BY MergedRow
<1>2. r \notin overtaken' => r \notin overtaken /\ res[r].status = "CONFIRMED"
  BY OvertakenFacts
<1>3. r \notin overtaken' => ~Open(r)'
  BY <1>1, <1>2 DEF CompletedRunIsSettled, Open
<1> QED
  BY <1>1, <1>2, <1>3 DEF RowStep

\* By the clocks: which steps may end a reservation as a no-show.
LEMMA RowSteps ==
  ASSUME SimulationInv, CompletedRunIsSettled, [Next]_vars, NEW q \in Reservations
  PROVE  RowStep(q) /\ overtaken \subseteq overtaken'
<1>1. TypeOK /\ LockProtectsRun /\ CopiesOfRows
  BY DEF SimulationInv
<1>2. CASE UNCHANGED <<res, ses, overtaken>>
  BY <1>2 DEF RowStep
<1>3. ASSUME NEW p \in Procs,
             \/ pc[p] = "mutate" /\ \E r : Commits(p, r)
             \/ pc[p] = "commit" /\ CommitsCancel(p)
      PROVE  RowStep(q) /\ overtaken \subseteq overtaken'
  <2>1. /\ lock = p /\ pc[p] # "complete" /\ SweptAt(p) = sent[p]
        /\ Accept(p) /\ overtaken \subseteq overtaken'
    BY <1>1, <1>3, CommitFacts
  <2>2. run'.last = sent[p] /\ sent[p] # None
    BY <1>1, <2>1, AcceptFacts
  <2>3. ASSUME q \in Simulated => ses'[q] = ses[q],
               res'[q] # res[q] => q \in Simulated /\ Swept(q, sent[p])
        PROVE  RowStep(q)
    BY <2>2, <2>3, ReservationSets DEF RowStep
  <2>4. CASE pc[p] = "mutate" /\ \E r : Commits(p, r)
    <3>1. PICK r : Commits(p, r)
      BY <2>4
    <3>2. RowStep(r)
      BY <2>4, <3>1, OwnRow
    <3>3. /\ r \in Simulated /\ r \in Reservations
          /\ ses' = [ses EXCEPT ![r] = SessionAfter(Effect[event[p]].op, r, sent[p])]
          /\ res' = [AfterSweep EXCEPT ![r] = RowAfter(Effect[event[p]].op, r)]
      BY <1>1, <2>1, <3>1, CommitRow DEF Commits
    <3>4. AfterSweep = [d \in Reservations |-> AfterSweep[d]]
      BY DEF AfterSweep
    <3>5. q # r => /\ q \in Simulated => ses'[q] = ses[q]
                   /\ res'[q] = AfterSweep[q]
      BY <1>1, <3>3, <3>4 DEF TypeOK
    <3>6. q # r => (res'[q] # res[q] => q \in Simulated /\ Swept(q, sent[p]))
      BY <1>1, <2>1, <3>5, SweptRows DEF Swept
    <3> QED
      BY <2>1, <2>3, <3>2, <3>5, <3>6
  <2>5. CASE pc[p] = "commit" /\ CommitsCancel(p)
    <3>1. /\ res' = [AfterSweep EXCEPT ![about[p]] = Merged(p)] /\ ses' = ses
          /\ overtaken' = Overtaken(p)
      BY <2>5 DEF CommitsCancel
    <3>2. about[p] \in Reservations
      BY <1>1, <2>5, MergedRow
    <3>3. AfterSweep = [d \in Reservations |-> AfterSweep[d]]
      BY DEF AfterSweep
    <3>4. res'[about[p]] = Merged(p) /\ (q # about[p] => res'[q] = AfterSweep[q])
      BY <3>1, <3>2, <3>3
    <3>5. q = about[p] => RowStep(q)
      BY <1>1, <2>5, <3>1, <3>4, WrittenRow
    <3>6. q # about[p] => (res'[q] # res[q] => q \in Simulated /\ Swept(q, sent[p]))
      BY <1>1, <2>1, <3>4, SweptRows DEF Swept
    <3> QED
      BY <2>1, <2>3, <3>1, <3>5, <3>6
  <2> QED
    BY <1>3, <2>4, <2>5
<1>4. ASSUME NEW p \in Procs, DirectWrite(p)
      PROVE  RowStep(q) /\ overtaken \subseteq overtaken'
  <2>1. /\ ses' = ses /\ overtaken \subseteq overtaken' /\ (q # about[p] => res'[q] = res[q])
        /\ res' = res \/ (overtaken' = Overtaken(p) /\ res'[about[p]] = Merged(p))
    BY <1>1, <1>4, DirectWriteFacts
  <2>2. pc[p] = "update"
    BY <1>4 DEF DirectWrite
  <2>3. overtaken' = Overtaken(p) /\ q = about[p] /\ res'[q] = Merged(p) => RowStep(q)
    BY <1>1, <2>1, <2>2, WrittenRow
  <2> QED
    BY <2>1, <2>3 DEF RowStep
<1>5. ASSUME NEW r \in Simulated, DirectActivate(r) \/ DirectComplete(r)
      PROVE  RowStep(q) /\ overtaken \subseteq overtaken'
  <2>1. /\ overtaken' = overtaken
        /\ res'[r] \in RowsOf(r) /\ res'[r].status # "NO_SHOW"
        /\ Open(r)' <=> res'[r].status = "ACTIVE"
        /\ \A d \in Simulated : d # r => res'[d] = res[d] /\ ses'[d] = ses[d]
        /\ \A d \in Real : res'[d] # res[d] => Swept(d, RealNow)
    BY <1>1, <1>5, DirectFacts
  <2>2. q \in Simulated \/ q \in Real
    BY DEF Reservations
  <2> QED
    BY <2>1, <2>2, ReservationSets DEF RowStep
<1>6. ASSUME NEW p \in Procs, CompleteRun(p)
      PROVE  RowStep(q) /\ overtaken \subseteq overtaken'
  <2>1. /\ UNCHANGED <<ses, overtaken>>
        /\ res'[q] # res[q] => run'.status = "COMPLETED" /\ q \in Simulated /\ Swept(q, run'.end)
    BY <1>1, <1>6, CompleteFacts
  <2> QED
    BY <2>1, ReservationSets DEF RowStep
<1>7. CASE res' = Reconciled(Real, RealNow) /\ UNCHANGED <<ses, overtaken>>
  <2>1. res'[q] # res[q] => q \in Real /\ Swept(q, RealNow)
    BY <1>1, <1>7, RealRows
  <2> QED
    BY <1>7, <2>1 DEF RowStep
<1>8. ASSUME NEW p \in Procs, Mutate(p) \/ CommitCancel(p)
      PROVE  RowStep(q) /\ overtaken \subseteq overtaken'
  BY <1>2, <1>3, <1>8, MutateCases DEF tables
<1> QED
  BY <1>2, <1>4, <1>5, <1>6, <1>7, <1>8 DEF Next, vars, tables, histories, Arrive, Lock, Lost,
     DecideCancel, DirectCancel, DirectReschedule, Reread, PatchRead, PatchBase, PatchWrite, Settle,
     StartRun, CancelRun, RealReconcile

\* Unless a PATCH interferes, the clock of a run that is not completed moves on.
LEMMA RunSteps ==
  ASSUME SimulationInv, [Next]_vars
  PROVE  RunStep
<1>1. TypeOK /\ LockProtectsRun /\ CopiesOfRows
  BY DEF SimulationInv
<1>2. CASE UNCHANGED <<run, breach, touched>>
  BY <1>2 DEF RunStep
<1>3. ASSUME NEW p \in Procs, Mutate(p) \/ CommitCancel(p)
      PROVE  RunStep
  <2>1. UNCHANGED <<breach, touched>>
    BY <1>3, MutateCases
  <2>2. CASE run' = run
    BY <1>2, <2>1, <2>2
  <2>3. CASE \/ pc[p] = "mutate" /\ \E r : Commits(p, r)
             \/ pc[p] = "commit" /\ CommitsCancel(p)
    <3>1. lock = p /\ pc[p] # "complete" /\ Accept(p)
      BY <1>1, <2>3, CommitFacts
    <3>2. /\ run.status = "RUNNING" /\ run'.status = "RUNNING" /\ run'.last = sent[p] /\ sent[p] # None
          /\ run.last # None => run.last <= sent[p]
      BY <1>1, <3>1, AcceptFacts
    <3> QED
      BY <2>1, <3>2 DEF RunStep
  <2> QED
    BY <1>3, <2>2, <2>3, MutateCases
<1>4. ASSUME NEW p \in Procs, DirectWrite(p)
      PROVE  RunStep
  BY <1>1, <1>4, DirectWriteFacts DEF RunStep
<1>5. ASSUME NEW r \in Simulated, DirectActivate(r) \/ DirectComplete(r)
      PROVE  RunStep
  BY <1>1, <1>5, DirectFacts DEF RunStep
<1>6. CASE StartRun \/ CancelRun \/ \E p \in Procs : Settle(p) \/ CompleteRun(p)
  <2>1. run.last # None => run.last <= run.last
    BY <1>1, SimulationAssumption DEF TypeOK, Run
  <2> QED
    BY <1>1, <1>6, <2>1, ManagerFacts, CompleteFacts DEF RunStep, StartRun, CancelRun, Settle
<1>7. ASSUME NEW p \in Procs, PatchWrite(p)
      PROVE  RunStep
  <2>1. UNCHANGED touched
    BY <1>7 DEF PatchWrite
  <2>2. /\ "patch" \notin breach' =>
             breach' = breach /\ run.status = "DRAFT" /\ run.last = None /\ run'.status = "DRAFT"
    BY <1>7, PatchWriteInv
  <2> QED
    BY <2>1, <2>2 DEF RunStep
<1> QED
  BY <1>2, <1>3, <1>4, <1>5, <1>6, <1>7 DEF Next, vars, tables, histories, Arrive, Lock, Lost,
     DecideCancel, DirectCancel, DirectReschedule, Reread, PatchRead, PatchBase, RealReconcile

\* In a finished run only requests without headers write.
LEMMA ClosedSteps ==
  ASSUME SimulationInv, [Next]_vars, run.status \in {"COMPLETED", "CANCELLED"}
  PROVE  /\ receipts' = receipts
         /\ \A r \in Simulated \ touched' : res'[r] = res[r] /\ ses'[r] = ses[r]
<1>1. TypeOK /\ LockProtectsRun /\ CopiesOfRows
  BY DEF SimulationInv
<1>2. CASE UNCHANGED tables
  BY <1>2 DEF tables
<1>3. ASSUME NEW p \in Procs, Mutate(p) \/ CommitCancel(p)
      PROVE  UNCHANGED tables
  <2>1. CASE \/ pc[p] = "mutate" /\ \E r : Commits(p, r)
             \/ pc[p] = "commit" /\ CommitsCancel(p)
    <3>1. lock = p /\ pc[p] # "complete"
      BY <1>1, <2>1, CommitFacts
    <3> QED
      BY <1>1, <3>1, AcceptFacts
  <2> QED
    BY <1>3, <2>1, MutateCases
<1>4. ASSUME NEW p \in Procs, DirectWrite(p)
      PROVE  /\ receipts' = receipts
             /\ \A r \in Simulated \ touched' : res'[r] = res[r] /\ ses'[r] = ses[r]
  BY <1>1, <1>4, DirectWriteFacts, ReservationSets
<1>5. ASSUME NEW r \in Simulated, DirectActivate(r) \/ DirectComplete(r)
      PROVE  /\ receipts' = receipts
             /\ \A q \in Simulated \ touched' : res'[q] = res[q] /\ ses'[q] = ses[q]
  BY <1>1, <1>5, DirectFacts
<1>6. CASE res' = Reconciled(Real, RealNow) /\ UNCHANGED <<ses, receipts>>
  BY <1>1, <1>6, RealRows
<1>7. ~(StartRun \/ CancelRun \/ \E p \in Procs : CompleteRun(p))
  BY <1>1, CompleteFacts DEF StartRun, CancelRun
<1> QED
  BY <1>2, <1>3, <1>4, <1>5, <1>6, <1>7 DEF Next, vars, tables, Arrive, Lock, Lost,
     DecideCancel, DirectCancel, DirectReschedule, Reread, PatchRead, PatchBase, PatchWrite, Settle,
     RealReconcile

\* A no-show was passed by its own clock, and that clock does not move back.
LEMMA NoShowStep ==
  ASSUME SimulationInv, CompletedRunIsSettled, NoShowByOwnClock, [Next]_vars
  PROVE  NoShowByOwnClock'
<1> SUFFICES ASSUME NEW q \in Reservations, res'[q] # None, res'[q].status = "NO_SHOW"
             PROVE  IF q \in Real THEN res'[q].start + GracePeriod < RealNow
                    ELSE \/ "patch" \in breach' \/ q \in overtaken'
                         \/ run'.last # None /\ res'[q].start + GracePeriod < run'.last
                         \/ run'.status = "COMPLETED" /\ res'[q].start + GracePeriod < run'.end
  BY DEF NoShowByOwnClock
<1>1. TypeOK /\ TypeOK'
  BY SimulationStep DEF SimulationInv
<1>2. /\ run.last # None => run.last \in Nat
      /\ run'.last # None => run'.last \in Nat
      /\ GracePeriod \in Nat
  BY <1>1, SimulationAssumption, RulesAssumption DEF TypeOK, Run
<1>3. RowStep(q) /\ RunStep /\ overtaken \subseteq overtaken'
  BY RowSteps, RunSteps
<1>4. CASE q \in overtaken'
  BY <1>1, <1>4, ReservationSets DEF TypeOK
<1>5. CASE res'[q] = res[q]
  <2>1. IF q \in Real THEN res[q].start + GracePeriod < RealNow
        ELSE \/ "patch" \in breach \/ q \in overtaken
             \/ run.last # None /\ res[q].start + GracePeriod < run.last
             \/ run.status = "COMPLETED" /\ res[q].start + GracePeriod < run.end
    BY <1>5 DEF NoShowByOwnClock
  <2>2. CASE "patch" \in breach'
    BY <1>5, <2>1, <2>2
  <2>3. CASE run' = run /\ breach' = breach
    BY <1>3, <1>5, <2>1, <2>3
  <2>4. CASE /\ run.status # "COMPLETED" /\ breach' = breach
             /\ run.last # None => run'.last # None /\ run.last <= run'.last
    <3>1. res[q].start \in Nat
      BY <1>1, <1>5, RowOf
    <3> QED
      BY <1>2, <1>3, <1>5, <2>1, <2>4, <3>1
  <2> QED
    BY <1>3, <2>2, <2>3, <2>4 DEF RunStep
<1>6. CASE /\ res'[q] # res[q]
           /\ IF q \in Real THEN Swept(q, RealNow)
              ELSE \/ run'.last # None /\ Swept(q, run'.last)
                   \/ run'.status = "COMPLETED" /\ Swept(q, run'.end)
  <2>1. res[q] # None /\ res'[q] = Row(res[q].start, "NO_SHOW")
    BY <1>6 DEF Swept
  <2>2. res'[q].start = res[q].start
    BY <1>1, <2>1, MarkedRow
  <2> QED
    BY <1>6, <2>2 DEF Swept
<1> QED
  BY <1>3, <1>4, <1>5, <1>6 DEF RowStep

\* While a completion holds the lock of the run, only requests without headers write
\* about the run.
LEMMA CompletingStep ==
  ASSUME SimulationInv, [Next]_vars, NEW p \in Procs, pc'[p] = "complete", ~Settle(p)
  PROVE  /\ lock = p /\ pc[p] = "complete" /\ held' = held /\ run' = run
         /\ touched \subseteq touched'
         /\ \A q \in Simulated \ touched' : res'[q] = res[q] /\ ses'[q] = ses[q]
<1>1. TypeOK /\ LockProtectsRun /\ CopiesOfRows
  BY DEF SimulationInv
<1>2. ASSUME NEW q \in Procs, Answer(q)
      PROVE  q # p /\ pc[p] = "complete" /\ lock = p /\ lock # q /\ held' = held
  <2>1. q # p
    BY <1>1, <1>2, AnswerFacts
  <2>2. pc[p] = "complete"
    BY <1>1, <1>2, <2>1, AnswerFacts
  <2>3. lock = p
    BY <1>1, <2>2 DEF LockProtectsRun
  <2> QED
    BY <1>1, <1>2, <2>1, <2>2, <2>3, AnswerFacts
<1>3. ASSUME pc[p] = "complete"
      PROVE  lock = p /\ lock # None
  BY <1>1, <1>3, SimulationAssumption DEF LockProtectsRun
<1>4. ASSUME NEW q \in Procs, Mutate(q) \/ CommitCancel(q) \/ CompleteRun(q) \/ PatchWrite(q)
      PROVE  FALSE
  <2>1. Answer(q) /\ (pc[q] \in {"mutate", "commit", "complete"} \/ lock = None)
    BY <1>4, MutateCases DEF CompleteRun, PatchWrite
  <2> QED
    BY <1>1, <1>2, <1>3, <2>1 DEF LockProtectsRun
<1>5. ASSUME NEW q \in Procs, DirectWrite(q)
      PROVE  /\ lock = p /\ pc[p] = "complete" /\ held' = held /\ run' = run
             /\ touched \subseteq touched'
             /\ \A r \in Simulated \ touched' : res'[r] = res[r] /\ ses'[r] = ses[r]
  BY <1>1, <1>2, <1>5, DirectWriteFacts, ReservationSets
<1>6. ASSUME NEW r \in Simulated, DirectActivate(r) \/ DirectComplete(r)
      PROVE  /\ lock = p /\ pc[p] = "complete" /\ held' = held /\ run' = run
             /\ touched \subseteq touched'
             /\ \A q \in Simulated \ touched' : res'[q] = res[q] /\ ses'[q] = ses[q]
  BY <1>1, <1>3, <1>6, DirectFacts DEF request
<1>7. ~(StartRun \/ CancelRun)
  <2>1. StartRun \/ CancelRun => pc[p] = "complete" /\ lock = None
    BY DEF StartRun, CancelRun, request
  <2> QED
    BY <1>3, <2>1
<1>8. CASE RealReconcile \/ UNCHANGED vars
  <2>1. /\ UNCHANGED <<pc, run, ses, lock, held, touched>>
        /\ res' = res \/ res' = Reconciled(Real, RealNow)
    BY <1>8 DEF RealReconcile, vars, tables, request, histories
  <2>2. \A q \in Simulated : res'[q] = res[q]
    BY <1>1, <2>1, RealRows
  <2> QED
    BY <1>3, <2>1, <2>2
<1>9. ASSUME NEW q \in Procs, Lock(q)
      PROVE  FALSE
  <2>1. lock = None /\ pc[q] = "lock"
    BY <1>9 DEF Lock
  <2>2. CASE Answer(q)
    BY <1>2, <2>1, <2>2, <1>3
  <2>3. CASE Goto(q, "mutate")
    <3>1. pc'[p] \in {pc[p], "mutate"}
      BY <1>1, <2>3 DEF Goto, TypeOK
    <3> QED
      BY <1>3, <2>1, <3>1
  <2> QED
    BY <1>9, <2>2, <2>3 DEF Lock
<1>10. ASSUME NEW q \in Procs,
              \/ \E e \in Events, t \in Times : Arrive(q, e, t)
              \/ DecideCancel(q) \/ Lost(q) \/ Reread(q) \/ PatchBase(q)
              \/ \E r \in Simulated :
                   DirectCancel(q, r) \/ \E start \in Moves : DirectReschedule(q, r, start)
              \/ \E e \in WindowEnds : PatchRead(q, e)
       PROVE  /\ lock = p /\ pc[p] = "complete" /\ held' = held /\ run' = run
              /\ touched \subseteq touched'
              /\ \A r \in Simulated \ touched' : res'[r] = res[r] /\ ses'[r] = ses[r]
  <2>1. /\ UNCHANGED <<run, ses, touched>>
        /\ res' = res \/ res' = Reconciled(Real, RealNow)
    BY <1>10 DEF Arrive, DecideCancel, Lost, Reread, PatchBase, DirectCancel, DirectReschedule, PatchRead,
       tables, histories
  <2>2. \A r \in Simulated : res'[r] = res[r]
    BY <1>1, <2>1, RealRows
  <2>3. CASE Answer(q)
    BY <1>2, <2>1, <2>2, <2>3
  <2>4. CASE ~Answer(q)
    <3>1. UNCHANGED held /\ \E l \in Steps \ {"complete"} : Goto(q, l)
      BY <1>10, <2>4 DEF Arrive, DecideCancel, Lost, Reread, PatchBase, DirectCancel, DirectReschedule,
         PatchRead, DecideOn, Steps
    <3>2. pc'[p] = pc[p]
      BY <1>1, <3>1 DEF Goto, TypeOK
    <3> QED
      BY <1>3, <2>1, <2>2, <3>1, <3>2
  <2> QED
    BY <2>3, <2>4
<1>11. ASSUME NEW q \in Procs, Settle(q)
       PROVE  FALSE
  <2>1. q # p
    BY <1>11
  <2>2. pc'[p] = pc[p] /\ lock = None
    BY <1>1, <1>11, <2>1 DEF Settle, Goto, TypeOK
  <2> QED
    BY <1>3, <2>2
<1> QED
  BY <1>4, <1>5, <1>6, <1>7, <1>8, <1>9, <1>10, <1>11 DEF Next

\* Only the completion of a run completes it, and it has looked for open sessions.
LEMMA SettledStep ==
  ASSUME SimulationInv, CompletedRunIsSettled, [Next]_vars
  PROVE  CompletedRunIsSettled'
<1>1. TypeOK
  BY DEF SimulationInv
<1>2. ASSUME NEW q \in Simulated, q \notin overtaken'
      PROVE  Open(q)' <=> res'[q] # None /\ res'[q].status = "ACTIVE"
  <2>1. q \in Reservations /\ q \notin Real
    BY ReservationSets
  <2>2. RowStep(q) /\ q \notin overtaken
    BY <1>2, <2>1, RowSteps
  <2>3. Open(q) <=> res[q] # None /\ res[q].status = "ACTIVE"
    BY <2>2 DEF CompletedRunIsSettled
  <2>4. \A row \in RowsOf(q) : row # None
    BY <2>1, RowsOfFacts
  <2>5. CASE \E t : Swept(q, t) /\ ses'[q] = ses[q]
    <3>1. res[q] # None /\ res[q].status = "CONFIRMED" /\ res'[q] = Row(res[q].start, "NO_SHOW")
      BY <2>5 DEF Swept
    <3>2. res'[q].status = "NO_SHOW"
      BY <1>1, <2>1, <3>1, MarkedRow
    <3> QED
      BY <2>3, <2>5, <3>1, <3>2 DEF Open
  <2>6. CASE res'[q] = res[q] /\ ses'[q] = ses[q]
    BY <2>3, <2>6 DEF Open
  <2> QED
    BY <1>2, <2>1, <2>2, <2>4, <2>5, <2>6 DEF RowStep
<1>3. ASSUME NEW p \in Procs, pc'[p] = "complete", NEW q \in Simulated, q \notin touched'
      PROVE  ~Open(q)' /\ (res'[q] # None /\ Overdue(res'[q], run'.end) => q \in held')
  <2>1. CASE Settle(p)
    BY <1>3, <2>1 DEF Settle, Quiet, OverdueAt, Partition, Open, tables
  <2>2. CASE ~Settle(p)
    <3>1. /\ lock = p /\ pc[p] = "complete" /\ held' = held /\ run' = run
          /\ q \notin touched /\ res'[q] = res[q] /\ ses'[q] = ses[q]
      BY <1>3, <2>2, CompletingStep
    <3> QED
      BY <1>3, <3>1 DEF CompletedRunIsSettled, Open
  <2> QED
    BY <2>1, <2>2
<1>4. ASSUME run'.status = "COMPLETED", "patch" \notin breach', NEW q \in Simulated, q \notin touched'
      PROVE  ~Open(q)' /\ (res'[q] # None => ~Overdue(res'[q], run'.end))
  <2>1. q \in Reservations /\ q \notin Real
    BY ReservationSets
  <2>2. ASSUME NEW p \in Procs, CompleteRun(p)
        PROVE  ~Open(q)' /\ (res'[q] # None => ~Overdue(res'[q], run'.end))
    <3>1. /\ run'.end = run.end /\ ses' = ses /\ touched' = touched
          /\ res'[q] # res[q] => Swept(q, run.end)
          /\ q \in held => res'[q] = Row(res[q].start, "NO_SHOW") /\ res[q] # None
      BY <1>1, <2>1, <2>2, CompleteFacts DEF SimulationInv
    <3>2. ~Open(q) /\ (res[q] # None /\ Overdue(res[q], run.end) => q \in held)
      BY <1>4, <2>2, <3>1 DEF CompleteRun, CompletedRunIsSettled
    <3>3. CASE res'[q] = res[q] /\ q \notin held
      BY <3>1, <3>2, <3>3 DEF Open
    <3>4. CASE res[q] # None /\ res'[q] = Row(res[q].start, "NO_SHOW")
      <4>1. res'[q].status = "NO_SHOW"
        BY <1>1, <2>1, <3>4, MarkedRow
      <4> QED
        BY <3>1, <3>2, <4>1 DEF Open, Overdue
    <3> QED
      BY <3>1, <3>3, <3>4 DEF Swept
  <2>3. CASE run' = run /\ breach' = breach /\ touched \subseteq touched'
    <3>1. res'[q] = res[q] /\ ses'[q] = ses[q]
      BY <1>4, <2>3, ClosedSteps
    <3>2. ~Open(q) /\ (res[q] # None => ~Overdue(res[q], run.end))
      BY <1>4, <2>3 DEF CompletedRunIsSettled
    <3> QED
      BY <2>3, <3>1, <3>2 DEF Open
  <2> QED
    BY <1>4, <2>2, <2>3, RunSteps DEF RunStep
<1> QED
  BY <1>2, <1>3, <1>4 DEF CompletedRunIsSettled, Open

-----------------------------------------------------------------------------
(* Theorems.                                                               *)

\* There is nothing at the start.
LEMMA InvInitially == Init => Inv
<1> SUFFICES ASSUME Init
             PROVE  Inv
  OBVIOUS
<1>0. PICK w \in WindowEnds : run = [status |-> "DRAFT", end |-> w, last |-> None]
  BY DEF Init
<1>1. TypeOK
  <2>1. \A r \in Reservations : Row(Start[r], "CONFIRMED") \in RowsOf(r)
    BY RowFacts DEF ReservationStatus, Starts
  <2> QED
    BY <1>0, <2>1 DEF Init, TypeOK, Run, Nothing, Steps
<1>2. LockProtectsRun /\ CopiesOfRows /\ AppliedOnce /\ DraftsHaveNoClock
  <2>1. \A p \in Procs : p # None
    BY SimulationAssumption
  <2> QED
    BY <1>0, <2>1 DEF Init, LockProtectsRun, CopiesOfRows, AppliedOnce, DraftsHaveNoClock, Nothing
<1>3. ClockIsLatest
  BY <1>0 DEF Init, ClockIsLatest, ClockInWindow
<1>4. \A r \in Reservations : res[r] # None => res[r].status = "CONFIRMED"
  BY RowFacts DEF Init, ReservationStatus, Starts
<1>5. NoShowByOwnClock
  BY <1>4 DEF NoShowByOwnClock
<1>6. CompletedRunIsSettled
  BY <1>0, <1>4, ReservationSets DEF Init, CompletedRunIsSettled, Open
<1> QED
  BY <1>1, <1>2, <1>3, <1>5, <1>6 DEF Inv, SimulationInv

\* The three facts together.
LEMMA InvAlways == Spec => []Inv
<1>1. Inv /\ [Next]_vars => Inv'
  BY SimulationStep, NoShowStep, SettledStep DEF Inv
<1> QED
  BY <1>1, InvInitially, PTL DEF Spec

\* One effect for each receipt, and a clock that is the latest instant accepted.
THEOREM SimulationAlways == Spec => []SimulationInv
<1>1. Inv => SimulationInv
  BY DEF Inv
<1> QED
  BY <1>1, InvAlways, PTL

\* Nobody misses a reservation by someone else's clock.
THEOREM NoShowByOwnClockAlways == Spec => []NoShowByOwnClock
<1>1. Inv => NoShowByOwnClock
  BY DEF Inv
<1> QED
  BY <1>1, InvAlways, PTL

\* The end of a run leaves nothing open, and but for rows written over by a
\* cancellation or reschedule that came too late, sessions and ACTIVE rows agree.
THEOREM CompletedRunIsSettledAlways == Spec => []CompletedRunIsSettled
<1>1. Inv => CompletedRunIsSettled
  BY DEF Inv
<1> QED
  BY <1>1, InvAlways, PTL

\* Mutations that were admitted while the run was running and reach its lock after
\* it ended change nothing.
THEOREM ClosedRunsStayAlways == Spec => ClosedRunsStay
<1> DEFINE Stays == run.status \in {"COMPLETED", "CANCELLED"} =>
                      /\ receipts' = receipts
                      /\ \A r \in Simulated \ touched' : res'[r] = res[r] /\ ses'[r] = ses[r]
<1>1. Inv /\ [Next]_vars => [Stays]_vars
  BY ClosedSteps DEF Inv
<1> QED
  BY <1>1, InvAlways, PTL DEF Spec, ClosedRunsStay

-----------------------------------------------------------------------------
(* The run implements the journal.                                         *)

\* The variables of the journal, as the run keeps them.
JournalVars == <<Phase, receipts, applied, run.last, "patch" \in breach>>

\* The commit of a mutation is one entry.
LEMMA AcceptEnters ==
  ASSUME TypeOK, LockProtectsRun, NEW p \in Procs, lock = p, pc[p] # "complete", Accept(p),
         breach' = breach
  PROVE  Journal!Enter(event[p], sent[p]) /\ event[p] \in Events /\ sent[p] \in Times
<1>1. /\ run.status = "RUNNING" /\ run'.status = "RUNNING" /\ run'.last = sent[p]
      /\ receipts[event[p]] = None /\ event[p] \in Events /\ sent[p] \in Times
      /\ run.last = None \/ run.last <= sent[p]
  BY AcceptFacts
<1>2. Phase = "open" /\ Phase' = "open"
  BY <1>1 DEF Phase
<1> QED
  BY <1>1, <1>2 DEF Accept, Journal!Enter

\* A PATCH of a draft is no step of the journal, one that overtakes the start of the
\* run overrules it.
LEMMA PatchOverrules ==
  ASSUME SimulationInv, NEW p \in Procs, PatchWrite(p)
  PROVE  Journal!Overrule \/ UNCHANGED JournalVars
<1>1. /\ TypeOK /\ LockProtectsRun /\ pc[p] = "write" /\ UNCHANGED tables
      /\ run' = run \/ run' = Patched(p)
  BY DEF SimulationInv, PatchWrite, Patched
<1>2. /\ run \in Run /\ run' \in Run
      /\ seen[p].new # None /\ seen[p].new.status = "DRAFT"
  BY <1>1, PatchWriteInv DEF SimulationInv, TypeOK, LockProtectsRun
<1>3. run'.status \in {run.status, "DRAFT"}
  BY <1>1, <1>2 DEF Patched, Column, Run
<1>4. CASE "patch" \in breach'
  <2>1. Phase' \in {Phase, "draft"} /\ run'.last \in Times \cup {None}
    BY <1>2, <1>3 DEF Phase, Run
  <2> QED
    BY <1>1, <1>4, <2>1 DEF tables, Journal!Overrule
<1>5. CASE "patch" \notin breach'
  <2>1. breach' = breach /\ run'.status = run.status /\ run'.last = run.last
    BY <1>5, PatchWriteInv
  <2> QED
    BY <1>1, <2>1 DEF JournalVars, Phase, tables
<1> QED
  BY <1>4, <1>5

\* Every step is one of the journal, or none.
LEMMA JournalSteps ==
  ASSUME SimulationInv, [Next]_vars
  PROVE  [Journal!Next]_JournalVars
<1>1. TypeOK /\ LockProtectsRun /\ CopiesOfRows
  BY DEF SimulationInv
<1>2. CASE UNCHANGED <<run, receipts, applied, breach>>
  BY <1>2 DEF JournalVars, Phase
<1>3. ASSUME NEW p \in Procs, Mutate(p) \/ CommitCancel(p)
      PROVE  [Journal!Next]_JournalVars
  <2>1. breach' = breach
    BY <1>3, MutateCases
  <2>2. CASE UNCHANGED <<run, tables>>
    BY <1>2, <2>1, <2>2 DEF tables
  <2>3. CASE \/ pc[p] = "mutate" /\ \E r : Commits(p, r)
             \/ pc[p] = "commit" /\ CommitsCancel(p)
    <3>1. lock = p /\ pc[p] # "complete" /\ Accept(p)
      BY <1>1, <2>3, CommitFacts
    <3>2. Journal!Enter(event[p], sent[p]) /\ event[p] \in Events /\ sent[p] \in Times
      BY <1>1, <2>1, <3>1, AcceptEnters
    <3> QED
      BY <3>2 DEF Journal!Next
  <2> QED
    BY <1>3, <2>2, <2>3, MutateCases
<1>4. CASE StartRun
  <2>1. Phase = "draft" /\ Phase' = "open" /\ run'.last = run.last
    BY <1>1, <1>4 DEF StartRun, Phase, TypeOK, Run
  <2> QED
    BY <1>4, <2>1 DEF StartRun, tables, histories, Journal!Next, Journal!Begin
<1>5. CASE CancelRun \/ \E p \in Procs : CompleteRun(p)
  <2>1. ASSUME CancelRun
        PROVE  /\ UNCHANGED <<receipts, applied, breach>> /\ run'.last = run.last
               /\ run.status \in {"DRAFT", "RUNNING"} /\ run'.status = "CANCELLED"
    <3>1. run' = [run EXCEPT !.status = "CANCELLED"]
      BY <2>1 DEF CancelRun
    <3>2. run \in Run
      BY <1>1 DEF TypeOK
    <3> QED
      BY <1>1, <2>1, <3>1, <3>2, ManagerFacts DEF Run
  <2>2. ASSUME NEW p \in Procs, CompleteRun(p)
        PROVE  /\ UNCHANGED <<receipts, applied, breach>> /\ run'.last = run.last
               /\ run.status = "RUNNING" /\ run'.status = "COMPLETED"
    BY <1>1, <2>2, CompleteFacts
  <2>3. Phase # "closed" /\ Phase' = "closed"
    BY <1>5, <2>1, <2>2 DEF Phase
  <2> QED
    BY <1>5, <2>1, <2>2, <2>3 DEF Journal!Next, Journal!End
<1>6. ASSUME NEW p \in Procs, PatchWrite(p)
      PROVE  [Journal!Next]_JournalVars
  BY <1>6, PatchOverrules DEF Journal!Next
<1> QED
  BY <1>2, <1>3, <1>4, <1>5, <1>6 DEF Next, vars, tables, histories, Arrive, Lock, Lost,
     DecideCancel, DirectCancel, DirectReschedule, Reread, DirectWrite, DirectActivate, DirectComplete,
     PatchRead, PatchBase, Settle, RealReconcile

\* Whatever requests, retries, crashes and managers do to the run, the simulator that
\* drives it sees a journal: receipt, effect and clock appear together, once for each
\* event and only while the run is open.
THEOREM ImplementsJournal == Spec => JournalSpec
<1>1. Init => Journal!Init
  BY DEF Init, Journal!Init, Phase
<1>2. Inv /\ [Next]_vars => [Journal!Next]_JournalVars
  BY JournalSteps DEF Inv
<1> QED
  BY <1>1, <1>2, InvAlways, PTL DEF Spec, JournalSpec, Journal!Spec, JournalVars
===============================================================================
