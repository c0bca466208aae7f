---------------------------- MODULE DatasetExports ----------------------------
(***************************************************************************)
(* Asynchronous dataset exports: the lifecycle row of each export, its     *)
(* artifact on the local disk, and the worker threads of the backend, one  *)
(* for each creating request and one for the start of the server.          *)
(*                                                                         *)
(* Exports are numbered in the order of their creation.                    *)
(***************************************************************************)
EXTENDS Integers, FiniteSets

CONSTANTS
  Procs,          (* worker threads                                        *)
  MaxExports,     (* bound on the exports created                          *)
  MaxConcurrent,  (* dataset_export_max_concurrent_jobs                    *)
  MaxQueued,      (* dataset_export_max_queued_jobs                        *)
  DrainLimit,     (* pending exports a start of the server takes up        *)
  Faults,         (* kinds of fault that may happen, each at most once     *)
  None

ASSUME ExportAssumption ==
  /\ MaxExports \in Nat
  /\ MaxConcurrent \in Nat \ {0} /\ MaxQueued \in Nat \ {0} /\ DrainLimit \in Nat \ {0}
  /\ Faults \subseteq {"restart", "database", "answer"}
  /\ IsFiniteSet(Procs)
  /\ None \notin Procs \cup Nat \cup {"PENDING", "PROCESSING", "COMPLETED", "FAILED"}

Exports == 1..MaxExports

VARIABLES
  row,      (* status of each export, None before it is created            *)
  cut,      (* exports with a data cutoff                                  *)
  deleted,  (* exports whose artifact is marked deleted                    *)
  disk,     (* exports whose artifact file exists                          *)
  turn,     (* holder of the advisory lock of the claim                    *)
  pc,       (* next step of each worker                                    *)
  mode,     (* its own export, draining the queue, or starting the server  *)
  job,      (* export it works on                                          *)
  todo,     (* exports a starting server still has to try                  *)
  kept,     (* workers that have stored a file for their export            *)
  faults    (* faults that have happened                                   *)

table == <<row, cut, deleted>>
vars  == <<row, cut, deleted, disk, turn, pc, mode, job, todo, kept, faults>>

Having(s) == {e \in Exports : row[e] = s}

TypeOK ==
  /\ row \in [Exports -> {"PENDING", "PROCESSING", "COMPLETED", "FAILED", None}]
  /\ cut \subseteq Exports
  /\ deleted \subseteq Having("COMPLETED")
  /\ disk \subseteq Exports
  /\ turn \in Procs \cup {None}
  /\ pc \in [Procs -> {"idle", "insert", "count", "claim", "generate", "store",
                       "complete", "fail", "next"}]
  /\ mode \in [Procs -> {"own", "drain", "boot"}]
  /\ job \in [Procs -> Exports \cup {None}]
  /\ todo \in [Procs -> SUBSET Exports]
  /\ kept \subseteq Procs
  /\ faults \subseteq Faults

Init ==
  /\ row = [e \in Exports |-> None]
  /\ cut = {} /\ deleted = {} /\ disk = {}
  /\ turn = None
  /\ pc = [p \in Procs |-> "idle"]
  /\ mode = [p \in Procs |-> "own"]
  /\ job = [p \in Procs |-> None]
  /\ todo = [p \in Procs |-> {}]
  /\ kept = {} /\ faults = {}

Goto(p, l) == pc' = [pc EXCEPT ![p] = l]

Set(e, s) == row' = [row EXCEPT ![e] = s]

-----------------------------------------------------------------------------
(* POST /dataset-exports.                                                  *)

Retained(e) == row[e] = "COMPLETED" /\ e \notin deleted

\* The artifacts whose retention has ended by now and whose files can be deleted.
CleanUp ==
  \E gone \in SUBSET {e \in Exports : Retained(e)} :
    /\ disk' = disk \ gone
    /\ deleted' = deleted \cup gone

\* The slip of admitting without a limit.
NeverFull == FALSE

QueueFull == Cardinality(Having("PENDING")) >= MaxQueued

Created == Exports \ Having(None)

Starting == \E p \in Procs : mode[p] = "boot"

\* The bound on exports keeps a number for every request that is admitted.
Admit(p) ==
  /\ pc[p] = "idle" /\ ~Starting
  /\ Cardinality(Created) + Cardinality({q \in Procs : pc[q] = "insert"}) < MaxExports
  /\ CleanUp
  /\ Goto(p, IF QueueFull THEN "idle" ELSE "insert")
  /\ UNCHANGED <<row, cut, turn, mode, job, todo, kept, faults>>

\* The response is sent, and a background task goes on with the new export.
Insert(p) ==
  LET e == Cardinality(Created) + 1 IN
  /\ pc[p] = "insert"
  /\ Set(e, "PENDING")
  /\ job' = [job EXCEPT ![p] = e]
  /\ mode' = [mode EXCEPT ![p] = "own"]
  /\ Goto(p, "count")
  /\ UNCHANGED <<cut, deleted, disk, turn, todo, kept, faults>>

-----------------------------------------------------------------------------
(* process: the claim, one at a time under an advisory lock.               *)

\* After its own export, processed or not, a worker turns to the queue; it
\* leaves the queue as soon as it cannot process what it found there.
Finish(p, processed) ==
  /\ Goto(p, IF mode[p] = "drain" /\ ~processed THEN "idle" ELSE "next")
  /\ mode' = [mode EXCEPT ![p] = IF @ = "own" THEN "drain" ELSE @]
  /\ job' = [job EXCEPT ![p] = None]
  /\ kept' = kept \ {p}

\* The slip of counting without the lock.
NoTurn(p) == p \in Procs

MyTurn(p) == turn \in {None, p}

Count(p) ==
  /\ pc[p] = "count" /\ MyTurn(p)
  /\ IF Cardinality(Having("PROCESSING")) >= MaxConcurrent
     THEN Finish(p, FALSE) /\ UNCHANGED turn
     ELSE /\ turn' = p
          /\ Goto(p, "claim")
          /\ UNCHANGED <<mode, job, kept>>
  /\ UNCHANGED <<table, disk, todo, faults>>

StillPending(e) == row[e] = "PENDING"

Claim(p) ==
  /\ pc[p] = "claim"
  /\ turn' = None
  /\ IF StillPending(job[p])
     THEN /\ Set(job[p], "PROCESSING")
          /\ Goto(p, "generate")
          /\ UNCHANGED <<mode, job, kept>>
     ELSE Finish(p, FALSE) /\ UNCHANGED row
  /\ UNCHANGED <<cut, deleted, disk, todo, faults>>

-----------------------------------------------------------------------------
(* _generate: snapshot, rows, artifact, completion.                        *)

\* Limits, timeouts and errors end the generation before or after the cutoff
\* of the snapshot is recorded.
Generate(p) ==
  /\ pc[p] = "generate"
  /\ \/ Goto(p, "fail") /\ UNCHANGED cut
     \/ /\ cut' = IF row[job[p]] = "PROCESSING" THEN cut \cup {job[p]} ELSE cut
        /\ \E l \in {"store", "fail"} : Goto(p, l)
  /\ UNCHANGED <<row, deleted, disk, turn, mode, job, todo, kept, faults>>

\* The slip of leaving the temporary file under its temporary name.
StoredPartially(p) == disk

Stored(p) == disk \cup {job[p]}

Store(p) ==
  /\ pc[p] = "store"
  /\ \/ disk' = Stored(p) /\ kept' = kept \cup {p} /\ Goto(p, "complete")
     \/ Goto(p, "fail") /\ UNCHANGED <<disk, kept>>
  /\ UNCHANGED <<table, turn, mode, job, todo, faults>>

\* The row is written whatever status it has by now.  When the answer to the
\* commit is lost, the worker takes the export for failed.
Complete(p) ==
  /\ pc[p] = "complete"
  /\ \/ Set(job[p], "COMPLETED") /\ Finish(p, TRUE) /\ UNCHANGED faults
     \/ Goto(p, "fail") /\ UNCHANGED <<row, mode, job, kept, faults>>
     \/ /\ "answer" \in Faults \ faults
        /\ faults' = faults \cup {"answer"}
        /\ Set(job[p], "COMPLETED") /\ Goto(p, "fail") /\ UNCHANGED <<mode, job, kept>>
  /\ UNCHANGED <<cut, deleted, disk, turn, todo>>

\* The slip of failing an export whatever has become of it.
FailedAnyway(e) == "FAILED"

Failed(e) == IF row[e] = "PROCESSING" THEN "FAILED" ELSE row[e]

\* _fail: the file goes first, if it can be deleted.
Fail(p) ==
  /\ pc[p] = "fail"
  /\ \/ disk' = IF p \in kept THEN disk \ {job[p]} ELSE disk
     \/ UNCHANGED disk
  /\ Set(job[p], Failed(job[p]))
  /\ Finish(p, TRUE)
  /\ UNCHANGED <<cut, deleted, turn, todo, faults>>

-----------------------------------------------------------------------------
(* process_and_drain and drain_pending.                                    *)

\* The slip of looking only at the newest export of all.
NewestOfAll(e) == e \in Having("PENDING") /\ \A f \in Created : f <= e

\* list(status=PENDING, limit=1): the newest first.
NewestPending(e) == e \in Having("PENDING") /\ \A f \in Having("PENDING") : f <= e

TakeUp(p, e) ==
  /\ job' = [job EXCEPT ![p] = e]
  /\ Goto(p, "count")
  /\ UNCHANGED mode

Leave(p) ==
  /\ Goto(p, "idle")
  /\ mode' = [mode EXCEPT ![p] = "own"]
  /\ job' = [job EXCEPT ![p] = None]

DrainNext(p) ==
  /\ pc[p] = "next" /\ mode[p] = "drain"
  /\ \/ \E e \in Exports : NewestPending(e) /\ TakeUp(p, e)
     \/ ~(\E e \in Exports : NewestPending(e)) /\ Leave(p)
  /\ UNCHANGED <<table, disk, turn, todo, kept, faults>>

\* A starting server tries the exports it listed, oldest first, whether or not
\* one of them could be processed.
BootNext(p) ==
  /\ pc[p] = "next" /\ mode[p] = "boot"
  /\ \/ todo[p] = {} /\ Leave(p) /\ UNCHANGED todo
     \/ \E e \in todo[p] :
          /\ \A f \in todo[p] : e <= f
          /\ TakeUp(p, e)
          /\ todo' = [todo EXCEPT ![p] = @ \ {e}]
  /\ UNCHANGED <<table, disk, turn, kept, faults>>

\* recover_dataset_exports: what was abandoned long enough ago fails, and up to
\* DrainLimit of the newest pending exports are listed.
Recovered(abandoned) ==
  [e \in Exports |-> IF e \in abandoned THEN "FAILED" ELSE row[e]]

Listed ==
  {e \in Having("PENDING") : Cardinality({f \in Having("PENDING") : f > e}) < DrainLimit}

Restart ==
  /\ "restart" \in Faults \ faults
  /\ faults' = faults \cup {"restart"}
  /\ CleanUp
  /\ \E abandoned \in SUBSET Having("PROCESSING") : row' = Recovered(abandoned)
  /\ turn' = None
  /\ \E p \in Procs :
       /\ pc' = [q \in Procs |-> IF q = p THEN "next" ELSE "idle"]
       /\ mode' = [q \in Procs |-> IF q = p THEN "boot" ELSE "own"]
       /\ todo' = [q \in Procs |-> IF q = p THEN Listed ELSE {}]
  /\ job' = [q \in Procs |-> None]
  /\ kept' = {}
  /\ UNCHANGED cut

\* A database error outside the generation's own error handling ends the
\* background task.
DatabaseError(p) ==
  /\ "database" \in Faults \ faults
  /\ pc[p] \in {"count", "claim", "fail", "next"} /\ mode[p] # "boot"
  /\ faults' = faults \cup {"database"}
  /\ turn' = IF turn = p THEN None ELSE turn
  /\ Leave(p)
  /\ kept' = kept \ {p}
  /\ UNCHANGED <<table, disk, todo>>

-----------------------------------------------------------------------------
Handle(p) ==
  \/ Insert(p)
  \/ Count(p) \/ Claim(p)
  \/ Generate(p) \/ Store(p) \/ Complete(p) \/ Fail(p)
  \/ DrainNext(p) \/ BootNext(p)

Next ==
  \/ \E p \in Procs : Handle(p) \/ Admit(p) \/ DatabaseError(p)
  \/ Restart

Spec == Init /\ [][Next]_vars

\* Worker threads run, and the advisory lock is granted in turn.
FairSpec == Spec /\ \A p \in Procs : SF_vars(Handle(p))

-----------------------------------------------------------------------------
(* Properties.                                                             *)

Generating == {"generate", "store", "complete", "fail"}

\* The limit on concurrent jobs holds for the rows, not only for the workers
\* of this run of the server: the count and the claim are separate statements.
ActiveLimit == Cardinality(Having("PROCESSING")) <= MaxConcurrent

\* Each export has one worker at most, which works on a PROCESSING row, or on a
\* COMPLETED one when it has lost the answer to its commit; and a PROCESSING
\* row has a worker unless a restart or a database error took it away.
WorkersOwnTheirExport ==
  /\ \A p, q \in Procs :
       p # q /\ pc[p] \in Generating /\ pc[q] \in Generating => job[p] # job[q]
  /\ \A p \in Procs : pc[p] \in Generating =>
       \/ row[job[p]] = "PROCESSING"
       \/ row[job[p]] = "COMPLETED" /\ pc[p] = "fail" /\ "answer" \in faults
  /\ \A e \in Having("PROCESSING") :
       \/ \E p \in Procs : pc[p] \in Generating /\ job[p] = e
       \/ faults \cap {"restart", "database"} # {}

\* The worker pool: never more generations than the limit, each by the one
\* worker that has claimed the export, whatever fails.
WorkerPool == TypeOK /\ ActiveLimit /\ WorkersOwnTheirExport

\* The documented lifecycle: PENDING, PROCESSING, and one of two terminal
\* states, with errors, lost answers, restarts and recovery.
Lifecycle ==
  [][\A e \in Exports : row'[e] # row[e] =>
       <<row[e], row'[e]>> \in {<<None, "PENDING">>, <<"PENDING", "PROCESSING">>,
                                <<"PROCESSING", "COMPLETED">>, <<"PROCESSING", "FAILED">>}]_vars

\* A completed export can be downloaded until its retention ends: its file was
\* in place before the status, and neither cleaning up nor the failure handling
\* of another worker takes it away.  A lost commit answer is the exception.
ArtifactKept ==
  \A e \in Having("COMPLETED") :
    /\ e \in cut
    /\ e \in disk \/ e \in deleted \/ "answer" \in faults

\* The queue limit is checked before the insert, so concurrent requests exceed
\* it, by no more than one each.
QueueOvershoot ==
  Cardinality(Having("PENDING")) <= MaxQueued + Cardinality(Procs) - 1

\* While the server and its database stay up, every accepted export is
\* processed: a worker that finds all slots taken gives up, and the workers that
\* hold the slots pick its export up, though they serve the newest first.
EveryExportEnds ==
  \A e \in Exports :
    row[e] = "PENDING" ~> row[e] \in {"COMPLETED", "FAILED"} \/ faults # {}

\* What the documentation asks for after a restart: no export stays for ever in
\* PENDING or PROCESSING.
NothingStaysUnfinished ==
  \A e \in Exports :
    row[e] \in {"PENDING", "PROCESSING"} ~> row[e] \in {"COMPLETED", "FAILED"}
=============================================================================
