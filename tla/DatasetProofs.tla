---------------------------- MODULE DatasetProofs ----------------------------
(***************************************************************************)
(* Dataset exports, for any number of workers, exports, slots and places   *)
(* in the queue, and whatever fails: the inductive invariant DatasetInv    *)
(* and the safety properties that follow from it.                          *)
(***************************************************************************)
EXTENDS DatasetExports, FiniteSetTheorems, TLAPS

\* The steps at which a worker has an export.
Busy == {"count", "claim"} \cup Generating

\* Requests that are admitted and have not created their export yet.
Inserting == {p \in Procs : pc[p] = "insert"}

\* The advisory lock is held by the worker that is about to claim, and what it
\* has counted is still true: nobody else can take a slot meanwhile.
ClaimsAreSafe ==
  /\ \A p \in Procs : turn = p <=> pc[p] = "claim"
  /\ turn # None => Cardinality(Having("PROCESSING")) < MaxConcurrent

\* What a worker has achieved for its export by the step it has reached.
WorkersKnow ==
  \A p \in Procs :
    /\ pc[p] \in Busy => job[p] \in Exports
    /\ pc[p] \in {"store", "complete"} => job[p] \in cut
    /\ pc[p] = "complete" => job[p] \in disk

\* Exports are numbered without gaps, with a number left for every request that
\* is admitted.
Numbered ==
  \E n \in 0..MaxExports : Created = 1..n /\ n + Cardinality(Inserting) <= MaxExports

\* The queue and the requests that are about to join it.
QueueAndArrivals ==
  Cardinality(Having("PENDING")) + Cardinality(Inserting) <= MaxQueued + Cardinality(Procs) - 1

DatasetInv ==
  /\ TypeOK
  /\ ActiveLimit /\ ClaimsAreSafe
  /\ WorkersKnow /\ WorkersOwnTheirExport
  /\ ArtifactKept
  /\ Numbered /\ QueueAndArrivals

-----------------------------------------------------------------------------
(* Finite sets.                                                            *)

\* Sets of exports and sets of workers are finite.
LEMMA FiniteExports ==
  ASSUME NEW S \in SUBSET Exports
  PROVE  IsFiniteSet(S) /\ Cardinality(S) \in Nat
<1>1. IsFiniteSet(Exports)
  BY ExportAssumption, FS_Interval DEF ExportAssumption, Exports
<1> QED BY <1>1, FS_Subset, FS_CardinalityType

LEMMA FiniteProcs ==
  ASSUME NEW S \in SUBSET Procs
  PROVE  IsFiniteSet(S) /\ Cardinality(S) \in Nat /\ Cardinality(S) <= Cardinality(Procs)
BY ExportAssumption, FS_Subset, FS_CardinalityType DEF ExportAssumption

\* A set of exports that only loses members does not grow.
LEMMA FewerExports ==
  ASSUME NEW S \in SUBSET Exports, NEW T \in SUBSET S
  PROVE  Cardinality(T) \in Nat /\ Cardinality(S) \in Nat /\ Cardinality(T) <= Cardinality(S)
BY FiniteExports, FS_Subset

\* Nor does a set of workers.
LEMMA FewerProcs ==
  ASSUME NEW S \in SUBSET Procs, NEW T \in SUBSET S
  PROVE  Cardinality(T) \in Nat /\ Cardinality(S) \in Nat /\ Cardinality(T) <= Cardinality(S)
BY FiniteProcs, FS_Subset

\* The number that an admitted request gives to its export is free and in bounds.
LEMMA NextNumber ==
  ASSUME TypeOK, Numbered, NEW p \in Procs, pc[p] = "insert"
  PROVE  LET e == Cardinality(Created) + 1 IN
         /\ e \in Exports /\ row[e] = None
         /\ Created = 1..Cardinality(Created)
         /\ e + Cardinality(Inserting \ {p}) <= MaxExports
         /\ Cardinality(Inserting \ {p}) = Cardinality(Inserting) - 1
<1>1. PICK n \in 0..MaxExports : Created = 1..n /\ n + Cardinality(Inserting) <= MaxExports
  BY DEF Numbered
<1>2. n \in Nat /\ Cardinality(Created) = n
  BY <1>1, FS_Interval, ExportAssumption DEF ExportAssumption
<1>3. p \in Inserting /\ IsFiniteSet(Inserting) /\ Cardinality(Inserting) \in Nat
  BY FiniteProcs DEF Inserting
<1>4. Cardinality(Inserting \ {p}) = Cardinality(Inserting) - 1 /\ Cardinality(Inserting \ {p}) \in Nat
  BY <1>3, FS_RemoveElement, FS_CardinalityType
<1>5. n + 1 \in Exports
  BY <1>1, <1>2, <1>3, <1>4, ExportAssumption DEF Exports, ExportAssumption
<1>6. row[n + 1] = None
  BY <1>1, <1>2, <1>5 DEF Created, Having
<1> QED BY <1>1, <1>2, <1>3, <1>4, <1>5, <1>6

-----------------------------------------------------------------------------
(* The rows.                                                               *)

\* The row of an export that has a worker is PROCESSING until that worker ends it, unless
\* the answer to its commit was lost.
LEMMA OwnRow ==
  ASSUME DatasetInv, NEW p \in Procs, pc[p] \in Generating
  PROVE  /\ job[p] \in Exports
         /\ \/ row[job[p]] = "PROCESSING"
            \/ row[job[p]] = "COMPLETED" /\ pc[p] = "fail" /\ "answer" \in faults
BY DEF DatasetInv, WorkersKnow, Busy, WorkersOwnTheirExport

\* Every move of a row, with the only step that makes it.
Move(e) ==
  \/ row[e] = None /\ row'[e] = "PENDING" /\ \E p \in Procs : Insert(p)
  \/ row[e] = "PENDING" /\ row'[e] = "PROCESSING" /\ \E p \in Procs : Claim(p) /\ job[p] = e
  \/ row[e] = "PROCESSING" /\ row'[e] = "COMPLETED" /\ \E p \in Procs : Complete(p) /\ job[p] = e
  \/ row[e] = "PROCESSING" /\ row'[e] = "FAILED"
       /\ (Restart \/ \E p \in Procs : Fail(p) /\ job[p] = e)

\* Whatever happens, a row stays or moves one step of the lifecycle.
LEMMA RowMoves ==
  ASSUME DatasetInv, Next, NEW e \in Exports
  PROVE  row' \in [Exports -> {"PENDING", "PROCESSING", "COMPLETED", "FAILED", None}]
         /\ (row'[e] = row[e] \/ Move(e))
<1> USE DEF DatasetInv
<1>1. row \in [Exports -> {"PENDING", "PROCESSING", "COMPLETED", "FAILED", None}]
  BY DEF TypeOK
<1>2. ASSUME NEW p \in Procs, Insert(p)
      PROVE  row' = [row EXCEPT ![Cardinality(Created) + 1] = "PENDING"]
             /\ row[Cardinality(Created) + 1] = None
  BY <1>2, NextNumber DEF Insert, Set
<1>3. ASSUME NEW p \in Procs, Claim(p)
      PROVE  row' = row \/ (row' = [row EXCEPT ![job[p]] = "PROCESSING"] /\ row[job[p]] = "PENDING")
  BY <1>3 DEF Claim, Set, StillPending
<1>4. ASSUME NEW p \in Procs, Complete(p)
      PROVE  row' = row \/ (row' = [row EXCEPT ![job[p]] = "COMPLETED"] /\ row[job[p]] = "PROCESSING")
  <2>1. row[job[p]] = "PROCESSING"
    BY <1>4, OwnRow DEF Complete, Generating
  <2> QED BY <1>4, <2>1 DEF Complete, Set
<1>5. ASSUME NEW p \in Procs, Fail(p)
      PROVE  row' = row \/ (row' = [row EXCEPT ![job[p]] = "FAILED"] /\ row[job[p]] = "PROCESSING")
  BY <1>1, <1>5 DEF Fail, Set, Failed
<1>6. ASSUME Restart
      PROVE  row' \in [Exports -> {"PENDING", "PROCESSING", "COMPLETED", "FAILED", None}]
             /\ \/ row'[e] = row[e]
                \/ row[e] = "PROCESSING" /\ row'[e] = "FAILED"
  BY <1>1, <1>6 DEF Restart, Recovered, Having
<1>7. ASSUME NEW p \in Procs, Count(p) \/ Generate(p) \/ Store(p) \/ DrainNext(p) \/ BootNext(p)
                              \/ Admit(p) \/ DatabaseError(p)
      PROVE  row' = row
  BY <1>7 DEF Count, Generate, Store, DrainNext, BootNext, Admit, DatabaseError, table
<1>8. CASE \E p \in Procs : Insert(p)
  BY <1>1, <1>2, <1>8 DEF Move
<1>9. CASE \E p \in Procs : Claim(p)
  BY <1>1, <1>3, <1>9 DEF Move
<1>10. CASE \E p \in Procs : Complete(p)
  BY <1>1, <1>4, <1>10 DEF Move
<1>11. CASE \E p \in Procs : Fail(p)
  BY <1>1, <1>5, <1>11 DEF Move
<1>12. CASE Restart
  BY <1>6, <1>12 DEF Move
<1> QED BY <1>1, <1>7, <1>8, <1>9, <1>10, <1>11, <1>12 DEF Next, Handle

-----------------------------------------------------------------------------
(* Types.                                                                  *)

\* Cleaning up takes away files of completed exports only, and marks them.
LEMMA CleanUpTypes ==
  ASSUME TypeOK, CleanUp
  PROVE  /\ disk' \subseteq disk /\ deleted' \subseteq Having("COMPLETED")
         /\ \A e \in Exports : e \in disk \ disk' => row[e] = "COMPLETED" /\ e \in deleted'
BY DEF TypeOK, CleanUp, Retained, Having

\* How a worker turns from one piece of work to the next.
LEMMA TurnsTypes ==
  ASSUME TypeOK, NEW p \in Procs,
         \/ Finish(p, TRUE) \/ Finish(p, FALSE)
         \/ Leave(p) \/ \E e \in Exports : TakeUp(p, e)
  PROVE  /\ pc' \in [Procs -> {"idle", "insert", "count", "claim", "generate", "store",
                               "complete", "fail", "next"}]
         /\ mode' \in [Procs -> {"own", "drain", "boot"}]
         /\ job' \in [Procs -> Exports \cup {None}]
BY DEF TypeOK, Finish, Leave, TakeUp, Goto

\* Every step keeps the types.
LEMMA TypesKept ==
  ASSUME DatasetInv, Next
  PROVE  TypeOK'
<1> USE DEF DatasetInv
<1>1. row' \in [Exports -> {"PENDING", "PROCESSING", "COMPLETED", "FAILED", None}]
  <2>1. CASE Exports = {}
    <3>1. ~(\E p \in Procs : Insert(p))
      BY <2>1, NextNumber DEF Insert
    <3> QED BY <2>1, <3>1 DEF TypeOK, Next, Handle, Count, Claim, Generate, Store, Complete, Fail,
              DrainNext, BootNext, Admit, DatabaseError, Restart, Recovered, Set, table
  <2> QED BY <2>1, RowMoves
<1>2. deleted' \subseteq Having("COMPLETED")'
  <2>1. deleted' \subseteq Having("COMPLETED")
    BY CleanUpTypes DEF TypeOK, Next, Handle, Insert, Count, Claim, Generate, Store, Complete, Fail,
       DrainNext, BootNext, Admit, DatabaseError, Restart, table
  <2>2. \A e \in Exports : row[e] = "COMPLETED" => row'[e] = "COMPLETED"
    BY RowMoves, ExportAssumption DEF Move, ExportAssumption
  <2> QED BY <2>1, <2>2 DEF Having
<1>3. ASSUME NEW p \in Procs, Insert(p) PROVE TypeOK'
  BY <1>1, <1>2, <1>3, NextNumber DEF TypeOK, Insert, Goto
<1>4. ASSUME NEW p \in Procs, Count(p) PROVE TypeOK'
  <2>1. CASE Finish(p, FALSE) /\ UNCHANGED turn
    BY <1>1, <1>2, <1>4, <2>1, TurnsTypes DEF TypeOK, Count, Finish, table
  <2> QED BY <1>1, <1>2, <1>4, <2>1 DEF TypeOK, Count, Goto, table
<1>5. ASSUME NEW p \in Procs, Claim(p) PROVE TypeOK'
  <2>1. CASE Finish(p, FALSE)
    BY <1>1, <1>2, <1>5, <2>1, TurnsTypes DEF TypeOK, Claim, Finish
  <2> QED BY <1>1, <1>2, <1>5, <2>1 DEF TypeOK, Claim, Goto
<1>6. ASSUME NEW p \in Procs, Generate(p) PROVE TypeOK'
  <2>1. job[p] \in Exports
    BY <1>6, OwnRow DEF Generate, Generating
  <2> QED BY <1>1, <1>2, <1>6, <2>1 DEF TypeOK, Generate, Goto
<1>7. ASSUME NEW p \in Procs, Store(p) PROVE TypeOK'
  <2>1. job[p] \in Exports
    BY <1>7, OwnRow DEF Store, Generating
  <2> QED BY <1>1, <1>2, <1>7, <2>1 DEF TypeOK, Store, Stored, Goto, table
<1>8. ASSUME NEW p \in Procs, Complete(p) PROVE TypeOK'
  <2>1. CASE Finish(p, TRUE) /\ UNCHANGED faults
    BY <1>1, <1>2, <1>8, <2>1, TurnsTypes DEF TypeOK, Complete, Finish
  <2> QED BY <1>1, <1>2, <1>8, <2>1, ExportAssumption DEF TypeOK, Complete, Goto, ExportAssumption
<1>9. ASSUME NEW p \in Procs, Fail(p) PROVE TypeOK'
  <2>1. Finish(p, TRUE) /\ disk' \subseteq disk
    BY <1>9 DEF Fail
  <2> QED BY <1>1, <1>2, <1>9, <2>1, TurnsTypes DEF TypeOK, Fail, Finish
<1>10. ASSUME NEW p \in Procs, DrainNext(p) PROVE TypeOK'
  <2>1. Leave(p) \/ \E e \in Exports : TakeUp(p, e)
    BY <1>10 DEF DrainNext
  <2> QED BY <1>1, <1>2, <1>10, <2>1, TurnsTypes DEF TypeOK, DrainNext, table
<1>11. ASSUME NEW p \in Procs, BootNext(p) PROVE TypeOK'
  <2>1. Leave(p) \/ \E e \in Exports : TakeUp(p, e)
    BY <1>11 DEF BootNext, TypeOK
  <2>2. todo' \in [Procs -> SUBSET Exports]
    BY <1>11 DEF BootNext, TypeOK
  <2> QED BY <1>1, <1>2, <1>11, <2>1, <2>2, TurnsTypes DEF TypeOK, BootNext, table
<1>12. ASSUME NEW p \in Procs, Admit(p) PROVE TypeOK'
  <2>1. disk' \subseteq disk
    BY <1>12, CleanUpTypes DEF Admit
  <2> QED BY <1>1, <1>2, <1>12, <2>1 DEF TypeOK, Admit, Goto
<1>13. ASSUME NEW p \in Procs, DatabaseError(p) PROVE TypeOK'
  <2>1. Leave(p)
    BY <1>13 DEF DatabaseError
  <2> QED BY <1>1, <1>2, <1>13, <2>1, TurnsTypes DEF TypeOK, DatabaseError, table
<1>14. ASSUME Restart PROVE TypeOK'
  <2>1. disk' \subseteq disk
    BY <1>14, CleanUpTypes DEF Restart
  <2>2. Listed \in SUBSET Exports
    BY DEF Listed, Having
  <2>3. todo' \in [Procs -> SUBSET Exports]
    BY <1>14, <2>2 DEF Restart
  <2>4. /\ pc' \in [Procs -> {"next", "idle"}] /\ mode' \in [Procs -> {"boot", "own"}]
        /\ job' \in [Procs -> {None}]
    BY <1>14 DEF Restart
  <2> QED BY <1>1, <1>2, <1>14, <2>1, <2>3, <2>4 DEF TypeOK, Restart
<1> QED BY <1>3, <1>4, <1>5, <1>6, <1>7, <1>8, <1>9, <1>10, <1>11, <1>12, <1>13, <1>14
        DEF Next, Handle

-----------------------------------------------------------------------------
(* The slots.                                                              *)

\* A step of one worker leaves the others where they are.
LEMMA OneWorker ==
  ASSUME TypeOK, NEW p \in Procs, Handle(p) \/ Admit(p) \/ DatabaseError(p),
         NEW q \in Procs, q # p
  PROVE  pc'[q] = pc[q] /\ job'[q] = job[q] /\ (q \in kept <=> q \in kept')
BY DEF TypeOK, Handle, Insert, Count, Claim, Generate, Store, Complete, Fail, DrainNext, BootNext,
       Admit, DatabaseError, Finish, Leave, TakeUp, Goto

\* Only a claim adds to the rows that are PROCESSING.
LEMMA SlotsTaken ==
  ASSUME DatasetInv, Next, ~\E p \in Procs : Claim(p)
  PROVE  Cardinality(Having("PROCESSING")') <= Cardinality(Having("PROCESSING"))
         /\ Cardinality(Having("PROCESSING")') \in Nat /\ Cardinality(Having("PROCESSING")) \in Nat
<1>1. \A e \in Exports : row'[e] = "PROCESSING" => row[e] = "PROCESSING"
  BY RowMoves DEF Move
<1> QED BY <1>1, FewerExports DEF Having

\* A claim takes the slot it was granted, and no other step takes one.
LEMMA LimitKept ==
  ASSUME DatasetInv, Next
  PROVE  ActiveLimit' /\ ClaimsAreSafe'
<1> USE DEF DatasetInv
<1>0. /\ MaxConcurrent \in Nat /\ None \notin Procs
      /\ Cardinality(Having("PROCESSING")) \in Nat
  BY ExportAssumption, FiniteExports DEF ExportAssumption, Having
<1>1. ASSUME NEW p \in Procs, Claim(p) PROVE ActiveLimit' /\ ClaimsAreSafe'
  <2>1. turn = p /\ turn' = None /\ Cardinality(Having("PROCESSING")) < MaxConcurrent
    BY <1>0, <1>1 DEF Claim, ClaimsAreSafe
  <2>2. Having("PROCESSING")' \subseteq Having("PROCESSING") \cup {job[p]}
    BY <1>1 DEF Claim, Set, Finish, Having, TypeOK
  <2>3. Cardinality(Having("PROCESSING") \cup {job[p]}) <= Cardinality(Having("PROCESSING")) + 1
        /\ IsFiniteSet(Having("PROCESSING") \cup {job[p]})
        /\ Cardinality(Having("PROCESSING") \cup {job[p]}) \in Nat
    <3>1. IsFiniteSet(Having("PROCESSING"))
      BY FiniteExports DEF Having
    <3> DEFINE S == Having("PROCESSING")  x == job[p]
    <3>2. IsFiniteSet(S \cup {x})
          /\ Cardinality(S \cup {x}) = IF x \in S THEN Cardinality(S) ELSE Cardinality(S) + 1
      <4> HIDE DEF S, x
      <4> QED BY <3>1, FS_AddElement DEF S
    <3>3. Cardinality(S) \in Nat
      BY <1>0
    <3> HIDE DEF S, x
    <3>4. Cardinality(S \cup {x}) <= Cardinality(S) + 1 /\ Cardinality(S \cup {x}) \in Nat
      BY <3>2, <3>3
    <3> QED BY <3>2, <3>4 DEF S, x
  <2>4. Cardinality(Having("PROCESSING")') <= Cardinality(Having("PROCESSING") \cup {job[p]})
        /\ Cardinality(Having("PROCESSING")') \in Nat
    BY <2>2, <2>3, FS_Subset, FS_CardinalityType
  <2>5. ActiveLimit'
    BY <1>0, <2>1, <2>3, <2>4 DEF ActiveLimit
  <2>6. \A q \in Procs : pc'[q] # "claim"
    <3>1. pc'[p] # "claim"
      BY <1>1 DEF Claim, Finish, Goto, TypeOK
    <3>2. \A q \in Procs \ {p} : pc'[q] = pc[q] /\ pc[q] # "claim"
      BY <1>1, <2>1, OneWorker DEF Handle, ClaimsAreSafe
    <3> QED BY <3>1, <3>2
  <2> QED BY <1>0, <2>1, <2>5, <2>6 DEF ClaimsAreSafe
<1>2. ASSUME ~\E p \in Procs : Claim(p) PROVE ActiveLimit' /\ ClaimsAreSafe'
  <2>1. /\ Cardinality(Having("PROCESSING")') <= Cardinality(Having("PROCESSING"))
        /\ Cardinality(Having("PROCESSING")') \in Nat
    BY <1>2, SlotsTaken
  <2>2. ActiveLimit'
    BY <1>0, <2>1 DEF ActiveLimit
  <2>3. ASSUME turn' # None
        PROVE  Cardinality(Having("PROCESSING")) < MaxConcurrent
    <3>1. turn' = turn \/ \E p \in Procs : Count(p) /\ turn' = p /\ turn # turn'
      BY <1>2, <2>3 DEF Next, Handle, Insert, Generate, Store, Complete, Fail, DrainNext, BootNext,
         Admit, DatabaseError, Restart, Count, table
    <3> QED BY <1>0, <2>3, <3>1 DEF Count, Finish, ClaimsAreSafe
  <2>4. ASSUME NEW p \in Procs, Count(p)
        PROVE  \A q \in Procs : turn' = q <=> pc'[q] = "claim"
    <3>1. turn = None
      BY <2>4, <1>0 DEF Count, MyTurn, ClaimsAreSafe
    <3>2. \A q \in Procs \ {p} : pc'[q] = pc[q] /\ pc[q] # "claim"
      BY <1>0, <2>4, <3>1, OneWorker DEF Handle, ClaimsAreSafe
    <3>3. turn' = p <=> pc'[p] = "claim"
      BY <1>0, <2>4, <3>1 DEF Count, Finish, Goto, TypeOK
    <3>4. turn' \in {None, p}
      BY <2>4, <3>1 DEF Count
    <3> QED BY <1>0, <3>2, <3>3, <3>4
  <2>5. ASSUME NEW p \in Procs, Insert(p) \/ Generate(p) \/ Store(p) \/ Complete(p) \/ Fail(p)
                                \/ DrainNext(p) \/ BootNext(p) \/ Admit(p)
        PROVE  \A q \in Procs : turn' = q <=> pc'[q] = "claim"
    <3>1. turn' = turn /\ turn # p /\ pc'[p] # "claim"
      BY <2>5 DEF Insert, Generate, Store, Complete, Fail, DrainNext, BootNext, Admit, Finish,
         Leave, TakeUp, Goto, TypeOK, ClaimsAreSafe
    <3>2. \A q \in Procs \ {p} : pc'[q] = pc[q]
      BY <2>5, OneWorker DEF Handle
    <3> QED BY <3>1, <3>2 DEF ClaimsAreSafe
  <2>6. ASSUME NEW p \in Procs, DatabaseError(p)
        PROVE  \A q \in Procs : turn' = q <=> pc'[q] = "claim"
    <3>1. turn' = (IF turn = p THEN None ELSE turn) /\ pc'[p] # "claim"
      BY <2>6 DEF DatabaseError, Leave, Goto, TypeOK
    <3>2. \A q \in Procs \ {p} : pc'[q] = pc[q]
      BY <2>6, OneWorker
    <3> QED BY <1>0, <3>1, <3>2 DEF ClaimsAreSafe
  <2>7. ASSUME Restart
        PROVE  \A q \in Procs : turn' = q <=> pc'[q] = "claim"
    BY <1>0, <2>7 DEF Restart
  <2>8. \A q \in Procs : turn' = q <=> pc'[q] = "claim"
    BY <1>2, <2>4, <2>5, <2>6, <2>7 DEF Next, Handle
  <2> QED BY <1>0, <2>1, <2>2, <2>3, <2>8 DEF ClaimsAreSafe
<1> QED BY <1>1, <1>2

-----------------------------------------------------------------------------
(* Workers and their exports.                                              *)

\* No step of a worker takes away a file that another one has just stored, or
\* that belongs to an export which is not yet COMPLETED.
LEMMA FilesOfOthers ==
  ASSUME DatasetInv, Next, NEW e \in Exports, e \in disk, e \notin disk'
  PROVE  \/ row[e] = "COMPLETED" /\ e \in deleted'
         \/ \E p \in Procs : Fail(p) /\ job[p] = e
<1>1. ASSUME CleanUp PROVE row[e] = "COMPLETED" /\ e \in deleted'
  BY <1>1, CleanUpTypes DEF DatasetInv
<1>2. ASSUME NEW p \in Procs, Fail(p) PROVE job[p] = e
  BY <1>2 DEF Fail
<1> QED BY <1>1, <1>2 DEF Next, Handle, Insert, Count, Claim, Generate, Store, Stored, Complete,
           DrainNext, BootNext, Admit, DatabaseError, Restart, table

\* The cutoff of a snapshot is never taken back.
LEMMA CutGrows ==
  ASSUME Next
  PROVE  cut \subseteq cut'
BY DEF Next, Handle, Insert, Count, Claim, Generate, Store, Complete, Fail, DrainNext, BootNext,
       Admit, DatabaseError, Restart, table

\* What a worker knows at the step it reaches itself.
LEMMA OwnStep ==
  ASSUME DatasetInv, Next, NEW p \in Procs, Handle(p) \/ Admit(p) \/ DatabaseError(p)
  PROVE  /\ pc'[p] \in Busy => job'[p] \in Exports
         /\ pc'[p] \in {"store", "complete"} => job'[p] \in cut'
         /\ pc'[p] = "complete" => job'[p] \in disk'
<1> USE DEF DatasetInv, TypeOK
<1>1. CASE Insert(p)
  BY <1>1, NextNumber DEF Insert, Goto
<1>2. CASE Count(p) \/ Claim(p) \/ Fail(p) \/ Admit(p)
  BY <1>2 DEF Count, Claim, Fail, Admit, Finish, Goto, WorkersKnow, Busy, Generating
<1>3. CASE Generate(p)
  <2>1. row[job[p]] = "PROCESSING" /\ job[p] \in Exports
    BY <1>3, OwnRow DEF Generate, Generating
  <2> QED BY <1>3, <2>1 DEF Generate, Goto
<1>4. CASE Store(p)
  <2>1. job[p] \in cut /\ job[p] \in Exports
    BY <1>4 DEF Store, WorkersKnow, Busy, Generating
  <2> QED BY <1>4, <2>1 DEF Store, Stored, Goto, table
<1>5. CASE Complete(p)
  BY <1>5 DEF Complete, Finish, Goto, WorkersKnow, Busy, Generating
<1>6. CASE DrainNext(p) \/ BootNext(p) \/ DatabaseError(p)
  <2>1. Leave(p) \/ \E e \in Exports : TakeUp(p, e)
    BY <1>6 DEF DrainNext, BootNext, DatabaseError
  <2> QED BY <2>1 DEF TakeUp, Leave, Goto, Busy, Generating
<1> QED BY <1>1, <1>2, <1>3, <1>4, <1>5, <1>6 DEF Handle

\* And what the others knew stays true.
LEMMA OthersStillKnow ==
  ASSUME DatasetInv, Next, NEW p \in Procs, Handle(p) \/ Admit(p) \/ DatabaseError(p),
         NEW q \in Procs, q # p
  PROVE  /\ pc'[q] \in Busy => job'[q] \in Exports
         /\ pc'[q] \in {"store", "complete"} => job'[q] \in cut'
         /\ pc'[q] = "complete" => job'[q] \in disk'
<1> USE DEF DatasetInv
<1>1. pc'[q] = pc[q] /\ job'[q] = job[q]
  BY OneWorker
<1>2. ASSUME pc[q] = "complete" PROVE job[q] \in disk'
  <2>1. job[q] \in Exports /\ row[job[q]] = "PROCESSING"
    BY <1>2, OwnRow DEF Generating
  <2>2. job[q] \in disk
    BY <1>2 DEF WorkersKnow
  <2>3. ASSUME NEW r \in Procs, Fail(r) PROVE job[r] # job[q]
    <3>1. pc[r] = "fail"
      BY <2>3 DEF Fail
    <3> QED BY <1>2, <3>1 DEF WorkersOwnTheirExport, Generating
  <2> QED BY <2>1, <2>2, <2>3, FilesOfOthers
<1> QED BY <1>1, <1>2, CutGrows DEF WorkersKnow

\* So no step makes a worker wrong about its export.
LEMMA KnowledgeKept ==
  ASSUME DatasetInv, Next
  PROVE  WorkersKnow'
<1>1. ASSUME NEW p \in Procs, Handle(p) \/ Admit(p) \/ DatabaseError(p) PROVE WorkersKnow'
  BY <1>1, OwnStep, OthersStillKnow DEF WorkersKnow
<1>2. ASSUME Restart PROVE WorkersKnow'
  <2>1. \A q \in Procs : pc'[q] \in {"next", "idle"}
    BY <1>2 DEF Restart
  <2> QED BY <2>1 DEF WorkersKnow, Busy, Generating
<1> QED BY <1>1, <1>2 DEF Next

\* One worker per export that is being generated.
LEMMA OwnershipKept ==
  ASSUME DatasetInv, Next
  PROVE  WorkersOwnTheirExport'
<1> USE DEF DatasetInv
<1>1. ASSUME Restart PROVE WorkersOwnTheirExport'
  <2>1. \A q \in Procs : pc'[q] \in {"next", "idle"}
    BY <1>1 DEF Restart
  <2>2. "restart" \in faults'
    BY <1>1 DEF Restart
  <2> QED BY <2>1, <2>2 DEF WorkersOwnTheirExport, Generating
<1>2. ASSUME NEW p \in Procs, Handle(p) \/ Admit(p) \/ DatabaseError(p)
      PROVE  WorkersOwnTheirExport'
  <2>1. \A q \in Procs \ {p} : pc'[q] = pc[q] /\ job'[q] = job[q]
    BY <1>2, OneWorker
  <2>2. faults \subseteq faults'
    BY <1>2 DEF Handle, Insert, Count, Claim, Generate, Store, Complete, Fail, DrainNext, BootNext,
       Admit, DatabaseError
  <2>3. CASE Claim(p) /\ row[job[p]] = "PENDING"
    <3>1. job[p] \in Exports
      BY <2>3 DEF Claim, WorkersKnow, Busy
    <3>2. /\ row' = [row EXCEPT ![job[p]] = "PROCESSING"]
          /\ pc'[p] = "generate" /\ job' = job
      BY <2>3 DEF Claim, StillPending, Set, Goto, TypeOK
    <3>3. \A q \in Procs \ {p} : pc[q] \in Generating => job[q] # job[p] /\ job[q] \in Exports
      BY <2>3, OwnRow
    <3> QED BY <2>1, <2>2, <3>1, <3>2, <3>3 DEF WorkersOwnTheirExport, Having, Generating, TypeOK
  <2>4. CASE pc[p] \in {"idle", "insert", "count", "claim", "next"}
             /\ ~(Claim(p) /\ row[job[p]] = "PENDING")
    <3>1. pc'[p] \notin Generating
      BY <1>2, <2>4 DEF Handle, Insert, Count, Claim, Generate, Store, Complete, Fail, DrainNext,
         BootNext, Admit, DatabaseError, Finish, TakeUp, Leave, Goto, StillPending, Generating, TypeOK
    <3>2. \A e \in Exports : row'[e] = row[e] \/ (row[e] = None /\ row'[e] = "PENDING")
      <4>1. ASSUME Insert(p), NEW e \in Exports
            PROVE  row'[e] = row[e] \/ (row[e] = None /\ row'[e] = "PENDING")
        BY <4>1, NextNumber DEF Insert, Set, TypeOK
      <4>2. Insert(p) \/ UNCHANGED row
        BY <1>2, <2>4 DEF Handle, Count, Claim, Generate, Store, Complete, Fail, DrainNext,
           BootNext, Admit, DatabaseError, StillPending, table
      <4> QED BY <4>1, <4>2
    <3>3. pc[p] \notin Generating
      BY <2>4 DEF Generating
    <3>4. \A q \in Procs : pc[q] \in Generating => row'[job[q]] = row[job[q]]
      BY <3>2, OwnRow, ExportAssumption DEF ExportAssumption
    <3>5. \A q \in Procs : pc'[q] \in Generating <=> pc[q] \in Generating
      BY <2>1, <3>1, <3>3
    <3>6. \A q \in Procs : pc[q] \in Generating => pc'[q] = pc[q] /\ job'[q] = job[q]
      BY <2>1, <3>3
    <3>7. \A e \in Having("PROCESSING")' : e \in Having("PROCESSING")
      BY <3>2 DEF Having
    <3> QED BY <2>2, <3>4, <3>5, <3>6, <3>7 DEF WorkersOwnTheirExport
  <2>5. CASE pc[p] \in Generating
    <3>1. job[p] \in Exports
      BY <2>5, OwnRow
    <3>2. \A q \in Procs \ {p} : pc[q] \in Generating => job[q] # job[p] /\ job[q] \in Exports
      BY <2>5, OwnRow DEF WorkersOwnTheirExport
    <3>3. \A e \in Exports : e # job[p] => row'[e] = row[e]
      BY <1>2, <2>5 DEF Handle, Insert, Count, Claim, Generate, Store, Complete, Fail, DrainNext,
         BootNext, Admit, DatabaseError, Set, Generating, TypeOK, table
    <3>4. pc'[p] \in Generating =>
            /\ job'[p] = job[p]
            /\ \/ row'[job[p]] = "PROCESSING"
               \/ row'[job[p]] = "COMPLETED" /\ pc'[p] = "fail" /\ "answer" \in faults'
      <4>1. row[job[p]] = "PROCESSING" \/ pc[p] = "fail"
        BY <2>5, OwnRow
      <4> QED BY <1>2, <2>5, <3>1, <4>1 DEF Handle, Insert, Count, Claim, Generate, Store, Complete,
              Fail, DrainNext, BootNext, Admit, DatabaseError, Finish, Leave, TakeUp, Set, Goto,
              Generating, TypeOK, table
    <3>5. pc'[p] \notin Generating =>
            row'[job[p]] # "PROCESSING" \/ faults' \cap {"restart", "database"} # {}
      <4>1. row[job[p]] = "PROCESSING" \/ row[job[p]] = "COMPLETED"
        BY <2>5, OwnRow
      <4> QED BY <1>2, <2>5, <3>1, <4>1 DEF Handle, Insert, Count, Claim, Generate, Store, Complete,
              Fail, Failed, DrainNext, BootNext, Admit, DatabaseError, Finish, Leave, TakeUp, Set,
              Goto, Generating, TypeOK, table
    <3>6. \A q \in Procs \ {p} : pc[q] \in Generating =>
            /\ pc'[q] = pc[q] /\ job'[q] = job[q] /\ row'[job[q]] = row[job[q]]
      BY <2>1, <3>2, <3>3
    <3>7. ASSUME NEW q \in Procs, NEW r \in Procs, q # r, pc'[q] \in Generating,
                 pc'[r] \in Generating
          PROVE  job'[q] # job'[r]
      BY <2>1, <2>5, <3>2, <3>4, <3>7 DEF WorkersOwnTheirExport
    <3>8. ASSUME NEW q \in Procs, pc'[q] \in Generating
          PROVE  \/ row'[job'[q]] = "PROCESSING"
                 \/ row'[job'[q]] = "COMPLETED" /\ pc'[q] = "fail" /\ "answer" \in faults'
      BY <2>1, <2>2, <3>4, <3>6, <3>8 DEF WorkersOwnTheirExport
    <3>9. ASSUME NEW e \in Having("PROCESSING")'
          PROVE  \/ \E q \in Procs : pc'[q] \in Generating /\ job'[q] = e
                 \/ faults' \cap {"restart", "database"} # {}
      <4>1. CASE e = job[p]
        BY <3>4, <3>5, <3>9, <4>1 DEF Having
      <4>2. CASE e # job[p]
        <5>1. e \in Having("PROCESSING")
          BY <3>3, <3>9, <4>2 DEF Having
        <5>2. ASSUME NEW q \in Procs, pc[q] \in Generating, job[q] = e
              PROVE  pc'[q] \in Generating /\ job'[q] = e
          BY <2>1, <4>2, <5>2
        <5> QED BY <2>2, <5>1, <5>2 DEF WorkersOwnTheirExport
      <4> QED BY <4>1, <4>2
    <3> QED BY <3>7, <3>8, <3>9 DEF WorkersOwnTheirExport
  <2> QED BY <2>3, <2>4, <2>5 DEF TypeOK, Generating
<1> QED BY <1>1, <1>2 DEF Next

\* The file of a completed export.
LEMMA ArtifactsKept ==
  ASSUME DatasetInv, Next
  PROVE  ArtifactKept'
<1> USE DEF DatasetInv
<1>1. deleted \subseteq deleted' /\ faults \subseteq faults' /\ cut \subseteq cut'
  <2>1. deleted \subseteq deleted' /\ faults \subseteq faults'
    BY DEF Next, Handle, Insert, Count, Claim, Generate, Store, Complete, Fail, DrainNext, BootNext,
       Admit, DatabaseError, Restart, CleanUp, table
  <2> QED BY <2>1, CutGrows
<1>2. ASSUME NEW e \in Exports, row'[e] = "COMPLETED"
      PROVE  e \in cut' /\ (e \in disk' \/ e \in deleted' \/ "answer" \in faults')
  <2>1. CASE row[e] = "COMPLETED"
    <3>1. e \in cut /\ (e \in disk \/ e \in deleted \/ "answer" \in faults)
      BY <2>1 DEF ArtifactKept, Having
    <3>2. ASSUME e \in disk, e \notin disk' PROVE e \in deleted' \/ "answer" \in faults
      <4>1. ASSUME NEW p \in Procs, Fail(p), job[p] = e PROVE "answer" \in faults
        <5>1. pc[p] \in Generating
          BY <4>1 DEF Fail, Generating
        <5> QED BY <2>1, <4>1, <5>1, OwnRow
      <4> QED BY <3>2, <4>1, FilesOfOthers
    <3> QED BY <1>1, <3>1, <3>2
  <2>2. CASE row[e] # "COMPLETED"
    <3>1. PICK p \in Procs : Complete(p) /\ job[p] = e
      BY <1>2, <2>2, RowMoves DEF Move
    <3>2. e \in cut /\ e \in disk /\ disk' = disk
      BY <3>1 DEF Complete, WorkersKnow
    <3> QED BY <1>1, <3>2
  <2> QED BY <2>1, <2>2
<1> QED BY <1>2 DEF ArtifactKept, Having

-----------------------------------------------------------------------------
(* The queue.                                                              *)

\* The rows that exist stay, and only an insertion adds one or queues one.
LEMMA RowsStay ==
  ASSUME DatasetInv, Next, ~\E p \in Procs : Insert(p)
  PROVE  Created' = Created /\ Having("PENDING")' \subseteq Having("PENDING")
<1>1. \A e \in Exports : row'[e] = None <=> row[e] = None
  BY RowMoves, ExportAssumption DEF Move, ExportAssumption
<1>2. \A e \in Exports : row'[e] = "PENDING" => row[e] = "PENDING"
  BY RowMoves DEF Move
<1> QED BY <1>1, <1>2 DEF Created, Having

\* The requests that are admitted: one more by an admission, and fewer by any
\* other step.
LEMMA ArrivalsMove ==
  ASSUME DatasetInv, Next
  PROVE  \/ Inserting' \subseteq Inserting
         \/ \E p \in Procs : Admit(p) /\ ~QueueFull /\ Inserting' = Inserting \cup {p}
<1>1. ASSUME NEW p \in Procs, Admit(p)
      PROVE  \/ Inserting' \subseteq Inserting
             \/ ~QueueFull /\ Inserting' = Inserting \cup {p}
  BY <1>1 DEF Admit, Goto, Inserting, DatasetInv, TypeOK
<1>2. ASSUME NEW p \in Procs, Handle(p) \/ DatabaseError(p) PROVE Inserting' \subseteq Inserting
  <2>1. pc'[p] # "insert"
    BY <1>2 DEF Handle, Insert, Count, Claim, Generate, Store, Complete, Fail, DrainNext, BootNext,
       DatabaseError, Finish, Leave, TakeUp, Goto, DatasetInv, TypeOK
  <2> QED BY <1>2, <2>1, OneWorker DEF Inserting, DatasetInv
<1>3. ASSUME Restart PROVE Inserting' \subseteq Inserting
  BY <1>3 DEF Restart, Inserting
<1> QED BY <1>1, <1>2, <1>3 DEF Next

\* Neither an admission nor a move of a row breaks the numbering or the bound on
\* the queue: an admission finds a place free, and a queued row moves on alone.
LEMMA QueueKept ==
  ASSUME DatasetInv, Next
  PROVE  Numbered' /\ QueueAndArrivals'
<1> USE DEF DatasetInv
<1> DEFINE cp == Cardinality(Having("PENDING"))  ci == Cardinality(Inserting)
<1>1. cp \in Nat /\ ci \in Nat /\ Cardinality(Procs) \in Nat /\ IsFiniteSet(Inserting)
  BY FiniteExports, FiniteProcs DEF Having, Inserting
<1>2. cp' \in Nat /\ ci' \in Nat /\ ci' <= Cardinality(Procs)
  BY FiniteExports, FiniteProcs DEF Having, Inserting
<1>3. MaxQueued \in Nat /\ MaxExports \in Nat
  BY ExportAssumption DEF ExportAssumption
<1>4. PICK n \in 0..MaxExports : Created = 1..n /\ n + ci <= MaxExports
  BY DEF Numbered
<1>5. n \in Nat /\ n + ci <= MaxExports
  BY <1>3, <1>4
<1>6. ASSUME NEW p \in Procs, Insert(p) PROVE Numbered' /\ QueueAndArrivals'
  <2> DEFINE e == Cardinality(Created) + 1
  <2>1. /\ e \in Exports /\ row[e] = None /\ Created = 1..Cardinality(Created)
        /\ e + Cardinality(Inserting \ {p}) <= MaxExports
        /\ Cardinality(Inserting \ {p}) = ci - 1
    BY <1>6, NextNumber DEF Insert
  <2>2. Inserting' = Inserting \ {p}
    BY <1>6 DEF Insert, Goto, Inserting, TypeOK
  <2>3. Cardinality(Created) = n
    BY <1>3, <1>4, FS_Interval
  <2>4. Created' = Created \cup {e} /\ Having("PENDING")' = Having("PENDING") \cup {e}
    BY <1>6, <2>1, ExportAssumption DEF Insert, Set, Created, Having, TypeOK, ExportAssumption
  <2>5. Created' = 1..(n + 1)
    BY <1>3, <1>4, <2>3, <2>4
  <2>6. cp' <= cp + 1
    <3> DEFINE S == Having("PENDING")
    <3>1. IsFiniteSet(S)
      BY FiniteExports DEF Having
    <3>2. Cardinality(S \cup {e}) = IF e \in S THEN Cardinality(S) ELSE Cardinality(S) + 1
      <4> HIDE DEF S, e
      <4> QED BY <3>1, FS_AddElement
    <3>3. cp' = IF e \in S THEN cp ELSE cp + 1
      BY <2>4, <3>2
    <3> HIDE DEF cp, S, e
    <3> QED BY <1>1, <3>3
  <2>7. ci' = ci - 1
    BY <2>1, <2>2
  <2>8. n + 1 + ci' <= MaxExports /\ n + 1 \in 0..MaxExports
    BY <1>2, <1>3, <2>1, <2>2, <2>3
  <2> HIDE DEF cp, ci, e
  <2>9. Numbered'
    BY <2>5, <2>8 DEF Numbered, ci
  <2>10. cp + ci <= MaxQueued + Cardinality(Procs) - 1
    BY DEF QueueAndArrivals, cp, ci
  <2>11. cp' + ci' <= MaxQueued + Cardinality(Procs) - 1
    BY <1>1, <1>2, <1>3, <2>6, <2>7, <2>10
  <2> QED BY <2>9, <2>11 DEF QueueAndArrivals, cp, ci
<1>7. ASSUME ~\E p \in Procs : Insert(p) PROVE Numbered' /\ QueueAndArrivals'
  <2>1. Created' = Created /\ Having("PENDING")' \subseteq Having("PENDING")
    BY <1>7, RowsStay
  <2>2. cp' <= cp
    BY <2>1, FewerExports DEF Having
  <2>3. cp + ci <= MaxQueued + Cardinality(Procs) - 1
    BY DEF QueueAndArrivals
  <2>4. CASE Inserting' \subseteq Inserting
    <3>1. ci' <= ci
      BY <2>4, FewerProcs DEF Inserting
    <3>2. n + ci' <= MaxExports
      BY <1>1, <1>2, <1>3, <1>5, <3>1
    <3> HIDE DEF cp, ci
    <3>3. cp' + ci' <= MaxQueued + Cardinality(Procs) - 1
      BY <1>1, <1>2, <1>3, <2>2, <2>3, <3>1
    <3> QED BY <1>4, <2>1, <3>2, <3>3 DEF Numbered, QueueAndArrivals, cp, ci
  <2>5. CASE \E p \in Procs : Admit(p) /\ ~QueueFull /\ Inserting' = Inserting \cup {p}
    <3>1. PICK p \in Procs : Admit(p) /\ ~QueueFull /\ Inserting' = Inserting \cup {p}
      BY <2>5
    <3>2. ci' <= ci + 1
      BY <1>1, <3>1, FS_AddElement
    <3>3. cp < MaxQueued
      BY <1>1, <1>3, <3>1 DEF QueueFull
    <3>4. Cardinality(Created) = n
      BY <1>3, <1>4, FS_Interval
    <3>5. n + ci < MaxExports
      BY <3>1, <3>4 DEF Admit, Inserting
    <3>6. n + ci' <= MaxExports
      BY <1>1, <1>2, <1>3, <1>5, <3>2, <3>5
    <3> HIDE DEF cp, ci
    <3>7. cp' + ci' <= MaxQueued + Cardinality(Procs) - 1
      BY <1>1, <1>2, <1>3, <2>2, <3>2, <3>3
    <3> QED BY <1>4, <2>1, <3>6, <3>7 DEF Numbered, QueueAndArrivals, cp, ci
  <2> QED BY <2>4, <2>5, ArrivalsMove
<1> QED BY <1>6, <1>7

-----------------------------------------------------------------------------
(* The theorems.                                                           *)

\* The invariant holds at the start, every step keeps it, so it always holds.
LEMMA DatasetInvInit ==
  ASSUME Init
  PROVE  DatasetInv
<1>1. /\ \A s \in {"PENDING", "PROCESSING", "COMPLETED", "FAILED"} : Having(s) = {}
      /\ Created = {} /\ Inserting = {}
  BY ExportAssumption DEF Init, Having, Created, Inserting, ExportAssumption
<1>2. TypeOK
  BY <1>1 DEF Init, TypeOK
<1>3. Cardinality({}) = 0 /\ 1..0 = {}
  BY FS_EmptySet
<1>4. MaxExports \in Nat /\ MaxQueued \in Nat \ {0} /\ MaxConcurrent \in Nat \ {0}
      /\ Cardinality(Procs) \in Nat /\ None \notin Procs
  BY ExportAssumption, FiniteProcs DEF ExportAssumption
<1>5. ActiveLimit /\ QueueAndArrivals /\ Numbered
  BY <1>1, <1>3, <1>4 DEF ActiveLimit, QueueAndArrivals, Numbered
<1>6. ClaimsAreSafe /\ WorkersKnow /\ WorkersOwnTheirExport /\ ArtifactKept
  BY <1>1, <1>4 DEF Init, ClaimsAreSafe, WorkersKnow, WorkersOwnTheirExport, ArtifactKept, Busy,
     Generating
<1> QED BY <1>2, <1>5, <1>6 DEF DatasetInv

LEMMA DatasetInvNext ==
  ASSUME DatasetInv, [Next]_vars
  PROVE  DatasetInv'
<1>1. CASE Next
  BY <1>1, TypesKept, LimitKept, KnowledgeKept, OwnershipKept, ArtifactsKept, QueueKept
     DEF DatasetInv
<1>2. CASE UNCHANGED vars
  <2>1. /\ TypeOK' /\ WorkersKnow' /\ WorkersOwnTheirExport' /\ ArtifactKept'
    BY <1>2 DEF vars, DatasetInv, TypeOK, WorkersKnow, WorkersOwnTheirExport, ArtifactKept, Having
  <2>2. /\ \A s : Having(s)' = Having(s)
        /\ Created' = Created /\ Inserting' = Inserting
    BY <1>2 DEF vars, Created, Having, Inserting
  <2>3. ActiveLimit' /\ ClaimsAreSafe'
    BY <1>2, <2>2 DEF vars, DatasetInv, ActiveLimit, ClaimsAreSafe
  <2>4. Numbered' /\ QueueAndArrivals'
    BY <2>2 DEF DatasetInv, Numbered, QueueAndArrivals
  <2> QED BY <2>1, <2>3, <2>4 DEF DatasetInv
<1> QED BY <1>1, <1>2

LEMMA DatasetInvAlways == Spec => []DatasetInv
BY DatasetInvInit, DatasetInvNext, PTL DEF Spec

\* However many workers there are and whatever fails, no more than MaxConcurrent
\* exports are PROCESSING, each with the one worker that claimed it.
THEOREM WorkerPoolAlways == Spec => []WorkerPool
<1>1. DatasetInv => WorkerPool
  BY DEF DatasetInv, WorkerPool
<1> QED BY <1>1, DatasetInvAlways, PTL

\* A completed export keeps its file until its retention ends, unless the answer
\* to the commit of its completion was lost.
THEOREM ArtifactKeptAlways == Spec => []ArtifactKept
<1>1. DatasetInv => ArtifactKept
  BY DEF DatasetInv
<1> QED BY <1>1, DatasetInvAlways, PTL

\* Concurrent requests exceed the queue limit by less than one each.
THEOREM QueueOvershootAlways == Spec => []QueueOvershoot
<1>1. DatasetInv => QueueOvershoot
  <2>1. ASSUME DatasetInv PROVE QueueOvershoot
    <3>1. /\ Cardinality(Having("PENDING")) \in Nat /\ Cardinality(Inserting) \in Nat
          /\ Cardinality(Procs) \in Nat /\ MaxQueued \in Nat
      BY FiniteExports, FiniteProcs, ExportAssumption DEF Having, Inserting, ExportAssumption
    <3> QED BY <2>1, <3>1 DEF DatasetInv, QueueAndArrivals, QueueOvershoot
  <2> QED BY <2>1
<1> QED BY <1>1, DatasetInvAlways, PTL

\* An export moves along its documented lifecycle and never back, whatever
\* errors, lost answers and restarts its workers meet.
THEOREM LifecycleAlways == Spec => Lifecycle
<1>1. ASSUME DatasetInv, [Next]_vars
      PROVE  [\A e \in Exports : row'[e] # row[e] =>
                <<row[e], row'[e]>> \in {<<None, "PENDING">>, <<"PENDING", "PROCESSING">>,
                  <<"PROCESSING", "COMPLETED">>, <<"PROCESSING", "FAILED">>}]_vars
  <2>1. CASE Next
    BY <1>1, <2>1, RowMoves DEF Move
  <2> QED BY <1>1, <2>1
<1> QED BY <1>1, DatasetInvAlways, PTL DEF Spec, Lifecycle
=============================================================================
