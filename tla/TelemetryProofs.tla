---------------------------- MODULE TelemetryProofs ----------------------------
(***************************************************************************)
(* Telemetry, for any number of ingestions beside any number of requests:  *)
(* what is stored belongs to its session, every answer is true, and no     *)
(* ingestions wait for each other in a circle.  A report that runs beside  *)
(* them counts every reservation once, and its buckets add up.             *)
(***************************************************************************)
EXTENDS UsageReports, ChargingProofs, FiniteSetTheorems

\* The composition's steps are steps of the request handlers or leave them alone.
LEMMA TelemetryIsCharging == TelemetrySpec => Spec
<1>1. [TelemetryStep]_allVars => [Next]_vars
  BY DEF TelemetryStep, allVars
<1> QED BY <1>1, PTL DEF TelemetrySpec, Spec

LEMMA RequestsAsBefore == TelemetrySpec => []LocksProtect
BY TelemetryIsCharging, LocksProtectAlways, PTL

\* The clock never goes back.
LEMMA ClockGrows ==
  ASSUME TypeOK, [Next]_vars
  PROVE  now \in Nat /\ now' \in Nat /\ now <= now'
<1>1. now' = now \/ Tick
  BY DEF Next, Handle, Client, Operator, LockOverdue, Reconcile, Read, CreateDecides,
         RescheduleDecides, CancelDecides, SeekCalendars, LockCalendar, CheckConflict, Insert,
         Write, LockRow, Activate, LockSession, Complete, DeadlockVictim, Crash, Reject, Arrive,
         ArriveList, Begin, ArriveComplete, SetConnector, SetSite, SetVehicle, vars
<1> QED BY <1>1 DEF TypeOK, Tick

\* The rows of the sessions before and after a step of the request handlers.
LEMMA SessionStep ==
  ASSUME LocksProtect, [Next]_vars, NEW r \in Reservations
  PROVE  \/ ses'[r] = ses[r]
         \/ ses[r] = None /\ ses'[r] \in Session /\ ses'[r].status = "ACTIVE"
         \/ /\ ses[r] \in Session /\ ses[r].status = "ACTIVE"
            /\ ses'[r] \in Session /\ ses'[r].status = "COMPLETED"
            /\ ses'[r].started = ses[r].started
BY SessionChanges

-----------------------------------------------------------------------------
(* Steps of the request handlers.                                          *)

\* A sample that belongs to its session still does when the session ends, although
\* the end may lie before it: it was received before the completion committed.
LEMMA BelongsStays ==
  ASSUME LocksProtect, TelemetryTypes, [Next]_vars, NoteCompletions,
         NEW r \in Reservations, NEW recorded \in Nat, NEW t \in Nat, Belongs(r, recorded, t)
  PROVE  Belongs(r, recorded, t)'
<1>1. now \in Nat /\ now' \in Nat /\ now <= now'
  BY ClockGrows DEF LocksProtect
<1>2. ses[r] \in Session
  BY DEF LocksProtect, TypeOK, Belongs
<1>3. CASE ses'[r] = ses[r]
  <2>1. closed'[r] = closed[r]
    BY <1>3 DEF NoteCompletions
  <2> QED BY <1>1, <1>2, <1>3, <2>1 DEF Belongs
<1>4. CASE /\ ses[r].status = "ACTIVE"
           /\ ses'[r] \in Session /\ ses'[r].status = "COMPLETED"
           /\ ses'[r].started = ses[r].started
  <2>1. closed'[r] = now
    BY <1>2, <1>4, NoneAssumption DEF NoteCompletions
  <2> QED BY <1>1, <1>4, <2>1, NoneAssumption DEF Belongs
<1> QED BY <1>2, <1>3, <1>4, SessionStep, NoneAssumption

\* Whatever a request does to sessions and clock, what ingestions know and have
\* stored stays true.
LEMMA RequestsKeepTelemetry ==
  ASSUME LocksProtect, TelemetryInv, Next, NoteCompletions, UNCHANGED telemetry
  PROVE  TelemetryInv'
<1> USE DEF TelemetryInv
<1>1. now \in Nat /\ now' \in Nat /\ now <= now'
  BY ClockGrows DEF LocksProtect
<1>2. TelemetryTypes'
  BY <1>1 DEF TelemetryTypes, NoteCompletions, telemetry, ingestion
<1>3. ASSUME NEW r \in Reservations
      PROVE  closed'[r] # None <=> (ses'[r] # None /\ ses'[r].status = "COMPLETED")
  <2>1. closed[r] # None <=> (ses[r] # None /\ ses[r].status = "COMPLETED")
    BY DEF IngestionsKnow
  <2>2. closed'[r] = IF ses[r] # None /\ ses[r].status = "ACTIVE" /\ ses'[r].status = "COMPLETED"
                     THEN now ELSE closed[r]
    BY DEF NoteCompletions
  <2>3. now # None
    BY <1>1, TelemetryAssumption DEF TelemetryAssumption
  <2>4. CASE ses'[r] = ses[r]
    BY <2>1, <2>2, <2>4
  <2>5. CASE ses[r] = None /\ ses'[r] \in Session /\ ses'[r].status = "ACTIVE"
    BY <2>1, <2>2, <2>5
  <2>6. CASE /\ ses[r] \in Session /\ ses[r].status = "ACTIVE"
             /\ ses'[r] \in Session /\ ses'[r].status = "COMPLETED"
    BY <2>2, <2>3, <2>6, NoneAssumption
  <2> QED BY <2>4, <2>5, <2>6, SessionStep
<1>4. ASSUME NEW q \in Producers, stage[q] # "idle"
      PROVE  /\ about[q] \in Reservations /\ ses'[about[q]] # None /\ received[q] <= now'
             /\ stage[q] # "validate" => \A s \in batch[q] :
                  Belongs(about[q], s.recorded, received[q])'
  <2>1. about[q] \in Reservations /\ ses[about[q]] # None /\ received[q] <= now
    BY <1>4 DEF IngestionsKnow
  <2>2. ses'[about[q]] # None
    BY <2>1, SessionStep, NoneAssumption
  <2>3. received[q] \in Nat /\ batch[q] \in SUBSET Sample
    BY DEF TelemetryTypes
  <2>4. ASSUME stage[q] # "validate", NEW s \in batch[q]
        PROVE  Belongs(about[q], s.recorded, received[q])'
    <3>1. Belongs(about[q], s.recorded, received[q]) /\ s.recorded \in Nat
      BY <1>4, <2>3, <2>4 DEF IngestionsKnow, Sample
    <3>2. UNCHANGED <<about, received>>
      BY DEF telemetry, ingestion
    <3> DEFINE r == about[q]  t == received[q]
    <3> HIDE DEF r, t
    <3>3. Belongs(r, s.recorded, t)'
      BY <2>1, <2>3, <3>1, <3>2, BelongsStays DEF r, t
    <3> QED BY <3>2, <3>3 DEF r, t
  <2> QED BY <1>1, <2>1, <2>2, <2>3, <2>4
<1>5. IngestionsKnow'
  <2>1. UNCHANGED <<samples, keyLock, stage, about, batch, received, found>>
    BY DEF telemetry, ingestion
  <2> QED BY <1>3, <1>4, <2>1 DEF IngestionsKnow, OneValuePerKey, Unlocked, KeysOf, At, SamePayload
<1>6. SamplesBelong'
  <2>1. ASSUME NEW r \in Reservations, NEW k \in Keys, samples[<<r, k>>] # None
        PROVE  Belongs(r, samples[<<r, k>>].recorded, samples[<<r, k>>].received)'
    <3>1. samples[<<r, k>>] \in Stored /\ samples' = samples
      BY <2>1 DEF TelemetryTypes, telemetry
    <3>2. Belongs(r, samples[<<r, k>>].recorded, samples[<<r, k>>].received)
      BY <2>1 DEF SamplesBelong
    <3> QED BY <3>1, <3>2, BelongsStays DEF Stored
  <2>2. samples' = samples
    BY DEF telemetry
  <2> QED BY <2>1, <2>2 DEF SamplesBelong
<1> QED BY <1>2, <1>5, <1>6

-----------------------------------------------------------------------------
(* Steps of the ingestions.                                                *)

\* The end of an ingestion: it lets go of its locks and of nobody else's.
LEMMA AnswerFacts ==
  ASSUME TelemetryTypes, NEW q \in Producers,
         NEW a \in {"nothing", "created", "duplicate", "conflict", "refused"},
         AnswerIngest(q, a)
  PROVE  /\ keyLock' \in [Reservations \X Keys -> Producers \cup {None}]
         /\ stage' \in [Producers -> {"idle", "validate", "lock", "look", "store"}]
         /\ about' \in [Producers -> Reservations \cup {None}]
         /\ batch' \in [Producers -> SUBSET Sample]
         /\ received' \in [Producers -> Nat]
         /\ found' \in [Producers -> SUBSET Keys]
         /\ said' \in {"nothing", "created", "duplicate", "conflict", "refused"}
         /\ stage'[q] = "idle"
         /\ \A p \in Producers \ {q} :
              /\ stage'[p] = stage[p] /\ about'[p] = about[p] /\ batch'[p] = batch[p]
              /\ received'[p] = received[p] /\ found'[p] = found[p]
              /\ \A x \in Reservations \X Keys : keyLock[x] = p => keyLock'[x] = p
<1>1. q # None
  BY TelemetryAssumption DEF TelemetryAssumption
<1> QED BY <1>1 DEF TelemetryTypes, AnswerIngest

\* An ingestion goes on to its next step.
LEMMA GoOnFacts ==
  ASSUME TelemetryTypes, NEW q \in Producers,
         NEW s \in {"validate", "lock", "look", "store"}, GoOn(q, s)
  PROVE  /\ stage' \in [Producers -> {"idle", "validate", "lock", "look", "store"}]
         /\ stage'[q] = s /\ \A p \in Producers \ {q} : stage'[p] = stage[p]
         /\ UNCHANGED <<about, batch, received>> /\ said' = "nothing"
BY DEF TelemetryTypes, GoOn

\* What a batch is made of.
LEMMA KeysTyped ==
  ASSUME TelemetryTypes, NEW q \in Producers
  PROVE  /\ batch[q] \in SUBSET Sample /\ KeysOf(q) \in SUBSET Keys
         /\ \A s \in batch[q] : s.key \in Keys /\ s.recorded \in Nat /\ s.energy \in Nat
<1>1. batch[q] \in SUBSET Sample
  BY DEF TelemetryTypes
<1> QED BY <1>1 DEF KeysOf, Sample

\* The rows an ingestion inserts, and those it leaves.
LEMMA StoreFacts ==
  ASSUME TelemetryInv, NEW q \in Producers, Store(q)
  PROVE  LET new == {s \in batch[q] : s.key \notin found[q]} IN
         /\ AnswerIngest(q, IF new = {} THEN "duplicate" ELSE "created")
         /\ samples' \in [Reservations \X Keys -> Stored \cup {None}]
         /\ \A s \in new : /\ samples[At(q, s.key)] = None
                           /\ samples'[At(q, s.key)] = Inserted(s, received[q])
         /\ \A x \in Reservations \X Keys :
              \/ samples'[x] = samples[x]
              \/ \E s \in new : x = At(q, s.key)
<1> DEFINE new == {s \in batch[q] : s.key \notin found[q]}
           at_key(x) == CHOOSE s \in new : x = At(q, s.key)
<1>1. /\ about[q] \in Reservations /\ received[q] \in Nat /\ OneValuePerKey(batch[q])
      /\ \A s \in new : samples[At(q, s.key)] = None
  BY DEF Store, TelemetryInv, TelemetryTypes, IngestionsKnow
<1>2. \A s \in new : s.key \in Keys /\ s.recorded \in Nat /\ s.energy \in Nat
  BY KeysTyped DEF TelemetryInv
<1>3. /\ samples' = [x \in Reservations \X Keys |->
                       IF \E s \in new : x = At(q, s.key)
                       THEN Inserted(at_key(x), received[q]) ELSE samples[x]]
      /\ AnswerIngest(q, IF new = {} THEN "duplicate" ELSE "created")
  BY <1>1 DEF Store
<1>4. ASSUME NEW s \in new
      PROVE  /\ At(q, s.key) \in Reservations \X Keys
             /\ at_key(At(q, s.key)) = s
  <2>1. at_key(At(q, s.key)) \in new /\ At(q, s.key) = At(q, at_key(At(q, s.key)).key)
    OBVIOUS
  <2>2. s.key = at_key(At(q, s.key)).key
    BY <2>1 DEF At
  <2>3. s \in batch[q] /\ at_key(At(q, s.key)) \in batch[q]
    BY <2>1
  <2> QED BY <1>1, <1>2, <2>2, <2>3 DEF OneValuePerKey, At
<1>5. ASSUME NEW s \in new
      PROVE  samples'[At(q, s.key)] = Inserted(s, received[q]) /\ Inserted(s, received[q]) \in Stored
  <2> HIDE DEF at_key
  <2> QED BY <1>1, <1>2, <1>3, <1>4 DEF Inserted, Stored
<1>6. samples \in [Reservations \X Keys -> Stored \cup {None}]
  BY DEF TelemetryInv, TelemetryTypes
<1>7. ASSUME NEW x \in Reservations \X Keys
      PROVE  /\ samples'[x] = samples[x] \/ \E s \in new : x = At(q, s.key)
             /\ samples'[x] \in Stored \cup {None}
  <2> HIDE DEF at_key, new
  <2>1. CASE \E s \in new : x = At(q, s.key)
    BY <1>5, <2>1
  <2>2. CASE ~\E s \in new : x = At(q, s.key)
    BY <1>3, <1>6, <2>2
  <2> QED BY <2>1, <2>2
<1>8. samples' \in [Reservations \X Keys -> Stored \cup {None}]
  <2> HIDE DEF at_key, new
  <2> QED BY <1>3, <1>7
<1> QED BY <1>1, <1>3, <1>5, <1>7, <1>8

\* What one ingestion knows at its step.
KnowsFor(q) ==
  stage[q] # "idle" =>
    /\ about[q] \in Reservations /\ ses[about[q]] # None /\ received[q] <= now
    /\ stage[q] # "validate" =>
         /\ OneValuePerKey(batch[q])
         /\ \A s \in batch[q] : Belongs(about[q], s.recorded, received[q])
    /\ stage[q] \in {"look", "store"} => Unlocked(q) = {}
    /\ stage[q] = "store" => \A s \in batch[q] :
         LET row == samples[At(q, s.key)] IN
           IF s.key \in found[q] THEN row # None /\ SamePayload(row, s) ELSE row = None

\* Others go on as they were: nobody takes a key they have locked, and the rows of
\* the keys they have locked stay.
LEMMA OthersKnow ==
  ASSUME TelemetryInv, NEW q \in Producers, UNCHANGED <<ses, now, closed>>,
         stage'[q] = stage[q], about'[q] = about[q], batch'[q] = batch[q],
         received'[q] = received[q], found'[q] = found[q],
         \A x \in Reservations \X Keys : keyLock[x] = q =>
           keyLock'[x] = q /\ samples'[x] = samples[x]
  PROVE  KnowsFor(q)'
<1>1. KnowsFor(q)
  BY DEF TelemetryInv, IngestionsKnow, KnowsFor
<1>2. SUFFICES ASSUME stage[q] # "idle" PROVE KnowsFor(q)'
  BY DEF KnowsFor
<1>3. about[q] \in Reservations /\ \A s \in batch[q] : s.key \in Keys
  BY <1>1, <1>2, KeysTyped DEF KnowsFor, TelemetryInv
<1>4. \A k \in Keys : At(q, k)' = At(q, k) /\ At(q, k) \in Reservations \X Keys
  BY <1>3 DEF At
<1>5. KeysOf(q) \in SUBSET Keys /\ KeysOf(q)' = KeysOf(q)
  BY <1>3 DEF KeysOf
<1>6. stage[q] # "validate" =>
        /\ OneValuePerKey(batch[q])'
        /\ \A s \in batch[q] : Belongs(about[q], s.recorded, received[q])'
  BY <1>1, <1>2 DEF KnowsFor, OneValuePerKey, Belongs
<1>7. stage[q] \in {"look", "store"} => Unlocked(q)' = {} /\ \A k \in KeysOf(q) : keyLock[At(q, k)] = q
  <2>1. stage[q] \in {"look", "store"} => \A k \in KeysOf(q) : keyLock[At(q, k)] = q
    BY <1>1 DEF KnowsFor, Unlocked
  <2> QED BY <2>1, <1>4, <1>5 DEF Unlocked
<1>8. stage[q] = "store" => \A s \in batch[q] :
        /\ samples'[At(q, s.key)] = samples[At(q, s.key)]
        /\ At(q, s.key)' = At(q, s.key)
  BY <1>3, <1>4, <1>7 DEF KeysOf
<1> QED BY <1>1, <1>2, <1>6, <1>7, <1>8 DEF KnowsFor, SamePayload

\* The table of the samples is as it was.
LEMMA SamplesStay ==
  ASSUME TelemetryInv, UNCHANGED <<ses, now, closed, samples>>
  PROVE  SamplesBelong'
BY DEF TelemetryInv, SamplesBelong, Belongs

\* An ingestion that answers without storing anything.
LEMMA AnswerKeeps ==
  ASSUME TelemetryInv, NEW q \in Producers,
         NEW a \in {"nothing", "created", "duplicate", "conflict", "refused"},
         AnswerIngest(q, a), UNCHANGED <<ses, now, closed, samples>>
  PROVE  TelemetryInv'
<1>1. TelemetryTypes'
  BY AnswerFacts DEF TelemetryInv, TelemetryTypes
<1>2. ASSUME NEW p \in Producers PROVE KnowsFor(p)'
  BY AnswerFacts, OthersKnow DEF TelemetryInv, KnowsFor
<1> QED BY <1>1, <1>2, SamplesStay DEF TelemetryInv, IngestionsKnow, KnowsFor

\* A request is received while its session exists.
LEMMA ReceiveKeeps ==
  ASSUME LocksProtect, TelemetryInv, NEW q \in Producers, NEW r \in Reservations, NEW b \in Batches,
         Receive(q, r, b), UNCHANGED <<ses, now, closed>>
  PROVE  TelemetryInv'
<1>1. b \in SUBSET Sample
  BY TelemetryAssumption DEF TelemetryAssumption
<1>2. now \in Nat
  BY DEF LocksProtect, TypeOK
<1>3. TelemetryTypes'
  BY <1>1, <1>2 DEF Receive, TelemetryInv, TelemetryTypes
<1>4. ASSUME NEW p \in Producers PROVE KnowsFor(p)'
  <2>1. CASE p = q
    BY <1>2, <2>1 DEF Receive, KnowsFor, TelemetryInv, TelemetryTypes
  <2>2. CASE p # q
    BY <2>2, OthersKnow DEF Receive, TelemetryInv, TelemetryTypes
  <2> QED BY <2>1, <2>2
<1> QED BY <1>3, <1>4, SamplesStay DEF Receive, TelemetryInv, IngestionsKnow, KnowsFor

\* A batch that fits its session as it was read belongs to it.
LEMMA ValidateKeeps ==
  ASSUME LocksProtect, TelemetryInv, NEW q \in Producers, Validate(q), UNCHANGED <<ses, now, closed>>
  PROVE  TelemetryInv'
<1>1. CASE \E a \in {"conflict", "refused"} : AnswerIngest(q, a)
  BY <1>1, AnswerKeeps DEF Validate
<1>2. CASE /\ OneValuePerKey(batch[q])
           /\ \A s \in batch[q] : InTime(ses[about[q]], received[q], s)
           /\ GoOn(q, "lock") /\ UNCHANGED <<keyLock, found>>
  <2>1. about[q] \in Reservations /\ ses[about[q]] # None /\ received[q] <= now
    BY DEF Validate, TelemetryInv, IngestionsKnow
  <2>2. ses[about[q]] \in Session
    BY <2>1 DEF LocksProtect, TypeOK
  <2>3. TelemetryTypes'
    BY <1>2, GoOnFacts DEF Validate, TelemetryInv, TelemetryTypes
  <2>4. \A s \in batch[q] : Belongs(about[q], s.recorded, received[q])
    BY <1>2, <2>1, <2>2 DEF InTime, Belongs, Session
  <2>5. ASSUME NEW p \in Producers PROVE KnowsFor(p)'
    <3>1. CASE p = q
      BY <1>2, <2>1, <2>4, <3>1, GoOnFacts DEF KnowsFor, TelemetryInv, Belongs, OneValuePerKey
    <3>2. CASE p # q
      BY <1>2, <3>2, OthersKnow, GoOnFacts DEF Validate, TelemetryInv
    <3> QED BY <3>1, <3>2
  <2> QED BY <2>3, <2>5, SamplesStay DEF Validate, TelemetryInv, IngestionsKnow, KnowsFor
<1> QED BY <1>1, <1>2 DEF Validate

\* The last key that is locked completes the batch.
LEMMA LockKeyKeeps ==
  ASSUME TelemetryInv, NEW q \in Producers, LockKey(q), UNCHANGED <<ses, now, closed>>
  PROVE  TelemetryInv'
<1>1. PICK k \in Keys :
        /\ NextKey(q, k) /\ keyLock[At(q, k)] = None
        /\ keyLock' = [keyLock EXCEPT ![At(q, k)] = q]
        /\ GoOn(q, IF Unlocked(q) = {k} THEN "look" ELSE "lock")
  BY DEF LockKey
<1>2. stage[q] = "lock" /\ about[q] \in Reservations
  BY DEF LockKey, TelemetryInv, IngestionsKnow
<1>3. /\ stage' \in [Producers -> {"idle", "validate", "lock", "look", "store"}]
      /\ stage'[q] = IF Unlocked(q) = {k} THEN "look" ELSE "lock"
      /\ \A p \in Producers \ {q} : stage'[p] = stage[p]
      /\ UNCHANGED <<samples, found, about, batch, received>> /\ said' = "nothing"
  BY <1>1, GoOnFacts DEF LockKey, TelemetryInv
<1>4. keyLock' \in [Reservations \X Keys -> Producers \cup {None}]
  BY <1>1 DEF TelemetryInv, TelemetryTypes
<1>5. TelemetryTypes'
  BY <1>3, <1>4 DEF TelemetryInv, TelemetryTypes
<1>6. q # None /\ At(q, k) \in Reservations \X Keys
  BY <1>2, TelemetryAssumption DEF TelemetryAssumption, At
<1>7. ASSUME NEW p \in Producers PROVE KnowsFor(p)'
  <2>1. CASE p = q
    <3>1. KnowsFor(q)
      BY DEF TelemetryInv, IngestionsKnow, KnowsFor
    <3>2. KeysOf(q) \in SUBSET Keys
      BY KeysTyped DEF TelemetryInv
    <3>3. Unlocked(q) = {k} => Unlocked(q)' = {}
      <4>1. \A j \in Keys : At(q, j)' = At(q, j) /\ At(q, j) \in Reservations \X Keys
                            /\ (At(q, j) = At(q, k) => j = k)
        BY <1>2, <1>3 DEF At
      <4>2. KeysOf(q)' = KeysOf(q)
        BY <1>3 DEF KeysOf
      <4>3. keyLock'[At(q, k)] = q
        BY <1>1, <1>6 DEF TelemetryInv, TelemetryTypes
      <4>4. \A j \in Keys : j # k => keyLock'[At(q, j)] = keyLock[At(q, j)]
        BY <1>1, <4>1 DEF TelemetryInv, TelemetryTypes
      <4> QED BY <3>2, <4>1, <4>2, <4>3, <4>4 DEF Unlocked
    <3> QED BY <1>2, <1>3, <2>1, <3>1, <3>3 DEF KnowsFor, OneValuePerKey, Belongs
  <2>2. CASE p # q
    <3>1. \A x \in Reservations \X Keys : keyLock[x] = p => keyLock'[x] = p
      BY <1>1, <1>6, <2>2, TelemetryAssumption DEF TelemetryInv, TelemetryTypes, TelemetryAssumption
    <3> QED BY <1>3, <2>2, <3>1, OthersKnow
  <2> QED BY <2>1, <2>2
<1> QED BY <1>3, <1>5, <1>7, SamplesStay DEF TelemetryInv, IngestionsKnow, KnowsFor

\* What is found under the locks is what the table holds.
LEMMA LookUpKeeps ==
  ASSUME TelemetryInv, NEW q \in Producers, LookUp(q), UNCHANGED <<ses, now, closed>>
  PROVE  TelemetryInv'
<1> DEFINE Known(s) == samples[At(q, s.key)] # None
<1>1. CASE AnswerIngest(q, "conflict")
  BY <1>1, AnswerKeeps DEF LookUp
<1>2. CASE /\ \A s \in batch[q] : Known(s) => SamePayload(samples[At(q, s.key)], s)
           /\ found' = [found EXCEPT ![q] = {s.key : s \in {t \in batch[q] : Known(t)}}]
           /\ GoOn(q, "store") /\ UNCHANGED keyLock
  <2>1. /\ stage' \in [Producers -> {"idle", "validate", "lock", "look", "store"}]
        /\ stage'[q] = "store" /\ \A p \in Producers \ {q} : stage'[p] = stage[p]
        /\ UNCHANGED <<samples, keyLock, about, batch, received>> /\ said' = "nothing"
    BY <1>2, GoOnFacts DEF LookUp, TelemetryInv
  <2>2. {s.key : s \in {t \in batch[q] : Known(t)}} \in SUBSET Keys
    BY KeysTyped DEF TelemetryInv
  <2>3. TelemetryTypes'
    BY <1>2, <2>1, <2>2 DEF TelemetryInv, TelemetryTypes
  <2>4. ASSUME NEW p \in Producers PROVE KnowsFor(p)'
    <3>1. CASE p = q
      <4>1. KnowsFor(q) /\ stage[q] = "look"
        BY DEF LookUp, TelemetryInv, IngestionsKnow, KnowsFor
      <4>2. found'[q] = {s.key : s \in {t \in batch[q] : Known(t)}}
        BY <1>2 DEF TelemetryInv, TelemetryTypes
      <4>3. \A s \in batch[q] : s.key \in found'[q] <=> Known(s)
        BY <4>1, <4>2 DEF KnowsFor, OneValuePerKey
      <4>4. \A s \in batch[q] : At(q, s.key)' = At(q, s.key)
        BY <2>1 DEF At
      <4>5. \A s \in batch[q] :
              IF s.key \in found'[q]
              THEN samples'[At(q, s.key)'] # None /\ SamePayload(samples[At(q, s.key)], s)
              ELSE samples'[At(q, s.key)'] = None
        BY <1>2, <2>1, <4>3, <4>4
      <4>6. Unlocked(q)' = Unlocked(q)
        BY <2>1 DEF Unlocked, KeysOf, At
      <4>7. /\ OneValuePerKey(batch[q])'
            /\ \A s \in batch[q] : Belongs(about[q], s.recorded, received[q])'
        BY <2>1, <4>1 DEF KnowsFor, OneValuePerKey, Belongs
      <4> QED BY <2>1, <3>1, <4>1, <4>4, <4>5, <4>6, <4>7 DEF KnowsFor, SamePayload
    <3>2. CASE p # q
      BY <1>2, <2>1, <3>2, OthersKnow DEF TelemetryInv, TelemetryTypes
    <3> QED BY <3>1, <3>2
  <2> QED BY <2>1, <2>3, <2>4, SamplesStay DEF TelemetryInv, IngestionsKnow, KnowsFor
<1> QED BY <1>1, <1>2 DEF LookUp

\* The rows a batch inserts belong to its session, and no other ingestion has
\* locked their keys.
LEMMA StoreKeeps ==
  ASSUME TelemetryInv, NEW q \in Producers, Store(q), UNCHANGED <<ses, now, closed>>
  PROVE  TelemetryInv'
<1> DEFINE new == {s \in batch[q] : s.key \notin found[q]}
<1>1. /\ AnswerIngest(q, IF new = {} THEN "duplicate" ELSE "created")
      /\ samples' \in [Reservations \X Keys -> Stored \cup {None}]
      /\ \A s \in new : samples'[At(q, s.key)] = Inserted(s, received[q])
      /\ \A x \in Reservations \X Keys :
           samples'[x] = samples[x] \/ \E s \in new : x = At(q, s.key)
  BY StoreFacts
<1>2. \E a \in {"created", "duplicate"} : AnswerIngest(q, a)
  BY <1>1
<1>3. stage[q] = "store" /\ KnowsFor(q) /\ about[q] \in Reservations
  BY DEF Store, TelemetryInv, IngestionsKnow, KnowsFor
<1>4. \A s \in new : s.key \in Keys /\ s.recorded \in Nat /\ s.energy \in Nat
  BY KeysTyped DEF TelemetryInv
<1>5. \A s \in new : keyLock[At(q, s.key)] = q
  BY <1>3 DEF KnowsFor, Unlocked, KeysOf
<1>6. TelemetryTypes'
  BY <1>1, <1>2, AnswerFacts DEF TelemetryInv, TelemetryTypes
<1> HIDE DEF new
<1>7. ASSUME NEW p \in Producers PROVE KnowsFor(p)'
  <2>1. CASE p = q
    BY <1>2, <2>1, AnswerFacts DEF TelemetryInv, KnowsFor
  <2>2. CASE p # q
    <3>1. \A x \in Reservations \X Keys : keyLock[x] = p =>
            keyLock'[x] = p /\ samples'[x] = samples[x]
      BY <1>1, <1>2, <1>5, <2>2, AnswerFacts DEF TelemetryInv
    <3> QED BY <1>2, <2>2, <3>1, AnswerFacts, OthersKnow DEF TelemetryInv
  <2> QED BY <2>1, <2>2
<1>8. SamplesBelong'
  <2>1. SUFFICES ASSUME NEW r \in Reservations, NEW k \in Keys, samples'[<<r, k>>] # None
                 PROVE  Belongs(r, samples'[<<r, k>>].recorded, samples'[<<r, k>>].received)
    BY DEF SamplesBelong, Belongs
  <2>2. CASE samples'[<<r, k>>] = samples[<<r, k>>]
    BY <2>1, <2>2 DEF TelemetryInv, SamplesBelong
  <2>3. CASE \E s \in new : <<r, k>> = At(q, s.key)
    <3>1. PICK s \in new : <<r, k>> = At(q, s.key)
      BY <2>3
    <3>2. /\ r = about[q] /\ samples'[<<r, k>>] = Inserted(s, received[q])
          /\ s \in batch[q]
      BY <1>1, <3>1 DEF At, new
    <3>3. Belongs(about[q], s.recorded, received[q])
      BY <1>3, <3>2 DEF KnowsFor
    <3> QED BY <3>2, <3>3 DEF Inserted
  <2> QED BY <1>1, <2>2, <2>3
<1> QED BY <1>6, <1>7, <1>8 DEF TelemetryInv, IngestionsKnow, KnowsFor

\* One step of one ingestion, by its stage.
LEMMA IngestionsKeepTelemetry ==
  ASSUME LocksProtect, TelemetryInv, IngestNext, UNCHANGED <<vars, closed>>
  PROVE  TelemetryInv'
<1>1. UNCHANGED <<ses, now, closed>>
  BY DEF vars
<1>2. PICK q \in Producers :
        \/ \E r \in Reservations, b \in Batches : Receive(q, r, b)
        \/ Ingest(q) \/ Lose(q)
  BY DEF IngestNext
<1>3. CASE \E r \in Reservations, b \in Batches : Receive(q, r, b)
  BY <1>1, <1>3, ReceiveKeeps
<1>4. CASE Validate(q)
  BY <1>1, <1>4, ValidateKeeps
<1>5. CASE LockKey(q)
  BY <1>1, <1>5, LockKeyKeeps
<1>6. CASE LookUp(q)
  BY <1>1, <1>6, LookUpKeeps
<1>7. CASE Store(q)
  BY <1>1, <1>7, StoreKeeps
<1>8. CASE Lose(q)
  BY <1>1, <1>8, AnswerKeeps DEF Lose
<1> QED BY <1>2, <1>3, <1>4, <1>5, <1>6, <1>7, <1>8 DEF Ingest

-----------------------------------------------------------------------------
(* The theorems.                                                           *)

\* Every stored sample belongs to its session, however ingestions and the requests
\* that start and end the session interleave.
THEOREM TelemetryAlways == TelemetrySpec => []TelemetryInv
<1>1. Init /\ TelemetryInit => TelemetryInv
  <2> SUFFICES ASSUME Init, TelemetryInit PROVE TelemetryInv
    OBVIOUS
  <2>1. TelemetryTypes
    BY DEF TelemetryInit, TelemetryTypes
  <2>2. IngestionsKnow
    BY DEF Init, TelemetryInit, IngestionsKnow
  <2>3. SamplesBelong
    BY DEF TelemetryInit, SamplesBelong
  <2> QED BY <2>1, <2>2, <2>3 DEF TelemetryInv
<1>2. LocksProtect /\ TelemetryInv /\ [TelemetryStep]_allVars => TelemetryInv'
  <2> SUFFICES ASSUME LocksProtect, TelemetryInv, [TelemetryStep]_allVars PROVE TelemetryInv'
    OBVIOUS
  <2>1. CASE Next /\ NoteCompletions /\ UNCHANGED telemetry
    BY <2>1, RequestsKeepTelemetry
  <2>2. CASE IngestNext /\ UNCHANGED <<vars, closed>>
    BY <2>2, IngestionsKeepTelemetry
  <2>3. CASE UNCHANGED allVars
    <3>1. /\ UNCHANGED <<ses, now, closed>>
          /\ UNCHANGED <<samples, keyLock, stage, about, batch, received, found, said>>
      BY <2>3 DEF allVars, vars, telemetry, ingestion
    <3>2. TelemetryTypes'
      BY <3>1 DEF TelemetryInv, TelemetryTypes
    <3>3. ASSUME NEW p \in Producers PROVE KnowsFor(p)'
      BY <3>1, OthersKnow
    <3> QED BY <3>1, <3>2, <3>3, SamplesStay DEF TelemetryInv, IngestionsKnow, KnowsFor
  <2> QED BY <2>1, <2>2, <2>3 DEF TelemetryStep
<1> QED BY <1>1, <1>2, RequestsAsBefore, PTL DEF TelemetrySpec

\* An answer is true: a batch is in the table as a whole or has left no trace, and a
\* conflict is only reported where two payloads differ.
AnswerIsTrue(q) ==
  LET There(s) == samples'[At(q, s.key)] # None /\ SamePayload(samples'[At(q, s.key)], s)
  IN  /\ said' \in {"created", "duplicate"} => \A s \in batch[q] : There(s)
      /\ said' # "created" => samples' = samples
      /\ said' = "conflict" =>
           \/ ~OneValuePerKey(batch[q])
           \/ \E s \in batch[q] : samples[At(q, s.key)] # None /\ ~There(s)

\* Only a step of its own answers an ingestion.
LEMMA OnlyAnswers ==
  ASSUME TelemetryInv, IngestNext, NEW q \in Producers, stage[q] # "idle", stage'[q] = "idle"
  PROVE  Validate(q) \/ LookUp(q) \/ Store(q) \/ Lose(q)
<1>1. PICK p \in Producers :
        \/ \E r \in Reservations, b \in Batches : Receive(p, r, b)
        \/ Ingest(p) \/ Lose(p)
  BY DEF IngestNext
<1>2. ~\E r \in Reservations, b \in Batches : Receive(p, r, b)
  BY DEF Receive, TelemetryInv, TelemetryTypes
<1>3. ~LockKey(p)
  BY DEF LockKey, GoOn, TelemetryInv, TelemetryTypes
<1>4. p = q
  BY <1>1, <1>2, <1>3
     DEF Ingest, Validate, LookUp, Store, Lose, AnswerIngest, GoOn, TelemetryInv, TelemetryTypes
<1> QED BY <1>1, <1>2, <1>3, <1>4 DEF Ingest

\* The retries that race each other are among these: their keys are locked from the
\* look-up to the insert, so the insert is never refused by the unique index.
LEMMA AnswersTrue ==
  ASSUME TelemetryInv, IngestNext, NEW q \in Producers, stage[q] # "idle", stage'[q] = "idle"
  PROVE  AnswerIsTrue(q)
<1>1. CASE Validate(q)
  BY <1>1 DEF Validate, AnswerIngest, GoOn, AnswerIsTrue, OneValuePerKey, TelemetryInv, TelemetryTypes
<1>2. CASE LookUp(q)
  BY <1>2 DEF LookUp, AnswerIngest, GoOn, AnswerIsTrue, TelemetryInv, TelemetryTypes
<1>3. CASE Store(q)
  <2> DEFINE new == {s \in batch[q] : s.key \notin found[q]}
  <2>1. /\ AnswerIngest(q, IF new = {} THEN "duplicate" ELSE "created")
        /\ samples' \in [Reservations \X Keys -> Stored \cup {None}]
        /\ \A s \in new : samples'[At(q, s.key)] = Inserted(s, received[q])
        /\ \A x \in Reservations \X Keys :
             samples'[x] = samples[x] \/ \E s \in new : x = At(q, s.key)
    BY <1>3, StoreFacts
  <2>2. KnowsFor(q) /\ stage[q] = "store" /\ about[q] \in Reservations
    BY <1>3 DEF Store, TelemetryInv, IngestionsKnow, KnowsFor
  <2>3. \A s \in batch[q] : s.key \in Keys /\ s.recorded \in Nat /\ s.energy \in Nat
    BY KeysTyped DEF TelemetryInv
  <2>4. samples \in [Reservations \X Keys -> Stored \cup {None}]
    BY DEF TelemetryInv, TelemetryTypes
  <2>5. ASSUME NEW s \in batch[q]
        PROVE  samples'[At(q, s.key)] # None /\ SamePayload(samples'[At(q, s.key)], s)
    <3>1. CASE s \in new
      <4>1. Inserted(s, received[q]) \in Stored
        BY <2>3 DEF Inserted, Stored, TelemetryInv, TelemetryTypes
      <4> QED BY <2>1, <3>1, <4>1, NoSampleAssumption DEF Inserted, SamePayload
    <3>2. CASE s \notin new
      <4>1. At(q, s.key) \in Reservations \X Keys
        BY <2>2, <2>3 DEF At
      <4>2. ~\E t \in new : At(q, s.key) = At(q, t.key)
        BY <3>2 DEF At
      <4> QED BY <2>1, <2>2, <3>2, <4>1, <4>2 DEF KnowsFor
    <3> QED BY <3>1, <3>2
  <2>6. new = {} => samples' = samples
    BY <2>1, <2>4
  <2>7. said' = IF new = {} THEN "duplicate" ELSE "created"
    BY <2>1 DEF AnswerIngest
  <2> HIDE DEF new
  <2> QED BY <2>5, <2>6, <2>7 DEF AnswerIsTrue
<1>4. CASE Lose(q)
  BY <1>4 DEF Lose, AnswerIngest, AnswerIsTrue
<1> QED BY <1>1, <1>2, <1>3, <1>4, OnlyAnswers

\* A stored row never changes.
LEMMA WriteOnce ==
  ASSUME TelemetryInv, IngestNext, NEW x \in Reservations \X Keys, samples[x] # None
  PROVE  samples'[x] = samples[x]
<1>1. CASE samples' = samples
  BY <1>1
<1>2. CASE \E q \in Producers : Store(q)
  <2>1. PICK q \in Producers : Store(q)
    BY <1>2
  <2>2. \A s \in {t \in batch[q] : t.key \notin found[q]} : samples[At(q, s.key)] = None
    BY <2>1, StoreFacts
  <2>3. samples'[x] = samples[x] \/ \E s \in {t \in batch[q] : t.key \notin found[q]} : x = At(q, s.key)
    BY <2>1, StoreFacts
  <2> QED BY <2>2, <2>3
<1> QED BY <1>1, <1>2 DEF IngestNext, Ingest, Receive, Validate, LockKey, LookUp, Lose

\* Telemetry is write-once and its answers are true, for any number of producers
\* that send each sample any number of times.
THEOREM AnswersMatchTableAlways == TelemetrySpec => AnswersMatchTable
<1>1. ASSUME TelemetryInv, [TelemetryStep]_allVars
      PROVE  /\ \A x \in Reservations \X Keys : samples[x] # None => samples'[x] = samples[x]
             /\ \A q \in Producers : stage[q] # "idle" /\ stage'[q] = "idle" => AnswerIsTrue(q)
  <2>1. CASE IngestNext
    BY <1>1, <2>1, WriteOnce, AnswersTrue
  <2>2. CASE UNCHANGED telemetry
    BY <2>2 DEF telemetry, ingestion
  <2> QED BY <1>1, <2>1, <2>2 DEF TelemetryStep, allVars
<1>2. TelemetryInv /\ [TelemetryStep]_allVars =>
        [/\ \A x \in Reservations \X Keys : samples[x] # None => samples'[x] = samples[x]
         /\ \A q \in Producers : stage[q] # "idle" /\ stage'[q] = "idle" =>
              LET There(s) == samples'[At(q, s.key)] # None
                              /\ SamePayload(samples'[At(q, s.key)], s)
              IN  /\ said' \in {"created", "duplicate"} => \A s \in batch[q] : There(s)
                  /\ said' # "created" => samples' = samples
                  /\ said' = "conflict" =>
                       \/ ~OneValuePerKey(batch[q])
                       \/ \E s \in batch[q] : samples[At(q, s.key)] # None /\ ~There(s)]_allVars
  BY <1>1 DEF AnswerIsTrue
<1> QED BY <1>2, TelemetryAlways, PTL DEF TelemetrySpec, AnswersMatchTable

-----------------------------------------------------------------------------
(* Waiting for keys.                                                       *)

\* The keys an ingestion has locked come before those it still has to lock, and
\* one that is not between its first key and its insert has locked none.
KeysInOrder ==
  \A q \in Producers, x \in Reservations \X Keys : keyLock[x] = q =>
    /\ stage[q] \in {"lock", "look", "store"}
    /\ stage[q] = "lock" => \A j \in Unlocked(q) : KeyRank[x[2]] < KeyRank[j]

\* Whoever keeps what it carries and is given no key keeps its keys in order.
LEMMA OrderStays ==
  ASSUME TelemetryInv, KeysInOrder, NEW q \in Producers, NEW x \in Reservations \X Keys,
         about'[q] = about[q], batch'[q] = batch[q],
         \A y \in Reservations \X Keys : keyLock'[y] = q <=> keyLock[y] = q,
         keyLock[x] = q,
         stage'[q] = stage[q] \/ stage'[q] \in {"look", "store"}
  PROVE  /\ stage'[q] \in {"lock", "look", "store"}
         /\ stage'[q] = "lock" => \A j \in Unlocked(q)' : KeyRank[x[2]] < KeyRank[j]
<1>1. stage[q] \in {"lock", "look", "store"}
  BY DEF KeysInOrder
<1>2. ASSUME NEW j \in Unlocked(q)', stage'[q] = "lock" PROVE j \in Unlocked(q)
  <2>1. about[q] \in Reservations /\ KeysOf(q) \in SUBSET Keys
    BY <1>1, KeysTyped DEF TelemetryInv, IngestionsKnow
  <2>2. j \in KeysOf(q) /\ At(q, j)' = At(q, j)
    BY <1>2 DEF Unlocked, KeysOf, At
  <2>3. At(q, j) \in Reservations \X Keys
    BY <2>1, <2>2 DEF At
  <2> QED BY <1>2, <2>2, <2>3 DEF Unlocked
<1> QED BY <1>1, <1>2 DEF KeysInOrder

\* Every step keeps the keys in order.
LEMMA KeyOrderPreserved ==
  ASSUME TelemetryInv, KeysInOrder, [TelemetryStep]_allVars
  PROVE  KeysInOrder'
<1> USE DEF TelemetryInv
<1>1. SUFFICES ASSUME NEW p \in Producers, NEW x \in Reservations \X Keys, keyLock'[x] = p
               PROVE  /\ stage'[p] \in {"lock", "look", "store"}
                      /\ stage'[p] = "lock" => \A j \in Unlocked(p)' : KeyRank[x[2]] < KeyRank[j]
  BY DEF KeysInOrder
<1>2. CASE UNCHANGED telemetry
  BY <1>1, <1>2, OrderStays DEF telemetry, ingestion
<1>3. ASSUME NEW q \in Producers, NEW a, AnswerIngest(q, a)
      PROVE  /\ stage'[p] \in {"lock", "look", "store"}
             /\ stage'[p] = "lock" => \A j \in Unlocked(p)' : KeyRank[x[2]] < KeyRank[j]
  <2>1. p # None
    BY TelemetryAssumption DEF TelemetryAssumption
  <2>2. p # q
    BY <1>1, <1>3, <2>1 DEF AnswerIngest
  <2>3. /\ stage'[p] = stage[p] /\ about'[p] = about[p] /\ batch'[p] = batch[p]
        /\ \A y \in Reservations \X Keys : keyLock'[y] = p <=> keyLock[y] = p
    BY <1>3, <2>1, <2>2 DEF AnswerIngest, TelemetryTypes
  <2> QED BY <1>1, <2>3, OrderStays
<1>4. ASSUME NEW q \in Producers, NEW s \in {"lock", "look", "store"}, GoOn(q, s),
             UNCHANGED keyLock, s = "lock" => stage[q] = "validate"
      PROVE  /\ stage'[p] \in {"lock", "look", "store"}
             /\ stage'[p] = "lock" => \A j \in Unlocked(p)' : KeyRank[x[2]] < KeyRank[j]
  <2>1. stage[p] \in {"lock", "look", "store"}
    BY <1>1, <1>4 DEF KeysInOrder
  <2>2. stage'[p] = stage[p] \/ stage'[p] \in {"look", "store"}
    BY <1>4, <2>1 DEF GoOn, TelemetryTypes
  <2>3. about'[p] = about[p] /\ batch'[p] = batch[p] /\ keyLock' = keyLock
    BY <1>4 DEF GoOn
  <2> QED BY <1>1, <2>2, <2>3, OrderStays
<1>5. ASSUME NEW q \in Producers, NEW r \in Reservations, NEW b \in Batches, Receive(q, r, b)
      PROVE  /\ stage'[p] \in {"lock", "look", "store"}
             /\ stage'[p] = "lock" => \A j \in Unlocked(p)' : KeyRank[x[2]] < KeyRank[j]
  <2>1. p # q
    BY <1>1, <1>5 DEF Receive, KeysInOrder
  <2>2. stage'[p] = stage[p] /\ about'[p] = about[p] /\ batch'[p] = batch[p] /\ keyLock' = keyLock
    BY <1>5, <2>1 DEF Receive, TelemetryTypes
  <2> QED BY <1>1, <2>2, OrderStays
<1>6. ASSUME NEW q \in Producers, LockKey(q)
      PROVE  /\ stage'[p] \in {"lock", "look", "store"}
             /\ stage'[p] = "lock" => \A j \in Unlocked(p)' : KeyRank[x[2]] < KeyRank[j]
  <2>1. PICK k \in Keys :
          /\ NextKey(q, k) /\ keyLock[At(q, k)] = None
          /\ keyLock' = [keyLock EXCEPT ![At(q, k)] = q]
          /\ GoOn(q, IF Unlocked(q) = {k} THEN "look" ELSE "lock")
    BY <1>6 DEF LockKey
  <2>2. stage[q] = "lock" /\ about[q] \in Reservations /\ KeysOf(q) \in SUBSET Keys
    BY <1>6, KeysTyped DEF LockKey, IngestionsKnow
  <2>3. /\ stage'[q] \in {"look", "lock"} /\ UNCHANGED <<about, batch>>
        /\ \A o \in Producers \ {q} : stage'[o] = stage[o]
    BY <2>1 DEF GoOn, TelemetryTypes
  <2>4. At(q, k) \in Reservations \X Keys /\ At(q, k)[2] = k
    BY <2>2 DEF At
  <2>5. \A y \in Reservations \X Keys : keyLock'[y] = IF y = At(q, k) THEN q ELSE keyLock[y]
    BY <2>1, <2>4 DEF TelemetryTypes
  <2>6. q # None
    BY TelemetryAssumption DEF TelemetryAssumption
  <2>7. CASE p # q
    <3>1. \A y \in Reservations \X Keys : keyLock'[y] = p <=> keyLock[y] = p
      BY <2>1, <2>5, <2>7, TelemetryAssumption DEF TelemetryAssumption
    <3> QED BY <1>1, <2>3, <2>7, <3>1, OrderStays
  <2>8. CASE p = q
    <3>1. ASSUME NEW j \in Unlocked(q)' PROVE j \in Unlocked(q) /\ j # k /\ j \in Keys
      <4>1. j \in KeysOf(q) /\ j \in Keys /\ At(q, j)' = At(q, j) /\ keyLock'[At(q, j)] # q
        BY <2>2, <2>3 DEF Unlocked, KeysOf, At
      <4>2. At(q, j) \in Reservations \X Keys
        BY <2>2, <4>1 DEF At
      <4> QED BY <2>5, <4>1, <4>2 DEF Unlocked
    <3>2. ASSUME NEW j \in Unlocked(q)' PROVE KeyRank[x[2]] < KeyRank[j]
      <4>1. CASE x = At(q, k)
        <5>1. KeyRank[k] <= KeyRank[j] /\ k # j /\ j \in Keys
          BY <2>1, <3>1, <3>2 DEF NextKey
        <5> QED BY <2>4, <4>1, <5>1, TelemetryAssumption DEF TelemetryAssumption
      <4>2. CASE x # At(q, k)
        BY <1>1, <2>2, <2>5, <2>8, <3>1, <3>2, <4>2 DEF KeysInOrder
      <4> QED BY <4>1, <4>2
    <3> QED BY <2>3, <2>8, <3>2
  <2> QED BY <2>7, <2>8
<1>7. CASE IngestNext
  <2>1. PICK q \in Producers :
          \/ \E r \in Reservations, b \in Batches : Receive(q, r, b)
          \/ Ingest(q) \/ Lose(q)
    BY <1>7 DEF IngestNext
  <2>2. CASE Validate(q)
    BY <1>3, <1>4, <2>2 DEF Validate
  <2>3. CASE LookUp(q)
    BY <1>3, <1>4, <2>3 DEF LookUp
  <2>4. CASE Store(q) \/ Lose(q)
    BY <1>3, <2>4 DEF Store, Lose
  <2> QED BY <1>5, <1>6, <2>1, <2>2, <2>3, <2>4 DEF Ingest
<1> QED BY <1>2, <1>7 DEF TelemetryStep, allVars

\* Where keys are in order, whoever waits for the last key is waited for by others
\* only.
LEMMA OrderAvoidsDeadlock ==
  ASSUME TelemetryInv, KeysInOrder
  PROVE  IngestsNeverDeadlock
<1>1. SUFFICES ASSUME NEW S \in SUBSET Producers, S # {}, IsFiniteSet(S),
                      \A p \in S : \E q \in S : WaitsForKey(p, q)
               PROVE  FALSE
  BY DEF IngestsNeverDeadlock
<1> DEFINE next(p) == CHOOSE k \in Keys : NextKey(p, k)
           h == [p \in S |-> KeyRank[next(p)]]
<1>2. ASSUME NEW p \in S, NEW k \in Keys, NextKey(p, k) PROVE next(p) = k
  <2>1. next(p) \in Keys /\ NextKey(p, next(p))
    BY <1>2
  <2> HIDE DEF next
  <2>2. KeyRank[k] <= KeyRank[next(p)] /\ KeyRank[next(p)] <= KeyRank[k]
    BY <1>2, <2>1 DEF NextKey
  <2> QED BY <1>2, <2>1, <2>2, TelemetryAssumption DEF TelemetryAssumption
<1>3. ASSUME NEW p \in S
      PROVE  /\ next(p) \in Keys /\ NextKey(p, next(p)) /\ stage[p] = "lock"
             /\ \E q \in S : keyLock[At(p, next(p))] = q
  <2>1. PICK q \in S, k \in Keys : stage[p] = "lock" /\ NextKey(p, k) /\ keyLock[At(p, k)] = q
    BY <1>1 DEF WaitsForKey
  <2>2. next(p) = k
    BY <1>2, <2>1
  <2> HIDE DEF next
  <2> QED BY <2>1, <2>2
<1> HIDE DEF next
<1>4. h \in [S -> Nat]
  BY <1>3, TelemetryAssumption DEF TelemetryAssumption
<1>5. PICK p \in S : \A q \in S : h[q] <= h[p]
  <2> HIDE DEF h
  <2> QED BY <1>1, <1>4, GreatestOfFinite
<1>6. PICK q \in S : keyLock[At(p, next(p))] = q
  BY <1>3
<1>7. At(p, next(p)) \in Reservations \X Keys /\ At(p, next(p))[2] = next(p)
  BY <1>3 DEF At, TelemetryInv, IngestionsKnow
<1>8. next(q) \in Unlocked(q) /\ stage[q] = "lock"
  BY <1>3 DEF NextKey
<1>9. KeyRank[next(p)] < KeyRank[next(q)]
  BY <1>6, <1>7, <1>8 DEF KeysInOrder
<1>10. KeyRank[next(q)] <= KeyRank[next(p)]
  BY <1>5
<1> QED BY <1>3, <1>9, <1>10, TelemetryAssumption DEF TelemetryAssumption

\* Ingestions never wait for each other in a circle, for any number of them, any
\* batches and any order of the keys.
THEOREM IngestsNeverDeadlockAlways == TelemetrySpec => []IngestsNeverDeadlock
<1>1. Init /\ TelemetryInit => KeysInOrder
  BY TelemetryAssumption DEF TelemetryInit, KeysInOrder, TelemetryAssumption
<1>2. TelemetryInv /\ KeysInOrder /\ [TelemetryStep]_allVars => KeysInOrder'
  BY KeyOrderPreserved
<1>3. TelemetryInv /\ KeysInOrder => IngestsNeverDeadlock
  BY OrderAvoidsDeadlock
<1> QED BY <1>1, <1>2, <1>3, TelemetryAlways, PTL DEF TelemetrySpec

-----------------------------------------------------------------------------
(* Reports.                                                                *)

\* A report runs beside the requests and the ingestions and changes neither.
LEMMA ReportIsTelemetry == ReportSpec => TelemetrySpec
<1>1. [ReportStep]_<<allVars, report>> => [TelemetryStep]_allVars
  BY DEF ReportStep
<1>2. ReportInit => Init /\ TelemetryInit
  BY DEF ReportInit
<1> QED BY <1>1, <1>2, PTL DEF ReportSpec, TelemetrySpec

\* What is true of every reservation, its session and its samples.
TablesAgree == LocksProtect /\ SessionAgrees /\ ReservationHasSession /\ TelemetryInv

LEMMA TablesAgreeAlways == ReportSpec => []TablesAgree
BY ReportIsTelemetry, TelemetryIsCharging, LocksProtectAlways, SessionAgreesAlways,
   ReservationHasSessionAlways, TelemetryAlways, PTL DEF TablesAgree

Begun  == {"ACTIVE", "COMPLETED"}
Closed == {"CANCELLED", "LATE_CANCELLED", "NO_SHOW"}

\* What the rows that a report has loaded tell about the tables: a session that was
\* loaded is there; a reservation that had begun has its session, and one that was
\* closed has stayed as it was loaded unless it was overtaken.
LoadedRowsHold ==
  \A r \in Reservations :
    /\ sessions[r] # None => ses[r] # None
    /\ rows[r] # None =>
         /\ rows[r].status \in Begun => ses[r] # None
         /\ rows[r].status \in Closed /\ r \notin overtaken => res[r] = rows[r]

\* After the second query no selected reservation that had begun is without its
\* session.
NoneIsMissing ==
  query \in {"samples", "loaded"} =>
    \A r \in Reservations :
      SelectedReservation(r, window) /\ rows[r].status \in Begun => sessions[r] # None

ReportTypes ==
  /\ rows \in [Reservations -> Row \cup {None}]
  /\ sessions \in [Reservations -> Session \cup {None}]
  /\ window[1] \in Nat /\ window[2] \in Nat /\ asOf \in Int
  /\ \A r \in Reservations : readings[r] \subseteq Stored /\ IsFiniteSet(readings[r])

ReportInv == ReportTypes /\ LoadedRowsHold /\ NoneIsMissing

\* The values of a function over a finite set are finitely many.
LEMMA FiniteImage ==
  ASSUME NEW S, IsFiniteSet(S), NEW f
  PROVE  IsFiniteSet({f[x] : x \in S})
<1> DEFINE T == {f[x] : x \in S}
           g == [x \in S |-> f[x]]
<1>1. g \in [S -> T] /\ \A y \in T : \E x \in S : g[x] = y
  OBVIOUS
<1>2. g \in Surjection(S, T)
  BY <1>1 DEF Surjection
<1> HIDE DEF g, T
<1>3. IsFiniteSet(T)
  BY <1>2, FS_Surjection
<1> QED BY <1>3 DEF T

\* What was loaded stays true while requests commit.
LEMMA RequestsKeepReport ==
  ASSUME TablesAgree, ReportInv, [Next]_vars, UNCHANGED report
  PROVE  ReportInv'
<1>1. UNCHANGED <<query, window, asOf, sessions, rows, readings>>
  BY DEF report
<1>2. ASSUME NEW r \in Reservations
      PROVE  /\ ses[r] # None => ses'[r] # None
             /\ r \notin overtaken' => r \notin overtaken
             /\ res[r] \in Row /\ res[r].status \in Closed /\ r \notin overtaken' => res'[r] = res[r]
  <2>1. ses[r] # None => ses'[r] # None
    BY RowsStay DEF TablesAgree, LocksProtect
  <2>2. r \notin overtaken' => r \notin overtaken
    BY OvertakenGrows
  <2>3. ASSUME res[r] \in Row, res[r].status \in Closed, r \notin overtaken', res'[r] # res[r]
        PROVE  FALSE
    BY <2>3, RowChanges, NoneAssumption DEF TablesAgree, Closed
  <2> QED BY <2>1, <2>2, <2>3
<1>3. ReportTypes'
  BY <1>1 DEF ReportInv, ReportTypes
<1>4. LoadedRowsHold'
  <2>1. SUFFICES ASSUME NEW r \in Reservations
                 PROVE  /\ sessions[r] # None => ses'[r] # None
                        /\ rows[r] # None =>
                             /\ rows[r].status \in Begun => ses'[r] # None
                             /\ rows[r].status \in Closed /\ r \notin overtaken' => res'[r] = rows[r]
    BY <1>1 DEF LoadedRowsHold
  <2>2. rows[r] # None => rows[r] \in Row
    BY DEF ReportInv, ReportTypes
  <2> QED BY <1>2, <2>2 DEF ReportInv, LoadedRowsHold
<1>5. NoneIsMissing'
  BY <1>1 DEF ReportInv, NoneIsMissing, SelectedReservation, Within
<1> QED BY <1>3, <1>4, <1>5 DEF ReportInv

\* Each query loads what the tables hold when it runs.
LEMMA QueriesKeepReport ==
  ASSUME TablesAgree, ReportInv, ReportNext, UNCHANGED allVars
  PROVE  ReportInv'
<1>1. /\ UNCHANGED <<res, ses, overtaken>>
      /\ res \in [Reservations -> Row \cup {None}]
      /\ ses \in [Reservations -> Session \cup {None}]
      /\ now \in Int
  BY DEF allVars, vars, TablesAgree, LocksProtect, TypeOK
<1> USE DEF ReportInv, ReportTypes
<1>2. ASSUME NEW w \in Windows, Ask(w) PROVE ReportInv'
  <2>1. w[1] \in Nat /\ w[2] \in Nat
    BY ReportAssumption DEF ReportAssumption
  <2> QED BY <1>1, <1>2, <2>1 DEF Ask, LoadedRowsHold, NoneIsMissing
<1>3. CASE LoadSessions
  <2>1. ReportTypes' /\ NoneIsMissing'
    BY <1>1, <1>3 DEF LoadSessions, NoneIsMissing
  <2>2. LoadedRowsHold'
    BY <1>1, <1>3 DEF LoadSessions, LoadedRowsHold
  <2> QED BY <2>1, <2>2
<1>4. CASE LoadReservations
  <2>1. ReportTypes' /\ NoneIsMissing'
    BY <1>1, <1>4 DEF LoadReservations, NoneIsMissing
  <2>2. ASSUME NEW r \in Reservations
        PROVE  rows'[r] # None => rows'[r] = res[r]
    BY <1>4 DEF LoadReservations
  <2>3. ASSUME NEW r \in Reservations, res[r] # None, res[r].status \in Begun
        PROVE  ses[r] # None
    BY <2>3 DEF TablesAgree, ReservationHasSession, Begun
  <2>4. LoadedRowsHold'
    BY <1>1, <1>4, <2>2, <2>3 DEF LoadReservations, LoadedRowsHold
  <2> QED BY <2>1, <2>4
<1>5. CASE LoadSessionsAgain
  <2>1. ASSUME NEW r \in Reservations
        PROVE  /\ sessions'[r] \in {sessions[r], ses[r], None}
               /\ ses[r] # None /\ SelectedReservation(r, window) => sessions'[r] # None
    BY <1>5 DEF LoadSessionsAgain, OfTheWindowOrSelected
  <2>2. ReportTypes'
    BY <1>1, <1>5 DEF LoadSessionsAgain
  <2>3. LoadedRowsHold'
    BY <1>1, <1>5, <2>1 DEF LoadSessionsAgain, LoadedRowsHold
  <2>4. rows' = rows /\ window' = window
    BY <1>5 DEF LoadSessionsAgain
  <2>5. NoneIsMissing'
    BY <2>1, <2>4 DEF NoneIsMissing, LoadedRowsHold, SelectedReservation, Within
  <2> QED BY <2>2, <2>3, <2>5
<1>6. CASE LoadSamples
  <2>1. UNCHANGED <<sessions, rows, window, asOf>> /\ query = "samples"
    BY <1>6 DEF LoadSamples
  <2>2. ASSUME NEW r \in Reservations
        PROVE  readings'[r] \subseteq Stored /\ IsFiniteSet(readings'[r])
    <3> DEFINE K == {k \in Keys : samples[r, k] # None /\ Within(samples[r, k].recorded, window)}
               f == [k \in K |-> samples[r, k]]
    <3>1. readings'[r] = IF SelectedSession(r, window) THEN {f[k] : k \in K} ELSE {}
      BY <1>6 DEF LoadSamples
    <3>2. \A k \in K : f[k] \in Stored
      BY DEF TablesAgree, TelemetryInv, TelemetryTypes
    <3>3. IsFiniteSet(K)
      BY ReportAssumption, FS_Subset DEF ReportAssumption
    <3> HIDE DEF f, K
    <3>4. IsFiniteSet({f[k] : k \in K})
      BY <3>3, FiniteImage
    <3> QED BY <3>1, <3>2, <3>4, FS_EmptySet
  <2> QED BY <1>1, <2>1, <2>2 DEF LoadedRowsHold, NoneIsMissing, SelectedReservation, Within
<1>7. CASE Deliver
  <2>1. ReportTypes'
    BY <1>7, FS_EmptySet DEF Deliver
  <2> QED BY <1>7, <2>1 DEF Deliver, LoadedRowsHold, NoneIsMissing
<1> QED BY <1>2, <1>3, <1>4, <1>5, <1>6, <1>7 DEF ReportNext

-----------------------------------------------------------------------------
(* Windows and their buckets.                                              *)

LEMMA MultiplesAreApart ==
  ASSUME NEW L \in Nat \ {0}, NEW m \in Int, NEW n \in Int, m < n
  PROVE  m * L + L <= n * L
<1>1. n * L = (m + 1) * L + (n - (m + 1)) * L
  OBVIOUS
<1>2. (n - (m + 1)) * L >= 0
  OBVIOUS
<1> QED BY <1>1, <1>2

LEMMA DivisionRounds ==
  ASSUME NEW L \in Nat \ {0}, NEW t \in Nat
  PROVE  /\ t \div L \in Nat
         /\ (t \div L) * L <= t /\ t < (t \div L) * L + L
OBVIOUS

LEMMA DivisionIsMonotone ==
  ASSUME NEW L \in Nat \ {0}, NEW s \in Nat, NEW t \in Nat, s <= t
  PROVE  s \div L <= t \div L
<1>1. /\ s \div L \in Nat /\ t \div L \in Nat
      /\ (s \div L) * L <= s /\ t < (t \div L) * L + L
  BY DivisionRounds
<1>2. SUFFICES ASSUME t \div L < s \div L PROVE FALSE
  BY <1>1
<1> QED BY <1>1, <1>2, MultiplesAreApart

LEMMA MaxOfTwo ==
  \A a, b \in Int : Max({a, b}) = IF a <= b THEN b ELSE a
<1>1. TAKE a, b \in Int
<1>2. \E m \in {a, b} : \A n \in {a, b} : m >= n
  OBVIOUS
<1>3. /\ Max({a, b}) \in {a, b} /\ a <= Max({a, b}) /\ b <= Max({a, b})
  BY <1>2 DEF Max
<1> QED BY <1>3

LEMMA MinOfTwo ==
  \A a, b \in Int : Min({a, b}) = IF a <= b THEN a ELSE b
<1>1. TAKE a, b \in Int
<1>2. \E m \in {a, b} : \A n \in {a, b} : m <= n
  OBVIOUS
<1>3. /\ Min({a, b}) \in {a, b} /\ Min({a, b}) <= a /\ Min({a, b}) <= b
  BY <1>2 DEF Min
<1> QED BY <1>3

\* A bucket is what lies in the window of an interval of the granularity.
LEMMA BucketFacts ==
  ASSUME NEW w, w[1] \in Nat, w[2] \in Nat, NEW b \in Buckets(w)
  PROVE  \E n \in Int :
           /\ b[1] \in Int /\ b[2] \in Int /\ b = <<b[1], b[2]>>
           /\ b[1] = Max({w[1], n * BucketLength})
           /\ b[2] = Min({w[2], n * BucketLength + BucketLength})
           /\ \A t \in Int : Within(t, b) <=> /\ Within(t, w) /\ n * BucketLength <= t
                                              /\ t < n * BucketLength + BucketLength
<1>1. BucketLength \in Nat \ {0}
  BY ReportAssumption DEF ReportAssumption
<1>2. PICK n \in (w[1] \div BucketLength)..((w[2] - 1) \div BucketLength) :
        b = <<Max({w[1], n * BucketLength}), Min({w[2], n * BucketLength + BucketLength})>>
  BY DEF Buckets, BucketStarts
<1> DEFINE s == n * BucketLength
<1>3. n \in Int /\ s \in Int
  BY <1>1
<1>4. b[1] = Max({w[1], s}) /\ b[2] = Min({w[2], s + BucketLength})
  BY <1>2
<1> HIDE DEF s
<1>5. /\ b[1] = IF w[1] <= s THEN s ELSE w[1]
      /\ b[2] = IF w[2] <= s + BucketLength THEN w[2] ELSE s + BucketLength
  <2>1. Max({w[1], s}) = IF w[1] <= s THEN s ELSE w[1]
    BY <1>3, MaxOfTwo
  <2>2. /\ s + BucketLength \in Int
        /\ Min({w[2], s + BucketLength}) = IF w[2] <= s + BucketLength THEN w[2] ELSE s + BucketLength
    <3> DEFINE e == s + BucketLength
    <3>1. e \in Int
      BY <1>1, <1>3
    <3> HIDE DEF e
    <3>2. Min({w[2], e}) = IF w[2] <= e THEN w[2] ELSE e
      BY <3>1, MinOfTwo
    <3> QED BY <3>1, <3>2 DEF e
  <2> QED BY <1>4, <2>1, <2>2
<1>6. \A t \in Int : Within(t, b) <=> Within(t, w) /\ s <= t /\ t < s + BucketLength
  BY <1>1, <1>3, <1>5 DEF Within
<1>7. b[1] \in Int /\ b[2] \in Int
  BY <1>1, <1>3, <1>5
<1> QED BY <1>2, <1>3, <1>4, <1>6, <1>7 DEF s

\* Every instant of a window lies in exactly one of its buckets, and no other does.
LEMMA BucketsPartition ==
  ASSUME NEW w, w[1] \in Nat, w[2] \in Nat, NEW t \in Int
  PROVE  /\ \A b \in Buckets(w) : Within(t, b) => Within(t, w)
         /\ Within(t, w) => \E b \in Buckets(w) : Within(t, b)
         /\ \A b, c \in Buckets(w) : Within(t, b) /\ Within(t, c) => b = c
<1>1. BucketLength \in Nat \ {0}
  BY ReportAssumption DEF ReportAssumption
<1>2. ASSUME NEW b \in Buckets(w), Within(t, b) PROVE Within(t, w)
  <2>1. t \in Int
    OBVIOUS
  <2> QED BY <1>2, <2>1, BucketFacts
<1>3. ASSUME Within(t, w) PROVE \E b \in Buckets(w) : Within(t, b)
  <2> DEFINE n == t \div BucketLength  s == n * BucketLength
  <2>1. /\ n \in (w[1] \div BucketLength)..((w[2] - 1) \div BucketLength)
        /\ s <= t /\ t < s + BucketLength /\ s \in Int
    <3>1. w[2] - 1 \in Nat /\ t <= w[2] - 1 /\ w[1] <= t /\ t \in Nat
      BY <1>3 DEF Within
    <3>2. w[1] \div BucketLength <= n /\ n <= (w[2] - 1) \div BucketLength
      BY <1>1, <3>1, DivisionIsMonotone
    <3>3. n \in Nat /\ w[1] \div BucketLength \in Nat /\ (w[2] - 1) \div BucketLength \in Nat
      BY <1>1, <3>1, DivisionRounds
    <3>4. s <= t /\ t < s + BucketLength /\ s \in Int
      BY <1>1, DivisionRounds
    <3> QED BY <3>2, <3>3, <3>4
  <2> DEFINE e == s + BucketLength
             b == <<Max({w[1], s}), Min({w[2], e})>>
  <2>2. b \in Buckets(w)
    BY <2>1 DEF Buckets, BucketStarts
  <2>3. b[1] = Max({w[1], s}) /\ b[2] = Min({w[2], e}) /\ e \in Int /\ t < e
    BY <1>1, <2>1
  <2> HIDE DEF s, e, b
  <2>4. /\ Max({w[1], s}) = IF w[1] <= s THEN s ELSE w[1]
        /\ Min({w[2], e}) = IF w[2] <= e THEN w[2] ELSE e
    BY <2>1, <2>3, MaxOfTwo, MinOfTwo
  <2>5. Within(t, b)
    BY <1>3, <2>1, <2>3, <2>4 DEF Within
  <2> QED BY <2>2, <2>5
<1>4. ASSUME NEW b \in Buckets(w), NEW c \in Buckets(w), Within(t, b), Within(t, c)
      PROVE  b = c
  <2> t \in Int
    OBVIOUS
  <2>1. PICK m \in Int : /\ b = <<b[1], b[2]>>
                         /\ b[1] = Max({w[1], m * BucketLength})
                         /\ b[2] = Min({w[2], m * BucketLength + BucketLength})
                         /\ m * BucketLength <= t /\ t < m * BucketLength + BucketLength
    BY <1>4, BucketFacts
  <2>2. PICK n \in Int : /\ c = <<c[1], c[2]>>
                         /\ c[1] = Max({w[1], n * BucketLength})
                         /\ c[2] = Min({w[2], n * BucketLength + BucketLength})
                         /\ n * BucketLength <= t /\ t < n * BucketLength + BucketLength
    BY <1>4, BucketFacts
  <2>3. m * BucketLength \in Int /\ n * BucketLength \in Int
    BY <1>1
  <2>4. ~(m < n) /\ ~(n < m)
    BY <1>1, <2>1, <2>2, <2>3, MultiplesAreApart
  <2>5. m = n
    BY <2>4
  <2> QED BY <2>1, <2>2, <2>5
<1> QED BY <1>2, <1>3, <1>4

\* A session and a reservation loaded as closed do not go together, unless an unlocked
\* write overtook the row.
LEMMA SessionExcludesClosed ==
  ASSUME TablesAgree, ReportInv, NEW r \in Reservations \ overtaken,
         rows[r] # None, rows[r].status \in Closed, sessions[r] # None
  PROVE  FALSE
<1>1. res[r] = rows[r] /\ ses[r] # None
  BY NoneAssumption DEF ReportInv, LoadedRowsHold
<1>2. ses[r] \in Session
  BY <1>1 DEF TablesAgree, LocksProtect, TypeOK
<1>3. res[r].status \in Begun
  BY <1>1, <1>2 DEF TablesAgree, SessionAgrees, Session, Begun
<1> QED BY <1>1, <1>3 DEF Begun, Closed

\* Of the rows a report has loaded, each is counted once.
LEMMA LoadedOnceCounted ==
  ASSUME TablesAgree, ReportInv
  PROVE  CountedOnce
<1>1. SUFFICES ASSUME query = "loaded", NEW w \in {window} \cup Buckets(window),
                      NEW r \in Reservations \ overtaken, SelectedReservation(r, w)
               PROVE  LET counts == <<Fulfilled(w), WithStatus(w, "CANCELLED"),
                                      WithStatus(w, "LATE_CANCELLED"), WithStatus(w, "NO_SHOW"),
                                      Unresolved(w)>>
                      IN  \E i \in 1..5 : \A j \in 1..5 : r \in counts[j] <=> j = i
  BY DEF CountedOnce
<1>2. rows[r] \in Row /\ rows[r].status \in ReservationStatus
  BY <1>1 DEF SelectedReservation, ReportInv, ReportTypes, Row
<1>3. SelectedReservation(r, window)
  BY <1>1, <1>2, BucketsPartition DEF SelectedReservation, ReportInv, ReportTypes, Row
<1>4. rows[r].status \in Begun => sessions[r] # None
  BY <1>1, <1>3 DEF ReportInv, NoneIsMissing
<1>5. rows[r].status \in Closed => sessions[r] = None
  BY <1>1, <1>2, NoneAssumption, SessionExcludesClosed
<1>6. /\ r \in Fulfilled(w) <=> sessions[r] # None
      /\ r \in WithStatus(w, "CANCELLED") <=> rows[r].status = "CANCELLED"
      /\ r \in WithStatus(w, "LATE_CANCELLED") <=> rows[r].status = "LATE_CANCELLED"
      /\ r \in WithStatus(w, "NO_SHOW") <=> rows[r].status = "NO_SHOW"
      /\ r \in Unresolved(w) <=> rows[r].status = "CONFIRMED" /\ sessions[r] = None
  BY <1>1 DEF Fulfilled, WithStatus, Unresolved
<1> DEFINE counts == <<Fulfilled(w), WithStatus(w, "CANCELLED"), WithStatus(w, "LATE_CANCELLED"),
                       WithStatus(w, "NO_SHOW"), Unresolved(w)>>
<1>7. ASSUME NEW i \in 1..5,
             /\ r \in Fulfilled(w) <=> i = 1
             /\ r \in WithStatus(w, "CANCELLED") <=> i = 2
             /\ r \in WithStatus(w, "LATE_CANCELLED") <=> i = 3
             /\ r \in WithStatus(w, "NO_SHOW") <=> i = 4
             /\ r \in Unresolved(w) <=> i = 5
      PROVE  \A j \in 1..5 : r \in counts[j] <=> j = i
  BY <1>7
<1>8. \/ /\ r \in Fulfilled(w) /\ r \notin WithStatus(w, "CANCELLED")
         /\ r \notin WithStatus(w, "LATE_CANCELLED") /\ r \notin WithStatus(w, "NO_SHOW")
         /\ r \notin Unresolved(w)
      \/ /\ r \notin Fulfilled(w) /\ r \in WithStatus(w, "CANCELLED")
         /\ r \notin WithStatus(w, "LATE_CANCELLED") /\ r \notin WithStatus(w, "NO_SHOW")
         /\ r \notin Unresolved(w)
      \/ /\ r \notin Fulfilled(w) /\ r \notin WithStatus(w, "CANCELLED")
         /\ r \in WithStatus(w, "LATE_CANCELLED") /\ r \notin WithStatus(w, "NO_SHOW")
         /\ r \notin Unresolved(w)
      \/ /\ r \notin Fulfilled(w) /\ r \notin WithStatus(w, "CANCELLED")
         /\ r \notin WithStatus(w, "LATE_CANCELLED") /\ r \in WithStatus(w, "NO_SHOW")
         /\ r \notin Unresolved(w)
      \/ /\ r \notin Fulfilled(w) /\ r \notin WithStatus(w, "CANCELLED")
         /\ r \notin WithStatus(w, "LATE_CANCELLED") /\ r \notin WithStatus(w, "NO_SHOW")
         /\ r \in Unresolved(w)
  BY <1>2, <1>4, <1>5, <1>6 DEF ReservationStatus, Begun, Closed
<1>9. \E i \in 1..5 : \A j \in 1..5 : r \in counts[j] <=> j = i
  <2> HIDE DEF counts
  <2> QED BY <1>7, <1>8
<1> QED BY <1>9

LEMMA ReportInvAlways == ReportSpec => []ReportInv
<1>1. ReportInit => ReportInv
  BY FS_EmptySet DEF ReportInit, ReportInv, ReportTypes, LoadedRowsHold, NoneIsMissing
<1>2. TablesAgree /\ ReportInv /\ [ReportStep]_<<allVars, report>> => ReportInv'
  <2> SUFFICES ASSUME TablesAgree, ReportInv, [ReportStep]_<<allVars, report>> PROVE ReportInv'
    OBVIOUS
  <2>1. CASE ReportNext /\ UNCHANGED allVars
    BY <2>1, QueriesKeepReport
  <2>2. CASE UNCHANGED report /\ [TelemetryStep]_allVars
    <3>1. [Next]_vars
      BY <2>2 DEF TelemetryStep, allVars
    <3> QED BY <2>2, <3>1, RequestsKeepReport
  <2> QED BY <2>1, <2>2 DEF ReportStep
<1> QED BY <1>1, <1>2, TablesAgreeAlways, PTL DEF ReportSpec

\* A report counts every reservation of its period exactly once, however many
\* requests commit between its queries, as long as no unlocked write overtakes the
\* reservation.
THEOREM CountedOnceAlways == ReportSpec => []CountedOnce
<1>1. TablesAgree /\ ReportInv => CountedOnce
  BY LoadedOnceCounted
<1> QED BY <1>1, TablesAgreeAlways, ReportInvAlways, PTL

-----------------------------------------------------------------------------
(* Sums.                                                                   *)

\* The elements of a set are counted part by part, if each is in one part.
LEMMA CountedByParts ==
  ASSUME NEW A, IsFiniteSet(A), NEW I, NEW f,
         \A i \in I : f[i] \subseteq A,
         \A a \in A : \E i \in I : a \in f[i],
         \A i, j \in I : \A a \in f[i] \cap f[j] : i = j
  PROVE  Cardinality(UNION {{i} \X f[i] : i \in I}) = Cardinality(A)
<1> DEFINE P == UNION {{i} \X f[i] : i \in I}
           h == [a \in A |-> CHOOSE p \in P : p[2] = a]
<1>1. \A a \in A : h[a] \in P /\ h[a][2] = a
  <2> SUFFICES ASSUME NEW a \in A PROVE \E p \in P : p[2] = a
    OBVIOUS
  <2>1. PICK i \in I : a \in f[i]
    OBVIOUS
  <2>2. <<i, a>> \in {i} \X f[i]
    BY <2>1
  <2> QED BY <2>2
<1>2. \A p \in P : \E a \in A : p = h[a]
  <2>1. TAKE p \in P
  <2>2. PICK i \in I : p \in {i} \X f[i]
    OBVIOUS
  <2>3. p = <<i, p[2]>> /\ p[2] \in f[i] /\ p[2] \in A
    BY <2>2
  <2>4. h[p[2]] \in P /\ h[p[2]][2] = p[2]
    BY <1>1, <2>3
  <2>5. PICK j \in I : h[p[2]] \in {j} \X f[j]
    BY <2>4
  <2>6. h[p[2]] = <<j, p[2]>> /\ p[2] \in f[j]
    BY <2>4, <2>5
  <2> QED BY <2>3, <2>6
<1>3. ExistsBijection(A, P)
  <2> HIDE DEF P
  <2>1. h \in Bijection(A, P)
    <3>1. h \in [A -> P]
      BY <1>1
    <3>2. \A a, b \in A : h[a] = h[b] => a = b
      BY <1>1
    <3> HIDE DEF h
    <3> QED BY <1>2, <3>1, <3>2 DEF Bijection, Injection, Surjection, IsInjective
  <2> QED BY <2>1 DEF ExistsBijection
<1>4. Cardinality(P) = Cardinality(A)
  <2> HIDE DEF P
  <2> QED BY <1>3, FS_Bijection
<1> QED BY <1>4

\* What is counted by a sum: an element of a part, with whose part it is.
LEMMA InSum ==
  ASSUME NEW I, NEW f
  PROVE  \A x : x \in UNION {{i} \X f[i] : i \in I} <=>
                  x = <<x[1], x[2]>> /\ x[1] \in I /\ x[2] \in f[x[1]]
<1>1. ASSUME NEW x, NEW i \in I, x \in {i} \X f[i]
      PROVE  x = <<x[1], x[2]>> /\ x[1] \in I /\ x[2] \in f[x[1]]
  BY <1>1
<1>2. ASSUME NEW x, x = <<x[1], x[2]>>, x[1] \in I, x[2] \in f[x[1]]
      PROVE  \E i \in I : x \in {i} \X f[i]
  BY <1>2
<1> QED BY <1>1, <1>2

\* A sum over finitely many finite sets is a count of finitely many.
LEMMA FiniteSum ==
  ASSUME NEW I, IsFiniteSet(I), NEW f, \A i \in I : IsFiniteSet(f[i])
  PROVE  IsFiniteSet(UNION {{i} \X f[i] : i \in I})
<1> DEFINE g == [i \in I |-> {i} \X f[i]]
           G == {g[i] : i \in I}
<1>1. \A i \in I : g[i] = {i} \X f[i] /\ IsFiniteSet(g[i])
  BY FS_Singleton, FS_Product
<1>2. G = {{i} \X f[i] : i \in I}
  BY <1>1
<1>3. \A T \in G : IsFiniteSet(T)
  BY <1>1
<1> HIDE DEF g
<1>4. IsFiniteSet(G)
  BY FiniteImage
<1> HIDE DEF G
<1>5. IsFiniteSet(UNION G)
  BY <1>3, <1>4, FS_UNION
<1> QED BY <1>2, <1>5

\* What is counted at instants of a window adds up over its buckets.
LEMMA SumOverBuckets ==
  ASSUME NEW w, w[1] \in Nat, w[2] \in Nat, NEW A, IsFiniteSet(A),
         NEW when, \A a \in A : when[a] \in Int /\ Within(when[a], w),
         NEW f, \A b \in Buckets(w) : f[b] = {a \in A : Within(when[a], b)}
  PROVE  Cardinality(UNION {{b} \X f[b] : b \in Buckets(w)}) = Cardinality(A)
<1> DEFINE I == Buckets(w)
<1>1. \A b \in I : f[b] \subseteq A
  OBVIOUS
<1>2. \A a \in A : \E b \in I : a \in f[b]
  BY BucketsPartition
<1>3. \A b, c \in I : \A a \in f[b] \cap f[c] : b = c
  BY BucketsPartition
<1> HIDE DEF I
<1>4. Cardinality(UNION {{b} \X f[b] : b \in I}) = Cardinality(A)
  BY <1>1, <1>2, <1>3, CountedByParts
<1> QED BY <1>4 DEF I

-----------------------------------------------------------------------------
(* The sums of a report.                                                   *)

\* Until when a session has charged, as far as the report knows.
EndsAt(r) == IF sessions[r].ended = None THEN asOf ELSE sessions[r].ended

ReservedAt(r, t) ==
  /\ r \in Reservations /\ rows[r] # None /\ rows[r].status \in Kept
  /\ t \in Open /\ rows[r].start <= t /\ t < rows[r].end

ChargedAt(r, t) ==
  /\ r \in Reservations /\ sessions[r] # None
  /\ t \in Open /\ sessions[r].started <= t /\ t < EndsAt(r)

Windowlike(w) == w[1] \in Int /\ w[2] \in Int

\* The three sums of minutes count instants that are in the window or bucket, whatever
\* the queries selected by.
LEMMA CountsOfMinutes ==
  ASSUME ReportInv, NEW w, Windowlike(w)
  PROVE  /\ Reserved(w) = {x \in Reservations \X Open : ReservedAt(x[1], x[2]) /\ Within(x[2], w)}
         /\ Charged(w) = {x \in Reservations \X Open : ChargedAt(x[1], x[2]) /\ Within(x[2], w)}
         /\ EffectivelyReserved(w) =
              {x \in Reservations \X Open :
                 /\ ChargedAt(x[1], x[2]) /\ Within(x[2], w)
                 /\ rows[x[1]] # None /\ rows[x[1]].start <= x[2] /\ x[2] < rows[x[1]].end}
<1> Open \subseteq Nat
  BY ReportAssumption DEF ReportAssumption
<1>1. ASSUME NEW r \in Reservations, rows[r] # None
      PROVE  rows[r].start \in Int /\ rows[r].end \in Int
  BY <1>1 DEF ReportInv, ReportTypes, Row
<1>2. ASSUME NEW r \in Reservations, sessions[r] # None
      PROVE  /\ sessions[r].started \in Int /\ EndsAt(r) \in Int
             /\ sessions[r].ended = None \/ sessions[r].ended = EndsAt(r)
             /\ EndOf(r, w) = IF w[2] <= EndsAt(r) THEN w[2] ELSE EndsAt(r)
             /\ EndOf(r, w) \in Int
  <2>1. sessions[r] \in Session /\ asOf \in Int /\ w[2] \in Int
    BY <1>2 DEF ReportInv, ReportTypes, Windowlike
  <2>2. sessions[r].started \in Int /\ EndsAt(r) \in Int
    BY <2>1 DEF Session, EndsAt
  <2>3. EndOf(r, w) = IF w[2] <= EndsAt(r) THEN w[2] ELSE EndsAt(r)
    BY <2>1, <2>2, MinOfTwo DEF EndOf, EndsAt
  <2> QED BY <2>1, <2>2, <2>3 DEF EndsAt
<1>3. ASSUME NEW r \in Reservations, NEW t \in Open, sessions[r] # None, rows[r] # None
      PROVE  /\ Max({sessions[r].started, rows[r].start}) <= t <=>
                  sessions[r].started <= t /\ rows[r].start <= t
             /\ t < Min({EndOf(r, w), rows[r].end}) <=> t < EndOf(r, w) /\ t < rows[r].end
  BY <1>1, <1>2, <1>3, MaxOfTwo, MinOfTwo
<1>4. ASSUME NEW r \in Reservations, NEW t \in Open, Within(t, w), sessions[r] # None
      PROVE  t < EndOf(r, w) <=> t < EndsAt(r)
  BY <1>2, <1>4 DEF Within, Windowlike
<1>5. ASSUME NEW r \in Reservations, NEW t \in Open, Within(t, w), ChargedAt(r, t)
      PROVE  r \in Met(w)
  BY <1>2, <1>5 DEF ChargedAt, Met, SessionMeets, Within, Windowlike
<1>6. ASSUME NEW r \in Reservations, NEW t \in Open, Within(t, w), ReservedAt(r, t)
      PROVE  ReservationMeets(rows[r], w)
  BY <1>1, <1>6 DEF ReservedAt, ReservationMeets, Within, Windowlike
<1>7. ASSUME NEW r \in Reservations, r \in Met(w) PROVE sessions[r] # None
  BY <1>7 DEF Met
<1>8. Reserved(w) = {x \in Reservations \X Open : ReservedAt(x[1], x[2]) /\ Within(x[2], w)}
  <2> DEFINE S == {r \in Reservations : /\ rows[r] # None /\ rows[r].status \in Kept
                                        /\ \/ ReservationMeets(rows[r], w)
                                           \/ Within(rows[r].start, w)}
             f == [r \in S |-> Clipped(rows[r].start, rows[r].end, w)]
  <2>1. Reserved(w) = UNION {{r} \X f[r] : r \in S}
    BY DEF Reserved, Each
  <2>2. ASSUME NEW r \in Reservations, NEW t \in Open
        PROVE  r \in S /\ t \in f[r] <=> ReservedAt(r, t) /\ Within(t, w)
    BY <1>6 DEF Clipped, ReservedAt
  <2>3. S \subseteq Reservations /\ \A r \in S : f[r] \subseteq Open
    BY DEF Clipped
  <2> HIDE DEF S, f
  <2> QED BY <2>1, <2>2, <2>3, InSum
<1>9. Charged(w) = {x \in Reservations \X Open : ChargedAt(x[1], x[2]) /\ Within(x[2], w)}
  <2> DEFINE S == Met(w)
             f == [r \in S |-> Clipped(sessions[r].started, EndOf(r, w), w)]
  <2>1. Charged(w) = UNION {{r} \X f[r] : r \in S}
    BY DEF Charged, Each
  <2>2. ASSUME NEW r \in Reservations, NEW t \in Open
        PROVE  r \in S /\ t \in f[r] <=> ChargedAt(r, t) /\ Within(t, w)
    BY <1>4, <1>5, <1>7 DEF Clipped, ChargedAt
  <2>3. S \subseteq Reservations /\ \A r \in S : f[r] \subseteq Open
    BY DEF Met, Clipped
  <2> HIDE DEF S, f
  <2> QED BY <2>1, <2>2, <2>3, InSum
<1>10. EffectivelyReserved(w) =
         {x \in Reservations \X Open :
            /\ ChargedAt(x[1], x[2]) /\ Within(x[2], w)
            /\ rows[x[1]] # None /\ rows[x[1]].start <= x[2] /\ x[2] < rows[x[1]].end}
  <2> DEFINE S == {r \in Met(w) : rows[r] # None}
             f == [r \in S |-> Clipped(Max({sessions[r].started, rows[r].start}),
                                       Min({EndOf(r, w), rows[r].end}), w)]
  <2>1. EffectivelyReserved(w) = UNION {{r} \X f[r] : r \in S}
    BY DEF EffectivelyReserved, Each
  <2>2. ASSUME NEW r \in Reservations, NEW t \in Open
        PROVE  r \in S /\ t \in f[r] <=> /\ ChargedAt(r, t) /\ Within(t, w)
                                         /\ rows[r] # None /\ rows[r].start <= t /\ t < rows[r].end
    BY <1>3, <1>4, <1>5, <1>7 DEF Clipped, ChargedAt
  <2>3. S \subseteq Reservations /\ \A r \in S : f[r] \subseteq Open
    BY DEF Met, Clipped
  <2> HIDE DEF S, f
  <2> QED BY <2>1, <2>2, <2>3, InSum
<1> QED BY <1>8, <1>9, <1>10

LEMMA OpenAreInstants == \A t \in Open : t \in Nat /\ t \in Int
<1>1. Open \subseteq Nat
  BY ReportAssumption DEF ReportAssumption
<1> QED BY <1>1

\* The instants of a window are finitely many.
LEMMA InstantsAreFinite ==
  ASSUME NEW w, Windowlike(w), NEW A \in SUBSET (Reservations \X Open),
         \A x \in A : Within(x[2], w)
  PROVE  IsFiniteSet(A)
<1>1. Open \subseteq Nat /\ IsFiniteSet(Reservations)
  BY ReportAssumption DEF ReportAssumption
<1>2. A \subseteq Reservations \X (w[1]..w[2])
  <2>1. SUFFICES ASSUME NEW x \in A PROVE x \in Reservations \X (w[1]..w[2])
    OBVIOUS
  <2>2. x \in Reservations \X Open /\ Within(x[2], w)
    OBVIOUS
  <2>3. x[1] \in Reservations /\ x[2] \in Open /\ x = <<x[1], x[2]>>
    BY <2>2
  <2>4. x[2] \in Int
    BY <2>3, OpenAreInstants
  <2> QED BY <2>2, <2>3, <2>4 DEF Within, Windowlike
<1>3. IsFiniteSet(w[1]..w[2])
  BY FS_Interval DEF Windowlike
<1>4. IsFiniteSet(Reservations \X (w[1]..w[2]))
  BY <1>1, <1>3, FS_Product
<1> QED BY <1>2, <1>4, FS_Subset

\* They count finitely many instants, and those of a bucket are those of the window
\* that lie in the bucket.
LEMMA MinutesAddUp ==
  ASSUME ReportInv, NEW w, w[1] \in Nat, w[2] \in Nat
  PROVE  /\ Cardinality(Reserved(w)) = Cardinality(Each(Reserved, Buckets(w)))
         /\ Cardinality(Charged(w)) = Cardinality(Each(Charged, Buckets(w)))
         /\ Cardinality(EffectivelyReserved(w)) = Cardinality(Each(EffectivelyReserved, Buckets(w)))
<1>1. Windowlike(w) /\ \A b \in Buckets(w) : Windowlike(b)
  <2>1. ASSUME NEW b \in Buckets(w) PROVE b[1] \in Int /\ b[2] \in Int
    BY BucketFacts
  <2> QED BY <2>1 DEF Windowlike
<1>2. Open \subseteq Nat
  BY ReportAssumption DEF ReportAssumption
<1> DEFINE when == [x \in Reservations \X Open |-> x[2]]
<1>3. ASSUME NEW t \in Open, NEW b \in Buckets(w)
      PROVE  Within(t, b) => Within(t, w)
  BY <1>2, <1>3, BucketsPartition
<1>4. ASSUME NEW A \in SUBSET (Reservations \X Open), \A x \in A : Within(x[2], w),
             NEW f, \A b \in Buckets(w) : f[b] = {x \in A : Within(x[2], b)}
      PROVE  Cardinality(A) = Cardinality(UNION {{b} \X f[b] : b \in Buckets(w)})
  <2>1. IsFiniteSet(A)
    BY <1>1, <1>4, InstantsAreFinite
  <2>2. \A x \in A : when[x] = x[2] /\ when[x] \in Int
    <3>1. ASSUME NEW x \in A PROVE when[x] = x[2] /\ when[x] \in Int
      <4>1. x \in Reservations \X Open
        BY <1>4
      <4>2. when[x] = x[2] /\ x[2] \in Open
        BY <4>1
      <4> HIDE DEF when
      <4>3. x[2] \in Int
        BY <4>2, OpenAreInstants
      <4> QED BY <4>2, <4>3
    <3> QED BY <3>1
  <2>3. /\ \A x \in A : when[x] \in Int /\ Within(when[x], w)
        /\ \A b \in Buckets(w) : f[b] = {x \in A : Within(when[x], b)}
    BY <1>4, <2>2
  <2> HIDE DEF when
  <2> QED BY <2>1, <2>3, SumOverBuckets
<1>5. Cardinality(Reserved(w)) = Cardinality(Each(Reserved, Buckets(w)))
  <2> DEFINE A == Reserved(w)
             f == [b \in Buckets(w) |-> Reserved(b)]
  <2>1. /\ A \in SUBSET (Reservations \X Open)
        /\ \A x \in A : Within(x[2], w)
        /\ \A b \in Buckets(w) : f[b] = {x \in A : Within(x[2], b)}
    BY <1>1, <1>3, CountsOfMinutes
  <2>2. Each(Reserved, Buckets(w)) = UNION {{b} \X f[b] : b \in Buckets(w)}
    BY DEF Each
  <2> HIDE DEF A, f
  <2>3. Cardinality(A) = Cardinality(UNION {{b} \X f[b] : b \in Buckets(w)})
    BY <1>4, <2>1
  <2> QED BY <2>2, <2>3 DEF A
<1>6. Cardinality(Charged(w)) = Cardinality(Each(Charged, Buckets(w)))
  <2> DEFINE A == Charged(w)
             f == [b \in Buckets(w) |-> Charged(b)]
  <2>1. /\ A \in SUBSET (Reservations \X Open)
        /\ \A x \in A : Within(x[2], w)
        /\ \A b \in Buckets(w) : f[b] = {x \in A : Within(x[2], b)}
    BY <1>1, <1>3, CountsOfMinutes
  <2>2. Each(Charged, Buckets(w)) = UNION {{b} \X f[b] : b \in Buckets(w)}
    BY DEF Each
  <2> HIDE DEF A, f
  <2>3. Cardinality(A) = Cardinality(UNION {{b} \X f[b] : b \in Buckets(w)})
    BY <1>4, <2>1
  <2> QED BY <2>2, <2>3 DEF A
<1>7. Cardinality(EffectivelyReserved(w)) = Cardinality(Each(EffectivelyReserved, Buckets(w)))
  <2> DEFINE A == EffectivelyReserved(w)
             f == [b \in Buckets(w) |-> EffectivelyReserved(b)]
  <2>1. /\ A \in SUBSET (Reservations \X Open)
        /\ \A x \in A : Within(x[2], w)
        /\ \A b \in Buckets(w) : f[b] = {x \in A : Within(x[2], b)}
    BY <1>1, <1>3, CountsOfMinutes
  <2>2. Each(EffectivelyReserved, Buckets(w)) = UNION {{b} \X f[b] : b \in Buckets(w)}
    BY DEF Each
  <2> HIDE DEF A, f
  <2>3. Cardinality(A) = Cardinality(UNION {{b} \X f[b] : b \in Buckets(w)})
    BY <1>4, <2>1
  <2> QED BY <2>2, <2>3 DEF A
<1> QED BY <1>5, <1>6, <1>7

\* A reservation is of the bucket in which it starts.
LEMMA SelectedAddUp ==
  ASSUME ReportInv, NEW w, w[1] \in Nat, w[2] \in Nat
  PROVE  LET selected(v) == {r \in Reservations : SelectedReservation(r, v)}
         IN  Cardinality(selected(w)) = Cardinality(Each(selected, Buckets(w)))
<1> DEFINE A == {r \in Reservations : SelectedReservation(r, w)}
           when == [r \in Reservations |-> rows[r].start]
           f == [b \in Buckets(w) |-> {r \in Reservations : SelectedReservation(r, b)}]
<1>1. ASSUME NEW r \in Reservations, rows[r] # None
      PROVE  when[r] = rows[r].start /\ when[r] \in Int
  BY <1>1 DEF ReportInv, ReportTypes, Row
<1>2. \A a \in A : when[a] \in Int /\ Within(when[a], w)
  BY <1>1 DEF SelectedReservation
<1>3. ASSUME NEW b \in Buckets(w), NEW r \in Reservations
      PROVE  SelectedReservation(r, b) <=> SelectedReservation(r, w) /\ Within(when[r], b)
  BY <1>1, BucketsPartition DEF SelectedReservation
<1>4. \A b \in Buckets(w) : f[b] = {a \in A : Within(when[a], b)}
  BY <1>3
<1>5. IsFiniteSet(A)
  BY ReportAssumption, FS_Subset DEF ReportAssumption
<1> HIDE DEF when
<1>6. UNION {{b} \X {r \in Reservations : SelectedReservation(r, b)} : b \in Buckets(w)}
        = UNION {{b} \X f[b] : b \in Buckets(w)}
  OBVIOUS
<1> HIDE DEF A, f
<1>7. Cardinality(UNION {{b} \X f[b] : b \in Buckets(w)}) = Cardinality(A)
  BY <1>2, <1>4, <1>5, SumOverBuckets
<1> QED BY <1>6, <1>7 DEF A, Each

\* The units of a bucket are units of the window, and a session began in one bucket.
LEMMA UnitsAddUp ==
  ASSUME ReportInv, NEW w, w[1] \in Nat, w[2] \in Nat
  PROVE  Cardinality(Delivered(w)) >= Cardinality(Each(Delivered, Buckets(w)))
<1> DEFINE units(r, v) == UNION {1..x.energy : x \in {y \in readings[r] : Within(y.recorded, v)}}
           began(v) == {r \in Reservations : SelectedSession(r, v)}
           f == [b \in Buckets(w) |-> Delivered(b)]
           A == {x \in Delivered(w) : \E b \in Buckets(w) : x \in f[b]}
<1>1. ASSUME NEW v
      PROVE  \A x : x \in Delivered(v) <=> /\ x = <<x[1], x[2]>> /\ x[1] \in began(v)
                                           /\ x[2] \in units(x[1], v)
  <2> DEFINE g == [r \in began(v) |-> units(r, v)]
  <2>1. Delivered(v) = UNION {{r} \X g[r] : r \in began(v)}
    BY DEF Delivered, Each
  <2>2. \A r \in began(v) : g[r] = units(r, v)
    OBVIOUS
  <2> HIDE DEF g
  <2> QED BY <2>1, <2>2, InSum
<1>2. IsFiniteSet(Delivered(w))
  <2> DEFINE S == began(w)
             g == [r \in S |-> units(r, w)]
  <2>1. ASSUME NEW r \in S PROVE IsFiniteSet(g[r])
    <3> DEFINE X == {y \in readings[r] : Within(y.recorded, w)}
               h == [x \in X |-> 1..x.energy]
    <3>1. X \subseteq Stored /\ IsFiniteSet(X)
      BY FS_Subset DEF ReportInv, ReportTypes
    <3>2. \A x \in X : h[x] = 1..x.energy /\ IsFiniteSet(h[x])
      BY <3>1, FS_Interval DEF Stored
    <3>3. g[r] = UNION {h[x] : x \in X}
      OBVIOUS
    <3> HIDE DEF g, h, X
    <3> DEFINE H == {h[x] : x \in X}
    <3>4. IsFiniteSet(H) /\ \A T \in H : IsFiniteSet(T)
      BY <3>1, <3>2, FiniteImage
    <3> HIDE DEF H
    <3>5. IsFiniteSet(UNION H)
      BY <3>4, FS_UNION
    <3> QED BY <3>3, <3>5 DEF H
  <2>2. IsFiniteSet(S)
    BY ReportAssumption, FS_Subset DEF ReportAssumption
  <2>3. Delivered(w) = UNION {{r} \X g[r] : r \in S}
    BY DEF Delivered, Each
  <2> HIDE DEF S, g
  <2> QED BY <2>1, <2>2, <2>3, FiniteSum
<1>3. ASSUME NEW r \in Reservations, sessions[r] # None
      PROVE  sessions[r].started \in Int
  BY <1>3 DEF ReportInv, ReportTypes, Session
<1>4. ASSUME NEW b \in Buckets(w), NEW x \in Delivered(b)
      PROVE  x \in Delivered(w)
  <2> DEFINE r == x[1]
  <2>1. x = <<x[1], x[2]>> /\ r \in began(b) /\ x[2] \in units(r, b)
    BY <1>1
  <2>2. r \in began(w)
    BY <1>3, <2>1, BucketsPartition DEF SelectedSession
  <2>3. \A y \in readings[r] : y.recorded \in Int
    BY <2>1 DEF ReportInv, ReportTypes, Stored
  <2>4. x[2] \in units(r, w)
    BY <2>1, <2>3, BucketsPartition
  <2> QED BY <1>1, <2>1, <2>2, <2>4
<1>5. ASSUME NEW b \in Buckets(w), NEW c \in Buckets(w), NEW x \in Delivered(b), x \in Delivered(c)
      PROVE  b = c
  <2>1. x[1] \in began(b) /\ x[1] \in began(c)
    BY <1>1, <1>5
  <2> QED BY <1>3, <2>1, BucketsPartition DEF SelectedSession
<1>6. /\ \A b \in Buckets(w) : f[b] \subseteq A
      /\ \A x \in A : \E b \in Buckets(w) : x \in f[b]
      /\ \A b, c \in Buckets(w) : \A x \in f[b] \cap f[c] : b = c
  BY <1>4, <1>5
<1>7. IsFiniteSet(A) /\ Cardinality(A) <= Cardinality(Delivered(w))
  BY <1>2, FS_Subset
<1>8. Each(Delivered, Buckets(w)) = UNION {{b} \X f[b] : b \in Buckets(w)}
  BY DEF Each
<1>9. Cardinality(A) \in Nat /\ Cardinality(Delivered(w)) \in Nat
  BY <1>2, <1>7, FS_CardinalityType
<1> DEFINE I == Buckets(w)
<1> HIDE DEF f, A, I
<1>10. Cardinality(UNION {{b} \X f[b] : b \in I}) = Cardinality(A)
  BY <1>6, <1>7, CountedByParts DEF I
<1> QED BY <1>7, <1>8, <1>9, <1>10 DEF I

\* Charging inside the reserved time is charging, and it is reserved time unless the
\* reservation was cancelled, which a session excludes but for an overtaken row.
LEMMA EffectiveIsPartOfBoth ==
  ASSUME TablesAgree, ReportInv, NEW w, Windowlike(w)
  PROVE  /\ Cardinality(EffectivelyReserved(w)) <= Cardinality(Charged(w))
         /\ overtaken = {} => Cardinality(EffectivelyReserved(w)) <= Cardinality(Reserved(w))
<1>1. /\ Reserved(w) \in SUBSET (Reservations \X Open)
      /\ Charged(w) \in SUBSET (Reservations \X Open)
      /\ \A x \in Reserved(w) \cup Charged(w) : Within(x[2], w)
  BY CountsOfMinutes
<1>2. IsFiniteSet(Reserved(w)) /\ IsFiniteSet(Charged(w))
  BY <1>1, InstantsAreFinite
<1>3. EffectivelyReserved(w) \subseteq Charged(w)
  BY CountsOfMinutes
<1>4. ASSUME overtaken = {} PROVE EffectivelyReserved(w) \subseteq Reserved(w)
  <2>1. ASSUME NEW r \in Reservations, rows[r] # None, sessions[r] # None
        PROVE  rows[r].status \in Kept
    <3>1. rows[r] \in Row /\ rows[r].status \in ReservationStatus /\ ses[r] # None
      BY <2>1 DEF ReportInv, ReportTypes, LoadedRowsHold, Row
    <3>2. ASSUME rows[r].status \in Closed PROVE FALSE
      BY <1>4, <2>1, <3>1, <3>2, SessionExcludesClosed
    <3> QED BY <3>1, <3>2 DEF ReservationStatus, Kept, Closed
  <2>2. \A x \in EffectivelyReserved(w) :
          /\ x \in Reservations \X Open /\ Within(x[2], w) /\ rows[x[1]] # None
          /\ ChargedAt(x[1], x[2]) /\ rows[x[1]].start <= x[2] /\ x[2] < rows[x[1]].end
    BY CountsOfMinutes
  <2>3. \A x \in EffectivelyReserved(w) : ReservedAt(x[1], x[2])
    BY <2>1, <2>2 DEF ChargedAt, ReservedAt
  <2> QED BY <2>2, <2>3, CountsOfMinutes
<1> QED BY <1>2, <1>3, <1>4, FS_Subset

LEMMA LoadedAddsUp ==
  ASSUME TablesAgree, ReportInv
  PROVE  ReportsAddUp
<1>1. window[1] \in Nat /\ window[2] \in Nat
  BY DEF ReportInv, ReportTypes
<1>2. ASSUME NEW w \in {window} \cup Buckets(window) PROVE Windowlike(w)
  <2>1. ASSUME NEW b \in Buckets(window) PROVE b[1] \in Int /\ b[2] \in Int
    BY <1>1, BucketFacts
  <2> QED BY <1>1, <1>2, <2>1 DEF Windowlike
<1>3. \A w \in {window} \cup Buckets(window) :
        /\ Cardinality(EffectivelyReserved(w)) <= Cardinality(Charged(w))
        /\ overtaken = {} => Cardinality(EffectivelyReserved(w)) <= Cardinality(Reserved(w))
  BY <1>2, EffectiveIsPartOfBoth
<1> QED BY <1>1, <1>3, SelectedAddUp, MinutesAddUp, UnitsAddUp DEF ReportsAddUp

\* The figures of the buckets of a report add up to those of the whole, for any window,
\* granularity and opening hours, and charging inside the reserved time is part of both.
THEOREM ReportsAddUpAlways == ReportSpec => []ReportsAddUp
<1>1. TablesAgree /\ ReportInv => ReportsAddUp
  BY LoadedAddsUp
<1> QED BY <1>1, TablesAgreeAlways, ReportInvAlways, PTL
===============================================================================
