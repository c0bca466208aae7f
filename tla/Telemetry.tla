------------------------------ MODULE Telemetry ------------------------------
(***************************************************************************)
(* Telemetry of charging sessions, composed with the request handlers that *)
(* start and complete those sessions.  An ingestion is validated against a *)
(* session row it read without a lock; it then locks the keys of its batch *)
(* and looks them up, so that a retry is answered from the table.          *)
(***************************************************************************)
EXTENDS Charging

CONSTANTS
  Producers,        (* ingestion requests                                  *)
  Keys,             (* a producer's source and sample id                   *)
  KeyRank,          (* the order of the advisory lock keys                 *)
  Batches,          (* the batches of samples they send                    *)
  Skew              (* tolerance for a producer's clock                    *)

Sample == [key : Keys, recorded : Nat, energy : Nat]

ASSUME TelemetryAssumption ==
  /\ Batches \subseteq SUBSET Sample
  /\ Skew \in Nat
  /\ KeyRank \in [Keys -> Nat]
  /\ \A j, k \in Keys : KeyRank[j] = KeyRank[k] => j = k
  /\ None \notin Producers /\ None \notin Nat

Stored == [recorded : Nat, energy : Nat, received : Nat]

ASSUME NoSampleAssumption == None \notin Stored

VARIABLES
  samples,  (* the telemetry_samples table: unique per session and key      *)
  keyLock,  (* holder of each advisory lock on a session's key              *)
  stage,    (* next step of each ingestion                                  *)
  about,    (* session it is about                                          *)
  batch,    (* samples it carries                                           *)
  received, (* when it was received                                         *)
  found,    (* keys it found in the table                                   *)
  said,     (* what the last ingestion step answered                         *)
  closed    (* history: when the completion of each session committed       *)

ingestion == <<stage, about, batch, received, found, said>>
telemetry == <<samples, keyLock, ingestion>>
allVars   == <<vars, telemetry, closed>>

TelemetryTypes ==
  /\ samples \in [Reservations \X Keys -> Stored \cup {None}]
  /\ keyLock \in [Reservations \X Keys -> Producers \cup {None}]
  /\ stage \in [Producers -> {"idle", "validate", "lock", "look", "store"}]
  /\ about \in [Producers -> Reservations \cup {None}]
  /\ batch \in [Producers -> SUBSET Sample]
  /\ received \in [Producers -> Nat]
  /\ found \in [Producers -> SUBSET Keys]
  /\ said \in {"nothing", "created", "duplicate", "conflict", "refused"}
  /\ closed \in [Reservations -> Nat \cup {None}]

TelemetryInit ==
  /\ samples = [x \in Reservations \X Keys |-> None]
  /\ keyLock = [x \in Reservations \X Keys |-> None]
  /\ stage = [q \in Producers |-> "idle"]
  /\ about = [q \in Producers |-> None]
  /\ batch = [q \in Producers |-> {}]
  /\ received = [q \in Producers |-> 0]
  /\ found = [q \in Producers |-> {}]
  /\ said = "nothing"
  /\ closed = [r \in Reservations |-> None]

-----------------------------------------------------------------------------
(* One ingestion.                                                          *)

KeysOf(q) == {s.key : s \in batch[q]}

At(q, k) == <<about[q], k>>

\* A retry is recognised by its payload; the instant of reception is no part of it.
SamePayload(row, s) == row.recorded = s.recorded /\ row.energy = s.energy

\* The slip of bounding every sample by the clock.
BeforeNow(session, t, s) == session.started <= s.recorded /\ s.recorded <= t + Skew

\* A sample lies within its session, as far as the session is known.
InTime(session, t, s) ==
  /\ session.started <= s.recorded
  /\ s.recorded <= IF session.status = "ACTIVE" THEN t + Skew ELSE session.ended

OneValuePerKey(b) == \A s, t \in b : s.key = t.key => s = t

\* The answer, by commit or by rollback, releases the locks.
AnswerIngest(q, a) ==
  /\ stage' = [stage EXCEPT ![q] = "idle"]
  /\ about' = [about EXCEPT ![q] = None]
  /\ batch' = [batch EXCEPT ![q] = {}]
  /\ received' = [received EXCEPT ![q] = 0]
  /\ found' = [found EXCEPT ![q] = {}]
  /\ said' = a
  /\ keyLock' = [x \in Reservations \X Keys |-> IF keyLock[x] = q THEN None ELSE keyLock[x]]

GoOn(q, s) ==
  /\ stage' = [stage EXCEPT ![q] = s] /\ said' = "nothing"
  /\ UNCHANGED <<about, batch, received>>

\* POST /charging-sessions/{id}/telemetry and .../batch: the instant of
\* reception is taken before the session is read.
Receive(q, r, b) ==
  /\ stage[q] = "idle" /\ ses[r] # None
  /\ stage' = [stage EXCEPT ![q] = "validate"]
  /\ about' = [about EXCEPT ![q] = r]
  /\ batch' = [batch EXCEPT ![q] = b]
  /\ received' = [received EXCEPT ![q] = now]
  /\ said' = "nothing"
  /\ UNCHANGED <<samples, keyLock, found>>

\* The session is read without a lock.  Samples are examined one by one, so a
\* batch that is wrong in two ways is turned down for either.
Validate(q) ==
  LET Fits(s) == InTime(ses[about[q]], received[q], s) IN
  /\ stage[q] = "validate"
  /\ \/ /\ \E s, t \in batch[q] : s.key = t.key /\ s # t /\ Fits(s)
        /\ AnswerIngest(q, "conflict")
     \/ (\E s \in batch[q] : ~Fits(s)) /\ AnswerIngest(q, "refused")
     \/ /\ OneValuePerKey(batch[q]) /\ \A s \in batch[q] : Fits(s)
        /\ GoOn(q, "lock") /\ UNCHANGED <<keyLock, found>>
  /\ UNCHANGED samples

Unlocked(q) == {k \in KeysOf(q) : keyLock[At(q, k)] # q}

\* The slip of locking the keys in the order of the batch.
AnyKey(q, k) == k \in Unlocked(q)

NextKey(q, k) ==
  /\ k \in Unlocked(q)
  /\ \A j \in Unlocked(q) : KeyRank[k] <= KeyRank[j]

\* The slip of leaving the retries to the unique index.
LockNothing(q) == stage[q] = "lock" /\ GoOn(q, "look") /\ UNCHANGED <<samples, keyLock, found>>

LockKey(q) ==
  /\ stage[q] = "lock"
  /\ \E k \in Keys :
       /\ NextKey(q, k)
       /\ keyLock[At(q, k)] = None
       /\ keyLock' = [keyLock EXCEPT ![At(q, k)] = q]
       /\ GoOn(q, IF Unlocked(q) = {k} THEN "look" ELSE "lock")
  /\ UNCHANGED <<samples, found>>

\* Every key of the batch is looked up under its lock.
LookUp(q) ==
  LET Known(s) == samples[At(q, s.key)] # None IN
  /\ stage[q] = "look"
  /\ IF \E s \in batch[q] : Known(s) /\ ~SamePayload(samples[At(q, s.key)], s)
     THEN AnswerIngest(q, "conflict")
     ELSE /\ found' = [found EXCEPT ![q] = {s.key : s \in {t \in batch[q] : Known(t)}}]
          /\ GoOn(q, "store") /\ UNCHANGED keyLock
  /\ UNCHANGED samples

Inserted(s, t) == [recorded |-> s.recorded, energy |-> s.energy, received |-> t]

\* The new samples are inserted and committed together; the unique index refuses
\* a key that has been taken meanwhile, and with it the batch.
Store(q) ==
  LET new == {s \in batch[q] : s.key \notin found[q]}
      at_key(x) == CHOOSE s \in new : x = At(q, s.key)
  IN
  /\ stage[q] = "store"
  /\ IF \E s \in new : samples[At(q, s.key)] # None
     THEN AnswerIngest(q, "conflict") /\ UNCHANGED samples
     ELSE /\ samples' = [x \in Reservations \X Keys |->
                           IF \E s \in new : x = At(q, s.key)
                           THEN Inserted(at_key(x), received[q]) ELSE samples[x]]
          /\ AnswerIngest(q, IF new = {} THEN "duplicate" ELSE "created")

\* The connection is lost before the commit.
Lose(q) == stage[q] # "idle" /\ AnswerIngest(q, "nothing") /\ UNCHANGED samples

Ingest(q) == Validate(q) \/ LockKey(q) \/ LookUp(q) \/ Store(q)

IngestNext ==
  \E q \in Producers :
    \/ \E r \in Reservations, b \in Batches : Receive(q, r, b)
    \/ Ingest(q)
    \/ Lose(q)

-----------------------------------------------------------------------------
(* The composition with the request handlers.                              *)

\* When a session's completion commits.
NoteCompletions ==
  closed' = [r \in Reservations |->
               IF ses[r] # None /\ ses[r].status = "ACTIVE" /\ ses'[r].status = "COMPLETED"
               THEN now ELSE closed[r]]

TelemetryStep ==
  \/ Next /\ NoteCompletions /\ UNCHANGED telemetry
  \/ IngestNext /\ UNCHANGED <<vars, closed>>

TelemetrySpec == Init /\ TelemetryInit /\ [][TelemetryStep]_allVars

-----------------------------------------------------------------------------
(* Properties.                                                             *)

\* What may be stored for session r: it began before the sample, and if it has
\* ended, either the sample is no later than the end or it was received before the
\* completion committed, at most the tolerance ahead of the clock.
Belongs(r, recorded, t) ==
  /\ ses[r] # None /\ t <= now
  /\ ses[r].started <= recorded
  /\ ses[r].status = "ACTIVE" => recorded <= t + Skew
  /\ ses[r].status = "COMPLETED" =>
       recorded <= ses[r].ended \/ (t <= closed[r] /\ recorded <= t + Skew)

\* Every stored sample belongs to its session, although the session it was
\* validated against may have been completed, with an earlier end, before the
\* insert; how far past the end it can lie is bounded.
SamplesBelong ==
  \A r \in Reservations, k \in Keys :
    LET row == samples[<<r, k>>] IN row # None => Belongs(r, row.recorded, row.received)

\* What an ingestion knows at each step stays true while others commit.
IngestionsKnow ==
  /\ \A r \in Reservations :
       closed[r] # None <=> (ses[r] # None /\ ses[r].status = "COMPLETED")
  /\ \A q \in Producers : stage[q] # "idle" =>
       /\ about[q] \in Reservations /\ ses[about[q]] # None /\ received[q] <= now
       /\ stage[q] # "validate" =>
            /\ OneValuePerKey(batch[q])
            /\ \A s \in batch[q] : Belongs(about[q], s.recorded, received[q])
       /\ stage[q] \in {"look", "store"} => Unlocked(q) = {}
       /\ stage[q] = "store" => \A s \in batch[q] :
            LET row == samples[At(q, s.key)] IN
              IF s.key \in found[q] THEN row # None /\ SamePayload(row, s) ELSE row = None

\* The inductive invariant.
TelemetryInv == TelemetryTypes /\ IngestionsKnow /\ SamplesBelong

\* Telemetry is write-once and its answers are true: a stored row never changes; a
\* batch that is accepted is in the table as a whole, one that is not leaves no
\* trace; and a conflict is only reported where two payloads differ, never to a
\* retry that raced the request it repeats.
AnswersMatchTable ==
  [][/\ \A x \in Reservations \X Keys : samples[x] # None => samples'[x] = samples[x]
     /\ \A q \in Producers : stage[q] # "idle" /\ stage'[q] = "idle" =>
          LET There(s) == samples'[At(q, s.key)] # None /\ SamePayload(samples'[At(q, s.key)], s)
          IN  /\ said' \in {"created", "duplicate"} => \A s \in batch[q] : There(s)
              /\ said' # "created" => samples' = samples
              /\ said' = "conflict" =>
                   \/ ~OneValuePerKey(batch[q])
                   \/ \E s \in batch[q] : samples[At(q, s.key)] # None /\ ~There(s)]_allVars

WaitsForKey(p, q) ==
  stage[p] = "lock" /\ \E k \in Keys : NextKey(p, k) /\ keyLock[At(p, k)] = q

\* Ingestions of overlapping batches never wait for each other in a circle: each
\* takes its keys in the one order of their hashes.
IngestsNeverDeadlock ==
  \A S \in SUBSET Producers :
    S # {} /\ IsFiniteSet(S) => \E p \in S : \A q \in S : ~WaitsForKey(p, q)
=============================================================================
