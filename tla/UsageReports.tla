---------------------------- MODULE UsageReports ----------------------------
(***************************************************************************)
(* Analytics: a report over a window of time is put together from four     *)
(* queries, between which requests keep committing, and then computed from *)
(* what they returned, once for the window and once for each bucket of it. *)
(***************************************************************************)
EXTENDS Telemetry, FiniteSetsExt

CONSTANTS
  Windows,          (* the windows reports ask for, <<from, to>>            *)
  BucketLength,     (* the granularity                                      *)
  Open,             (* the instants at which the facility operates          *)
  MaxOpen           (* bound on the requests that overlap                   *)

ASSUME ReportAssumption ==
  /\ \A w \in Windows : w[1] \in Nat /\ w[2] \in Nat /\ w[1] < w[2]
  /\ BucketLength \in Nat \ {0}
  /\ Open \subseteq Nat
  /\ IsFiniteSet(Reservations) /\ IsFiniteSet(Keys)
  /\ MaxOpen \in Nat

VARIABLES
  query,    (* next query of the report                                     *)
  window,   (* window it is about                                           *)
  asOf,     (* the clock when it began                                      *)
  sessions, (* charging sessions it has loaded                              *)
  rows,     (* reservations it has loaded                                   *)
  readings  (* samples it has loaded, by session                            *)

report == <<query, window, asOf, sessions, rows, readings>>

ReportInit ==
  /\ Init /\ TelemetryInit
  /\ query = "none" /\ window = <<0, 0>> /\ asOf = 0
  /\ sessions = [r \in Reservations |-> None]
  /\ rows = [r \in Reservations |-> None]
  /\ readings = [r \in Reservations |-> {}]

-----------------------------------------------------------------------------
(* Selection.                                                              *)

Within(t, w) == w[1] <= t /\ t < w[2]

SessionMeets(s, w) ==
  \/ s.started < w[2] /\ (s.ended = None \/ s.ended > w[1])

ReservationMeets(row, w) == row.start < w[2] /\ row.end > w[1]

SelectedReservation(r, w) == rows[r] # None /\ Within(rows[r].start, w)

SelectedSession(r, w) == sessions[r] # None /\ Within(sessions[r].started, w)

-----------------------------------------------------------------------------
(* The four queries, in their order.                                       *)

\* The slip of asking for the sessions of the window only.
OfTheWindow(r) == SessionMeets(ses[r], window)

OfTheWindowOrSelected(r) ==
  SessionMeets(ses[r], window) \/ SelectedReservation(r, window)

Ask(w) ==
  /\ query = "none"
  /\ query' = "sessions" /\ window' = w /\ asOf' = now
  /\ UNCHANGED <<sessions, rows, readings>>

LoadSessions ==
  /\ query = "sessions" /\ query' = "reservations"
  /\ sessions' = [r \in Reservations |->
                    IF ses[r] # None /\ SessionMeets(ses[r], window) THEN ses[r] ELSE None]
  /\ UNCHANGED <<window, asOf, rows, readings>>

LoadReservations ==
  /\ query = "reservations" /\ query' = "again"
  /\ rows' = [r \in Reservations |->
                IF /\ res[r] # None
                   /\ \/ Within(res[r].start, window)
                      \/ ReservationMeets(res[r], window)
                      \/ sessions[r] # None
                THEN res[r] ELSE None]
  /\ UNCHANGED <<window, asOf, sessions, readings>>

\* The second query for sessions adds those of the selected reservations.  A row
\* the database session has already loaded keeps the values it was loaded with.
LoadSessionsAgain ==
  /\ query = "again" /\ query' = "samples"
  /\ sessions' = [r \in Reservations |->
                    IF ses[r] # None /\ OfTheWindowOrSelected(r)
                    THEN IF sessions[r] # None THEN sessions[r] ELSE ses[r]
                    ELSE None]
  /\ UNCHANGED <<window, asOf, rows, readings>>

LoadSamples ==
  /\ query = "samples" /\ query' = "loaded"
  /\ readings' = [r \in Reservations |->
                    IF SelectedSession(r, window)
                    THEN {samples[r, k] : k \in {j \in Keys :
                            samples[r, j] # None /\ Within(samples[r, j].recorded, window)}}
                    ELSE {}]
  /\ UNCHANGED <<window, asOf, sessions, rows>>

\* The answer is sent.
Deliver ==
  /\ query = "loaded" /\ query' = "none" /\ window' = <<0, 0>> /\ asOf' = 0
  /\ sessions' = [r \in Reservations |-> None]
  /\ rows' = [r \in Reservations |-> None]
  /\ readings' = [r \in Reservations |-> {}]

ReportNext ==
  \/ \E w \in Windows : Ask(w)
  \/ LoadSessions \/ LoadReservations \/ LoadSessionsAgain \/ LoadSamples
  \/ Deliver

OpenRequests ==
  Cardinality({p \in Procs : pc[p] # "idle"})
    + Cardinality({q \in Producers : stage[q] # "idle"})
    + (IF query = "none" THEN 0 ELSE 1)

ReportStep ==
  /\ \/ TelemetryStep /\ UNCHANGED report
     \/ ReportNext /\ UNCHANGED allVars
  /\ OpenRequests' <= MaxOpen

ReportSpec == ReportInit /\ [][ReportStep]_<<allVars, report>>

-----------------------------------------------------------------------------
(* Metrics of the loaded data over a window or a bucket.                   *)

BucketStarts(w) ==
  {n * BucketLength : n \in (w[1] \div BucketLength)..((w[2] - 1) \div BucketLength)}

\* The slip of buckets that are not clipped to the window.
WholeBuckets(w) == {<<b, b + BucketLength>> : b \in BucketStarts(w)}

\* The buckets of a window begin at multiples of the granularity and are clipped
\* to the window.
Buckets(w) ==
  {<<Max({w[1], b}), Min({w[2], b + BucketLength})>> : b \in BucketStarts(w)}

\* The instants from a to b at which the facility operates within w.
Clipped(a, b, w) == {t \in Open : a <= t /\ t < b /\ Within(t, w)}

\* Sums are counted: what each member of S contributes is a set, and all of them
\* together, each with whose it is, are as many as the sum of their sizes.
Each(part(_), S) == UNION {{x} \X part(x) : x \in S}

Kept == {"CONFIRMED", "ACTIVE", "COMPLETED", "NO_SHOW"}

Fulfilled(w) == {r \in Reservations : SelectedReservation(r, w) /\ sessions[r] # None}

WithStatus(w, s) == {r \in Reservations : SelectedReservation(r, w) /\ rows[r].status = s}

Unresolved(w) == WithStatus(w, "CONFIRMED") \ Fulfilled(w)

\* When a session that is still running counts as ended.
EndOf(r, w) == Min({w[2], IF sessions[r].ended = None THEN asOf ELSE sessions[r].ended})

Reserved(w) ==
  LET minutes(r) == Clipped(rows[r].start, rows[r].end, w) IN
  Each(minutes, {r \in Reservations : /\ rows[r] # None /\ rows[r].status \in Kept
                                      /\ \/ ReservationMeets(rows[r], w)
                                         \/ Within(rows[r].start, w)})

Met(w) == {r \in Reservations : /\ sessions[r] # None
                                /\ SessionMeets(sessions[r], w) \/ SelectedSession(r, w)}

Charged(w) ==
  LET minutes(r) == Clipped(sessions[r].started, EndOf(r, w), w) IN Each(minutes, Met(w))

\* Charging inside the interval that was reserved for it.
EffectivelyReserved(w) ==
  LET minutes(r) == Clipped(Max({sessions[r].started, rows[r].start}),
                            Min({EndOf(r, w), rows[r].end}), w)
  IN  Each(minutes, {r \in Met(w) : rows[r] # None})

\* The units of energy of the sessions that began in w: each session has delivered
\* those up to its highest reading in w.
Delivered(w) ==
  LET units(r) == UNION {1..x.energy : x \in {y \in readings[r] : Within(y.recorded, w)}}
  IN  Each(units, {r \in Reservations : SelectedSession(r, w)})

-----------------------------------------------------------------------------
(* Properties.                                                             *)

\* A report counts every reservation of its period once: as fulfilled, cancelled,
\* cancelled late, not shown or still pending.  Requests that commit between the
\* queries do not let one fall between two counts or into two of them; only a
\* reservation that an unlocked write overtook can be cancelled and fulfilled.
CountedOnce ==
  query = "loaded" =>
    \A w \in {window} \cup Buckets(window) :
      LET counts == <<Fulfilled(w), WithStatus(w, "CANCELLED"),
                      WithStatus(w, "LATE_CANCELLED"), WithStatus(w, "NO_SHOW"),
                      Unresolved(w)>>
      IN  \A r \in Reservations \ overtaken :
            SelectedReservation(r, w) =>
              \E i \in 1..5 : \A j \in 1..5 : r \in counts[j] <=> j = i

\* The buckets of a report add up to its whole: reserved, charging and effectively
\* reserved time and the number of reservations exactly, energy at most, since a
\* bucket leaves out what a session delivers after the bucket it began in.  Charging
\* inside the reserved interval exceeds neither the charging nor the reserved time.
ReportsAddUp ==
  query = "loaded" =>
    LET all == Buckets(window)
      selected(w) == {r \in Reservations : SelectedReservation(r, w)}
  IN
    /\ Cardinality(selected(window)) = Cardinality(Each(selected, all))
    /\ Cardinality(Reserved(window)) = Cardinality(Each(Reserved, all))
    /\ Cardinality(Charged(window)) = Cardinality(Each(Charged, all))
    /\ Cardinality(EffectivelyReserved(window)) = Cardinality(Each(EffectivelyReserved, all))
    /\ Cardinality(Delivered(window)) >= Cardinality(Each(Delivered, all))
    /\ \A w \in {window} \cup all :
         /\ Cardinality(EffectivelyReserved(w)) <= Cardinality(Charged(w))
         /\ overtaken = {} => Cardinality(EffectivelyReserved(w)) <= Cardinality(Reserved(w))
=============================================================================
