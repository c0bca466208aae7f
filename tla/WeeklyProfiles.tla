---------------------------- MODULE WeeklyProfiles ----------------------------
(***************************************************************************)
(* Where a weekly occupancy profile comes from and what becomes of it.     *)
(* The research baseline averages the rows of an exported dataset by local *)
(* weekday and hour and writes the profile down; the backend checks it as  *)
(* it checks any publisher's; drivers ask which connectors are the most    *)
(* available at a time.  How publications of one scope compete, and what a *)
(* lookup sees of them, is the subject of Predictions.                     *)
(*                                                                         *)
(* Times are in ticks, a fraction of an hour.  A rate is a fraction: the   *)
(* sum of n observations, each from 0 to Full.                             *)
(***************************************************************************)
EXTENDS Integers, FiniteSetsExt, SequencesExt

CONSTANTS
  Days, Hours, Ticks,   (* of a week, a day and an hour                    *)
  Instants,
  Zones, Offset,        (* ticks that each zone is ahead at an instant     *)
  Full,
  Sites, Opening,       (* weekly opening rules of a site, {} for none     *)
  Connectors, Site,     (* numbers in the order of their ids               *)
  Studied,              (* connectors that the baseline is used for        *)
  Trainings, Holdouts,  (* files that it may be given                      *)
  Declared,             (* training windows that it may be told            *)
  Others,               (* profiles that other publishers send             *)
  MaxPublished,         (* bound on the publications of a behaviour        *)
  NoProfile

Week == Days * Hours * Ticks

Keys == [day : 0..Days - 1, hour : 0..Hours - 1]

ASSUME ProfilesAssumption ==
  /\ {Days, Hours, Ticks, Full} \subseteq Nat \ {0}
  /\ Instants \subseteq Int /\ Offset \in [Zones -> [Instants -> Int]]
  /\ Connectors \subseteq Nat /\ IsFiniteSet(Connectors) /\ Studied \subseteq Connectors
  /\ Site \in [Connectors -> Sites]
  /\ Opening \in [Sites -> SUBSET [day : 0..Days - 1, opens : 0..Hours * Ticks - 1,
                                  closes : 0..Hours * Ticks - 1]]
  /\ Trainings \cup Holdouts \subseteq
       Seq([from : Instants, to : Int, zone : Zones, rate : Int])
  /\ \A b \in Others :
       b.buckets \in Seq([key : [day : Int, hour : Int], rate : [sum : Int, n : Int]])
  /\ MaxPublished \in Nat

VARIABLES
  zone,      (* time zone of each site                                     *)
  output,    (* what the baseline has written, with the files it was given *)
  profile,   (* profile that is current for each connector                 *)
  published  (* number of profiles accepted                                *)

profVars == <<zone, output, profile, published>>

ProfilesInit ==
  /\ zone \in [Sites -> Zones]
  /\ output = NoProfile
  /\ profile = [c \in Connectors |-> NoProfile]
  /\ published = 0

-----------------------------------------------------------------------------
(* Local time.                                                             *)

LocalTick(z, t) == (t + Offset[z][t]) % Week

Key(z, t) ==
  [day |-> LocalTick(z, t) \div (Hours * Ticks), hour |-> (LocalTick(z, t) \div Ticks) % Hours]

StartOf(k) == (k.day * Hours + k.hour) * Ticks

-----------------------------------------------------------------------------
(* The baseline.                                                           *)

\* Any row that cannot be trusted refuses the file.
Loads(file, z) ==
  /\ file # <<>>
  /\ \A i \in DOMAIN file :
       file[i].from < file[i].to /\ file[i].zone = z /\ file[i].rate \in 0..Full

Group(file, z, k) == {i \in DOMAIN file : Key(z, file[i].from) = k}

\* The sum of the rates is counted: one for each unit that a row has observed.
Mean(file, rows) ==
  [sum |-> Cardinality(UNION {{i} \X (1..file[i].rate) : i \in rows}), n |-> Cardinality(rows)]

Window(file) ==
  [from |-> Min({file[i].from : i \in DOMAIN file}), to |-> Max({file[i].to : i \in DOMAIN file})]

Within(v, w) == w.from <= v.from /\ v.to <= w.to

Apart(v, w) == ~(v.from < w.to /\ w.from < v.to)

\* The buckets of a week, in order.
Buckets(file, z) ==
  LET key(i) == [day |-> (i - 1) \div Hours, hour |-> (i - 1) % Hours] IN
  [i \in 1..Days * Hours |-> [key |-> key(i), rate |-> Mean(file, Group(file, z, key(i)))]]

\* One run of the program.  The profile is written if nothing is missing and the
\* windows fit; otherwise the run ends with an error and writes nothing.
Baseline(z, training, holdout, declared) ==
  /\ output = NoProfile /\ published < MaxPublished
  /\ Loads(training, z)
  /\ \A k \in Keys : Group(training, z, k) # {}
  /\ Within(Window(training), declared)
  /\ holdout # <<>> => Loads(holdout, z) /\ Apart(Window(training), Window(holdout))
  /\ output' = [zone |-> z, training |-> training, holdout |-> holdout]
  /\ UNCHANGED <<zone, profile, published>>

-----------------------------------------------------------------------------
(* The backend.                                                            *)

ValidBucket(b) ==
  /\ b.key \in Keys
  /\ b.rate.n \in Nat \ {0} /\ b.rate.sum \in 0..Full * b.rate.n

\* As many buckets as hours, none twice, none missing.
Canonical(buckets) ==
  /\ Len(buckets) = Days * Hours
  /\ \A i \in DOMAIN buckets : ValidBucket(buckets[i])
  /\ \A i, j \in DOMAIN buckets : i # j => buckets[i].key # buckets[j].key
  /\ {buckets[i].key : i \in DOMAIN buckets} = Keys

\* A publication is interpreted in the time zone its site has when it is accepted.
Post(c, z, buckets) ==
  /\ Canonical(buckets) /\ z = zone[Site[c]] /\ published < MaxPublished
  /\ profile' = [profile EXCEPT ![c] = [zone |-> z, buckets |-> ToSet(buckets)]]
  /\ published' = published + 1
  /\ UNCHANGED zone

\* What the baseline has written is sent once, accepted or not.
Deliver(c) ==
  /\ output # NoProfile /\ c \in Studied
  /\ output' = NoProfile
  /\ LET buckets == Buckets(output.training, output.zone) IN
     \/ Post(c, output.zone, buckets)
     \/ ~(Canonical(buckets) /\ output.zone = zone[Site[c]]) /\ UNCHANGED <<zone, profile, published>>

Receive(c) ==
  /\ \E b \in Others : Post(c, b.zone, b.buckets)
  /\ UNCHANGED output

\* PUT of a facility; accepted publications keep their zone.
MoveZone(s, z) ==
  /\ zone' = [zone EXCEPT ![s] = z]
  /\ UNCHANGED <<output, profile, published>>

-----------------------------------------------------------------------------
(* Recommendations only read: what a driver is told is a function of the   *)
(* profiles, the connectors that are available and the time asked for.     *)

\* Drivers ask about an instant or about a local weekday and hour.
Times == [at : Instants] \cup [key : Keys]

In(z, time) == IF "key" \in DOMAIN time THEN time.key ELSE Key(z, time.at)

\* An instant is resolved in the zone the publication was accepted with.
Resolved(c, time) == In(profile[c].zone, time)

\* The slip of an opening that does not reach into the next week.
ThisWeekOnly == {0}

Shifts == {-Week, 0, Week}

Closing(r) == IF r.closes <= r.opens THEN r.closes + Hours * Ticks ELSE r.closes

\* Whether a rule, in this week or a neighbour, meets the hour.
OpenForHour(s, k) ==
  \/ Opening[s] = {}
  \/ \E r \in Opening[s], shift \in Shifts :
       LET base == r.day * Hours * Ticks + shift IN
       /\ base + r.opens < StartOf(k) + Ticks
       /\ StartOf(k) < base + Closing(r)

Eligible(c, available, time) ==
  /\ c \in available /\ profile[c] # NoProfile
  /\ OpenForHour(Site[c], Resolved(c, time))

RateOf(c, time) ==
  (CHOOSE b \in profile[c].buckets : b.key = Resolved(c, time)).rate

Less(r, s) == r.sum * s.n < s.sum * r.n

\* The least occupied first, and connectors that are equally occupied by id.
Prefers(c, d, time) ==
  \/ Less(RateOf(c, time), RateOf(d, time))
  \/ ~Less(RateOf(d, time), RateOf(c, time)) /\ c < d

Ranking(available, time) ==
  LET eligible == {c \in Connectors : Eligible(c, available, time)}
      places == 1..Cardinality(eligible)
  IN  CHOOSE s \in [places -> eligible] : \A i, j \in places : i < j => Prefers(s[i], s[j], time)

Page(ranking, offset, limit) ==
  SubSeq(ranking, offset + 1, Min({offset + limit, Len(ranking)}))

-----------------------------------------------------------------------------
ProfilesNext ==
  \/ \E z \in Zones, training \in Trainings, holdout \in Holdouts, declared \in Declared :
       Baseline(z, training, holdout, declared)
  \/ \E c \in Connectors : Deliver(c) \/ Receive(c)
  \/ \E s \in Sites, z \in Zones : MoveZone(s, z)

ProfilesSpec == ProfilesInit /\ [][ProfilesNext]_profVars

-----------------------------------------------------------------------------
(* Properties.                                                             *)

\* What the baseline writes meets the backend's contract, its holdout shares no
\* time with what it was trained on, and every holdout row has a prediction.
BaselineKeepsContract ==
  output # NoProfile =>
    LET buckets == Buckets(output.training, output.zone)
        trained == ToSet(output.training)  tested == ToSet(output.holdout) IN
    /\ Canonical(buckets)
    /\ \A r \in trained, h \in tested : r.to <= h.from \/ h.to <= r.from
    /\ \A h \in tested : \E b \in ToSet(buckets) : b.key = Key(output.zone, h.from)

\* A current profile says one thing of every hour.
OneRatePerHour ==
  \A c \in Connectors : profile[c] # NoProfile =>
    \A k \in Keys : Cardinality({b \in profile[c].buckets : b.key = k}) = 1

\* Whether site s is open in tick w of its week, by going round the week.
OpenAt(s, w) ==
  Opening[s] = {} \/ \E r \in Opening[s] :
    (w - r.day * Hours * Ticks - r.opens) % Week < Closing(r) - r.opens

\* Pages of a ranking leave nothing out and repeat nothing: a connector that may
\* be recommended is on a page exactly if the connectors better than it fill the
\* pages before.  And whoever goes there at the time asked for finds the site open
\* in that hour, unless the site has moved to another time zone since the profile
\* was accepted.
PagesAreRight(available, time) ==
  LET ranking == Ranking(available, time)
      open(c) == \E w \in 0..Ticks - 1 : OpenAt(Site[c], StartOf(In(zone[Site[c]], time)) + w)
      choice == {c \in available : IF profile[c].zone = zone[Site[c]] THEN open(c)
                                  ELSE Eligible(c, available, time)}
      better(c) == {d \in choice : d # c /\ Prefers(d, c, time)}
  IN  \A offset \in 0..Cardinality(Connectors) - 1, limit \in 1..Cardinality(Connectors) :
        ToSet(Page(ranking, offset, limit)) =
          {c \in choice : Cardinality(better(c)) \in offset..offset + limit - 1}

\* What is recommended depends on the profiles and zones only, whether or not the
\* baseline has written something that has not been sent.
RecommendationsAreRight ==
  output = NoProfile =>
    \A available \in SUBSET {c \in Connectors : profile[c] # NoProfile}, time \in Times :
      PagesAreRight(available, time)

\* The way of a profile from the exported rows to the driver.
ProfilesInv ==
  /\ zone \in [Sites -> Zones] /\ published \in 0..MaxPublished
  /\ BaselineKeepsContract /\ OneRatePerHour /\ RecommendationsAreRight
=============================================================================
