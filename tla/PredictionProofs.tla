--------------------------- MODULE PredictionProofs ---------------------------
(***************************************************************************)
(* Proofs about Predictions, for any number of requests, scopes and        *)
(* publications: the current publication is the newest one, a run appears  *)
(* once per scope, what requests are told is true, and every step is one   *)
(* of the ledger.                                                          *)
(*                                                                         *)
(* And about WeeklyProfiles, for weeks, zones, opening hours and files of  *)
(* any kind: profiles keep the contract, and recommendations are right.    *)
(***************************************************************************)
EXTENDS Predictions, WeeklyProfiles, SequenceTheorems, FiniteSetTheorems, WellFoundedInduction, TLAPS

\* The steps between taking a scope's lock and ending the transaction.
Holding == {"lookup", "select", "commit"}

\* What the lock protects: only its holder is past the lock, the run it looked
\* up is still missing, and its decision is still the right one.
Protected(p) ==
  /\ pc[p] \in {"resolve", "lock"} \cup Holding => request[p] \in Publication
  /\ pc[p] \in Holding => lock[request[p].scope] = p
  /\ pc[p] \in {"select", "commit"} => Accepted(request[p]) = {}
  /\ pc[p] = "commit" => (becomes[p] <=> Newer(request[p]))
  /\ pc[p] = "bucket" => named[p] # 0

Serialized == \A p \in Procs : Protected(p)

\* A run of a publisher appears at most once per scope.
RunsAppearOnce ==
  \A i, j \in DOMAIN publications :
    /\ publications[i].scope = publications[j].scope
    /\ publications[i].identity = publications[j].identity
    => i = j

Inv ==
  /\ TypeOK /\ Serialized /\ RunsAppearOnce /\ CurrentIsNewest
  /\ \A p \in Procs : TrueAnswer(p)

-----------------------------------------------------------------------------
(* Sequences and the order of publications.                                *)

LEMMA Appended ==
  ASSUME NEW q \in Seq(Publication), NEW b \in Publication
  PROVE  /\ Append(q, b) \in Seq(Publication)
         /\ Len(Append(q, b)) = Len(q) + 1
         /\ Len(q) \in Nat
         /\ DOMAIN q = 1..Len(q)
         /\ DOMAIN Append(q, b) = 1..(Len(q) + 1)
         /\ \A i \in 1..Len(q) : Append(q, b)[i] = q[i]
         /\ Append(q, b)[Len(q) + 1] = b
  OBVIOUS

\* Any two publications of a scope are comparable, and not both ways.
LEMMA BeatsIsTotal ==
  ASSUME TypeOK, NEW i \in DOMAIN publications, NEW j \in DOMAIN publications,
         publications[i].scope = publications[j].scope
  PROVE  /\ i = j \/ Beats(i, j) \/ Beats(j, i)
         /\ ~(Beats(i, j) /\ Beats(j, i))
<1>1. /\ publications[i] \in Publication /\ publications[j] \in Publication
      /\ i \in Nat /\ j \in Nat
  BY DEF TypeOK
<1>2. /\ Generated[publications[i].content] \in Int
      /\ Generated[publications[j].content] \in Int
  BY <1>1, PredictionAssumption DEF Publication
<1> QED
  BY <1>1, <1>2 DEF Beats

-----------------------------------------------------------------------------
(* What a commit does to the tables, and that nothing else touches them.   *)

LEMMA CommitEffect ==
  ASSUME TypeOK, Serialized, NEW p \in Procs, Commit(p)
  PROVE  /\ request[p] \in Publication
         /\ lock[request[p].scope] = p
         /\ Accepted(request[p]) = {}
         /\ Len(publications) \in Nat
         /\ DOMAIN publications = 1..Len(publications)
         /\ publications' \in Seq(Publication)
         /\ Len(publications') = Len(publications) + 1
         /\ DOMAIN publications' = 1..(Len(publications) + 1)
         /\ \A i \in 1..Len(publications) : publications'[i] = publications[i]
         /\ publications'[Len(publications) + 1] = request[p]
         /\ current' = IF Newer(request[p])
                       THEN [current EXCEPT ![request[p].scope] = Len(publications) + 1]
                       ELSE current
         /\ becomes[p] <=> Newer(request[p])
<1>1. /\ pc[p] = "commit"
      /\ publications' = Append(publications, request[p])
      /\ current' = IF becomes[p] THEN SetCurrent(request[p], Len(publications')) ELSE current
  BY DEF Commit
<1>2. /\ request[p] \in Publication
      /\ lock[request[p].scope] = p
      /\ Accepted(request[p]) = {}
      /\ becomes[p] <=> Newer(request[p])
  BY <1>1 DEF Serialized, Protected, Holding
<1>3. publications \in Seq(Publication)
  BY DEF TypeOK
<1> QED
  BY <1>1, <1>2, <1>3, Appended DEF SetCurrent

\* Every step that is not a commit leaves the tables alone.
LEMMA OnlyCommitsWrite ==
  ASSUME [Next]_vars
  PROVE  \/ UNCHANGED tables
         \/ \E p \in Procs : Commit(p)
BY DEF Next, Step, Publish, Ask, Admit, Refuse, LockScope, Replay, Conflict, Insert, Select,
       Fail, ReadCurrent, ReadBucket, PassOver, List, tables, vars

-----------------------------------------------------------------------------
(* The parts of the inductive invariant.                                   *)

\* The tables keep their types and the reference its foreign key.
LEMMA TablesStep ==
  ASSUME TypeOK, Serialized, [Next]_vars
  PROVE  /\ publications' \in Seq(Publication)
         /\ current' \in [Scopes -> Nat]
         /\ \A s \in Scopes : current'[s] # 0 =>
              current'[s] \in DOMAIN publications' /\ publications'[current'[s]].scope = s
         /\ DOMAIN publications \subseteq DOMAIN publications'
<1>1. CASE UNCHANGED tables
  BY <1>1 DEF tables, TypeOK
<1>2. ASSUME NEW p \in Procs, Commit(p)
      PROVE  /\ publications' \in Seq(Publication)
             /\ current' \in [Scopes -> Nat]
             /\ \A s \in Scopes : current'[s] # 0 =>
                  current'[s] \in DOMAIN publications' /\ publications'[current'[s]].scope = s
             /\ DOMAIN publications \subseteq DOMAIN publications'
  <2>1. /\ current \in [Scopes -> Nat]
        /\ \A s \in Scopes : current[s] # 0 =>
             current[s] \in DOMAIN publications /\ publications[current[s]].scope = s
    BY DEF TypeOK
  <2>2. request[p] \in Publication /\ request[p].scope \in Scopes
    BY <1>2, CommitEffect DEF Publication
  <2>3. DOMAIN publications \subseteq DOMAIN publications'
    BY <1>2, CommitEffect
  <2>4. publications' \in Seq(Publication) /\ current' \in [Scopes -> Nat]
    BY <1>2, <2>1, <2>2, CommitEffect
  <2>5. ASSUME NEW s \in Scopes, current'[s] # 0
        PROVE  current'[s] \in DOMAIN publications' /\ publications'[current'[s]].scope = s
    BY <1>2, <2>1, <2>2, <2>5, CommitEffect
  <2> QED
    BY <2>3, <2>4, <2>5
<1> QED
  BY <1>1, <1>2, OnlyCommitsWrite

\* Steps, locks and inputs of the requests.
RequestTypes ==
  /\ lock \in [Scopes -> Procs \cup {None}]
  /\ pc \in [Procs -> {"idle", "resolve", "lock", "lookup", "select", "commit",
                       "candidates", "bucket"}]
  /\ request \in [Procs -> Publication \cup {None}]
  /\ becomes \in [Procs -> BOOLEAN]
  /\ left \in [Procs -> SUBSET Scopes]

\* What requests have read and been told leads to publications.
FindingTypes ==
  /\ named \in [Procs -> DOMAIN publications \cup {0}]
  /\ items \in [Procs -> SUBSET Found]
  /\ answer \in [Procs -> Answer]

LEMMA RequestsStep ==
  ASSUME RequestTypes, Serialized, [Next]_vars
  PROVE  RequestTypes'
<1> USE DEF RequestTypes, Goto, Finish, reading
<1>1. CASE UNCHANGED vars
  BY <1>1 DEF vars
<1>2. ASSUME NEW p \in Procs, NEW b \in Requests, Publish(p, b)
      PROVE  RequestTypes'
  BY <1>2, PredictionAssumption DEF Publish
<1>3. ASSUME NEW p \in Procs, NEW S \in SUBSET Scopes, Ask(p, S)
      PROVE  RequestTypes'
  BY <1>3 DEF Ask
<1>4. ASSUME NEW p \in Procs, Admit(p) \/ Insert(p) \/ ReadBucket(p) \/ PassOver(p)
      PROVE  RequestTypes'
  BY <1>4 DEF Admit, Insert, ReadBucket, PassOver
<1>5. ASSUME NEW p \in Procs,
             \/ Refuse(p) \/ Replay(p) \/ Conflict(p) \/ Commit(p) \/ Fail(p) \/ List(p)
      PROVE  RequestTypes'
  BY <1>5 DEF Refuse, Replay, Conflict, Commit, Fail, List
<1>6. ASSUME NEW p \in Procs, LockScope(p)
      PROVE  RequestTypes'
  BY <1>6 DEF LockScope
<1>7. ASSUME NEW p \in Procs, Select(p)
      PROVE  RequestTypes'
  BY <1>7 DEF Select, Newer
<1>8. ASSUME NEW p \in Procs, ReadCurrent(p)
      PROVE  RequestTypes'
  BY <1>8 DEF ReadCurrent
<1> QED
  BY <1>1, <1>2, <1>3, <1>4, <1>5, <1>6, <1>7, <1>8 DEF Next, Step

LEMMA FindingsStep ==
  ASSUME TypeOK, Serialized, CurrentIsNewest, [Next]_vars
  PROVE  FindingTypes'
<1>1. /\ FindingTypes
      /\ DOMAIN publications \subseteq DOMAIN publications'
  BY TablesStep DEF TypeOK, FindingTypes
<1>2. /\ named \in [Procs -> DOMAIN publications' \cup {0}]
      /\ items \in [Procs -> SUBSET Found']
      /\ answer \in [Procs -> Answer']
  BY <1>1 DEF FindingTypes, Found, Answer
<1> USE DEF FindingTypes, Finish, reading
<1>3. CASE UNCHANGED vars
  BY <1>2, <1>3 DEF vars
<1>4. ASSUME NEW p \in Procs, NEW b \in Requests, Publish(p, b)
      PROVE  FindingTypes'
  BY <1>2, <1>4 DEF Publish, Reply, Answer
<1>5. ASSUME NEW p \in Procs, NEW S \in SUBSET Scopes, Ask(p, S)
      PROVE  FindingTypes'
  BY <1>2, <1>5 DEF Ask, Reply, Answer
<1>6. ASSUME NEW p \in Procs, Admit(p) \/ Insert(p) \/ LockScope(p) \/ Select(p)
      PROVE  FindingTypes'
  BY <1>2, <1>6 DEF Admit, Insert, LockScope, Select
<1>7. ASSUME NEW p \in Procs, Refuse(p) \/ Conflict(p) \/ Fail(p) \/ List(p)
      PROVE  FindingTypes'
  <2>1. \A o \in {"refused", "conflict", "failed", "listed"} : Reply(o, 0, FALSE) \in Answer'
    BY DEF Reply, Answer
  <2> QED
    BY <1>2, <1>7, <2>1 DEF Refuse, Conflict, Fail, List
<1>8. ASSUME NEW p \in Procs, Replay(p)
      PROVE  FindingTypes'
  BY <1>1, <1>2, <1>8 DEF Replay, Reply, Answer, Identical, Accepted
<1>9. ASSUME NEW p \in Procs, Commit(p)
      PROVE  FindingTypes'
  <2>1. Len(publications') \in DOMAIN publications' /\ becomes[p] \in BOOLEAN
    BY <1>9, CommitEffect DEF TypeOK
  <2> QED
    BY <1>2, <1>9, <2>1 DEF Commit, Reply, Answer
<1>10. ASSUME NEW p \in Procs, ReadCurrent(p)
       PROVE  FindingTypes'
  BY <1>2, <1>10 DEF ReadCurrent, TypeOK, tables
<1>11. ASSUME NEW p \in Procs, ReadBucket(p)
       PROVE  FindingTypes'
  <2>1. /\ named[p] \in DOMAIN publications
        /\ publications' = publications
    BY <1>11 DEF ReadBucket, Serialized, Protected, TypeOK, tables
  <2>2. publications[named[p]].scope \in Scopes
    <3>1. publications[named[p]] \in Publication
      BY <2>1 DEF TypeOK
    <3> QED
      BY <3>1 DEF Publication
  <2>3. CurrentOf(publications[named[p]].scope) \in DOMAIN publications
    BY <2>1, <2>2 DEF CurrentIsNewest, TypeOK, CurrentOf
  <2>4. [named |-> named[p], rated |-> CurrentOf(publications[named[p]].scope)] \in Found'
    BY <2>1, <2>3 DEF Found
  <2> QED
    BY <1>2, <1>11, <2>4 DEF ReadBucket
<1>12. ASSUME NEW p \in Procs, PassOver(p)
       PROVE  FindingTypes'
  BY <1>2, <1>12 DEF PassOver
<1> QED
  BY <1>3, <1>4, <1>5, <1>6, <1>7, <1>8, <1>9, <1>10, <1>11, <1>12 DEF Next, Step

\* What is true of a request stays true while its own state, its lock and the
\* tables do.
LEMMA ProtectionLasts ==
  ASSUME NEW q \in Procs, Protected(q), UNCHANGED tables,
         pc'[q] = pc[q], request'[q] = request[q],
         becomes'[q] = becomes[q], named'[q] = named[q],
         \A s \in Scopes : lock[s] = q => lock'[s] = q
  PROVE  Protected(q)'
BY DEF Protected, Holding, tables, Accepted, Newer, Publication

\* The lock keeps the tables still between the lookup and the commit.
LEMMA SerializedStep ==
  ASSUME TypeOK, Serialized, [Next]_vars
  PROVE  Serialized'
<1> SUFFICES ASSUME NEW q \in Procs
             PROVE  Protected(q)'
  BY DEF Serialized
<1>1. Protected(q)
  BY DEF Serialized
<1>2. /\ pc \in [Procs -> {"idle", "resolve", "lock", "lookup", "select", "commit",
                           "candidates", "bucket"}]
      /\ request \in [Procs -> Publication \cup {None}]
      /\ becomes \in [Procs -> BOOLEAN]
      /\ named \in [Procs -> DOMAIN publications \cup {0}]
      /\ lock \in [Scopes -> Procs \cup {None}]
  BY DEF TypeOK
<1> USE DEF Goto, Finish, reading
<1>3. CASE UNCHANGED vars
  BY <1>1, <1>3, ProtectionLasts DEF vars, tables
<1>4. ASSUME NEW p \in Procs, NEW b \in Requests, Publish(p, b)
      PROVE  Protected(q)'
  <2>1. CASE q = p
    BY <1>2, <1>4, <2>1, PredictionAssumption DEF Publish, Protected, Holding
  <2>2. CASE q # p
    BY <1>1, <1>2, <1>4, <2>2, ProtectionLasts DEF Publish
  <2> QED
    BY <2>1, <2>2
<1>5. ASSUME NEW p \in Procs, NEW S \in SUBSET Scopes, Ask(p, S)
      PROVE  Protected(q)'
  <2>1. CASE q = p
    BY <1>2, <1>5, <2>1 DEF Ask, Protected, Holding
  <2>2. CASE q # p
    BY <1>1, <1>2, <1>5, <2>2, ProtectionLasts DEF Ask
  <2> QED
    BY <2>1, <2>2
<1>6. ASSUME NEW p \in Procs, Admit(p) \/ ReadBucket(p) \/ PassOver(p) \/ ReadCurrent(p)
      PROVE  Protected(q)'
  <2>1. CASE q = p
    BY <1>1, <1>2, <1>6, <2>1 DEF Admit, ReadBucket, PassOver, ReadCurrent, Protected, Holding
  <2>2. CASE q # p
    BY <1>1, <1>2, <1>6, <2>2, ProtectionLasts DEF Admit, ReadBucket, PassOver, ReadCurrent
  <2> QED
    BY <2>1, <2>2
<1>7. ASSUME NEW p \in Procs, Refuse(p) \/ Replay(p) \/ Conflict(p) \/ Fail(p) \/ List(p)
      PROVE  Protected(q)'
  <2>1. UNCHANGED tables /\ \E r : Finish(p, r)
    BY <1>7 DEF Refuse, Replay, Conflict, Fail, List
  <2>2. CASE q = p
    BY <1>2, <2>1, <2>2 DEF Protected, Holding
  <2>3. CASE q # p
    BY <1>1, <1>2, <2>1, <2>3, ProtectionLasts
  <2> QED
    BY <2>2, <2>3
<1>8. ASSUME NEW p \in Procs, LockScope(p)
      PROVE  Protected(q)'
  <2>1. request[p] \in Publication /\ request[p].scope \in Scopes
    BY <1>8 DEF LockScope, Serialized, Protected, Publication
  <2>2. CASE q = p
    BY <1>2, <1>8, <2>1, <2>2 DEF LockScope, Protected, Holding
  <2>3. CASE q # p
    BY <1>1, <1>2, <1>8, <2>1, <2>3, ProtectionLasts, PredictionAssumption DEF LockScope
  <2> QED
    BY <2>2, <2>3
<1>9. ASSUME NEW p \in Procs, Insert(p)
      PROVE  Protected(q)'
  <2>1. CASE q = p
    BY <1>1, <1>2, <1>9, <2>1 DEF Insert, Protected, Holding, tables, Accepted
  <2>2. CASE q # p
    BY <1>1, <1>2, <1>9, <2>2, ProtectionLasts DEF Insert
  <2> QED
    BY <2>1, <2>2
<1>10. ASSUME NEW p \in Procs, Select(p)
       PROVE  Protected(q)'
  <2>1. CASE q = p
    BY <1>1, <1>2, <1>10, <2>1 DEF Select, Protected, Holding, tables, Accepted, Newer
  <2>2. CASE q # p
    BY <1>1, <1>2, <1>10, <2>2, ProtectionLasts DEF Select
  <2> QED
    BY <2>1, <2>2
<1>11. ASSUME NEW p \in Procs, Commit(p)
       PROVE  Protected(q)'
  <2>1. CASE q = p
    BY <1>2, <1>11, <2>1 DEF Commit, Protected, Holding
  <2>2. CASE q # p
    <3>1. /\ pc'[q] = pc[q] /\ request'[q] = request[q]
          /\ becomes'[q] = becomes[q] /\ named'[q] = named[q]
          /\ \A s \in Scopes : lock[s] = q => lock'[s] = q
      BY <1>2, <1>11, <2>2 DEF Commit
    <3>2. ASSUME pc[q] \in Holding
          PROVE  /\ request[q] \in Publication
                 /\ request[q].scope \in Scopes
                 /\ lock[request[q].scope] = q
                 /\ request[q].scope # request[p].scope
      BY <1>1, <1>11, <2>2, <3>2, CommitEffect DEF Protected, Publication
    <3>3. ASSUME pc[q] \in {"select", "commit"}
          PROVE  Accepted(request[q])' = {}
      <4>1. Accepted(request[q]) = {} /\ request[q].scope # request[p].scope
        BY <1>1, <3>2, <3>3 DEF Protected, Holding
      <4> QED
        BY <1>11, <3>1, <4>1, CommitEffect DEF Accepted
    <3>4. ASSUME pc[q] \in Holding
          PROVE  Newer(request[q])' <=> Newer(request[q])
      <4>1. current'[request[q].scope] = current[request[q].scope]
        BY <1>11, <3>2, <3>4, CommitEffect DEF TypeOK
      <4>2. /\ current[request[q].scope] \in Nat
            /\ current[request[q].scope] # 0 =>
                 current[request[q].scope] \in DOMAIN publications
        BY <3>2, <3>4 DEF TypeOK
      <4> QED
        BY <1>11, <3>1, <4>1, <4>2, CommitEffect DEF Newer
    <3> QED
      BY <1>1, <3>1, <3>2, <3>3, <3>4 DEF Protected, Holding
  <2> QED
    BY <2>1, <2>2
<1> QED
  BY <1>3, <1>4, <1>5, <1>6, <1>7, <1>8, <1>9, <1>10, <1>11 DEF Next, Step

LEMMA RunsStep ==
  ASSUME TypeOK, Serialized, RunsAppearOnce, [Next]_vars
  PROVE  RunsAppearOnce'
<1>1. CASE UNCHANGED tables
  BY <1>1 DEF tables, RunsAppearOnce
<1>2. ASSUME NEW p \in Procs, Commit(p)
      PROVE  RunsAppearOnce'
  <2>1. \A i \in 1..Len(publications) :
          ~(/\ publications[i].scope = request[p].scope
            /\ publications[i].identity = request[p].identity)
    BY <1>2, CommitEffect DEF Accepted
  <2> QED
    BY <1>2, <2>1, CommitEffect DEF RunsAppearOnce
<1> QED
  BY <1>1, <1>2, OnlyCommitsWrite

\* A commit does not change how earlier publications compare.
LEMMA OrderIsKept ==
  ASSUME TypeOK, Serialized, [Next]_vars,
         NEW i \in DOMAIN publications, NEW j \in DOMAIN publications
  PROVE  Beats(i, j)' <=> Beats(i, j)
<1>1. CASE UNCHANGED tables
  BY <1>1 DEF tables, Beats
<1>2. ASSUME NEW p \in Procs, Commit(p)
      PROVE  publications'[i] = publications[i] /\ publications'[j] = publications[j]
  BY <1>2, CommitEffect
<1> QED
  BY <1>1, <1>2, OnlyCommitsWrite DEF Beats

LEMMA NewestStep ==
  ASSUME TypeOK, Serialized, CurrentIsNewest, [Next]_vars
  PROVE  CurrentIsNewest'
<1>1. CASE UNCHANGED tables
  BY <1>1 DEF tables, CurrentIsNewest, Beats
<1>2. ASSUME NEW p \in Procs, Commit(p)
      PROVE  CurrentIsNewest'
  <2> DEFINE n == Len(publications) + 1
             s == request[p].scope
  <2>1. /\ s \in Scopes
        /\ request[p] \in Publication
        /\ Generated[request[p].content] \in Int
    BY <1>2, CommitEffect, PredictionAssumption DEF Publication
  <2>2. \A i \in DOMAIN publications :
          /\ publications[i].scope \in Scopes
          /\ Generated[publications[i].content] \in Int
    <3>1. \A i \in DOMAIN publications : publications[i] \in Publication
      BY DEF TypeOK
    <3> QED
      BY <3>1, PredictionAssumption DEF Publication
  <2> SUFFICES ASSUME NEW i \in DOMAIN publications'
               PROVE  /\ current'[publications'[i].scope] # 0
                      /\ ~Beats(i, current[publications[i].scope])'
    BY DEF CurrentIsNewest
  <2> DEFINE c == current[s]
  <2>3. /\ c \in Nat
        /\ c # 0 => c \in DOMAIN publications /\ publications[c].scope = s
    BY <2>1 DEF TypeOK
  <2>4. \A j \in DOMAIN publications : publications[j].scope = s =>
          /\ c # 0
          /\ Generated[publications[j].content] <= Generated[publications[c].content]
    <3> SUFFICES ASSUME NEW j \in DOMAIN publications, publications[j].scope = s
                 PROVE  /\ c # 0
                        /\ Generated[publications[j].content] <= Generated[publications[c].content]
      OBVIOUS
    <3>1. c # 0 /\ ~Beats(j, c)
      BY DEF CurrentIsNewest
    <3> QED
      BY <2>2, <2>3, <3>1 DEF Beats
  <2>5. CASE publications'[i].scope # s
    <3>1. /\ i \in DOMAIN publications
          /\ publications'[i] = publications[i]
          /\ current'[publications[i].scope] = current[publications[i].scope]
      BY <1>2, <2>1, <2>2, <2>5, CommitEffect DEF TypeOK
    <3>2. /\ current[publications[i].scope] # 0
          /\ current[publications[i].scope] \in DOMAIN publications
          /\ ~Beats(i, current[publications[i].scope])
      BY <2>2, <3>1 DEF CurrentIsNewest, TypeOK
    <3>3. publications'[current[publications[i].scope]]
            = publications[current[publications[i].scope]]
      BY <1>2, <3>2, CommitEffect
    <3> QED
      BY <3>1, <3>2, <3>3 DEF Beats
  <2>6. CASE publications'[i].scope = s /\ Newer(request[p])
    <3>1. current'[s] = n /\ publications'[n] = request[p]
      BY <1>2, <2>1, <2>6, CommitEffect DEF TypeOK
    <3>2. CASE i = n
      BY <2>1, <2>6, <3>1, <3>2, <1>2, CommitEffect DEF Beats
    <3>3. CASE i # n
      <4>1. /\ i \in DOMAIN publications
            /\ publications'[i] = publications[i]
        BY <1>2, <3>3, CommitEffect
      <4>2. Generated[publications[i].content] < Generated[request[p].content]
        BY <2>1, <2>2, <2>3, <2>4, <2>6, <4>1 DEF Newer
      <4> QED
        BY <1>2, <2>1, <2>2, <2>6, <3>1, <4>1, <4>2, CommitEffect DEF Beats
    <3> QED
      BY <3>2, <3>3
  <2>7. CASE publications'[i].scope = s /\ ~Newer(request[p])
    <3>1. /\ current'[s] = c /\ c # 0 /\ c \in DOMAIN publications
          /\ publications'[c] = publications[c]
          /\ Generated[request[p].content] <= Generated[publications[c].content]
      <4>1. current'[s] = c /\ c # 0
        BY <1>2, <2>7, CommitEffect DEF Newer
      <4>2. c \in DOMAIN publications /\ publications'[c] = publications[c]
        BY <1>2, <2>3, <4>1, CommitEffect
      <4>3. Generated[request[p].content] <= Generated[publications[c].content]
        BY <2>1, <2>2, <2>7, <4>1, <4>2 DEF Newer
      <4> QED
        BY <4>1, <4>2, <4>3
    <3>2. CASE i = n
      BY <1>2, <2>1, <2>2, <2>7, <3>1, <3>2, CommitEffect DEF Beats
    <3>3. CASE i # n
      <4>1. /\ i \in DOMAIN publications
            /\ publications'[i] = publications[i]
        BY <1>2, <3>3, CommitEffect
      <4>2. ~Beats(i, c)
        BY <2>7, <4>1 DEF CurrentIsNewest
      <4> QED
        BY <2>7, <3>1, <4>1, <4>2 DEF Beats
    <3> QED
      BY <3>2, <3>3
  <2> QED
    BY <2>5, <2>6, <2>7
<1> QED
  BY <1>1, <1>2, OnlyCommitsWrite

-----------------------------------------------------------------------------
(* What requests are told.                                                 *)

\* Publications never change.
LEMMA HistoryIsKept ==
  ASSUME TypeOK, Serialized, [Next]_vars
  PROVE  /\ DOMAIN publications \subseteq DOMAIN publications'
         /\ \A j \in DOMAIN publications : publications'[j] = publications[j]
<1>1. CASE UNCHANGED tables
  BY <1>1 DEF tables
<1>2. ASSUME NEW p \in Procs, Commit(p)
      PROVE  /\ DOMAIN publications \subseteq DOMAIN publications'
             /\ \A j \in DOMAIN publications : publications'[j] = publications[j]
  BY <1>2, CommitEffect
<1> QED
  BY <1>1, <1>2, OnlyCommitsWrite

LEMMA ItemsLast ==
  ASSUME TypeOK, Serialized, [Next]_vars, NEW q \in Procs, TrueAnswer(q)
  PROVE  \A it \in items[q] : it.rated = it.named \/ Beats(it.rated, it.named)'
<1> SUFFICES ASSUME NEW it \in items[q], it.rated # it.named
             PROVE  Beats(it.rated, it.named)'
  OBVIOUS
<1>1. it.rated \in DOMAIN publications /\ it.named \in DOMAIN publications
  BY DEF TypeOK, Found
<1>2. Beats(it.rated, it.named)
  BY DEF TrueAnswer
<1> QED
  BY <1>1, <1>2, HistoryIsKept DEF Beats

\* An answer stays true, as publications never change.
LEMMA TruthLasts ==
  ASSUME TypeOK, Serialized, [Next]_vars, NEW q \in Procs, TrueAnswer(q),
         answer'[q] = answer[q], items'[q] = items[q],
         answer[q].outcome # "none" => request'[q] = request[q]
  PROVE  TrueAnswer(q)'
<1>1. /\ DOMAIN publications \subseteq DOMAIN publications'
      /\ \A j \in DOMAIN publications : publications'[j] = publications[j]
  BY HistoryIsKept
<1>2. /\ answer[q].id \in DOMAIN publications \cup {0}
      /\ items[q] \subseteq Found
      /\ DOMAIN publications = 1..Len(publications) /\ Len(publications) \in Nat
  BY DEF TypeOK, Answer
<1>3. ASSUME answer[q].outcome \in {"accepted", "replayed"}
      PROVE  /\ answer[q].id \in DOMAIN publications
             /\ 1..(answer[q].id - 1) \subseteq DOMAIN publications
             /\ publications[answer[q].id] = request[q]
             /\ publications'[answer[q].id] = publications[answer[q].id]
  BY <1>1, <1>2, <1>3 DEF TrueAnswer
<1>4. answer[q].outcome \in {"accepted", "replayed"} =>
        answer'[q].id # 0 /\ publications'[answer'[q].id] = request'[q]
  BY <1>3 DEF TrueAnswer
<1>5. answer[q].outcome \in {"accepted", "replayed"} =>
        \A j \in DOMAIN publications : Beats(j, answer[q].id)' <=> Beats(j, answer[q].id)
  BY <1>1, <1>3 DEF Beats
<1>6. answer[q].outcome = "conflict" =>
        (\E i \in Accepted(request[q]) : publications[i].content # request[q].content)'
  BY <1>1 DEF TrueAnswer, Accepted
<1>7. \A it \in items[q] : it.rated = it.named \/ Beats(it.rated, it.named)'
  BY ItemsLast
<1> QED
  BY <1>1, <1>3, <1>4, <1>5, <1>6, <1>7 DEF TrueAnswer

\* A publication is told the truth about its own commit.
LEMMA CommitIsTrue ==
  ASSUME TypeOK, Serialized, CurrentIsNewest, [Next]_vars,
         NEW p \in Procs, Commit(p), TrueAnswer(p)
  PROVE  TrueAnswer(p)'
<1> DEFINE n == Len(publications) + 1
           c == current[request[p].scope]
<1>1. /\ answer'[p] = Reply("accepted", n, becomes[p])
      /\ items'[p] = items[p] /\ request'[p] = request[p]
  BY CommitEffect DEF Commit, Finish, TypeOK, reading
<1>2. /\ n \in Nat \ {0} /\ 1..(n - 1) = DOMAIN publications
      /\ publications'[n] = request[p]
      /\ becomes[p] <=> Newer(request[p])
      /\ \A j \in DOMAIN publications : publications'[j] = publications[j]
      /\ request[p].scope \in Scopes
      /\ Generated[request[p].content] \in Int
  <2>1. /\ request[p] \in Publication /\ Len(publications) \in Nat
        /\ DOMAIN publications = 1..Len(publications)
        /\ publications'[n] = request[p] /\ (becomes[p] <=> Newer(request[p]))
        /\ \A j \in DOMAIN publications : publications'[j] = publications[j]
    BY CommitEffect DEF TypeOK
  <2>2. request[p].scope \in Scopes /\ Generated[request[p].content] \in Int
    BY <2>1, PredictionAssumption DEF Publication
  <2>3. n \in Nat \ {0} /\ 1..(n - 1) = DOMAIN publications
    BY <2>1
  <2> QED BY <2>1, <2>2, <2>3
<1>3. \A j \in DOMAIN publications : Generated[publications[j].content] \in Int
  <2>1. \A j \in DOMAIN publications : publications[j] \in Publication
    BY DEF TypeOK
  <2> QED
    BY <2>1, PredictionAssumption DEF Publication
<1>4. /\ c \in Nat
      /\ c # 0 => c \in DOMAIN publications /\ publications[c].scope = request[p].scope
  BY <1>2 DEF TypeOK
<1>5. \A j \in DOMAIN publications : publications[j].scope = request[p].scope =>
        /\ c # 0
        /\ Generated[publications[j].content] <= Generated[publications[c].content]
  <2> SUFFICES ASSUME NEW j \in DOMAIN publications,
                      publications[j].scope = request[p].scope
               PROVE  /\ c # 0
                      /\ Generated[publications[j].content]
                           <= Generated[publications[c].content]
    OBVIOUS
  <2>1. c # 0 /\ ~Beats(j, c)
    BY DEF CurrentIsNewest
  <2> QED
    BY <1>3, <1>4, <2>1 DEF Beats
<1>6. answer'[p].id = n /\ answer'[p].isCurrent = becomes[p] /\ answer'[p].outcome = "accepted"
  BY <1>1 DEF Reply
<1>7. ASSUME NEW j \in DOMAIN publications
      PROVE  Beats(j, answer[p].id)' <=> /\ publications[j].scope = request[p].scope
                                         /\ Generated[publications[j].content]
                                              >= Generated[request[p].content]
  <2>1. j < n /\ publications'[j] = publications[j] /\ j \in Int
    BY <1>2, CommitEffect
  <2> QED
    BY <1>2, <1>3, <1>6, <2>1 DEF Beats
<1>8. becomes[p] <=> \A j \in DOMAIN publications : ~Beats(j, answer[p].id)'
  <2> DEFINE mine == Generated[request[p].content]
             time(j) == Generated[publications[j].content]
             same(j) == publications[j].scope = request[p].scope
  <2>1. becomes[p] <=> c = 0 \/ mine > time(c)
    BY <1>2 DEF Newer
  <2>2. \A j \in DOMAIN publications : Beats(j, answer[p].id)' <=> same(j) /\ time(j) >= mine
    BY <1>7
  <2>3. /\ mine \in Int /\ \A j \in DOMAIN publications : time(j) \in Int
        /\ c # 0 => c \in DOMAIN publications /\ same(c)
        /\ \A j \in DOMAIN publications : same(j) => c # 0 /\ time(j) <= time(c)
    BY <1>2, <1>3, <1>4, <1>5
  <2> HIDE DEF mine, time, same, c
  <2>4. CASE c = 0
    BY <2>1, <2>2, <2>3, <2>4
  <2>5. CASE c # 0
    <3>1. mine > time(c) => \A j \in DOMAIN publications : same(j) => ~(time(j) >= mine)
      BY <2>3, <2>5
    <3>2. ~(mine > time(c)) => same(c) /\ time(c) >= mine
      BY <2>3, <2>5
    <3> QED BY <2>1, <2>2, <2>3, <2>5, <3>1, <3>2
  <2> QED BY <2>4, <2>5
<1> QED
  BY <1>1, <1>2, <1>6, <1>8, ItemsLast DEF TrueAnswer

\* A replay leads to the publication of the run, and knows whether it is the
\* current one.
LEMMA ReplayIsTrue ==
  ASSUME TypeOK, Serialized, CurrentIsNewest, [Next]_vars,
         NEW p \in Procs, Replay(p), TrueAnswer(p)
  PROVE  TrueAnswer(p)'
<1>1. PICK i \in Identical(request[p]) :
        Finish(p, Reply("replayed", i, current[request[p].scope] = i))
  BY DEF Replay
<1>2. /\ answer'[p] = Reply("replayed", i, current[request[p].scope] = i)
      /\ items'[p] = items[p] /\ request'[p] = request[p]
      /\ publications' = publications
  BY <1>1 DEF Finish, TypeOK, reading, tables, Replay
<1>3. /\ answer'[p].outcome = "replayed" /\ answer'[p].id = i
      /\ answer'[p].isCurrent = (current[request[p].scope] = i)
  BY <1>2 DEF Reply
<1>4. /\ i \in DOMAIN publications
      /\ publications[i].scope = request[p].scope
      /\ publications[i].identity = request[p].identity
      /\ publications[i].content = request[p].content
  BY DEF Identical, Accepted
<1>5. request[p] \in Publication /\ publications[i] \in Publication
  BY <1>4 DEF Replay, Serialized, Protected, Holding, TypeOK
<1>6. publications[i] = request[p] /\ i \in Nat \ {0}
  <2>1. publications[i] = request[p]
    BY <1>4, <1>5 DEF Publication
  <2>2. i \in Nat \ {0}
    BY <1>4 DEF TypeOK
  <2> QED
    BY <2>1, <2>2
<1>7. \A j \in DOMAIN publications : Beats(j, answer[p].id)' <=> Beats(j, i)
  BY <1>2, <1>3 DEF Beats
<1>8. CASE current[request[p].scope] = i
  <2>1. \A j \in DOMAIN publications : ~Beats(j, i)
    BY <1>4, <1>8 DEF CurrentIsNewest, Beats
  <2>2. 1..(i - 1) \subseteq DOMAIN publications
    BY <1>4 DEF TypeOK
  <2> QED
    BY <1>2, <1>3, <1>6, <1>7, <1>8, <2>1, <2>2, ItemsLast DEF TrueAnswer
<1>9. CASE current[request[p].scope] # i
  <2> DEFINE c == current[request[p].scope]
  <2>1. c # 0 /\ ~Beats(i, c)
    BY <1>4 DEF CurrentIsNewest
  <2>2. c \in DOMAIN publications /\ publications[c].scope = request[p].scope
    BY <1>5, <2>1 DEF TypeOK, Publication
  <2>3. Beats(c, i)
    BY <1>4, <1>9, <2>1, <2>2, BeatsIsTotal
  <2> QED
    BY <1>2, <1>3, <1>6, <1>7, <1>9, <2>2, <2>3, ItemsLast DEF TrueAnswer
<1> QED
  BY <1>8, <1>9

\* The rate read second is at least as new as the publication read first.
LEMMA ReadIsTrue ==
  ASSUME TypeOK, Serialized, CurrentIsNewest, [Next]_vars,
         NEW p \in Procs, ReadBucket(p), TrueAnswer(p)
  PROVE  TrueAnswer(p)'
<1> DEFINE m == named[p]
           r == CurrentOf(publications[named[p]].scope)
<1>1. /\ items'[p] = items[p] \cup {[named |-> m, rated |-> r]}
      /\ answer'[p] = answer[p] /\ request'[p] = request[p]
      /\ publications' = publications
  BY DEF ReadBucket, TypeOK, tables
<1>2. m \in DOMAIN publications
  BY DEF ReadBucket, Serialized, Protected, TypeOK
<1>3. publications[m].scope \in Scopes
  <2>1. publications[m] \in Publication
    BY <1>2 DEF TypeOK
  <2> QED
    BY <2>1 DEF Publication
<1>4. r # 0 /\ ~Beats(m, r)
  BY <1>2 DEF CurrentIsNewest, CurrentOf
<1>5. r \in DOMAIN publications /\ publications[r].scope = publications[m].scope
  BY <1>3, <1>4 DEF TypeOK, CurrentOf
<1>6. r = m \/ Beats(r, m)
  BY <1>2, <1>4, <1>5, BeatsIsTotal
<1>7. \A it \in items'[p] : it.rated = it.named \/ Beats(it.rated, it.named)'
  <2> SUFFICES ASSUME NEW it \in items'[p]
               PROVE  it.rated = it.named \/ Beats(it.rated, it.named)'
    OBVIOUS
  <2>1. it.rated = it.named \/ Beats(it.rated, it.named)
    BY <1>1, <1>6 DEF TrueAnswer
  <2> QED
    BY <1>1, <2>1 DEF Beats
<1>8. \A j : Beats(j, answer[p].id)' <=> Beats(j, answer[p].id)
  BY <1>1 DEF Beats
<1>9. Accepted(request[p])' = Accepted(request[p])
  BY <1>1 DEF Accepted
<1> QED
  BY <1>1, <1>7, <1>8, <1>9 DEF TrueAnswer

LEMMA AnswersStep ==
  ASSUME TypeOK, Serialized, CurrentIsNewest, [Next]_vars,
         \A p \in Procs : TrueAnswer(p)
  PROVE  \A p \in Procs : TrueAnswer(p)'
<1> SUFFICES ASSUME NEW q \in Procs
             PROVE  TrueAnswer(q)'
  OBVIOUS
<1>1. /\ request \in [Procs -> Publication \cup {None}]
      /\ items \in [Procs -> SUBSET Found]
      /\ answer \in [Procs -> Answer]
      /\ TrueAnswer(q)
  BY DEF TypeOK
<1> USE DEF Goto, Finish, reading
<1>2. CASE UNCHANGED vars
  BY <1>1, <1>2, TruthLasts DEF vars
<1>3. ASSUME NEW p \in Procs,
             \/ \E b \in Requests : Publish(p, b)
             \/ \E S \in SUBSET Scopes \ {{}} : Ask(p, S)
      PROVE  TrueAnswer(q)'
  <2>1. CASE q = p
    BY <1>1, <1>3, <2>1 DEF Publish, Ask, Reply, TrueAnswer
  <2>2. CASE q # p
    BY <1>1, <1>3, <2>2, TruthLasts DEF Publish, Ask
  <2> QED
    BY <2>1, <2>2
<1>4. ASSUME NEW p \in Procs,
             \/ Admit(p) \/ LockScope(p) \/ Insert(p) \/ Select(p)
             \/ ReadCurrent(p) \/ PassOver(p)
      PROVE  TrueAnswer(q)'
  BY <1>1, <1>4, TruthLasts DEF Admit, LockScope, Insert, Select, ReadCurrent, PassOver
<1>5. ASSUME NEW p \in Procs, Refuse(p) \/ Fail(p) \/ List(p)
      PROVE  TrueAnswer(q)'
  <2>1. CASE q = p
    <3>1. /\ answer'[p].outcome \in {"refused", "failed", "listed"}
          /\ items'[p] = items[p]
      BY <1>1, <1>5 DEF Refuse, Fail, List, Reply
    <3> QED
      BY <1>1, <2>1, <3>1, ItemsLast DEF TrueAnswer
  <2>2. CASE q # p
    BY <1>1, <1>5, <2>2, TruthLasts DEF Refuse, Fail, List
  <2> QED
    BY <2>1, <2>2
<1>6. ASSUME NEW p \in Procs, Conflict(p)
      PROVE  TrueAnswer(q)'
  <2>1. CASE q = p
    <3>1. /\ answer'[p].outcome = "conflict"
          /\ items'[p] = items[p] /\ request'[p] = request[p]
          /\ publications' = publications
      BY <1>1, <1>6 DEF Conflict, Reply, tables
    <3>2. \E i \in Accepted(request[p]) : publications[i].content # request[p].content
      BY <1>6 DEF Conflict, Identical
    <3> QED
      BY <1>1, <2>1, <3>1, <3>2, ItemsLast DEF TrueAnswer, Accepted
  <2>2. CASE q # p
    BY <1>1, <1>6, <2>2, TruthLasts DEF Conflict
  <2> QED
    BY <2>1, <2>2
<1>7. ASSUME NEW p \in Procs, Replay(p)
      PROVE  TrueAnswer(q)'
  <2>1. CASE q # p
    BY <1>1, <1>7, <2>1, TruthLasts DEF Replay
  <2> QED
    BY <1>1, <1>7, <2>1, ReplayIsTrue
<1>8. ASSUME NEW p \in Procs, Commit(p)
      PROVE  TrueAnswer(q)'
  <2>1. CASE q # p
    BY <1>1, <1>8, <2>1, TruthLasts DEF Commit
  <2> QED
    BY <1>1, <1>8, <2>1, CommitIsTrue
<1>9. ASSUME NEW p \in Procs, ReadBucket(p)
      PROVE  TrueAnswer(q)'
  <2>1. CASE q # p
    BY <1>1, <1>9, <2>1, TruthLasts DEF ReadBucket
  <2> QED
    BY <1>1, <1>9, <2>1, ReadIsTrue
<1> QED
  BY <1>2, <1>3, <1>4, <1>5, <1>6, <1>7, <1>8, <1>9 DEF Next, Step

\* Equal requests name one publication, as a run appears once per scope.
LEMMA EqualRequests ==
  ASSUME TypeOK, RunsAppearOnce, \A p \in Procs : TrueAnswer(p)
  PROVE  AnswersAreTrue
<1> SUFFICES ASSUME NEW p \in Procs, NEW q \in Procs,
                    answer[p].outcome \in {"accepted", "replayed"},
                    answer[q].outcome \in {"accepted", "replayed"},
                    request[p] = request[q]
             PROVE  answer[p].id = answer[q].id
  BY DEF AnswersAreTrue
<1>1. /\ answer[p].id \in DOMAIN publications
      /\ answer[q].id \in DOMAIN publications
      /\ publications[answer[p].id] = publications[answer[q].id]
  BY DEF TrueAnswer, TypeOK, Answer
<1> QED
  BY <1>1 DEF RunsAppearOnce

-----------------------------------------------------------------------------
(* The theorems.                                                           *)

LEMMA InvInitially == Init => Inv
<1> SUFFICES ASSUME Init
             PROVE  Inv
  OBVIOUS
<1> USE DEF Init
<1>1. TypeOK
  BY DEF TypeOK, Reply, Answer, Found
<1>2. Serialized
  BY DEF Serialized, Protected, Holding
<1>3. RunsAppearOnce /\ CurrentIsNewest
  BY DEF RunsAppearOnce, CurrentIsNewest
<1>4. \A p \in Procs : TrueAnswer(p)
  BY DEF TrueAnswer, Reply
<1> QED
  BY <1>1, <1>2, <1>3, <1>4 DEF Inv

LEMMA InvStep == Inv /\ [Next]_vars => Inv'
<1> SUFFICES ASSUME Inv, [Next]_vars
             PROVE  Inv'
  OBVIOUS
<1>1. /\ TypeOK /\ Serialized /\ RunsAppearOnce /\ CurrentIsNewest
      /\ \A p \in Procs : TrueAnswer(p)
  BY DEF Inv
<1>2. TypeOK'
  <2>1. RequestTypes' /\ FindingTypes'
    BY <1>1, RequestsStep, FindingsStep DEF RequestTypes, TypeOK
  <2> QED
    BY <1>1, <2>1, TablesStep DEF RequestTypes, FindingTypes, TypeOK
<1>3. Serialized' /\ RunsAppearOnce' /\ CurrentIsNewest'
  BY <1>1, SerializedStep, RunsStep, NewestStep
<1>4. \A p \in Procs : TrueAnswer(p)'
  BY <1>1, AnswersStep
<1> QED
  BY <1>2, <1>3, <1>4 DEF Inv

\* The inductive invariant of any number of publications and lookups.
THEOREM InvAlways == Spec => []Inv
<1> QED
  BY InvInitially, InvStep, PTL DEF Spec

\* Tables and requests keep their types, and every current reference leads to
\* a publication of its own scope.
THEOREM PredictionTypes == Spec => []TypeOK
<1>1. Inv => TypeOK
  BY DEF Inv
<1> QED
  BY <1>1, InvAlways, PTL

\* The current publication of a scope is the latest generated one, and among
\* equals the first accepted, in whatever order publications arrive and race.
THEOREM CurrentAlwaysNewest == Spec => []CurrentIsNewest
<1>1. Inv => CurrentIsNewest
  BY DEF Inv
<1> QED
  BY <1>1, InvAlways, PTL

\* What requests are told is true of the history, and equal requests that are
\* accepted or replayed name one publication, whatever interleaves.
THEOREM AnswersAlwaysTrue == Spec => []AnswersAreTrue
<1>1. Inv => AnswersAreTrue
  BY EqualRequests DEF Inv
<1> QED
  BY <1>1, InvAlways, PTL

\* The tables are sound, the newest publication is current and every answer is
\* true of them, for any number of scopes, publishers and requests.
THEOREM PublicationsInvAlways == Spec => []PublicationsInv
<1>1. Inv => PublicationsInv
  BY EqualRequests DEF Inv, PublicationsInv
<1> QED
  BY <1>1, InvAlways, PTL

\* Acceptance is atomic and append-only, once per run and scope, and moves the
\* current publication only to one generated strictly later.
THEOREM ImplementsLedger == Spec => LedgerSpec
<1>1. Init => Ledger!Init
  BY DEF Init, Ledger!Init
<1>2. Inv /\ [Next]_vars => [Ledger!Next]_tables
  <2> SUFFICES ASSUME Inv, [Next]_vars
               PROVE  [Ledger!Next]_tables
    OBVIOUS
  <2>1. TypeOK /\ Serialized
    BY DEF Inv
  <2>2. ASSUME NEW p \in Procs, Commit(p)
        PROVE  Ledger!Accept(request[p])
    <3>1. \A i \in DOMAIN publications :
            <<publications[i].scope, publications[i].identity>>
              # <<request[p].scope, request[p].identity>>
      BY <2>1, <2>2, CommitEffect DEF Accepted
    <3>2. publications' = Append(publications, request[p])
      BY <2>2 DEF Commit
    <3> QED
      BY <2>1, <2>2, <3>1, <3>2, CommitEffect DEF Ledger!Accept, Ledger!Publication, Publication,
         Newer
  <2>3. CASE \E p \in Procs : Commit(p)
    BY <2>1, <2>2, <2>3, CommitEffect DEF Ledger!Next, Ledger!Publication, Publication
  <2> QED
    BY <2>3, OnlyCommitsWrite DEF tables
<1> QED
  BY <1>1, <1>2, InvAlways, PTL DEF Spec, LedgerSpec, Ledger!Spec, tables

-----------------------------------------------------------------------------
(* The numbers of a week.                                                  *)

\* The lengths of a day and a week are positive.
LEMMA Sizes ==
  /\ Days \in Nat \ {0} /\ Hours \in Nat \ {0} /\ Ticks \in Nat \ {0} /\ Full \in Nat \ {0}
  /\ Hours * Ticks \in Nat \ {0} /\ Days * Hours \in Nat \ {0} /\ Week \in Nat \ {0}
  /\ Week = Days * (Hours * Ticks)
<1>1. Days \in Nat \ {0} /\ Hours \in Nat \ {0} /\ Ticks \in Nat \ {0} /\ Full \in Nat \ {0}
  BY ProfilesAssumption DEF ProfilesAssumption
<1>2. \A a, b \in Nat \ {0} : a * b \in Nat \ {0}
  OBVIOUS
<1>3. Week = Days * (Hours * Ticks)
  BY <1>1 DEF Week
<1> QED BY <1>1, <1>2, <1>3

\* Multiples of n are n apart.
LEMMA NextMultiple ==
  ASSUME NEW n \in Nat \ {0}, NEW d \in Int, NEW e \in Int, d < e
  PROVE  d * n + n <= e * n
<1>1. e * n = (d + 1) * n + (e - (d + 1)) * n
  OBVIOUS
<1>2. (e - (d + 1)) * n >= 0
  OBVIOUS
<1> QED BY <1>1, <1>2

\* The order of the numbers, as a relation.
LessThan == {pair \in Nat \X Nat : pair[1] < pair[2]}

\* A set of numbers has a least one.
LEMMA LeastOf ==
  ASSUME NEW S \in SUBSET Nat, S # {}
  PROVE  \E n \in S : \A m \in S : n <= m
<1>1. IsWellFoundedOn(LessThan, Nat)
  BY NatLessThanWellFounded DEF OpToRel, LessThan
<1>2. PICK n \in S : \A m \in S : <<m, n>> \notin LessThan
  BY <1>1, WFMin
<1>3. \A m \in S : ~(m < n)
  BY <1>2 DEF LessThan
<1> QED BY <1>3

\* Quotient and rest.
LEMMA Division ==
  ASSUME NEW n \in Nat \ {0}, NEW a \in Int
  PROVE  /\ a \div n \in Int /\ a % n \in 0..n - 1
         /\ a = (a \div n) * n + (a % n)
OBVIOUS

LEMMA DivisionIsUnique ==
  ASSUME NEW n \in Nat \ {0}, NEW a \in Int, NEW d \in Int, NEW h \in 0..n - 1, a = d * n + h
  PROVE  a \div n = d /\ a % n = h
<1>1. /\ a \div n \in Int /\ a % n \in 0..n - 1 /\ a = (a \div n) * n + (a % n)
  BY Division
<1> DEFINE e == a \div n  g == a % n
<1> HIDE DEF e, g
<1>2. e \in Int /\ g \in 0..n - 1 /\ d * n + h = e * n + g
  BY <1>1 DEF e, g
<1>3. d * n \in Int /\ e * n \in Int
  BY <1>2
<1>4. ~(d < e) /\ ~(e < d)
  BY <1>2, <1>3, NextMultiple
<1>5. d = e
  BY <1>2, <1>4
<1>6. h = g
  BY <1>2, <1>3, <1>5
<1> QED BY <1>5, <1>6 DEF e, g

\* A quotient lies where the number does.
LEMMA QuotientBelow ==
  ASSUME NEW n \in Nat \ {0}, NEW m \in Nat, NEW a \in 0..m * n - 1
  PROVE  a \div n \in 0..m - 1
<1>1. /\ a \div n \in Int /\ a % n \in 0..n - 1 /\ a = (a \div n) * n + (a % n)
  BY Division
<1> DEFINE e == a \div n
<1> HIDE DEF e
<1>2. e \in Int /\ e * n <= a /\ a < e * n + n
  BY <1>1 DEF e
<1>3. m * n \in Int /\ e * n \in Int
  BY <1>2
<1>4. ~(m <= e)
  <2>1. m = e => m * n = e * n
    OBVIOUS
  <2> QED BY <1>2, <1>3, <2>1, NextMultiple
<1>5. ~(e < 0)
  <2>1. 0 * n = 0
    OBVIOUS
  <2> QED BY <1>2, <1>3, <2>1, NextMultiple
<1> QED BY <1>2, <1>4, <1>5 DEF e

\* The place of an hour in the week.
KeyAt(i) == [day |-> (i - 1) \div Hours, hour |-> (i - 1) % Hours]

\* Places and hours of a week correspond.
LEMMA KeysOfAWeek ==
  /\ \A i \in 1..Days * Hours : KeyAt(i) \in Keys
  /\ \A i, j \in 1..Days * Hours : KeyAt(i) = KeyAt(j) => i = j
  /\ \A k \in Keys : \E i \in 1..Days * Hours : KeyAt(i) = k
<1>1. Days \in Nat \ {0} /\ Hours \in Nat \ {0} /\ Days * Hours \in Nat
  BY Sizes
<1>2. ASSUME NEW i \in 1..Days * Hours PROVE KeyAt(i) \in Keys
  <2>1. i - 1 \in 0..Days * Hours - 1 /\ i - 1 \in Int
    BY <1>1
  <2>2. (i - 1) \div Hours \in 0..Days - 1 /\ (i - 1) % Hours \in 0..Hours - 1
    BY <1>1, <2>1, QuotientBelow, Division
  <2> QED BY <2>2 DEF KeyAt, Keys
<1>3. ASSUME NEW i \in 1..Days * Hours, NEW j \in 1..Days * Hours, KeyAt(i) = KeyAt(j) PROVE i = j
  <2>1. (i - 1) \div Hours = (j - 1) \div Hours /\ (i - 1) % Hours = (j - 1) % Hours
    BY <1>3 DEF KeyAt
  <2>2. i - 1 \in Int /\ j - 1 \in Int
    BY <1>1
  <2>3. /\ i - 1 = ((i - 1) \div Hours) * Hours + ((i - 1) % Hours)
        /\ j - 1 = ((j - 1) \div Hours) * Hours + ((j - 1) % Hours)
    BY <1>1, <2>2, Division
  <2>4. i - 1 = j - 1
    BY <2>1, <2>3
  <2> QED BY <1>1, <2>4
<1>4. ASSUME NEW k \in Keys PROVE \E i \in 1..Days * Hours : KeyAt(i) = k
  <2>1. k.day \in 0..Days - 1 /\ k.hour \in 0..Hours - 1 /\ k = [day |-> k.day, hour |-> k.hour]
    BY DEF Keys
  <2> DEFINE a == k.day * Hours + k.hour
  <2>2. a \in Int /\ 0 <= a /\ a < Days * Hours
    <3>1. k.day * Hours \in Nat
      BY <1>1, <2>1
    <3>2. k.day * Hours + Hours <= Days * Hours
      BY <1>1, <2>1, NextMultiple
    <3> QED BY <1>1, <2>1, <3>1, <3>2
  <2>3. a \div Hours = k.day /\ a % Hours = k.hour
    BY <1>1, <2>1, <2>2, DivisionIsUnique
  <2> HIDE DEF a
  <2>4. a + 1 \in 1..Days * Hours /\ (a + 1) - 1 = a
    BY <1>1, <2>2
  <2> QED BY <2>1, <2>3, <2>4 DEF KeyAt
<1> QED BY <1>2, <1>3, <1>4

\* Every instant lies in an hour of the local week.
LEMMA KeyOfAnInstant ==
  ASSUME NEW z \in Zones, NEW t \in Instants
  PROVE  Key(z, t) \in Keys
<1>1. t \in Int /\ Offset[z][t] \in Int
  BY ProfilesAssumption DEF ProfilesAssumption
<1> DEFINE w == LocalTick(z, t)
<1>2. w \in 0..Days * (Hours * Ticks) - 1
  <2>1. t + Offset[z][t] \in Int
    BY <1>1
  <2>2. (t + Offset[z][t]) % Week \in 0..Week - 1
    BY <2>1, Sizes, Division
  <2> QED BY <2>2, Sizes DEF LocalTick
<1> HIDE DEF w
<1>3. w \div (Hours * Ticks) \in 0..Days - 1
  BY <1>2, Sizes, QuotientBelow
<1>4. w \div Ticks \in Int
  <2>1. w \in Int
    BY <1>2, Sizes
  <2> QED BY <2>1, Sizes, Division
<1>5. (w \div Ticks) % Hours \in 0..Hours - 1
  BY <1>4, Sizes, Division
<1> QED BY <1>3, <1>5 DEF Key, Keys, w

-----------------------------------------------------------------------------
(* What the baseline writes.                                               *)

\* What the baseline may read.
Files == Trainings \cup Holdouts

\* What is known of the rows of a file.
LEMMA FileFacts ==
  ASSUME NEW file \in Files
  PROVE  /\ Len(file) \in Nat /\ DOMAIN file = 1..Len(file) /\ IsFiniteSet(DOMAIN file)
         /\ \A i \in DOMAIN file : /\ file[i].from \in Instants /\ file[i].from \in Int
                                   /\ file[i].to \in Int /\ file[i].rate \in Int
         /\ file # <<>> => DOMAIN file # {}
<1> DEFINE Row == [from : Instants, to : Int, zone : Zones, rate : Int]
<1>1. file \in Seq(Row)
  BY ProfilesAssumption DEF ProfilesAssumption, Files
<1> HIDE DEF Row
<1>2. Len(file) \in Nat /\ DOMAIN file = 1..Len(file) /\ \A i \in DOMAIN file : file[i] \in Row
  <2>1. Len(file) \in Nat /\ DOMAIN file = 1..Len(file)
    BY <1>1
  <2>2. \A i \in 1..Len(file) : file[i] \in Row
    BY <1>1, <2>1
  <2> QED BY <2>1, <2>2
<1>3. IsFiniteSet(DOMAIN file)
  BY <1>2, FS_Interval
<1>4. \A i \in DOMAIN file : /\ file[i].from \in Instants /\ file[i].to \in Int
                             /\ file[i].rate \in Int
  BY <1>2 DEF Row
<1>5. Instants \subseteq Int
  BY ProfilesAssumption DEF ProfilesAssumption
<1>6. file # <<>> => DOMAIN file # {}
  BY <1>1, <1>2, EmptySeq
<1> QED BY <1>2, <1>3, <1>4, <1>5, <1>6

\* The mean of trusted rows is a rate.
LEMMA MeanIsARate ==
  ASSUME NEW file \in Files, NEW z, Loads(file, z), NEW rows \in SUBSET DOMAIN file, rows # {}
  PROVE  /\ Mean(file, rows).n \in Nat \ {0}
         /\ Mean(file, rows).sum \in 0..Full * Mean(file, rows).n
<1> DEFINE S == UNION {{i} \X (1..file[i].rate) : i \in rows}
<1>1. IsFiniteSet(rows) /\ Cardinality(rows) \in Nat \ {0}
  <2>1. IsFiniteSet(rows)
    BY FileFacts, FS_Subset
  <2> QED BY <2>1, FS_CardinalityType, FS_EmptySet
<1>2. Full \in Nat /\ IsFiniteSet(1..Full) /\ Cardinality(1..Full) = Full
  BY Sizes, FS_Interval
<1>3. S \subseteq rows \X (1..Full)
  <2>1. \A i \in rows : file[i].rate \in 0..Full
    BY DEF Loads
  <2> QED BY <1>2, <2>1
<1>4. /\ IsFiniteSet(rows \X (1..Full))
      /\ Cardinality(rows \X (1..Full)) = Cardinality(rows) * Full
  BY <1>1, <1>2, FS_Product
<1> HIDE DEF S
<1>5. IsFiniteSet(S) /\ Cardinality(S) \in Nat /\ Cardinality(S) <= Cardinality(rows) * Full
  BY <1>3, <1>4, FS_Subset, FS_CardinalityType
<1>6. Cardinality(rows) * Full = Full * Cardinality(rows) /\ Full * Cardinality(rows) \in Nat
  BY <1>1, <1>2
<1> QED BY <1>1, <1>5, <1>6 DEF Mean, S

\* It writes every hour of a week once, and the mean of each.
LEMMA WritesAWeek ==
  ASSUME NEW file \in Files, NEW z, Loads(file, z), \A k \in Keys : Group(file, z, k) # {}
  PROVE  Canonical(Buckets(file, z))
<1> DEFINE n == Days * Hours
           b == Buckets(file, z)
<1>1. /\ n \in Nat /\ DOMAIN b = 1..n
      /\ \A i \in 1..n : b[i] = [key |-> KeyAt(i), rate |-> Mean(file, Group(file, z, KeyAt(i)))]
  BY Sizes DEF Buckets, KeyAt
<1>2. b \in Seq({b[i] : i \in 1..n}) /\ Len(b) = n
  <2>1. b \in [1..n -> {b[i] : i \in 1..n}]
    BY DEF Buckets
  <2> HIDE DEF b, n
  <2> QED BY <1>1, <2>1
<1>3. ASSUME NEW i \in 1..n
      PROVE  ValidBucket(b[i]) /\ b[i].key = KeyAt(i)
  <2>1. KeyAt(i) \in Keys
    BY <1>3, KeysOfAWeek
  <2>2. Group(file, z, KeyAt(i)) \in SUBSET DOMAIN file /\ Group(file, z, KeyAt(i)) # {}
    BY <2>1 DEF Group
  <2> QED BY <1>1, <2>1, <2>2, MeanIsARate DEF ValidBucket
<1>4. /\ \A i, j \in 1..n : i # j => b[i].key # b[j].key
      /\ {b[i].key : i \in 1..n} = Keys
  <2> HIDE DEF b, n
  <2>1. /\ \A i \in 1..n : KeyAt(i) \in Keys
        /\ \A i, j \in 1..n : KeyAt(i) = KeyAt(j) => i = j
        /\ \A k \in Keys : \E i \in 1..n : KeyAt(i) = k
    BY KeysOfAWeek DEF n
  <2> QED BY <1>3, <2>1
<1>5. Canonical(b)
  <2> HIDE DEF b
  <2> QED BY <1>1, <1>2, <1>3, <1>4 DEF Canonical
<1> QED BY <1>5

\* One of finitely many numbers is the greatest.
LEMMA GreatestOfList ==
  ASSUME NEW n \in Nat \ {0}, NEW h, \A i \in 1..n : h[i] \in Int
  PROVE  \E p \in 1..n : \A q \in 1..n : h[q] <= h[p]
<1> DEFINE Has(m) == \E p \in 1..m : \A q \in 1..m : h[q] <= h[p]
           bad == {m \in 1..n : ~Has(m)}
<1>1. SUFFICES ASSUME ~Has(n) PROVE FALSE
  OBVIOUS
<1>2. bad \in SUBSET Nat /\ bad # {}
  <2>1. n \in 1..n /\ 1..n \subseteq Nat
    OBVIOUS
  <2> HIDE DEF Has
  <2> QED BY <1>1, <2>1
<1>3. PICK m \in bad : \A l \in bad : m <= l
  <2> HIDE DEF bad
  <2> QED BY <1>2, LeastOf
<1>4. m \in 1..n /\ ~Has(m)
  OBVIOUS
<1>5. m # 1
  <2>1. \A q \in 1..1 : h[q] <= h[1]
    OBVIOUS
  <2> QED BY <1>4, <2>1
<1>6. m - 1 \in 1..n /\ Has(m - 1)
  <2>1. m - 1 \in 1..n /\ m - 1 \notin bad
    <3>1. m \in Nat /\ 1 < m /\ m <= n
      BY <1>4, <1>5
    <3>2. m - 1 \in 1..n /\ ~(m <= m - 1)
      BY <3>1
    <3> HIDE DEF bad
    <3> QED BY <1>3, <3>2
  <2> QED BY <2>1
<1>7. PICK p \in 1..m - 1 : \A q \in 1..m - 1 : h[q] <= h[p]
  BY <1>6
<1>8. h[p] \in Int /\ h[m] \in Int /\ p \in 1..m /\ m \in 1..m
  BY <1>4, <1>7
<1>9. CASE h[m] <= h[p]
  <2>1. \A q \in 1..m : h[q] <= h[p]
    BY <1>4, <1>7, <1>9
  <2> QED BY <1>4, <1>8, <2>1
<1>10. CASE h[p] <= h[m]
  <2>1. ASSUME NEW q \in 1..m PROVE h[q] <= h[m]
    <3>1. q \in 1..n /\ h[q] \in Int /\ (q = m \/ q \in 1..m - 1)
      BY <1>4
    <3> QED BY <1>7, <1>8, <1>10, <3>1
  <2> QED BY <1>4, <1>8, <2>1
<1> QED BY <1>8, <1>9, <1>10

\* The window of a file holds its rows.
LEMMA WindowHolds ==
  ASSUME NEW file \in Files, file # <<>>
  PROVE  /\ Window(file).from \in Int /\ Window(file).to \in Int
         /\ \A i \in DOMAIN file : Window(file).from <= file[i].from /\ file[i].to <= Window(file).to
<1> DEFINE froms == {file[i].from : i \in DOMAIN file}  tos == {file[i].to : i \in DOMAIN file}
           n == Len(file)
<1>1. n \in Nat \ {0} /\ DOMAIN file = 1..n
  BY FileFacts
<1>2. \A i \in 1..n : file[i].from \in Int /\ file[i].to \in Int
  BY <1>1, FileFacts
<1>3. \E p \in 1..n : \A q \in 1..n : file[p].from <= file[q].from
  <2> DEFINE h == [i \in 1..n |-> -file[i].from]
  <2>1. \A i \in 1..n : h[i] = -file[i].from /\ h[i] \in Int
    BY <1>2
  <2> HIDE DEF h, n
  <2>2. PICK p \in 1..n : \A q \in 1..n : h[q] <= h[p]
    BY <1>1, <2>1, GreatestOfList
  <2>3. \A q \in 1..n : -file[q].from <= -file[p].from
    BY <2>1, <2>2
  <2>4. \A u, v \in Int : -u <= -v => v <= u
    OBVIOUS
  <2>5. \A q \in 1..n : file[p].from <= file[q].from
    BY <1>2, <2>3, <2>4
  <2> QED BY <2>5
<1>4. \E p \in 1..n : \A q \in 1..n : file[q].to <= file[p].to
  <2> DEFINE h == [i \in 1..n |-> file[i].to]
  <2>1. \A i \in 1..n : h[i] = file[i].to /\ h[i] \in Int
    BY <1>2
  <2> HIDE DEF h, n
  <2>2. PICK p \in 1..n : \A q \in 1..n : h[q] <= h[p]
    BY <1>1, <2>1, GreatestOfList
  <2> QED BY <2>1, <2>2
<1>5. Min(froms) \in froms /\ \A x \in froms : Min(froms) <= x
  BY <1>1, <1>3 DEF Min
<1>6. Max(tos) \in tos /\ \A x \in tos : x <= Max(tos)
  <2>1. \E m \in tos : \A x \in tos : m >= x
    BY <1>1, <1>2, <1>4
  <2>2. Max(tos) \in tos /\ \A x \in tos : Max(tos) >= x
    BY <2>1 DEF Max
  <2> QED BY <1>1, <1>2, <2>2
<1> QED BY <1>1, <1>2, <1>5, <1>6 DEF Window

\* The holdout shares no time with the training rows.
LEMMA WindowsKeepApart ==
  ASSUME NEW training \in Files, NEW holdout \in Files, NEW z,
         Loads(training, z), Loads(holdout, z), Apart(Window(training), Window(holdout))
  PROVE  \A i \in DOMAIN training, j \in DOMAIN holdout :
           training[i].to <= holdout[j].from \/ holdout[j].to <= training[i].from
<1>1. training # <<>> /\ holdout # <<>>
  BY DEF Loads
<1>2. /\ Window(training).from \in Int /\ Window(training).to \in Int
      /\ Window(holdout).from \in Int /\ Window(holdout).to \in Int
  BY <1>1, WindowHolds
<1>3. ASSUME NEW i \in DOMAIN training, NEW j \in DOMAIN holdout
      PROVE  training[i].to <= holdout[j].from \/ holdout[j].to <= training[i].from
  <2>1. /\ training[i].from \in Int /\ training[i].to \in Int
        /\ holdout[j].from \in Int /\ holdout[j].to \in Int
    BY FileFacts
  <2>2. Window(training).from <= training[i].from /\ training[i].to <= Window(training).to
    BY <1>1, WindowHolds
  <2>3. Window(holdout).from <= holdout[j].from /\ holdout[j].to <= Window(holdout).to
    BY <1>1, WindowHolds
  <2> QED BY <1>2, <2>1, <2>2, <2>3 DEF Apart
<1> QED BY <1>3

-----------------------------------------------------------------------------
(* The inductive invariant.                                                *)

\* What a publisher may send.
Sequences == Seq([key : [day : Int, hour : Int], rate : [sum : Int, n : Int]])

\* A file the baseline has loaded and found complete.
Trained(o) ==
  /\ o.training \in Trainings /\ o.holdout \in Holdouts /\ o.zone \in Zones
  /\ Loads(o.training, o.zone) /\ \A k \in Keys : Group(o.training, o.zone, k) # {}
  /\ o.holdout # <<>> => Loads(o.holdout, o.zone) /\ Apart(Window(o.training), Window(o.holdout))

\* A profile that was accepted.
AcceptedProfile(p) ==
  \E b : /\ p.buckets = ToSet(b) /\ Canonical(b) /\ DOMAIN b = 1..Days * Hours /\ p.zone \in Zones

\* Written profiles come from complete files, accepted ones are canonical.
ProfilesKnown ==
  /\ zone \in [Sites -> Zones] /\ published \in 0..MaxPublished
  /\ output # NoProfile => Trained(output)
  /\ profile \in [Connectors -> {profile[c] : c \in Connectors}]
  /\ \A c \in Connectors : profile[c] # NoProfile => AcceptedProfile(profile[c])

\* An accepted publication meets the contract, in a zone that exists.
LEMMA PostKeeps ==
  ASSUME ProfilesKnown, NEW c \in Connectors, NEW z, NEW b, DOMAIN b = 1..Len(b), Post(c, z, b)
  PROVE  /\ zone' = zone /\ published' \in 0..MaxPublished
         /\ profile' \in [Connectors -> {profile'[d] : d \in Connectors}]
         /\ \A d \in Connectors : profile'[d] # NoProfile => AcceptedProfile(profile'[d])
<1>1. Canonical(b) /\ z = zone[Site[c]] /\ zone' = zone
      /\ published < MaxPublished /\ published' = published + 1
      /\ profile' = [profile EXCEPT ![c] = [zone |-> z, buckets |-> ToSet(b)]]
  BY DEF Post
<1>2. published' \in 0..MaxPublished
  BY <1>1, ProfilesAssumption DEF ProfilesKnown, ProfilesAssumption
<1>3. z \in Zones
  BY <1>1, ProfilesAssumption DEF ProfilesKnown, ProfilesAssumption
<1>4. AcceptedProfile([zone |-> z, buckets |-> ToSet(b)])
  BY <1>1, <1>3 DEF AcceptedProfile, Canonical
<1>5. profile' \in [Connectors -> {profile'[d] : d \in Connectors}]
  BY <1>1 DEF ProfilesKnown
<1>6. \A d \in Connectors : profile'[d] = IF d = c THEN [zone |-> z, buckets |-> ToSet(b)] ELSE profile[d]
  BY <1>1 DEF ProfilesKnown
<1> QED BY <1>1, <1>2, <1>4, <1>5, <1>6 DEF ProfilesKnown

\* Every step keeps the invariant.
LEMMA ProfilesStayKnown ==
  ASSUME ProfilesKnown, [ProfilesNext]_profVars
  PROVE  ProfilesKnown'
<1>1. CASE UNCHANGED profVars
  BY <1>1 DEF profVars, ProfilesKnown, Trained, AcceptedProfile
<1>2. ASSUME NEW z \in Zones, NEW training \in Trainings, NEW holdout \in Holdouts, NEW declared,
             Baseline(z, training, holdout, declared)
      PROVE  ProfilesKnown'
  BY <1>2 DEF Baseline, ProfilesKnown, Trained, AcceptedProfile
<1>3. ASSUME NEW c \in Connectors, Deliver(c) PROVE ProfilesKnown'
  <2>1. output' = NoProfile
    BY <1>3 DEF Deliver
  <2> DEFINE b == Buckets(output.training, output.zone)
  <2>2. CASE Post(c, output.zone, b)
    <3>1. DOMAIN b = 1..Days * Hours /\ Len(b) = Days * Hours
      BY <2>2 DEF Buckets, Post, Canonical
    <3> HIDE DEF b
    <3> QED BY <2>1, <2>2, <3>1, PostKeeps DEF ProfilesKnown
  <2>3. CASE UNCHANGED <<zone, profile, published>>
    BY <2>1, <2>3 DEF ProfilesKnown, AcceptedProfile
  <2> QED BY <1>3, <2>2, <2>3 DEF Deliver
<1>4. ASSUME NEW c \in Connectors, Receive(c) PROVE ProfilesKnown'
  <2>1. output' = output
    BY <1>4 DEF Receive
  <2>2. PICK b \in Others : Post(c, b.zone, b.buckets)
    BY <1>4 DEF Receive
  <2>3. DOMAIN b.buckets = 1..Len(b.buckets)
    <3>1. b.buckets \in Sequences
      BY ProfilesAssumption DEF ProfilesAssumption, Sequences
    <3> QED BY <3>1 DEF Sequences
  <2> QED BY <2>1, <2>2, <2>3, PostKeeps DEF ProfilesKnown, Trained
<1>5. ASSUME NEW s \in Sites, NEW z \in Zones, MoveZone(s, z) PROVE ProfilesKnown'
  BY <1>5 DEF MoveZone, ProfilesKnown, Trained, AcceptedProfile
<1> QED BY <1>1, <1>2, <1>3, <1>4, <1>5 DEF ProfilesNext

\* What the baseline has written meets the contract, and its holdout stays apart.
LEMMA KnownContract ==
  ASSUME ProfilesKnown
  PROVE  BaselineKeepsContract
<1> DEFINE b == Buckets(output.training, output.zone)
           trained == ToSet(output.training)  tested == ToSet(output.holdout)
<1>1. SUFFICES ASSUME output # NoProfile
      PROVE  /\ Canonical(b)
             /\ \A r \in trained, h \in tested : r.to <= h.from \/ h.to <= r.from
             /\ \A h \in tested : \E x \in ToSet(b) : x.key = Key(output.zone, h.from)
  BY DEF BaselineKeepsContract
<1>2. Trained(output)
  BY <1>1 DEF ProfilesKnown
<1>3. Canonical(b)
  BY <1>2, WritesAWeek DEF Trained, Files
<1>4. CASE output.holdout = <<>>
  <2>1. tested = {}
    BY <1>4 DEF ToSet
  <2> QED BY <1>3, <2>1
<1>5. CASE output.holdout # <<>>
  <2>1. \A i \in DOMAIN output.training, j \in DOMAIN output.holdout :
          \/ output.training[i].to <= output.holdout[j].from
          \/ output.holdout[j].to <= output.training[i].from
    BY <1>2, <1>5, WindowsKeepApart DEF Trained, Files
  <2>2. \A r \in trained, h \in tested : r.to <= h.from \/ h.to <= r.from
    BY <2>1 DEF ToSet
  <2>3. ASSUME NEW h \in tested PROVE \E x \in ToSet(b) : x.key = Key(output.zone, h.from)
    <3>1. PICK j \in DOMAIN output.holdout : h = output.holdout[j]
      BY DEF ToSet
    <3>2. h.from \in Instants
      BY <1>2, <3>1, FileFacts DEF Trained, Files
    <3>3. Key(output.zone, h.from) \in Keys
      BY <1>2, <3>2, KeyOfAnInstant DEF Trained
    <3> HIDE DEF b
    <3>4. PICK i \in DOMAIN b : b[i].key = Key(output.zone, h.from)
      BY <1>3, <3>3 DEF Canonical
    <3> QED BY <3>4 DEF ToSet
  <2> QED BY <1>3, <2>2, <2>3
<1> QED BY <1>4, <1>5

\* A canonical profile has one bucket for each hour.
LEMMA OneBucketPerHour ==
  ASSUME NEW p, AcceptedProfile(p), NEW k \in Keys
  PROVE  \E x \in p.buckets : /\ x.key = k /\ ValidBucket(x)
                              /\ {y \in p.buckets : y.key = k} = {x}
<1>1. PICK b : p.buckets = ToSet(b) /\ Canonical(b)
  BY DEF AcceptedProfile
<1>2. PICK i \in DOMAIN b : b[i].key = k
  BY <1>1 DEF Canonical
<1>3. b[i] \in p.buckets /\ ValidBucket(b[i])
  BY <1>1, <1>2 DEF Canonical, ToSet
<1>4. ASSUME NEW y \in p.buckets, y.key = k PROVE y = b[i]
  <2>1. PICK j \in DOMAIN b : y = b[j]
    BY <1>1 DEF ToSet
  <2> QED BY <1>1, <1>2, <1>4, <2>1 DEF Canonical
<1> QED BY <1>2, <1>3, <1>4

\* A current profile has one rate for every hour.
LEMMA KnownRates ==
  ASSUME ProfilesKnown
  PROVE  OneRatePerHour
<1>1. SUFFICES ASSUME NEW c \in Connectors, profile[c] # NoProfile, NEW k \in Keys
               PROVE  Cardinality({b \in profile[c].buckets : b.key = k}) = 1
  BY DEF OneRatePerHour
<1>2. PICK x : {y \in profile[c].buckets : y.key = k} = {x}
  <2> DEFINE p == profile[c]
  <2>1. AcceptedProfile(p)
    BY <1>1 DEF ProfilesKnown
  <2> HIDE DEF p
  <2>2. \E x : {y \in p.buckets : y.key = k} = {x}
    BY <2>1, OneBucketPerHour
  <2> QED BY <2>2 DEF p
<1>3. Cardinality({x}) = 1
  BY FS_Singleton
<1> QED BY <1>2, <1>3

-----------------------------------------------------------------------------
(* Opening hours.                                                          *)

\* Going round the week, an interval that begins at y and is len long meets the T
\* ticks from x on exactly if this week's copy of it or a neighbour's overlaps them.
LEMMA RoundTheWeek ==
  ASSUME NEW W \in Nat \ {0}, NEW T \in Nat \ {0}, NEW x \in Nat, x + T <= W,
         NEW y \in 0..W - 1, NEW len \in 1..W
  PROVE  (\E shift \in {-W, 0, W} : y + shift < x + T /\ x < y + shift + len)
           <=> \E w \in 0..T - 1 : (x + w - y) % W < len
<1>1. ASSUME NEW d \in {-1, 0, 1}, y + d * W < x + T, x < y + d * W + len
      PROVE  \E w \in 0..T - 1 : (x + w - y) % W < len
  <2> DEFINE u == y + d * W  w == IF u <= x THEN 0 ELSE u - x
  <2>1. d \in Int /\ d * W \in Int /\ u \in Int
    OBVIOUS
  <2> HIDE DEF u
  <2>2. w \in 0..T - 1 /\ x + w - u \in 0..len - 1
    BY <1>1, <2>1 DEF u
  <2>3. x + w - u \in 0..W - 1 /\ x + w - y \in Int
    BY <2>1, <2>2
  <2>4. x + w - y = d * W + (x + w - u)
    BY <2>1, <2>2 DEF u
  <2> HIDE DEF w
  <2>5. (x + w - y) % W = x + w - u
    BY <2>1, <2>3, <2>4, DivisionIsUnique
  <2>6. w \in 0..T - 1 /\ x + w - u < len
    BY <2>1, <2>2
  <2>7. (x + w - y) % W < len
    BY <2>5, <2>6
  <2> QED BY <2>6, <2>7
<1>2. ASSUME NEW shift \in {-W, 0, W}, y + shift < x + T, x < y + shift + len
      PROVE  \E w \in 0..T - 1 : (x + w - y) % W < len
  <2>1. -1 * W = -W /\ 0 * W = 0 /\ 1 * W = W
    OBVIOUS
  <2> QED BY <1>1, <1>2, <2>1
<1>3. ASSUME NEW w \in 0..T - 1, (x + w - y) % W < len
      PROVE  \E shift \in {-W, 0, W} : y + shift < x + T /\ x < y + shift + len
  <2> DEFINE a == x + w - y  d == a \div W  m == a % W
  <2>1. a \in Int /\ -W < a /\ a < W
    OBVIOUS
  <2>2. d \in Int /\ m \in 0..W - 1 /\ a = d * W + m
    BY <2>1, Division
  <2>3. m < len /\ a = x + w - y
    BY <1>3
  <2> HIDE DEF a, d, m
  <2>4. d * W \in Int /\ d * W < W /\ -W < d * W + W
    BY <2>1, <2>2
  <2>5. ~(1 <= d) /\ ~(d <= -2)
    <3>1. 1 * W = W /\ (-1) * W = -W
      OBVIOUS
    <3>2. 1 < d => 1 * W + W <= d * W
      BY <2>2, NextMultiple
    <3>3. d < -1 => d * W + W <= (-1) * W
      BY <2>2, NextMultiple
    <3>4. d = 1 => d * W = W
      BY <3>1
    <3> QED BY <2>2, <2>4, <3>1, <3>2, <3>3, <3>4
  <2>6. d = 0 \/ d = -1
    BY <2>2, <2>5
  <2>7. d * W \in {-W, 0}
    BY <2>6
  <2>8. y + d * W < x + T /\ x < y + d * W + len
    BY <2>2, <2>3, <2>4
  <2> QED BY <2>7, <2>8
<1> QED BY <1>2, <1>3

\* An hour begins and ends within the week.
LEMMA HoursOfAWeek ==
  ASSUME NEW k \in Keys
  PROVE  StartOf(k) \in Nat /\ StartOf(k) + Ticks <= Week
<1>1. k.day \in 0..Days - 1 /\ k.hour \in 0..Hours - 1
  BY DEF Keys
<1> DEFINE a == k.day * Hours + k.hour
<1>2. a \in Nat /\ a < Days * Hours
  <2>1. k.day * Hours \in Nat /\ k.day * Hours + Hours <= Days * Hours
    BY <1>1, Sizes, NextMultiple
  <2>2. Days * Hours \in Nat /\ Hours \in Nat
    BY Sizes
  <2> QED BY <1>1, <2>1, <2>2
<1>3. StartOf(k) = a * Ticks
  BY DEF StartOf
<1> HIDE DEF a
<1>4. a * Ticks \in Nat /\ a * Ticks + Ticks <= (Days * Hours) * Ticks
  BY <1>2, Sizes, NextMultiple
<1> QED BY <1>3, <1>4 DEF Week

\* A rule begins within the week and lasts no longer than one.
LEMMA RulesOfAWeek ==
  ASSUME NEW s \in Sites, NEW r \in Opening[s]
  PROVE  /\ r.day * Hours * Ticks + r.opens \in 0..Week - 1
         /\ Closing(r) - r.opens \in 1..Week
         /\ r.day * Hours * Ticks \in Nat /\ r.opens \in Nat /\ Closing(r) \in Nat
<1> DEFINE D == Hours * Ticks
<1>1. /\ r.day \in 0..Days - 1 /\ r.opens \in 0..D - 1 /\ r.closes \in 0..D - 1
      /\ D \in Nat \ {0} /\ Week = Days * D /\ Days \in Nat \ {0} /\ Week \in Nat
  <2>1. r \in [day : 0..Days - 1, opens : 0..D - 1, closes : 0..D - 1]
    BY ProfilesAssumption DEF ProfilesAssumption
  <2> QED BY <2>1, Sizes
<1>2. r.day * Hours * Ticks = r.day * D
  BY <1>1, Sizes
<1>3. Closing(r) = IF r.closes <= r.opens THEN r.closes + D ELSE r.closes
  BY DEF Closing
<1> HIDE DEF D
<1>4. r.day * D \in Nat /\ r.day * D + D <= Week
  BY <1>1, NextMultiple
<1>5. D <= Week
  BY <1>1, <1>4
<1> QED BY <1>1, <1>2, <1>3, <1>4, <1>5

\* A rule that meets an hour has the site open in a tick of it.
LEMMA OpenInTheHour ==
  ASSUME NEW s \in Sites, NEW k \in Keys
  PROVE  OpenForHour(s, k) <=> \E w \in 0..Ticks - 1 : OpenAt(s, StartOf(k) + w)
<1>1. Ticks \in Nat \ {0} /\ Week \in Nat \ {0} /\ 0 \in 0..Ticks - 1
  BY Sizes
<1>2. CASE Opening[s] = {}
  BY <1>1, <1>2 DEF OpenForHour, OpenAt
<1>3. CASE Opening[s] # {}
  <2> DEFINE x == StartOf(k)
  <2>1. x \in Nat /\ x + Ticks <= Week
    BY HoursOfAWeek
  <2>2. ASSUME NEW r \in Opening[s]
        PROVE  (\E shift \in Shifts : LET base == r.day * Hours * Ticks + shift IN
                                      base + r.opens < x + Ticks /\ x < base + Closing(r))
                 <=> \E w \in 0..Ticks - 1 :
                       ((x + w) - r.day * Hours * Ticks - r.opens) % Week < Closing(r) - r.opens
    <3> DEFINE b == r.day * Hours * Ticks  o == r.opens  c == Closing(r)
    <3>1. b + o \in 0..Week - 1 /\ c - o \in 1..Week /\ b \in Nat /\ o \in Nat /\ c \in Nat
      BY RulesOfAWeek
    <3> HIDE DEF b, o, c, x
    <3>2. (\E shift \in {-Week, 0, Week} : (b + o) + shift < x + Ticks /\ x < (b + o) + shift + (c - o))
            <=> \E w \in 0..Ticks - 1 : (x + w - (b + o)) % Week < c - o
      BY <1>1, <2>1, <3>1, RoundTheWeek
    <3>3. ASSUME NEW shift \in {-Week, 0, Week}
          PROVE  /\ (b + shift) + o < x + Ticks <=> (b + o) + shift < x + Ticks
                 /\ x < (b + shift) + c <=> x < (b + o) + shift + (c - o)
      BY <1>1, <2>1, <3>1
    <3>4. ASSUME NEW w \in 0..Ticks - 1
          PROVE  (x + w) - b - o = x + w - (b + o)
      BY <1>1, <2>1, <3>1
    <3>5. (\E shift \in {-Week, 0, Week} : (b + shift) + o < x + Ticks /\ x < (b + shift) + c)
            <=> \E w \in 0..Ticks - 1 : ((x + w) - b - o) % Week < c - o
      BY <3>2, <3>3, <3>4
    <3> QED BY <3>5 DEF b, o, c, Shifts
  <2> HIDE DEF x
  <2>3. OpenForHour(s, k) <=>
          \E r \in Opening[s] : \E shift \in Shifts : LET base == r.day * Hours * Ticks + shift IN
            base + r.opens < x + Ticks /\ x < base + Closing(r)
    BY <1>3 DEF OpenForHour, x
  <2> DEFINE Meets(r, v) == (v - r.day * Hours * Ticks - r.opens) % Week < Closing(r) - r.opens
  <2>4. \A v : OpenAt(s, v) <=> \E r \in Opening[s] : Meets(r, v)
    BY <1>3 DEF OpenAt
  <2>5. ASSUME NEW r \in Opening[s]
        PROVE  (\E shift \in Shifts : LET base == r.day * Hours * Ticks + shift IN
                                      base + r.opens < x + Ticks /\ x < base + Closing(r))
                 <=> \E w \in 0..Ticks - 1 : Meets(r, x + w)
    BY <2>2
  <2> HIDE DEF Meets
  <2>6. \A w \in 0..Ticks - 1 : OpenAt(s, x + w) <=> \E r \in Opening[s] : Meets(r, x + w)
    BY <2>4
  <2> QED BY <2>3, <2>5, <2>6 DEF x
<1> QED BY <1>2, <1>3
-----------------------------------------------------------------------------
(* Orders.                                                                 *)

\* Comparing two fractions with a third one between them.
LEMMA Between ==
  ASSUME NEW a \in Nat, NEW b \in Nat, NEW c \in Nat,
         NEW l \in Nat \ {0}, NEW m \in Nat \ {0}, NEW n \in Nat \ {0},
         a * m <= b * l, b * n <= c * m
  PROVE  a * n <= c * l /\ (c * l <= a * n => b * l <= a * m /\ c * m <= b * n)
<1>1. \A x, y \in Nat, z \in Nat \ {0} : (x <= y => x * z <= y * z) /\ (x * z <= y * z => x <= y)
  <2>1. ASSUME NEW x \in Nat, NEW y \in Nat, NEW z \in Nat \ {0}, x <= y
        PROVE  x * z <= y * z
    <3>1. x = y => x * z = y * z
      OBVIOUS
    <3>2. x * z \in Int /\ y * z \in Int
      OBVIOUS
    <3>3. x < y => x * z + z <= y * z
      BY NextMultiple
    <3> QED BY <2>1, <3>1, <3>2, <3>3
  <2>2. ASSUME NEW x \in Nat, NEW y \in Nat, NEW z \in Nat \ {0}, x * z <= y * z
        PROVE  x <= y
    <3>1. y < x => y * z + z <= x * z
      BY NextMultiple
    <3>2. x * z \in Int /\ y * z \in Int
      OBVIOUS
    <3> QED BY <2>2, <3>1, <3>2
  <2> QED BY <2>1, <2>2
<1>2. /\ a * m \in Nat /\ b * l \in Nat /\ b * n \in Nat /\ c * m \in Nat
      /\ a * n \in Nat /\ c * l \in Nat
  OBVIOUS
<1> DEFINE p == a * m  q == b * l  u == b * n  v == c * m  g == a * n  h == c * l
<1>3. /\ p * n = g * m /\ q * n = u * l /\ v * l = h * m
  OBVIOUS
<1> HIDE DEF p, q, u, v, g, h
<1>4. /\ p \in Nat /\ q \in Nat /\ u \in Nat /\ v \in Nat /\ g \in Nat /\ h \in Nat
      /\ p <= q /\ u <= v
  BY <1>2 DEF p, q, u, v, g, h
<1>5. p * n <= q * n /\ u * l <= v * l
  BY <1>1, <1>4
<1>6. /\ p * n \in Nat /\ q * n \in Nat /\ u * l \in Nat /\ v * l \in Nat
      /\ g * m \in Nat /\ h * m \in Nat
  BY <1>4
<1>7. g <= h
  <2>1. g * m <= h * m
    BY <1>3, <1>5, <1>6
  <2> QED BY <1>1, <1>4, <2>1
<1>8. ASSUME h <= g PROVE q <= p /\ v <= u
  <2>1. h * m <= g * m
    BY <1>1, <1>4, <1>8
  <2>2. q * n <= p * n /\ v * l <= u * l
    BY <1>3, <1>5, <1>6, <2>1
  <2> QED BY <1>1, <1>4, <2>2
<1> QED BY <1>7, <1>8 DEF p, q, u, v, g, h

\* R is a strict total order on E.
StrictOrder(E, R) ==
  /\ \A c \in E : <<c, c>> \notin R
  /\ \A c, d \in E : c # d => <<c, d>> \in R \/ <<d, c>> \in R
  /\ \A c, d, e \in E : <<c, d>> \in R /\ <<d, e>> \in R => <<c, e>> \in R

\* s lists E in the order R.
Lists(s, E, R) ==
  /\ s \in [1..Cardinality(E) -> E]
  /\ \A i, j \in 1..Cardinality(E) : i < j => <<s[i], s[j]>> \in R

\* What comes before e.
Before(e, E, R) == {d \in E : <<d, e>> \in R}

\* A finite set can be listed in any strict order.
LEMMA ListExists ==
  ASSUME NEW E, IsFiniteSet(E), NEW R, StrictOrder(E, R)
  PROVE  \E s : Lists(s, E, R)
<1> DEFINE n == Cardinality(E)
           rank == [e \in E |-> Cardinality(Before(e, E, R)) + 1]
<1>1. n \in Nat /\ IsFiniteSet(1..n) /\ Cardinality(1..n) = n
  <2>1. n \in Nat
    BY FS_CardinalityType
  <2> HIDE DEF n
  <2> QED BY <2>1, FS_Interval
<1>2. ASSUME NEW e \in E
      PROVE  /\ IsFiniteSet(Before(e, E, R)) /\ Cardinality(Before(e, E, R)) \in 0..n - 1
             /\ rank[e] = Cardinality(Before(e, E, R)) + 1
  <2>1. Before(e, E, R) \subseteq E \ {e}
    BY DEF Before, StrictOrder
  <2>2. IsFiniteSet(E \ {e}) /\ Cardinality(E \ {e}) = n - 1
    BY FS_RemoveElement
  <2>3. /\ IsFiniteSet(Before(e, E, R)) /\ Cardinality(Before(e, E, R)) <= n - 1
        /\ Cardinality(Before(e, E, R)) \in Nat
    BY <2>1, <2>2, FS_Subset, FS_CardinalityType
  <2> HIDE DEF n
  <2> QED BY <1>1, <2>3
<1>3. rank \in [E -> 1..n]
  <2>1. \A e \in E : Cardinality(Before(e, E, R)) + 1 \in 1..n
    <3> HIDE DEF n
    <3> QED BY <1>1, <1>2
  <2> QED BY <2>1
<1> HIDE DEF rank
<1>4. ASSUME NEW d \in E, NEW e \in E, <<d, e>> \in R PROVE rank[d] < rank[e]
  <2> DEFINE B == Before(d, E, R)  C == Before(e, E, R)
  <2>1. B \cup {d} \subseteq C /\ d \notin B
    BY <1>4 DEF Before, StrictOrder
  <2>2. /\ IsFiniteSet(B) /\ IsFiniteSet(C) /\ Cardinality(B) \in Nat /\ Cardinality(C) \in Nat
        /\ rank[d] = Cardinality(B) + 1 /\ rank[e] = Cardinality(C) + 1
    BY <1>1, <1>2
  <2> HIDE DEF B, C
  <2>3. Cardinality(B \cup {d}) = Cardinality(B) + 1
    BY <2>1, <2>2, FS_AddElement
  <2>4. Cardinality(B \cup {d}) <= Cardinality(C)
    BY <2>1, <2>2, FS_Subset
  <2> QED BY <2>2, <2>3, <2>4
<1>5. \A d, e \in E : d # e => rank[d] < rank[e] \/ rank[e] < rank[d]
  BY <1>4 DEF StrictOrder
<1>6. \A e \in E : rank[e] \in Int
  BY <1>1, <1>3
<1>7. rank \in Injection(E, 1..n)
  <2>1. \A d, e \in E : rank[d] = rank[e] => d = e
    BY <1>5, <1>6
  <2> QED BY <1>3, <2>1 DEF Injection, IsInjective
<1>8. \A i \in 1..n : \E e \in E : rank[e] = i
  <2>1. rank \in Surjection(E, 1..n)
    BY <1>1, <1>7, FS_Injection
  <2> QED BY <2>1 DEF Surjection
<1> DEFINE s == [i \in 1..n |-> CHOOSE e \in E : rank[e] = i]
<1>9. \A i \in 1..n : s[i] \in E /\ rank[s[i]] = i
  BY <1>8
<1>10. s \in [1..n -> E]
  BY <1>8
<1>11. \A i, j \in 1..n : i < j => <<s[i], s[j]>> \in R
  <2> HIDE DEF s
  <2>1. ASSUME NEW i \in 1..n, NEW j \in 1..n, i < j PROVE <<s[i], s[j]>> \in R
    <3>1. i \in Int /\ j \in Int
      BY <1>1
    <3>2. s[i] # s[j] /\ ~(rank[s[j]] < rank[s[i]])
      BY <1>9, <2>1, <3>1
    <3>3. <<s[j], s[i]>> \notin R
      BY <1>4, <1>9, <3>2
    <3> QED BY <1>9, <3>2, <3>3 DEF StrictOrder
  <2> QED BY <2>1
<1> QED BY <1>10, <1>11 DEF Lists

\* In a list every element follows exactly the ones before it in the order.
LEMMA ListPlaces ==
  ASSUME NEW E, IsFiniteSet(E), NEW R, StrictOrder(E, R), NEW s, Lists(s, E, R)
  PROVE  /\ \A e \in E : \E i \in 1..Cardinality(E) : s[i] = e
         /\ \A i \in 1..Cardinality(E) : Cardinality(Before(s[i], E, R)) = i - 1
<1> DEFINE n == Cardinality(E)
<1>1. n \in Nat /\ IsFiniteSet(1..n) /\ Cardinality(1..n) = n
  <2>1. n \in Nat
    BY FS_CardinalityType
  <2> HIDE DEF n
  <2> QED BY <2>1, FS_Interval
<1>2. s \in [1..n -> E] /\ \A i, j \in 1..n : i < j => <<s[i], s[j]>> \in R
  BY DEF Lists
<1> HIDE DEF n
<1>3. \A i, j \in 1..n : s[i] = s[j] => i = j
  <2>1. \A i, j \in 1..n : s[i] = s[j] => ~(i < j)
    BY <1>2 DEF StrictOrder
  <2> QED BY <1>1, <2>1
<1>4. \A e \in E : \E i \in 1..n : s[i] = e
  <2>1. s \in Injection(1..n, E)
    BY <1>2, <1>3 DEF Injection, IsInjective
  <2>2. s \in Surjection(1..n, E)
    BY <1>1, <2>1, FS_Injection DEF n
  <2> QED BY <2>2 DEF Surjection
<1>5. ASSUME NEW i \in 1..n PROVE Cardinality(Before(s[i], E, R)) = i - 1
  <2>1. i \in Nat /\ 1..i - 1 \subseteq 1..n
    BY <1>1
  <2>2. Before(s[i], E, R) = {s[j] : j \in 1..i - 1}
    <3>1. ASSUME NEW j \in 1..i - 1 PROVE s[j] \in Before(s[i], E, R)
      <4>1. j \in 1..n /\ j < i
        BY <1>1, <2>1
      <4> QED BY <1>2, <4>1 DEF Before
    <3>2. ASSUME NEW d \in Before(s[i], E, R) PROVE \E j \in 1..i - 1 : d = s[j]
      <4>1. d \in E /\ <<d, s[i]>> \in R
        BY DEF Before
      <4>2. PICK j \in 1..n : d = s[j]
        BY <1>4, <4>1
      <4>3. j # i /\ ~(i < j)
        <5>1. <<s[i], s[i]>> \notin R /\ s[i] \in E /\ s[j] \in E
          BY <1>2 DEF StrictOrder
        <5>2. <<s[i], d>> \notin R
          BY <4>1, <5>1 DEF StrictOrder
        <5> QED BY <1>2, <4>1, <4>2, <5>1, <5>2
      <4> QED BY <1>1, <2>1, <4>2, <4>3
    <3> QED BY <3>1, <3>2
  <2> DEFINE T == {s[j] : j \in 1..i - 1}  f == [j \in 1..i - 1 |-> s[j]]
  <2>3. f \in Surjection(1..i - 1, T)
    BY DEF Surjection
  <2>4. f \in Injection(1..i - 1, T)
    <3>1. \A j, k \in 1..i - 1 : f[j] = f[k] => j = k
      BY <1>3, <2>1
    <3>2. f \in [1..i - 1 -> T]
      OBVIOUS
    <3> HIDE DEF f
    <3> QED BY <3>1, <3>2 DEF Injection, IsInjective
  <2>5. IsFiniteSet(1..i - 1) /\ Cardinality(1..i - 1) = i - 1
    BY <2>1, FS_Interval
  <2> HIDE DEF f, T
  <2>6. Cardinality(T) = Cardinality(1..i - 1)
    BY <2>3, <2>4, <2>5, FS_Surjection
  <2> QED BY <2>2, <2>5, <2>6 DEF T
<1> QED BY <1>4, <1>5 DEF n

\* A page shows the elements whose predecessors fill the pages before.
LEMMA PageOfAList ==
  ASSUME NEW E, IsFiniteSet(E), NEW R, StrictOrder(E, R), NEW s, Lists(s, E, R),
         NEW offset \in Nat, NEW limit \in Nat \ {0}
  PROVE  ToSet(Page(s, offset, limit)) =
           {e \in E : Cardinality(Before(e, E, R)) \in offset..offset + limit - 1}
<1> DEFINE n == Cardinality(E)  top == Min({offset + limit, Len(s)})
<1>1. n \in Nat
  BY FS_CardinalityType
<1>2. s \in [1..n -> E]
  BY DEF Lists
<1>3. /\ \A e \in E : \E i \in 1..n : s[i] = e
      /\ \A i \in 1..n : Cardinality(Before(s[i], E, R)) = i - 1
  BY ListPlaces
<1> HIDE DEF n
<1>4. Len(s) = n
  BY <1>1, <1>2
<1>5. top = IF offset + limit <= n THEN offset + limit ELSE n
  <2> DEFINE a == offset + limit  m == IF a <= n THEN a ELSE n
  <2>1. a \in Nat
    OBVIOUS
  <2> HIDE DEF a
  <2>2. m \in {a, n} /\ \A x \in {a, n} : m <= x
    BY <1>1, <2>1
  <2>3. Min({a, n}) \in {a, n} /\ \A x \in {a, n} : Min({a, n}) <= x
    BY <2>2 DEF Min
  <2> DEFINE v == Min({a, n})
  <2>4. v \in {a, n} /\ v <= a /\ v <= n
    BY <2>3
  <2> HIDE DEF v
  <2>5. v = m
    BY <1>1, <2>1, <2>4
  <2> QED BY <1>4, <2>5 DEF a, v
<1> HIDE DEF top
<1>6. top \in Nat /\ top <= n /\ offset + 1 \in Int /\ top \in Int
  BY <1>1, <1>5
<1> DEFINE p == SubSeq(s, offset + 1, top)
<1>7. /\ p \in Seq(E) /\ Len(p) = IF offset + 1 <= top THEN top - (offset + 1) + 1 ELSE 0
      /\ \A i \in 1..top - (offset + 1) + 1 : p[i] = s[offset + 1 + i - 1]
  <2>1. \A i \in offset + 1..top : s[i] \in E
    BY <1>1, <1>2, <1>6
  <2> DEFINE m == offset + 1
  <2>2. m \in Int /\ \A i \in m..top : s[i] \in E
    BY <2>1
  <2> HIDE DEF m
  <2>3. /\ SubSeq(s, m, top) \in Seq(E)
        /\ Len(SubSeq(s, m, top)) = IF m <= top THEN top - m + 1 ELSE 0
        /\ \A i \in 1..top - m + 1 : SubSeq(s, m, top)[i] = s[m + i - 1]
    BY <1>6, <2>2, SubSeqProperties
  <2> QED BY <2>3 DEF m
<1> HIDE DEF p
<1>8. DOMAIN p = 1..Len(p)
  BY <1>7
<1>9. ToSet(p) = {s[i] : i \in offset + 1..top}
  <2>1. ASSUME NEW i \in DOMAIN p PROVE \E j \in offset + 1..top : p[i] = s[j]
    <3>1. i \in 1..top - (offset + 1) + 1 /\ offset + 1 <= top
      BY <1>6, <1>7, <1>8
    <3>2. p[i] = s[offset + 1 + i - 1] /\ offset + 1 + i - 1 \in offset + 1..top
      BY <1>6, <1>7, <3>1
    <3> QED BY <3>2
  <2>2. ASSUME NEW j \in offset + 1..top PROVE \E i \in DOMAIN p : p[i] = s[j]
    <3>1. j \in Int /\ offset + 1 <= top
      BY <1>6
    <3>2. j - offset \in 1..top - (offset + 1) + 1 /\ offset + 1 + (j - offset) - 1 = j
      BY <1>6, <3>1
    <3>3. j - offset \in DOMAIN p
      BY <1>6, <1>7, <1>8, <3>1, <3>2
    <3> QED BY <1>7, <3>2, <3>3
  <2> QED BY <2>1, <2>2 DEF ToSet
<1>10. \A i \in 1..n : i \in offset + 1..top <=> i - 1 \in offset..offset + limit - 1
  BY <1>1, <1>5
<1>11. offset + 1..top \subseteq 1..n
  BY <1>1, <1>6
<1>12. ToSet(p) = {e \in E : Cardinality(Before(e, E, R)) \in offset..offset + limit - 1}
  <2>1. ASSUME NEW i \in offset + 1..top
        PROVE  s[i] \in E /\ Cardinality(Before(s[i], E, R)) \in offset..offset + limit - 1
    <3>1. i \in 1..n
      BY <1>11
    <3> QED BY <1>2, <1>3, <1>10, <3>1
  <2>2. ASSUME NEW e \in E, Cardinality(Before(e, E, R)) \in offset..offset + limit - 1
        PROVE  \E i \in offset + 1..top : s[i] = e
    <3>1. PICK i \in 1..n : s[i] = e
      BY <1>3
    <3> QED BY <1>3, <1>10, <2>2, <3>1
  <2> QED BY <1>9, <2>1, <2>2
<1> QED BY <1>12 DEF Page, p, top
-----------------------------------------------------------------------------
(* Recommendations.                                                        *)

\* Whatever a driver asks for is an hour of the week.
LEMMA KeyAsked ==
  ASSUME NEW z \in Zones, NEW time \in Times
  PROVE  In(z, time) \in Keys
<1>1. CASE time \in [key : Keys]
  <2>1. "key" \in DOMAIN time /\ time.key \in Keys
    BY <1>1
  <2> QED BY <2>1 DEF In
<1>2. CASE time \in [at : Instants]
  <2>1. "key" \notin DOMAIN time /\ time.at \in Instants
    BY <1>2
  <2>2. Key(z, time.at) \in Keys
    BY <2>1, KeyOfAnInstant
  <2> QED BY <2>1, <2>2 DEF In
<1> QED BY <1>1, <1>2 DEF Times

\* The connectors that may be recommended, and the order among them.
Choice(available, time) == {c \in Connectors : Eligible(c, available, time)}

Preferred(available, time) ==
  {pair \in Choice(available, time) \X Choice(available, time) : Prefers(pair[1], pair[2], time)}

\* A connector that may be recommended has a rate.
LEMMA RatesKnown ==
  ASSUME ProfilesKnown, NEW available, NEW time \in Times, NEW c \in Choice(available, time)
  PROVE  RateOf(c, time).sum \in Nat /\ RateOf(c, time).n \in Nat \ {0} /\ c \in Nat
<1>1. c \in Connectors /\ profile[c] # NoProfile
  BY DEF Choice, Eligible
<1> DEFINE p == profile[c]
<1>2. AcceptedProfile(p)
  BY <1>1 DEF ProfilesKnown
<1>3. p.zone \in Zones
  BY <1>2 DEF AcceptedProfile
<1> DEFINE k == In(p.zone, time)
<1>4. k \in Keys
  BY <1>3, KeyAsked
<1>5. RateOf(c, time) = (CHOOSE b \in p.buckets : b.key = k).rate
  BY DEF RateOf, Resolved
<1> HIDE DEF p, k
<1>6. PICK x \in p.buckets : x.key = k /\ ValidBucket(x)
  BY <1>2, <1>4, OneBucketPerHour
<1>7. /\ (CHOOSE b \in p.buckets : b.key = k) \in p.buckets
      /\ (CHOOSE b \in p.buckets : b.key = k).key = k
  BY <1>6
<1>8. ValidBucket(CHOOSE b \in p.buckets : b.key = k)
  <2>1. \A b \in p.buckets : b.key = k => ValidBucket(b)
    <3>1. PICK y \in p.buckets : ValidBucket(y) /\ {b \in p.buckets : b.key = k} = {y}
      BY <1>2, <1>4, OneBucketPerHour
    <3> QED BY <3>1
  <2> QED BY <1>7, <2>1
<1>9. RateOf(c, time).n \in Nat \ {0} /\ RateOf(c, time).sum \in 0..Full * RateOf(c, time).n
  BY <1>5, <1>8 DEF ValidBucket
<1>10. Full * RateOf(c, time).n \in Nat
  BY <1>9, Sizes
<1> QED BY <1>1, <1>9, <1>10, ProfilesAssumption DEF ProfilesAssumption

\* Preference is a strict order on the connectors that may be recommended.
LEMMA PreferredIsAnOrder ==
  ASSUME ProfilesKnown, NEW available, NEW time \in Times
  PROVE  StrictOrder(Choice(available, time), Preferred(available, time))
<1> DEFINE E == Choice(available, time)  a(c) == RateOf(c, time).sum  m(c) == RateOf(c, time).n
<1>1. \A c \in E : a(c) \in Nat /\ m(c) \in Nat \ {0} /\ c \in Nat
  BY RatesKnown
<1>2. \A c, d \in E : Prefers(c, d, time) <=>
        a(c) * m(d) < a(d) * m(c) \/ (~(a(d) * m(c) < a(c) * m(d)) /\ c < d)
  BY DEF Prefers, Less
<1>3. \A c, d \in E : <<c, d>> \in Preferred(available, time) <=> Prefers(c, d, time)
  BY DEF Preferred
<1> HIDE DEF E, a, m
<1>4. \A c, d \in E : a(c) * m(d) \in Nat
  BY <1>1
<1>5. \A c \in E : ~Prefers(c, c, time)
  BY <1>1, <1>2, <1>4
<1>6. \A c, d \in E : c # d => Prefers(c, d, time) \/ Prefers(d, c, time)
  BY <1>1, <1>2, <1>4
<1>7. ASSUME NEW c \in E, NEW d \in E, NEW e \in E, Prefers(c, d, time), Prefers(d, e, time)
      PROVE  Prefers(c, e, time)
  <2>1. /\ a(c) \in Nat /\ a(d) \in Nat /\ a(e) \in Nat
        /\ m(c) \in Nat \ {0} /\ m(d) \in Nat \ {0} /\ m(e) \in Nat \ {0}
        /\ c \in Nat /\ d \in Nat /\ e \in Nat
    BY <1>1
  <2>2. /\ a(c) * m(d) \in Nat /\ a(d) * m(c) \in Nat /\ a(d) * m(e) \in Nat
        /\ a(e) * m(d) \in Nat /\ a(c) * m(e) \in Nat /\ a(e) * m(c) \in Nat
    BY <1>4
  <2>3. a(c) * m(d) <= a(d) * m(c) /\ (a(c) * m(d) < a(d) * m(c) \/ c < d)
    BY <1>2, <1>7, <2>2
  <2>4. a(d) * m(e) <= a(e) * m(d) /\ (a(d) * m(e) < a(e) * m(d) \/ d < e)
    BY <1>2, <1>7, <2>2
  <2>5. /\ a(c) * m(e) <= a(e) * m(c)
        /\ a(e) * m(c) <= a(c) * m(e) =>
             a(d) * m(c) <= a(c) * m(d) /\ a(e) * m(d) <= a(d) * m(e)
    BY <2>1, <2>3, <2>4, Between
  <2>6. a(c) * m(e) < a(e) * m(c) \/ c < e
    BY <2>1, <2>2, <2>3, <2>4, <2>5
  <2> QED BY <1>2, <2>2, <2>5, <2>6
<1>8. StrictOrder(E, Preferred(available, time))
  BY <1>3, <1>5, <1>6, <1>7 DEF StrictOrder
<1> QED BY <1>8 DEF E

\* The ranking lists the choice in the order of preference.
LEMMA RankingLists ==
  ASSUME ProfilesKnown, NEW available, NEW time \in Times
  PROVE  /\ IsFiniteSet(Choice(available, time))
         /\ Lists(Ranking(available, time), Choice(available, time), Preferred(available, time))
<1> DEFINE E == Choice(available, time)  R == Preferred(available, time)
           Good(s) == \A i, j \in 1..Cardinality(E) : i < j => Prefers(s[i], s[j], time)
<1>1. IsFiniteSet(E)
  <2>1. E \subseteq Connectors /\ IsFiniteSet(Connectors)
    BY ProfilesAssumption DEF Choice, ProfilesAssumption
  <2> QED BY <2>1, FS_Subset
<1>2. StrictOrder(E, R)
  BY PreferredIsAnOrder
<1>3. \A s \in [1..Cardinality(E) -> E] : Good(s) <=> Lists(s, E, R)
  BY DEF Lists, Preferred
<1>4. Ranking(available, time) = CHOOSE s \in [1..Cardinality(E) -> E] : Good(s)
  BY DEF Ranking, Choice
<1> HIDE DEF E, R, Good
<1>5. PICK s : Lists(s, E, R)
  BY <1>1, <1>2, ListExists
<1>6. s \in [1..Cardinality(E) -> E] /\ Good(s)
  BY <1>3, <1>5 DEF Lists
<1>7. Ranking(available, time) \in [1..Cardinality(E) -> E] /\ Good(Ranking(available, time))
  BY <1>4, <1>6
<1>8. Lists(Ranking(available, time), E, R)
  BY <1>3, <1>7
<1> QED BY <1>1, <1>8 DEF E, R

\* Recommendations are right whenever the invariant holds.
LEMMA KnownRecommendations ==
  ASSUME ProfilesKnown
  PROVE  RecommendationsAreRight
<1>1. SUFFICES ASSUME NEW available \in SUBSET {c \in Connectors : profile[c] # NoProfile},
                      NEW time \in Times
               PROVE  PagesAreRight(available, time)
  BY DEF RecommendationsAreRight
<1> DEFINE E == Choice(available, time)  R == Preferred(available, time)
           ranking == Ranking(available, time)
           open(c) == \E w \in 0..Ticks - 1 : OpenAt(Site[c], StartOf(In(zone[Site[c]], time)) + w)
           choice == {c \in available : IF profile[c].zone = zone[Site[c]] THEN open(c)
                                       ELSE Eligible(c, available, time)}
           better(c) == {d \in choice : d # c /\ Prefers(d, c, time)}
<1>2. ASSUME NEW c \in available, profile[c].zone = zone[Site[c]]
      PROVE  open(c) <=> Eligible(c, available, time)
  <2>1. c \in Connectors /\ profile[c] # NoProfile /\ Site[c] \in Sites
    BY ProfilesAssumption DEF ProfilesAssumption
  <2>2. zone[Site[c]] \in Zones
    BY <2>1 DEF ProfilesKnown
  <2> DEFINE k == In(zone[Site[c]], time)
  <2>3. k \in Keys
    BY <2>2, KeyAsked
  <2>4. Eligible(c, available, time) <=> OpenForHour(Site[c], k)
    BY <1>2, <2>1 DEF Eligible, Resolved
  <2>5. open(c) <=> \E w \in 0..Ticks - 1 : OpenAt(Site[c], StartOf(k) + w)
    OBVIOUS
  <2> HIDE DEF k, open
  <2>6. OpenForHour(Site[c], k) <=> \E w \in 0..Ticks - 1 : OpenAt(Site[c], StartOf(k) + w)
    BY <2>1, <2>3, OpenInTheHour
  <2> QED BY <2>4, <2>5, <2>6
<1>3. choice = E
  <2>1. E \subseteq available /\ available \subseteq Connectors
    BY DEF Choice, Eligible
  <2> HIDE DEF open
  <2> QED BY <1>2, <2>1 DEF Choice
<1>4. IsFiniteSet(E) /\ StrictOrder(E, R) /\ Lists(ranking, E, R)
  BY PreferredIsAnOrder, RankingLists
<1>5. \A c \in E : better(c) = Before(c, E, R)
  <2>1. \A c, d \in E : <<d, c>> \in R <=> Prefers(d, c, time)
    BY DEF Preferred
  <2>2. \A c \in E : <<c, c>> \notin R
    BY <1>4 DEF StrictOrder
  <2> HIDE DEF E, R, choice
  <2> QED BY <1>3, <2>1, <2>2 DEF Before
<1>6. ASSUME NEW offset \in 0..Cardinality(Connectors) - 1, NEW limit \in 1..Cardinality(Connectors)
      PROVE  ToSet(Page(ranking, offset, limit)) =
               {c \in choice : Cardinality(better(c)) \in offset..offset + limit - 1}
  <2>1. offset \in Nat /\ limit \in Nat \ {0}
    OBVIOUS
  <2> HIDE DEF E, R, ranking, choice, better
  <2>2. ToSet(Page(ranking, offset, limit)) =
          {c \in E : Cardinality(Before(c, E, R)) \in offset..offset + limit - 1}
    BY <1>4, <2>1, PageOfAList
  <2>3. \A c \in E : Cardinality(better(c)) = Cardinality(Before(c, E, R))
    BY <1>5
  <2> QED BY <1>3, <2>2, <2>3
<1> QED BY <1>6 DEF PagesAreRight

-----------------------------------------------------------------------------
\* The invariant holds initially.
LEMMA ProfilesStartKnown ==
  ASSUME ProfilesInit
  PROVE  ProfilesKnown
BY ProfilesAssumption DEF ProfilesInit, ProfilesKnown, ProfilesAssumption

\* The invariant implies the property.
LEMMA KnownProfiles ==
  ASSUME ProfilesKnown
  PROVE  ProfilesInv
<1>1. BaselineKeepsContract /\ OneRatePerHour /\ RecommendationsAreRight
  BY KnownContract, KnownRates, KnownRecommendations
<1> QED BY <1>1 DEF ProfilesInv, ProfilesKnown

\* What the baseline writes keeps the backend's contract and its holdout apart from
\* its training rows, a current profile says one thing of every hour, and pages of
\* recommendations leave nothing out, repeat nothing and send nobody to a closed
\* site, for any lengths of a week, zones with any offsets, opening hours, files
\* and publications.
THEOREM ProfilesInvAlways == ProfilesSpec => []ProfilesInv
<1>1. ProfilesInit => ProfilesKnown
  BY ProfilesStartKnown
<1>2. ProfilesKnown /\ [ProfilesNext]_profVars => ProfilesKnown'
  BY ProfilesStayKnown
<1>3. ProfilesKnown => ProfilesInv
  BY KnownProfiles
<1> QED BY <1>1, <1>2, <1>3, PTL DEF ProfilesSpec
=============================================================================
