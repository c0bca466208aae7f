------------------------------ MODULE Predictions ------------------------------
(***************************************************************************)
(* Publication of weekly occupancy predictions, and the lookups of the     *)
(* current ones.  Publications of a scope are serialized by an advisory    *)
(* transaction lock; a lookup takes no lock and reads the current          *)
(* publication and its bucket in two statements.                           *)
(*                                                                         *)
(* A process is a request thread.  Whether a scope may be published or     *)
(* recommended (eligibility, time zone, provenance, opening hours) is the  *)
(* answer of other modules' tables and left open.                          *)
(***************************************************************************)
EXTENDS Integers, Sequences

CONSTANTS
  Procs,        (* request threads                                         *)
  Scopes,       (* canonical scopes                                        *)
  Identities,   (* pairs of a publisher and its external run               *)
  Contents,     (* canonical contents                                      *)
  Generated,    (* when each content was generated                         *)
  Requests,     (* publications that clients ask for, any number of times  *)
  None

Publication == [scope : Scopes, identity : Identities, content : Contents]

ASSUME PredictionAssumption ==
  /\ Generated \in [Contents -> Int]
  /\ Requests \subseteq Publication
  /\ None \notin Procs

VARIABLES
  publications,   (* committed publications, in the order of their commits *)
  current,        (* current reference of each scope: an index, or 0       *)
  lock,           (* holder of each scope's advisory lock                  *)
  pc,             (* step of each request                                  *)
  request,        (* publication a request is about, kept with its answer  *)
  becomes,        (* whether a publication has decided to become current   *)
  left,           (* scopes a lookup still has to read                     *)
  named,          (* publication a lookup has read for the scope at hand   *)
  items,          (* what a lookup has found                               *)
  answer          (* last answer of each thread                            *)

tables  == <<publications, current>>
reading == <<left, named, items>>
vars    == <<publications, current, lock, pc, request, becomes, left, named, items, answer>>

Found == [named : DOMAIN publications, rated : DOMAIN publications]

Answer == [outcome : {"none", "accepted", "replayed", "conflict", "refused", "failed", "listed"},
           id : DOMAIN publications \cup {0}, isCurrent : BOOLEAN]

\* Types, and the foreign key of the current reference: it leads to a
\* publication of its own scope.
TypeOK ==
  /\ publications \in Seq(Publication)
  /\ current \in [Scopes -> Nat]
  /\ \A s \in Scopes : current[s] # 0 =>
       current[s] \in DOMAIN publications /\ publications[current[s]].scope = s
  /\ lock \in [Scopes -> Procs \cup {None}]
  /\ pc \in [Procs -> {"idle", "resolve", "lock", "lookup", "select", "commit",
                       "candidates", "bucket"}]
  /\ request \in [Procs -> Publication \cup {None}]
  /\ becomes \in [Procs -> BOOLEAN]
  /\ left \in [Procs -> SUBSET Scopes]
  /\ named \in [Procs -> DOMAIN publications \cup {0}]
  /\ items \in [Procs -> SUBSET Found]
  /\ answer \in [Procs -> Answer]

Reply(outcome, id, isCurrent) == [outcome |-> outcome, id |-> id, isCurrent |-> isCurrent]

Init ==
  /\ publications = << >>
  /\ current = [s \in Scopes |-> 0]
  /\ lock = [s \in Scopes |-> None]
  /\ pc = [p \in Procs |-> "idle"]
  /\ request = [p \in Procs |-> None]
  /\ becomes = [p \in Procs |-> FALSE]
  /\ left = [p \in Procs |-> {}]
  /\ named = [p \in Procs |-> 0]
  /\ items = [p \in Procs |-> {}]
  /\ answer = [p \in Procs |-> Reply("none", 0, FALSE)]

Goto(p, l) == pc' = [pc EXCEPT ![p] = l]

\* The request ends, and with its transaction every lock it holds.
Finish(p, reply) ==
  /\ Goto(p, "idle")
  /\ answer' = [answer EXCEPT ![p] = reply]
  /\ lock' = [s \in Scopes |-> IF lock[s] = p THEN None ELSE lock[s]]
  /\ becomes' = [becomes EXCEPT ![p] = FALSE]
  /\ UNCHANGED <<request, reading>>

-----------------------------------------------------------------------------
(* Publication.                                                            *)

\* The publications of a scope by one run of a publisher.
Accepted(b) ==
  {i \in DOMAIN publications :
     publications[i].scope = b.scope /\ publications[i].identity = b.identity}

Identical(b) == {i \in Accepted(b) : publications[i].content = b.content}

\* The slip of letting the most recent of equals win.
NotEarlier(b) ==
  \/ current[b.scope] = 0
  \/ Generated[b.content] >= Generated[publications[current[b.scope]].content]

\* A publication becomes current if it is the first of its scope or was
\* generated strictly later than the current one.
Newer(b) ==
  \/ current[b.scope] = 0
  \/ Generated[b.content] > Generated[publications[current[b.scope]].content]

SetCurrent(b, i) == [current EXCEPT ![b.scope] = i]

Publish(p, b) ==
  /\ pc[p] = "idle"
  /\ Goto(p, "resolve")
  /\ request' = [request EXCEPT ![p] = b]
  /\ answer' = [answer EXCEPT ![p] = Reply("none", 0, FALSE)]
  /\ left' = [left EXCEPT ![p] = {}]
  /\ named' = [named EXCEPT ![p] = 0]
  /\ items' = [items EXCEPT ![p] = {}]
  /\ UNCHANGED <<tables, lock, becomes>>

\* The publisher, the scope, its time zone and the provenance are valid.
Admit(p) ==
  /\ pc[p] = "resolve"
  /\ Goto(p, "lock")
  /\ UNCHANGED <<tables, lock, request, becomes, reading, answer>>

Refuse(p) ==
  /\ pc[p] = "resolve"
  /\ Finish(p, Reply("refused", 0, FALSE))
  /\ UNCHANGED tables

LockScope(p) ==
  /\ pc[p] = "lock"
  /\ lock[request[p].scope] = None
  /\ lock' = [lock EXCEPT ![request[p].scope] = p]
  /\ Goto(p, "lookup")
  /\ UNCHANGED <<tables, request, becomes, reading, answer>>

\* The run has published this content here before: a repeated request.
Replay(p) ==
  /\ pc[p] = "lookup"
  /\ \E i \in Identical(request[p]) :
       Finish(p, Reply("replayed", i, current[request[p].scope] = i))
  /\ UNCHANGED tables

\* The run has published something else here before.
Conflict(p) ==
  /\ pc[p] = "lookup"
  /\ Accepted(request[p]) # {} /\ Identical(request[p]) = {}
  /\ Finish(p, Reply("conflict", 0, FALSE))
  /\ UNCHANGED tables

\* Publication and buckets are inserted, uncommitted.
Insert(p) ==
  /\ pc[p] = "lookup"
  /\ Accepted(request[p]) = {}
  /\ Goto(p, "select")
  /\ UNCHANGED <<tables, lock, request, becomes, reading, answer>>

\* The current reference is read FOR UPDATE and compared.
Select(p) ==
  /\ pc[p] = "select"
  /\ becomes' = [becomes EXCEPT ![p] = Newer(request[p])]
  /\ Goto(p, "commit")
  /\ UNCHANGED <<tables, lock, request, reading, answer>>

Commit(p) ==
  /\ pc[p] = "commit"
  /\ publications' = Append(publications, request[p])
  /\ current' = IF becomes[p] THEN SetCurrent(request[p], Len(publications')) ELSE current
  /\ Finish(p, Reply("accepted", Len(publications'), becomes[p]))

\* The database refuses or the server dies: the transaction is rolled back.
Fail(p) ==
  /\ pc[p] \in {"resolve", "lock", "lookup", "select", "commit", "candidates", "bucket"}
  /\ Finish(p, Reply("failed", 0, FALSE))
  /\ UNCHANGED tables

-----------------------------------------------------------------------------
(* Lookups: a point lookup reads one scope, and an empty list is its       *)
(* "not found"; a recommendation reads the scopes of its candidates.       *)

\* The slip of reading the bucket of any publication of the scope.
FirstOf(s) == CHOOSE i \in DOMAIN publications :
                /\ publications[i].scope = s
                /\ \A j \in DOMAIN publications : publications[j].scope = s => i <= j

CurrentOf(s) == current[s]

Ask(p, S) ==
  /\ pc[p] = "idle"
  /\ Goto(p, "candidates")
  /\ request' = [request EXCEPT ![p] = None]
  /\ answer' = [answer EXCEPT ![p] = Reply("none", 0, FALSE)]
  /\ left' = [left EXCEPT ![p] = S]
  /\ named' = [named EXCEPT ![p] = 0]
  /\ items' = [items EXCEPT ![p] = {}]
  /\ UNCHANGED <<tables, lock, becomes>>

\* A scope without a current publication is passed over.
ReadCurrent(p) ==
  /\ pc[p] = "candidates"
  /\ \E s \in left[p] :
       /\ left' = [left EXCEPT ![p] = @ \ {s}]
       /\ named' = [named EXCEPT ![p] = current[s]]
       /\ Goto(p, IF current[s] = 0 THEN "candidates" ELSE "bucket")
  /\ UNCHANGED <<tables, lock, request, becomes, items, answer>>

\* The hour has been resolved in the time zone of the publication named; its
\* rate comes from the publication that is current by now.
ReadBucket(p) ==
  /\ pc[p] = "bucket"
  /\ items' = [items EXCEPT ![p] =
                 @ \cup {[named |-> named[p],
                          rated |-> CurrentOf(publications[named[p]].scope)]}]
  /\ named' = [named EXCEPT ![p] = 0]
  /\ Goto(p, "candidates")
  /\ UNCHANGED <<tables, lock, request, becomes, left, answer>>

\* The driver may not use the scope at that hour.
PassOver(p) ==
  /\ pc[p] = "bucket"
  /\ named' = [named EXCEPT ![p] = 0]
  /\ Goto(p, "candidates")
  /\ UNCHANGED <<tables, lock, request, becomes, left, items, answer>>

List(p) ==
  /\ pc[p] = "candidates" /\ left[p] = {}
  /\ Finish(p, Reply("listed", 0, FALSE))
  /\ UNCHANGED tables

-----------------------------------------------------------------------------
Step(p) ==
  \/ Admit(p) \/ Refuse(p) \/ LockScope(p) \/ Replay(p) \/ Conflict(p) \/ Insert(p)
  \/ Select(p) \/ Commit(p) \/ ReadCurrent(p) \/ ReadBucket(p) \/ PassOver(p) \/ List(p)

Next ==
  \E p \in Procs :
    \/ \E b \in Requests : Publish(p, b)
    \/ \E S \in SUBSET Scopes \ {{}} : Ask(p, S)
    \/ Step(p)
    \/ Fail(p)

Spec == Init /\ [][Next]_vars

-----------------------------------------------------------------------------
(* Properties.                                                             *)

\* Publication i is of the same scope as j and is preferred to it: generated
\* strictly later, or as late and accepted before.
Beats(i, j) ==
  /\ publications[i].scope = publications[j].scope
  /\ \/ Generated[publications[i].content] > Generated[publications[j].content]
     \/ /\ Generated[publications[i].content] = Generated[publications[j].content]
        /\ i < j

\* An accepted publication was told to be current exactly if nothing before it
\* beat it; a replay leads to what the run published before; a conflict has
\* another publication of the run behind it; and a rate is that of the
\* publication named or of one that beats it, because a publication may commit
\* between the two reads of a lookup.
TrueAnswer(p) ==
  /\ answer[p].outcome \in {"accepted", "replayed"} =>
       answer[p].id # 0 /\ publications[answer[p].id] = request[p]
  /\ answer[p].outcome = "accepted" =>
       (answer[p].isCurrent <=> \A j \in 1..(answer[p].id - 1) : ~Beats(j, answer[p].id))
  /\ answer[p].outcome = "replayed" =>
       IF answer[p].isCurrent THEN \A j \in 1..(answer[p].id - 1) : ~Beats(j, answer[p].id)
                              ELSE \E j \in DOMAIN publications : Beats(j, answer[p].id)
  /\ answer[p].outcome = "conflict" =>
       \E i \in Accepted(request[p]) : publications[i].content # request[p].content
  /\ \A it \in items[p] : it.rated = it.named \/ Beats(it.rated, it.named)

\* What requests are told is true of the history, and equal requests that are
\* accepted or replayed name one publication, however often they are repeated.
AnswersAreTrue ==
  \A p \in Procs :
    /\ TrueAnswer(p)
    /\ \A q \in Procs :
         /\ answer[p].outcome \in {"accepted", "replayed"}
         /\ answer[q].outcome \in {"accepted", "replayed"}
         /\ request[p] = request[q]
         => answer[p].id = answer[q].id

\* The current publication of a scope is the one preferred to every other.
CurrentIsNewest ==
  \A i \in DOMAIN publications :
    LET s == publications[i].scope
    IN  current[s] # 0 /\ ~Beats(i, current[s])

\* The tables are sound, the newest publication is current and every answer is
\* true of them.
PublicationsInv == TypeOK /\ CurrentIsNewest /\ AnswersAreTrue

Ledger == INSTANCE PublicationLedger WITH history <- publications

\* Every commit is a step of the ledger: publications are appended and never
\* change, a run appears once per scope, and a current publication gives way
\* only to one generated strictly later, whatever requests race.
LedgerSpec == Ledger!Spec
================================================================================
