--------------------------- MODULE PublicationLedger ---------------------------
(***************************************************************************)
(* What publishing predictions promises, whatever the concurrency behind   *)
(* it: an append-only history in which a publisher's run appears at most   *)
(* once per scope, and for every scope a current publication that gives    *)
(* way only to one generated strictly later.                               *)
(***************************************************************************)
EXTENDS Integers, Sequences

CONSTANTS Scopes, Identities, Contents, Generated

VARIABLES
  history,    (* accepted publications, in the order of acceptance         *)
  current     (* index of the current publication of each scope, or 0      *)

Publication == [scope : Scopes, identity : Identities, content : Contents]

Init ==
  /\ history = << >>
  /\ current = [s \in Scopes |-> 0]

\* Acceptance of a publication, with its effect on its scope's current one.
Accept(b) ==
  /\ b \in Publication
  /\ \A i \in DOMAIN history :
       <<history[i].scope, history[i].identity>> # <<b.scope, b.identity>>
  /\ history' = Append(history, b)
  /\ current' =
       IF \/ current[b.scope] = 0
          \/ Generated[b.content] > Generated[history[current[b.scope]].content]
       THEN [current EXCEPT ![b.scope] = Len(history')]
       ELSE current

Next == \E b \in Publication : Accept(b)

Spec == Init /\ [][Next]_<<history, current>>
================================================================================
