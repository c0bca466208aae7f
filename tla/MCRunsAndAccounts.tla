-------------------------- MODULE MCRunsAndAccounts --------------------------
(* SimulationRuns and Accounts share no state.  One run checks them side by *)
(* side: a behaviour takes the steps of one part while the other rests.     *)
(* Behaviours of a run have either managers who patch or cancel it or      *)
(* drivers who leave the simulation headers out, not both.                  *)
EXTENDS MCSimulationRuns, Accounts

VARIABLE part

\* Accounts begin beside one of the initial states of the runs, whichever; drivers
\* find the longest window.
PartInit ==
  /\ part \in {"managers", "drivers", "accounts"} /\ Init /\ AccountsInit
  /\ part = "accounts" => \A e \in WindowEnds : run.end <= e
  /\ part = "drivers" => \A e \in WindowEnds : e <= run.end

OnlyCompleted == run'.status # "CANCELLED" /\ \A p \in Procs : pc'[p] # "base"

AllWithHeaders == touched' = {} /\ \A p \in Procs : pc'[p] = "reread" => lock' = p

PartNext ==
  \/ /\ part # "accounts" /\ Next
     /\ part = "drivers" => OnlyCompleted
     /\ part = "managers" => AllWithHeaders
     /\ UNCHANGED <<part, acctVars>>
  \/ part = "accounts" /\ AccountsNext /\ UNCHANGED <<part, vars>>

PartSpec == PartInit /\ [][PartNext]_<<part, vars, acctVars>>

Login ==
  [kind |-> "login", type |-> "Human", status |-> "same", roles |-> {}, facilities |-> {}]

Administrator == {"PlatformAdministrator"}

\* Administrators are created and taken away, one of them becomes an operator and is
\* assigned the facility, and a technical client is created.
AskedChanges ==
  {Login,
   [Login EXCEPT !.kind = "create", !.status = "Active", !.roles = Administrator],
   [Login EXCEPT !.kind = "create", !.status = "Active", !.type = "TechnicalClient"],
   [Login EXCEPT !.kind = "profile", !.status = "Inactive"],
   [Login EXCEPT !.kind = "roles", !.roles = {"FacilityOperator"}],
   [Login EXCEPT !.kind = "facilities", !.facilities = Facilities]}

\* Interchangeable requests of either part.
BothSymmetric == Symmetry \cup Permutations(Handlers)
==============================================================================
