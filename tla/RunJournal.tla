------------------------------ MODULE RunJournal ------------------------------
(***************************************************************************)
(* What a simulation run promises the simulator that drives it, whatever   *)
(* the concurrency behind it: a journal that takes an event once, together *)
(* with its one effect, at an instant that is not before the last one, and *)
(* only between the start and the end of the run.                          *)
(***************************************************************************)
EXTENDS Integers

CONSTANTS Events, Times, None

VARIABLES
  phase,      (* of the run                                                *)
  journal,    (* instant of each event that was taken                      *)
  effects,    (* how often each event has had its effect                   *)
  clock,      (* instant of the last event that was taken                  *)
  overruled   (* managers have set phase and clock back                    *)

Init ==
  /\ phase = "draft"
  /\ journal = [e \in Events |-> None]
  /\ effects = [e \in Events |-> 0]
  /\ clock = None
  /\ overruled = FALSE

Begin ==
  /\ phase = "draft" /\ phase' = "open"
  /\ UNCHANGED <<journal, effects, clock, overruled>>

End ==
  /\ phase # "closed" /\ phase' = "closed"
  /\ UNCHANGED <<journal, effects, clock, overruled>>

Enter(e, t) ==
  /\ phase = "open" /\ journal[e] = None
  /\ clock = None \/ clock <= t
  /\ journal' = [journal EXCEPT ![e] = t]
  /\ effects' = [effects EXCEPT ![e] = @ + 1]
  /\ clock' = t
  /\ UNCHANGED <<phase, overruled>>

\* The managers' change of a draft that overtakes its start: it can take phase and
\* clock back to those of a draft, but what was taken stays in the journal.
Overrule ==
  /\ phase' \in {phase, "draft"} /\ clock' \in Times \cup {None}
  /\ overruled' = TRUE
  /\ UNCHANGED <<journal, effects>>

Next ==
  \/ Begin \/ End
  \/ \E e \in Events, t \in Times : Enter(e, t)
  \/ Overrule

Spec == Init /\ [][Next]_<<phase, journal, effects, clock, overruled>>
===============================================================================
