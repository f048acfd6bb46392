----------------------------- MODULE MCObjective ----------------------------
(* The instances of ObjectiveFlow that TLC checks. *)
EXTENDS ObjectiveFlow

Bound(defined, gens, rounds, edits, failures, races, crashes) ==
  [up |-> Procs, defined |-> defined, room |-> [gens |-> gens, rounds |-> rounds],
   edits |-> edits, failures |-> failures, races |-> races, crashes |-> crashes]

\* With a crash; with a status written late; an objective yet to be defined; a
\* proposed diagram; a task that fails and an operator who retries or waives it; one
\* who promotes, or overrides the review; a second generation.
MCBudgets == {Bound(TRUE, 1, 1, 1, 0, 0, 1), Bound(TRUE, 1, 1, 1, 0, 1, 0),
              Bound(FALSE, 0, 0, 1, 0, 0, 0), Bound(TRUE, 0, 0, 3, 0, 0, 0),
              Bound(TRUE, 1, 0, 2, 1, 0, 0), Bound(TRUE, 1, 1, 2, 0, 0, 0),
              Bound(TRUE, 2, 0, 1, 0, 0, 0)}

\* A second round, the UI alone at work.
MCTwoRounds == {[Bound(TRUE, 1, 2, 2, 0, 0, 0) EXCEPT !.up = {"ui"}]}
=============================================================================
