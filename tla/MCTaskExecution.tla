--------------------------- MODULE MCTaskExecution ---------------------------
(* Instances of TaskExecution for TLC. *)
EXTENDS TaskExecutionRefinement, TLC

CONSTANTS w1, w2, w3, t1, t2, t3, p1, p2

Rank1 == (t1 :> 1)
Rank3 == (t1 :> 1) @@ (t2 :> 2) @@ (t3 :> 3)
Project1 == (t1 :> p1)
Project3 == (t1 :> p1) @@ (t2 :> p1) @@ (t3 :> p2)
Cap1 == (p1 :> 1)
Cap2 == (p1 :> 1) @@ (p2 :> 0)
One1 == (t1 :> 1)
One3 == (t1 :> 1) @@ (t2 :> 1) @@ (t3 :> 1)
Two1 == (t1 :> 2)

\* Bound: one thing happens to the queue, a fault or a command.
OneIncident == faults' + commands' <= 1

\* Queue workers are interchangeable.
Symmetry == Permutations({w1, w2})
=============================================================================
