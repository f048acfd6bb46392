----------------------- MODULE TaskExecutionRefinement -----------------------
(***************************************************************************)
(* TaskExecution implements TaskBoard: the owner of a task is the process  *)
(* that holds it between its lease and its release.  The task_leases row   *)
(* is not the owner: it survives a crash, and expires under a live one.    *)
(***************************************************************************)
EXTENDS TaskExecution

Owner == [t \in Tasks |->
            IF \E w \in Workers : Busy(w) /\ job[w] = t
            THEN CHOOSE w \in Workers : Busy(w) /\ job[w] = t
            ELSE None]

Board == INSTANCE TaskBoard WITH owner <- Owner

\* Every behaviour of the engine is one of the board: tasks change hands and
\* status only as TaskBoard allows.
ImplementsBoard == Board!Spec
=============================================================================
