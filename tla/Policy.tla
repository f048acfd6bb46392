------------------------------- MODULE Policy -------------------------------
(***************************************************************************)
(* The pure rules the task engine applies: which task status may follow    *)
(* which (domain.py), the verdict the analyzer can give a run, the         *)
(* decision the decider takes on it (policy.py), and what that decision    *)
(* makes of the run and of the task (services/run_service.py).             *)
(***************************************************************************)
EXTENDS Naturals

TaskStatus == {"pending", "active", "completed", "failed"}

TerminalTask == {"completed", "failed"}

\* The statuses of a run that is still being driven by some process.
InProgress == {"planning", "working", "validating", "analyzing", "deciding"}

RunStatus == InProgress \cup {"completed", "failed", "blocked"}

DecisionAction == {"retry", "promote", "fail", "branch"}

-----------------------------------------------------------------------------
(* Task transitions. *)

ValidTaskTransitions ==
  [pending   |-> {"active", "completed", "failed"},
   active    |-> {"completed", "failed", "pending"},
   completed |-> {},
   failed    |-> {"pending"}]

\* validate_task_transition lets a status be rewritten with itself.
MayTransition(current, target) ==
  current = target \/ target \in ValidTaskTransitions[current]

-----------------------------------------------------------------------------
(* Analysis and decision. *)

\* A worker outcome of "success" is judged on the artifacts found; "blocked"
\* and "failed" keep their verdict, and only those two can carry the flag
\* infrastructure_failure.
Analysis ==
  [verdict : {"acceptable", "incomplete"}, infra : {FALSE}]
    \cup [verdict : {"failed", "blocked"}, infra : BOOLEAN]

\* Faulty variants, which the runs refute: the budget one attempt too long, or
\* one too short.
BudgetLeftLate(attempt, maxAttempts) == attempt <= maxAttempts
BudgetLeftEarly(attempt, maxAttempts) == attempt + 1 < maxAttempts

BudgetLeft(attempt, maxAttempts) == attempt < maxAttempts

\* DefaultDecider.decide for a run outside any branch (branch_id is None).
\* Infrastructure failures and blocked runs never branch.
Decide(analysis, attempt, maxAttempts, maxBranches) ==
  IF analysis.verdict = "acceptable" THEN "promote"
  ELSE IF BudgetLeft(attempt, maxAttempts) THEN "retry"
  ELSE IF maxBranches > 1 /\ analysis.verdict # "blocked" /\ ~ analysis.infra THEN "branch"
  ELSE "fail"

\* The status the run is closed with.
FinalRunStatus(analysis, action) ==
  IF analysis.verdict = "blocked" THEN "blocked"
  ELSE IF action = "promote" THEN "completed"
  ELSE "failed"

\* The status the decision asks for the task.
TaskStatusFor(action) ==
  [promote |-> "completed", fail |-> "failed", branch |-> "active", retry |-> "pending"][action]
=============================================================================
