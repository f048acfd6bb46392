----------------------------- MODULE Objective ------------------------------
(***************************************************************************)
(* The rows that record one objective, and what the harness derives from   *)
(* them: the status its tasks imply, the gate before execution, the state  *)
(* of the current plan generation, the state of every review round and     *)
(* whether the objective is clear to promote.  Two processes work on the   *)
(* rows: the web UI, which starts plan generation and review in threads of *)
(* its own, and the supervisor's command line, which runs them in line.    *)
(* A handler is a function from one state of the objective to the next, so *)
(* that handlers that call each other compose.                             *)
(***************************************************************************)
EXTENDS Naturals, Sequences, FiniteSets, FiniteSetsExt

CONSTANTS
  Dims,         \* the dimensions a review covers
  Units,        \* the plans one generation publishes
  MaxTrio,      \* rounds of the plan red-team loop
  MaxGens,      \* bound: plan generations
  MaxRounds,    \* bound: review rounds
  MaxDiagrams   \* bound: versions of the Mermaid diagram

ASSUME ObjectiveAssumption ==
  /\ IsFiniteSet(Dims) /\ IsFiniteSet(Units)
  /\ MaxTrio \in Nat \ {0}
  /\ MaxGens \in Nat /\ MaxRounds \in Nat /\ MaxDiagrams \in Nat \ {0}

Procs == {"ui", "cli"}

VARIABLE obj    \* the objective, its tasks, its records and the threads at work on it

\* A task is a unit of a generation or the remediation of a finding of a round.
UnitTasks == {"unit"} \X (1..MaxGens) \X Units
FixTasks  == {"fix"} \X (1..MaxRounds) \X Dims
TaskIds   == UnitTasks \cup FixTasks

TaskStatus == {"none", "pending", "active", "completed", "failed"}

ObjectiveStatus ==
  {"open", "investigating", "planning", "executing", "paused", "resolved"}

\* PHASE_TO_STATUS
StatusOfPhase(phase) ==
  CASE phase = "created"       -> "open"
    [] phase = "interrogating" -> "investigating"
    [] phase \in {"mermaid_review", "trio_planning"} -> "planning"
    [] phase = "executing"     -> "executing"
    [] OTHER                   -> "resolved"

\* set_objective_phase writes the status along with the phase.
SetPhase(o, phase) == [o EXCEPT !.phase = phase, !.status = StatusOfPhase(phase)]

Linked(o)       == {t \in TaskIds : o.task[t] # "none"}
InState(o, st)  == {t \in TaskIds : o.task[t] = st}
Runnable(o)     == InState(o, "pending") \cup InState(o, "active")

\* A failed remediation task whose dimension some completed one has dealt with.
Superseded(o, t) ==
  /\ t \in FixTasks /\ o.task[t] = "failed"
  /\ \E f \in FixTasks : f[3] = t[3] /\ o.task[f] = "completed"

Waived(o, t) == o.task[t] = "failed" /\ (t \in o.waived \/ Superseded(o, t))

Effective(o) == {t \in Linked(o) : ~Waived(o, t)}

\* The status the linked tasks imply; meaningful when there are any.
DerivedStatus(o) ==
  CASE \E t \in Effective(o) : o.task[t] = "active"       -> "executing"
    [] \A t \in Effective(o) : o.task[t] = "completed"    -> "resolved"
    [] \E t \in Effective(o) : o.task[t] = "pending"      -> "planning"
    [] OTHER                                              -> "paused"

\* A mutant: derives only while some task may still run.
UpdateWhileRunnable(o) ==
  IF Runnable(o) = {} THEN o ELSE [o EXCEPT !.status = DerivedStatus(o)]

UpdateObjectivePhase(o) ==
  IF Linked(o) = {} THEN o ELSE [o EXCEPT !.status = DerivedStatus(o)]

\* update_task_status commits the task and then derives the objective's status.
SetTask(o, t, st) == UpdateObjectivePhase([o EXCEPT !.task[t] = st])

\* The gate before execution; every diagram the code writes is required.
ExecutionGate(o) == o.intent /\ o.interrogated /\ o.drawn = "finished"

\* review_readiness of the workflow service.
ReviewReady(o) ==
  /\ Linked(o) # {}
  /\ Runnable(o) = {}
  /\ \A t \in InState(o, "failed") : Waived(o, t)
  /\ InState(o, "completed") # {}

-----------------------------------------------------------------------------
(* Generations and rounds, read from their records. *)

GensOfDiagram(o) == {i \in DOMAIN o.gens : o.gens[i].version = o.version}

\* _atomic_generation_state: the latest generation of the current diagram.
GenerationState(o) ==
  IF GensOfDiagram(o) = {} THEN "idle" ELSE o.gens[Max(GensOfDiagram(o))].end

\* A thread of the process is registered with its coordinator.
PlannerAlive(o, p)  == o.planner[p].pc \notin {"idle", "admitted"}
ReviewerAlive(o, p) == o.reviewer[p].pc \notin {"idle", "admitted"}

\* aged: the last record of the generation (round) is more than 300 seconds old.
GenerationStale(o, p, aged) ==
  aged /\ GenerationState(o) = "running" /\ ~PlannerAlive(o, p)

LastRound(o) == o.rounds[Len(o.rounds)]

RoundState(o) == IF o.rounds = <<>> THEN "idle" ELSE LastRound(o).end

RoundStale(o, p, aged) ==
  aged /\ RoundState(o) = "running" /\ ~ReviewerAlive(o, p)

\* A failed record outweighs a completed one, whichever was written first.
EndGeneration(o, i, end) ==
  [o EXCEPT !.gens[i].end = IF @ = "failed" THEN @ ELSE end]
EndRound(o, i, end) ==
  [o EXCEPT !.rounds[i].end = IF @ = "failed" THEN @ ELSE end]

MarkGenerationInterrupted(o) == EndGeneration(o, Max(GensOfDiagram(o)), "failed")
MarkReviewInterrupted(o)     == EndRound(o, Len(o.rounds), "failed")

Concerns(o, r) == {d \in Dims : o.rounds[r].packets[d] = "concern"}
FixesOf(o, r)  == {t \in FixTasks : t[2] = r /\ o.task[t] # "none"}

\* A waived remediation counts as completed.
Settled(o, t) == o.task[t] = "completed" \/ (o.task[t] = "failed" /\ t \in o.waived)

\* The status of a round, as the promotion review shows it.
RoundStatus(o, r) ==
  CASE o.rounds[r].override -> "passed"
    [] ~o.rounds[r].override /\ o.rounds[r].end # "completed" -> o.rounds[r].end
    [] OTHER ->
         IF Concerns(o, r) = {} THEN "passed"
         ELSE IF FixesOf(o, r) \cap Runnable(o) # {} THEN "remediating"
         ELSE IF FixesOf(o, r) # {} /\ \A t \in FixesOf(o, r) : Settled(o, t)
              THEN "ready_for_rerun" ELSE "needs_remediation"

LastStatus(o) == IF o.rounds = <<>> THEN "" ELSE RoundStatus(o, Len(o.rounds))

\* Once a round exists a failed task is history; before, it blocks unless waived.
BuilderReady(o) ==
  /\ Runnable(o) = {}
  /\ o.rounds = <<>> => InState(o, "failed") \subseteq o.waived

CanStartNewRound(o) ==
  BuilderReady(o) /\ (o.rounds = <<>> \/ LastStatus(o) \in {"ready_for_rerun", "failed"})

ReviewClear(o) ==
  /\ BuilderReady(o)
  /\ o.rounds # <<>>
  /\ LastRound(o).override \/ Concerns(o, Len(o.rounds)) = {}

\* What a promotion takes: completed tasks not yet marked as applied.
Unapplied(o) == InState(o, "completed") \ o.marked
=============================================================================
