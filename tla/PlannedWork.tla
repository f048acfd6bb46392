----------------------------- MODULE PlannedWork -----------------------------
(***************************************************************************)
(* From a drafted plan to a commit: Plans publishes tasks, and the run of  *)
(* one of them is WorkPipeline's, held to the scope its plan names.  A     *)
(* behaviour follows one task; the planner and the other tasks stand still *)
(* from the moment it is taken, and share no file or row with it.  A run   *)
(* may as well be of a task that comes from elsewhere, with a scope of its *)
(* own or none.  At the end the run is judged, and reviewed for promotion.  *)
(***************************************************************************)
EXTENDS Plans, Evidence

ASSUME PlannedAssumption ==
  /\ Tracked = Files \ Absent
  /\ \A f \in Inventories : ImplRoot[f] \cup TestRoot[f] \subseteq Files

both == <<plan, job>>

\* The planner once its part is over.
NoPlanner == [pc |-> "over", rows |-> <<>>, tasks |-> {}]

WorkInit ==
  \/ Init /\ plan = NoPlanner
  \/ PlanInit /\ \E j \in Jobs : j.scope = {} /\ job = [Fresh(j) EXCEPT !.pc = "waiting"]

\* What a task inherits from its plan; the rest is as in any other.
PlannedTask(j, row) ==
  [j EXCEPT !.scope = ScopeOf(row), !.profile = "generic", !.light = TRUE,
            !.artifacts = {"plan", "report"}]

\* A worker takes a published task, the generation being over or dead.
TakeTask ==
  /\ job.pc = "waiting" /\ plan.pc \in {"published", "dead"}
  /\ \E k \in plan.tasks : job' = Fresh(PlannedTask(job.task, plan.rows[k]))
  /\ plan' = NoPlanner

Terminated == (Settled \/ plan.pc = "failed") /\ UNCHANGED both

WorkNext ==
  \/ PlanNext /\ UNCHANGED job
  \/ TakeTask
  \/ (Next \/ JudgingNext) /\ UNCHANGED plan
  \/ Terminated

\* The planner and the pipeline are threads, and every command and every call
\* they wait for has a timeout.
WorkSpec == WorkInit /\ [][WorkNext]_both /\ WF_both(WorkNext)

-----------------------------------------------------------------------------

\* WorkEnds: with every call timing out, planning gives up or publishes, and a
\* run of the pipeline comes to an outcome and to the end of its review.
WorkEnds == <>(plan.pc = "failed" \/ Settled)
=============================================================================
