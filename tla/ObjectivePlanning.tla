-------------------------- MODULE ObjectivePlanning -------------------------
(***************************************************************************)
(* From a finished diagram to published tasks: queueing a generation, the  *)
(* generation itself (the plan red-team loop, then one task per plan) and  *)
(* the operator's work on the intent, the interrogation and the diagram.   *)
(***************************************************************************)
EXTENDS Objective

IdlePlanner == [pc |-> "idle", gen |-> 0, copy |-> "created", trio |-> 0, left |-> {}]

\* The started record, and a thread unless the process already has one; the new
\* ObjectiveLifecycleRunner copies the phase it reads.
StartGeneration(o, p) ==
  IF Len(o.gens) = o.room.gens
  THEN [o EXCEPT !.planner[p].pc = IF PlannerAlive(o, p) THEN @ ELSE "idle"]
  ELSE LET recorded == [o EXCEPT !.gens = Append(@, [version |-> o.version, end |-> "running"])]
       IN  IF PlannerAlive(o, p) THEN recorded
           ELSE [recorded EXCEPT
                  !.planner[p] = [IdlePlanner EXCEPT !.pc = "reading", !.copy = o.phase,
                                                     !.gen = Len(o.gens) + 1]]

\* A mutant: no generation is ever found stale.
KeepGeneration(o, p, aged) == o

\* The part of queue_atomic_generation that reads: a stale generation is
\* interrupted, and one that runs or has completed is left alone.
ClearStaleGeneration(o, p, aged) ==
  IF GenerationStale(o, p, aged) THEN MarkGenerationInterrupted(o) ELSE o

GenerationDue(o) ==
  /\ o.drawn = "finished"
  /\ GenerationState(o) \in {"idle", "failed"}
  /\ Len(o.gens) < o.room.gens

QueueAtomicGeneration(o, p, aged) ==
  LET cleared == ClearStaleGeneration(o, p, aged)
  IN  IF GenerationDue(cleared) THEN StartGeneration(cleared, p) ELSE cleared

\* The same from a poll, which another process may overtake between its check
\* and its record.
AdmitGeneration(o, p, aged) ==
  LET cleared == ClearStaleGeneration(o, p, aged)
  IN  IF ~GenerationDue(cleared) THEN cleared
      ELSE IF PlannerAlive(cleared, p) THEN StartGeneration(cleared, p)
      ELSE [cleared EXCEPT !.planner[p].pc = "admitted"]

\* _maybe_resume_atomic_generation
ResumeGeneration(o, p, aged) ==
  LET cleared == ClearStaleGeneration(o, p, aged)
  IN  IF o.drawn # "finished" THEN o
      ELSE IF GenerationState(cleared) \in {"completed", "running"} \/ Runnable(o) # {}
         THEN cleared
      ELSE AdmitGeneration(cleared, p, aged)

\* When reconcile_objective starts a generation: none has produced tasks, or only
\* terminal work is left of an objective that is paused or planning.
RestartsGeneration(o, p, aged) ==
  /\ ExecutionGate(o)
  /\ GenerationState(o) # "running" \/ GenerationStale(o, p, aged)
  /\ \/ Linked(o) = {}
     \/ Runnable(o) = {} /\ o.status \in {"paused", "planning"} /\ ~ReviewReady(o)

-----------------------------------------------------------------------------
(* _run_atomic_generation, one function per step of the thread. *)

\* Reading the diagram: a runner that stands at the diagram's review moves on.
ReadDiagram(o, p) ==
  LET moved == IF o.planner[p].copy # "mermaid_review" THEN o
               ELSE [SetPhase(o, "trio_planning") EXCEPT !.planner[p].copy = "trio_planning"]
  IN  [moved EXCEPT !.planner[p].pc = "trio", !.planner[p].trio = 1]

\* One round of the red-team loop: the generator fails, the reviewer objects, or
\* the reviewer passes the plans, which ends the loop.
PlansPassed(o, p) == [o EXCEPT !.planner[p].pc = "publish", !.planner[p].left = Units]

PlansRejected(o, p) ==
  IF o.planner[p].trio < MaxTrio THEN [o EXCEPT !.planner[p].trio = @ + 1]
  ELSE [EndGeneration(o, o.planner[p].gen, "failed") EXCEPT
          !.status = "paused", !.planner[p] = IdlePlanner]

PublishUnit(o, p, u) ==
  [o EXCEPT !.task[<<"unit", o.planner[p].gen, u>>] = "pending", !.planner[p].left = @ \ {u}]

\* The last steps: the phase, the completed record, the derived status.
ToExecuting(o, p) ==
  [(IF o.planner[p].copy = "trio_planning" THEN SetPhase(o, "executing") ELSE o)
     EXCEPT !.planner[p].pc = "finish"]

FinishGeneration(o, p) ==
  UpdateObjectivePhase([EndGeneration(o, o.planner[p].gen, "completed") EXCEPT
                          !.planner[p] = IdlePlanner])

-----------------------------------------------------------------------------
(* The objective's definition. *)

NewDiagram(o, drawn) == [o EXCEPT !.version = @ + 1, !.drawn = drawn]

\* update_mermaid_artifact, up to its reconcile: a finished diagram moves an
\* objective that has not been through the runner to the diagram's review, and is
\* refused in any other phase, the new version already written.
FinishDiagram(o) ==
  LET drawn == NewDiagram(o, "finished")
  IN  IF o.phase = "created" THEN SetPhase(drawn, "mermaid_review") ELSE drawn

ApproveDiagram(o, p, aged) ==
  LET drawn    == FinishDiagram(o)
      approved == [drawn EXCEPT !.status = "planning", !.interrogated = TRUE]
  IN  IF drawn.phase # "mermaid_review" THEN drawn
      ELSE QueueAtomicGeneration(approved, p, aged)

PauseDiagram(o)  == [NewDiagram(o, "paused") EXCEPT !.status = "paused"]
ReviseDiagram(o) == [NewDiagram(o, "draft") EXCEPT !.status = "investigating"]

\* accept_mermaid_proposal: the proposal becomes the finished diagram; the phase
\* stays where it is.
AcceptProposal(o, p, aged) ==
  QueueAtomicGeneration([NewDiagram(o, "finished") EXCEPT !.status = "planning",
                                                          !.proposed = FALSE], p, aged)
=============================================================================
