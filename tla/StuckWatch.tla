----------------------------- MODULE StuckWatch -----------------------------
(***************************************************************************)
(* The stuck-state watch and its recovery agent beside the workers and the *)
(* dispositions of failed tasks: ControlWatchService (control_watch.py),   *)
(* the control-loop command (commands/control.py) and SAWatchService       *)
(* (sa_watch.py).  A tick reads the tasks, then the leases and the         *)
(* supervisors, then compares the outcome with the snapshots of earlier    *)
(* ticks; what it finds degrades the system and calls the agent, unless    *)
(* it was called a short while ago.                                        *)
(*                                                                         *)
(* Time appears as the set of clocks of a task that have run past their    *)
(* timeout; the agent and the repair runner are language models with a     *)
(* shell, and answer as they like.                                         *)
(***************************************************************************)
EXTENDS RetryTree, Sequences

CONSTANTS
  Workers,     \* the worker ids a supervisor can run under
  Threshold,   \* same_state_loop_threshold
  HardMax,     \* same_state_loop_hard_max
  Scenes       \* the situations to start from

ASSUME WatchAssumption ==
  /\ "none" \notin Workers /\ "off" \notin Workers
  /\ Threshold \in 1..HardMax

\* A scene starts with tasks that have not been split, or grown from another.
Roots ==
  [status : {"pending", "active", "completed", "failed"}, parent : {0}, kind : {"work", "legacy"},
   run : {"none", "working", "ended"}, cat : Categories \cup {""}, disp : {"none"},
   ignored : BOOLEAN]

ASSUME SceneAssumption == \A s \in Scenes : s.tasks \in Seq(Roots)

VARIABLES
  scene,    \* who is at work, and the runs, repairs and deaths still to come
  vital,    \* lease, latest artifact, overdue clocks, snapshot, promotion, failed runs
  sup,      \* the worker id of the running supervisor
  lane,     \* the worker lane
    \* the verdict in the control system state
  watch,    \* the tick of the control loop
  restart,  \* whether a stack restart is on request
  generation, \* the objective's latest atomic generation
  repair    \* the repair of the agent

watching == <<scene, vital, sup, lane, watch, restart, generation, repair>>
vars == <<tree, watching>>

Clocks == {"claim", "artifact", "reconcile", "movement", "prerequisite"}
Noise == {"heartbeat", "stdout", "stderr"}  \* NON_MEANINGFUL_ARTIFACT_KINDS

NoVital == [lease |-> "none", art |-> "none", overdue |-> {}, snap |-> <<>>, seen |-> 0,
            promotion |-> "none", missing |-> FALSE, fails |-> 0, begun |-> FALSE]
Asleep == [pc |-> "sleep", read |-> {}, stuck |-> FALSE, cooldown |-> FALSE, helped |-> FALSE]
NoRepair == [pc |-> "idle", task |-> 0, before |-> <<>>, outcome |-> "none"]

Init ==
  /\ scene \in Scenes
  /\ task = [t \in TaskIds |-> IF t \in DOMAIN scene.tasks THEN scene.tasks[t] ELSE NoTask]
  /\ vital = [t \in TaskIds |-> [NoVital EXCEPT !.promotion = IF scene.promotion /\ t = 1
                                                              THEN "pending" ELSE "none",
                                                !.missing = scene.promotion]]
  /\ objective = Phase(task)
  /\ disposer = [d \in Disposers |-> Resting]
  /\ sup = scene.sup /\ lane = "running" /\ watch = Asleep
  /\ restart = FALSE /\ generation = scene.generation /\ repair = NoRepair

On(actor) == actor \in scene.actors

SetTask(t, status) ==
  /\ task' = [task EXCEPT ![t].status = status]
  /\ objective' = Phase(task')

-----------------------------------------------------------------------------
(* The workers and the clock. *)

Claim(t) ==
  /\ On("worker") /\ sup # "off" /\ lane = "running" /\ task[t].status = "pending"
  /\ scene.runs > 0 /\ \A u \in TaskIds : vital[u].lease # sup
  /\ SetTask(t, "active")
  /\ vital' = [vital EXCEPT ![t].lease = sup, ![t].begun = FALSE,
                            ![t].overdue = @ \ {"claim", "artifact"}]
  /\ UNCHANGED <<disposer, scene, sup, lane, watch, restart, generation, repair>>

\* A new run has an empty directory.
StartRun(t) ==
  /\ task[t].status = "active" /\ vital[t].lease = sup /\ ~vital[t].begun
  /\ scene.runs > 0 /\ scene' = [scene EXCEPT !.runs = @ - 1]
  /\ task' = [task EXCEPT ![t].run = "working"]
  /\ vital' = [vital EXCEPT ![t].art = "none", ![t].begun = TRUE]
  /\ UNCHANGED <<objective, disposer, sup, lane, watch, restart, generation, repair>>

Write(t, kind) ==
  /\ task[t].status = "active" /\ vital[t].lease = sup /\ vital[t].begun /\ task[t].run = "working"
  /\ kind \in scene.writes
  /\ vital' = [vital EXCEPT ![t].art = kind, ![t].overdue = @ \ {"artifact"}]
  /\ UNCHANGED <<tree, scene, sup, lane, watch, restart, generation, repair>>

\* The run ends and the task is settled, in transactions of their own.
EndRun(t) ==
  /\ task[t].status = "active" /\ vital[t].lease = sup /\ vital[t].begun /\ task[t].run = "working"
  /\ task' = [task EXCEPT ![t].run = "ended"]
  /\ vital' = [vital EXCEPT ![t].overdue = @ \ {"reconcile"}]
  /\ UNCHANGED <<objective, disposer, scene, sup, lane, watch, restart, generation, repair>>

Settle(t) ==
  /\ task[t].status = "active" /\ vital[t].lease = sup /\ vital[t].begun /\ task[t].run = "ended"
  /\ \/ /\ SetTask(t, "completed")
        /\ vital' = [vital EXCEPT ![t].lease = "none", ![t].begun = FALSE,
                                  ![t].overdue = {}]
     \/ \E c \in Categories :
          /\ task' = [task EXCEPT ![t].status = "failed", ![t].cat = c]
          /\ objective' = Phase(task')
          /\ vital' = [vital EXCEPT ![t].lease = "none", ![t].fails = @ + 1,
                                    ![t].begun = FALSE, ![t].overdue = {}]
  /\ UNCHANGED <<disposer, scene, sup, lane, watch, restart, generation, repair>>

SupervisorStarts(w) ==
  /\ On("worker") /\ sup = "off" /\ sup' = w
  /\ UNCHANGED <<tree, scene, vital, lane, watch, restart, generation, repair>>

SupervisorDies ==
  /\ sup # "off" /\ scene.deaths > 0
  /\ sup' = "off" /\ scene' = [scene EXCEPT !.deaths = @ - 1]
  /\ UNCHANGED <<tree, vital, lane, watch, restart, generation, repair>>

LeaseExpires(t) ==
  /\ vital[t].lease \notin {"none", sup}
  /\ vital' = [vital EXCEPT ![t].lease = "none"]
  /\ UNCHANGED <<tree, scene, sup, lane, watch, restart, generation, repair>>

\* recover_stale_state requeues a task whose lease is gone, when a supervisor gets to it.
Requeue(t) ==
  /\ sup # "off" /\ task[t].status = "active" /\ vital[t].lease = "none"
  /\ SetTask(t, "pending")
  /\ vital' = [vital EXCEPT ![t].overdue = {}]
  /\ UNCHANGED <<disposer, scene, sup, lane, watch, restart, generation, repair>>

\* Time passes one of the timeouts that runs for a task.
Runs(t, c) ==
  \/ c = "claim" /\ task[t].status = "pending"
  \/ c = "artifact" /\ task[t].status = "active"
  \/ c = "reconcile" /\ task[t].status = "active" /\ task[t].run = "ended"
  \/ c \in {"movement", "prerequisite"} /\ vital[t].promotion = "pending"

Age(t, c) ==
  /\ On("watch") /\ Runs(t, c) /\ c \notin vital[t].overdue
  /\ vital' = [vital EXCEPT ![t].overdue = @ \cup {c}]
  /\ UNCHANGED <<tree, scene, sup, lane, watch, restart, generation, repair>>

TimePasses == \E t \in TaskIds, c \in Clocks : Age(t, c)

\* The promotion is decided, or an artifact it lacked arrives.
Decide(t) ==
  /\ vital[t].promotion = "pending"
  /\ vital' = [vital EXCEPT ![t] = [@ EXCEPT !.overdue = @ \ {"movement", "prerequisite"},
                                             !.missing = FALSE, !.promotion = "settled"]]
  /\ UNCHANGED <<tree, scene, sup, lane, watch, restart, generation, repair>>

Arrive(t) ==
  /\ vital[t].promotion = "pending" /\ vital[t].missing
  /\ vital' = [vital EXCEPT ![t].overdue = @ \ {"movement"}, ![t].missing = FALSE]
  /\ UNCHANGED <<tree, scene, sup, lane, watch, restart, generation, repair>>

\* A generation that reports nothing for five minutes.
GenerationAges ==
  /\ generation = "running" /\ generation' = "stale"
  /\ UNCHANGED <<tree, scene, vital, sup, lane, watch, restart, repair>>

-----------------------------------------------------------------------------
(* The rules of a stuck system. *)

\* _task_state_fingerprint: the attempt is no part of it; _promotion_state_fingerprint.
TaskPrint(st, t) == <<st.status, st.run, vital[t].art, vital[t].lease # "none">>
PromotionPrint(t) == <<vital[t].promotion, vital[t].missing>>

\* _same_state_loop: this tick and the snapshots before it with the same fingerprint.
SameStateLoop(t, print) == IF vital[t].snap = print THEN 1 + vital[t].seen ELSE 1

\* _running_supervisors.
SupervisorRuns == sup # "off"

\* What the tick read of the tasks, as a function.
ReadOf(read) == [t \in {r.id : r \in read} |-> CHOOSE r \in read : r.id = t]

PendingRules(rd) ==
  LET waiting == {t \in DOMAIN rd : rd[t].status = "pending"}
      late    == {t \in waiting : "claim" \in vital[t].overdue}
      nobody  == \A t \in DOMAIN rd : rd[t].status # "active"
  IN  (IF waiting # {} /\ nobody /\ late = waiting THEN {"no active tasks"} ELSE {})
        \cup (IF late # {} /\ nobody /\ SupervisorRuns THEN {"not being claimed"} ELSE {})

\* No part of the code files an objective_stalled event, so that the rule is about paused
\* objectives.
StalledRule == IF objective = "paused" THEN {"stalled objective"} ELSE {}

\* _artifact_inventory: the latest file of the run's directory.
NoArtifact(t) == "artifact" \in vital[t].overdue

\* The rule's first alternative wants recent artifacts as old as the timeout that makes
\* them recent, which leaves the second.
OnlyNoise(t) == NoArtifact(t) /\ vital[t].art \in Noise

LostItsWorker(t) ==
  \/ vital[t].lease = "none"
  \/ sup = "off"
  \/ vital[t].lease # sup

NotReconciled(st, t) == st.run = "ended" /\ "reconcile" \in vital[t].overdue

ActiveRules(rd) ==
  UNION {(IF NoArtifact(t) THEN {"no artifact"} ELSE {})
           \cup (IF OnlyNoise(t) THEN {"only noise"} ELSE {})
           \cup (IF LostItsWorker(t) THEN {"lost its worker"} ELSE {})
           \cup (IF NotReconciled(rd[t], t) THEN {"not reconciled"} ELSE {})
         : t \in {u \in DOMAIN rd : rd[u].status = "active"}}

LoopRule(rd) ==
  IF \E t \in DOMAIN rd : /\ rd[t].status \in {"pending", "active"}
                          /\ SameStateLoop(t, TaskPrint(rd[t], t)) >= Threshold
  THEN {"looping"} ELSE {}

PromotionRules(rd) ==
  UNION {(IF "movement" \in vital[t].overdue THEN {"no movement"} ELSE {})
           \cup (IF vital[t].missing /\ "prerequisite" \in vital[t].overdue
                 THEN {"missing prerequisite"} ELSE {})
           \cup (IF SameStateLoop(t, PromotionPrint(t)) >= Threshold
                 THEN {"promotion looping"} ELSE {})
         : t \in {u \in DOMAIN rd : vital[u].promotion = "pending"}}

StuckRules(rd) ==
  PendingRules(rd) \cup StalledRule \cup ActiveRules(rd) \cup LoopRule(rd)
    \cup PromotionRules(rd)

-----------------------------------------------------------------------------
(* A tick of the control loop. *)

\* The tasks and their runs are read first.
ReadTasks ==
  /\ On("watch") /\ watch.pc = "sleep"
  /\ watch' = [watch EXCEPT !.pc = "read",
                 !.read = {[id |-> t, status |-> task[t].status, run |-> task[t].run]
                             : t \in Created(task)}]
  /\ UNCHANGED <<tree, scene, vital, sup, lane, restart, generation, repair>>

\* run_once: leases, supervisors, objectives and files are read as they are now; a stuck
\* system is marked degraded, another healthy (ControlPlane has the marks), and recorded.
Evaluate ==
  /\ watch.pc = "read"
  /\ watch' = [watch EXCEPT !.pc = "snapshot", !.read = {},
                 !.stuck = StuckRules(ReadOf(watch.read)) # {}]
  /\ UNCHANGED <<tree, scene, vital, sup, lane, restart, generation, repair>>

\* _record_state_snapshots reads everything once more; a task's or a promotion's run of
\* equal snapshots is counted up to the events that are ever looked at.
RecordSnapshots ==
  /\ watch.pc = "snapshot"
  /\ vital' = [t \in TaskIds |->
       IF task[t].status = "none" THEN vital[t] ELSE
       LET print == IF vital[t].promotion # "none" THEN PromotionPrint(t)
                    ELSE TaskPrint(task[t], t)
       IN  [vital[t] EXCEPT !.snap = print,
              !.seen = IF vital[t].snap # print THEN 1
                       ELSE IF @ < HardMax - 1 THEN @ + 1 ELSE @]]
  /\ watch' = [watch EXCEPT !.pc = "recover"]
  /\ UNCHANGED <<tree, scene, sup, lane, restart, generation, repair>>

\* SAWatchService.run_once: the agent reports, having done what it thought right, or the
\* call is skipped because no model answers; either way the cooldown starts.
AgentActs ==
  \/ UNCHANGED <<task, objective, lane, restart>>
  \/ "resume" \in scene.agent /\ lane' = "running" /\ UNCHANGED <<task, objective, restart>>
  \/ "restart" \in scene.agent /\ restart' = TRUE /\ UNCHANGED <<task, objective, lane>>
  \/ /\ "requeue" \in scene.agent
     /\ \E t \in With(task, "active") \cup With(task, "failed") : SetTask(t, "pending")
     /\ UNCHANGED <<lane, restart>>

Recover ==
  /\ watch.pc = "recover" /\ watch.stuck /\ ~watch.cooldown
  /\ AgentActs
  /\ watch' = [watch EXCEPT !.pc = "restart", !.cooldown = TRUE, !.helped = TRUE]
  /\ UNCHANGED <<disposer, scene, vital, sup, generation, repair>>

CoolingDown ==
  /\ watch.pc = "recover" /\ (~watch.stuck \/ watch.cooldown)
  /\ watch' = [watch EXCEPT !.pc = "restart", !.cooldown = @ /\ watch.stuck]
  /\ UNCHANGED <<tree, scene, vital, sup, lane, restart, generation, repair>>

\* A request is cleared before it is carried out; the harness comes back under a worker id
\* of its own, or does not.
Restart ==
  /\ watch.pc = "restart"
  /\ watch' = [watch EXCEPT !.pc = "sleep", !.stuck = FALSE, !.helped = FALSE]
  /\ restart' = FALSE
  /\ IF restart THEN sup' \in {"off"} \cup Workers ELSE UNCHANGED sup
  /\ UNCHANGED <<tree, scene, vital, lane, generation, repair>>

\* For mutation: every stuck tick starts the cooldown anew, and ticks are more frequent.
CooldownRenewed == FALSE /\ UNCHANGED vars

CooldownEnds ==
  /\ watch.cooldown
  /\ watch' = [watch EXCEPT !.cooldown = FALSE]
  /\ UNCHANGED <<tree, scene, vital, sup, lane, restart, generation, repair>>

\* The loop is stopped and started again: the preflight forgets the snapshots and drops
\* a restart request.
LoopRestarts ==
  /\ On("watch") /\ watch.pc = "sleep" /\ scene.deaths > 0
  /\ scene' = [scene EXCEPT !.deaths = @ - 1]
  /\ vital' = [t \in TaskIds |-> [vital[t] EXCEPT !.snap = <<>>, !.seen = 0]]
  /\ watch' = Asleep /\ restart' = FALSE
  /\ UNCHANGED <<tree, sup, lane, generation, repair>>

TickStep == ReadTasks \/ Evaluate \/ RecordSnapshots \/ Recover \/ CoolingDown \/ Restart

-----------------------------------------------------------------------------
(* The agent's repairs, one at a time.  *)

Unsettled == With(task, "pending") \cup With(task, "active")

\* _failed_task_is_historical.
Historical(t) == task[t].disp = "waive_obsolete"
FailedUnresolved == {t \in With(task, "failed") : ~Historical(t)}

StaleGenerationSignal == generation = "stale" /\ Unsettled = {}
RepeatedFailureSignal == \E t \in TaskIds : vital[t].fails >= 2
LowValueChurnSignal ==
  /\ \E t \in TaskIds : vital[t].fails >= 3
  /\ objective # "resolved" /\ With(task, "pending") # {} /\ With(task, "completed") = {}
WorkerPausedSignal == lane = "paused"
WorkflowGapSignal == objective # "resolved" /\ Unsettled = {}

\* _continuity_signals, ...
ContinuitySignals ==
  (IF StaleGenerationSignal THEN {"generation"} ELSE {})
    \cup (IF RepeatedFailureSignal THEN {"failures"} ELSE {})
    \cup (IF LowValueChurnSignal THEN {"churn"} ELSE {})
    \cup (IF WorkerPausedSignal THEN {"paused"} ELSE {})
    \cup (IF WorkflowGapSignal THEN {"gap"} ELSE {})

\* ... of which the first counts; all but the paused lane lead to the objective
\* (_target_objective_for_signal).
TargetsObjective ==
  ContinuitySignals = {"gap"} \/ ContinuitySignals \cap {"generation", "failures", "churn"} # {}

\* _progress_snapshot.
Progress ==
  [pending |-> Cardinality(With(task, "pending")), active |-> Cardinality(With(task, "active")),
   failed |-> Cardinality(FailedUnresolved), status |-> objective,
   stale |-> generation = "stale"]

\* _forward_progress_resumed.  The repair's own task is pending since the first snapshot
\* was taken, which counts as progress as long as nobody has settled it.
ForwardProgress(before) ==
  \/ objective = "resolved"
  \/ Progress.pending > before.pending \/ Progress.active > before.active
  \/ before.stale /\ ~Progress.stale
  \/ Progress.failed < before.failed
  \/ before.status # objective /\ objective \in {"planning", "executing"}

\* _persist_repair_start writes a task with a run of its own.
NewRepairTask == [NewTask(0, "repair") EXCEPT !.run = "working"]

\* _repair_harness up to _persist_repair_start: the repair's task is open to the workers
\* before the lane is paused.
RepairStart ==
  /\ On("repair") /\ repair.pc = "idle" /\ MayCreate /\ TargetsObjective
  /\ scene.repairs > 0 /\ scene' = [scene EXCEPT !.repairs = @ - 1]
  /\ task' = [task EXCEPT ![Fresh] = NewRepairTask]
  /\ repair' = [pc |-> "pause", task |-> Fresh, before |-> Progress, outcome |-> "none"]
  /\ UNCHANGED <<objective, disposer, vital, sup, lane, watch, restart, generation>>

RepairPause ==
  /\ repair.pc = "pause"
  /\ lane' = "paused"
  /\ repair' = [repair EXCEPT !.pc = "run"]
  /\ UNCHANGED <<tree, scene, vital, sup, watch, restart, generation>>

\* The runner of the build only hands the task to the pipeline (_run_direct_repair), which
\* fails when a worker has already completed it; another runner may repair, with or
\* without a lasting change, and unstick the generation.
Delegate == MayTransition(task[repair.task].status, "pending")

RepairRun ==
  /\ repair.pc = "run"
  /\ \E out \in {"validated", "validated in passing", "delegated", "blocked", "failed", "raised"} :
       /\ out = "delegated" => Delegate
       /\ repair' = [repair EXCEPT !.pc = "finish", !.outcome = out]
       /\ IF out = "delegated" THEN SetTask(repair.task, "pending")
          ELSE UNCHANGED <<task, objective>>
       /\ generation' \in IF out \in {"validated", "validated in passing"}
                          THEN {generation, "ended"} ELSE {generation}
  /\ UNCHANGED <<disposer, scene, vital, sup, lane, watch, restart>>

\* _repair_is_durable.
Durable == repair.outcome = "validated"

\* _verified_recovery: validated, lasting, and work moved.
Verified == Durable /\ ForwardProgress(repair.before)

\* _persist_repair_completion: the status it writes may be refused, which ends the repair
\* with the lane still paused.
FinalStatus ==
  IF Verified THEN "completed"
  ELSE IF repair.outcome = "delegated" THEN task[repair.task].status ELSE "failed"

RepairFinish ==
  /\ repair.pc = "finish"
  /\ IF ~MayTransition(task[repair.task].status, FinalStatus)
     THEN UNCHANGED <<task, objective, lane, restart>>
     ELSE /\ SetTask(repair.task, FinalStatus)
          /\ restart' = (restart \/ Verified)
          /\ lane' = IF Verified THEN "running" ELSE lane
  /\ repair' = NoRepair
  /\ UNCHANGED <<disposer, scene, vital, sup, watch, generation>>

\* _repair_workflow_state: tasks of the superseded recovery flow are set aside and waived,
\* the phase is derived anew and a resolved objective planned again.
RepairWorkflow ==
  LET legacy == {t \in Created(task) : task[t].kind = "legacy"}
      ts     == [t \in TaskIds |-> IF t \notin legacy THEN task[t]
                   ELSE [task[t] EXCEPT !.ignored = TRUE,
                          !.disp = IF task[t].status = "failed" THEN "waive_obsolete" ELSE @]]
  IN  /\ On("repair") /\ repair.pc = "idle" /\ TargetsObjective
      /\ legacy # {} /\ task # ts
      /\ task' = ts
      /\ objective' = IF Phase(ts) = "resolved" THEN "planning" ELSE Phase(ts)
      /\ restart' = TRUE
      /\ UNCHANGED <<disposer, scene, vital, sup, lane, watch, generation, repair>>

RepairStep == RepairStart \/ RepairPause \/ RepairRun \/ RepairFinish \/ RepairWorkflow

-----------------------------------------------------------------------------
Disposition ==
  /\ UNCHANGED watching
  /\ \E d \in Disposers : On(d) /\ DisposerStep(d)

Next ==
  \/ \E t \in TaskIds :
       \/ Claim(t) \/ StartRun(t) \/ EndRun(t) \/ Settle(t) \/ LeaseExpires(t) \/ Requeue(t)
       \/ Decide(t) \/ Arrive(t)
       \/ \E kind \in {"heartbeat", "plan"} : Write(t, kind)
  \/ \E w \in Workers : SupervisorStarts(w)
  \/ SupervisorDies \/ GenerationAges \/ TimePasses
  \/ TickStep \/ CooldownEnds \/ LoopRestarts
  \/ RepairStep
  \/ Disposition

\* The control loop runs on (the process is not stopped for good) and time passes.
Fairness ==
  WF_vars(TickStep) /\ WF_vars(CooldownEnds) /\ WF_vars(TimePasses)

Spec == Init /\ [][Next]_vars /\ Fairness

-----------------------------------------------------------------------------
(* Properties. *)

\* Work nobody sees to: an active task without a lease, or tasks waiting with none active.
Unattended ==
  \/ \E t \in With(task, "active") : vital[t].lease = "none"
  \/ With(task, "pending") # {} /\ With(task, "active") = {}

\* Whatever is read stale within a tick, however often the loop is restarted and whatever
\* the agent did when it was called before, work that nobody sees to is seen to or the
\* agent is called, again and again (run_once's rules, the cooldown of control-loop).
StuckIsNoticed == On("watch") /\ Unattended ~> (~Unattended \/ watch.helped)
=============================================================================
