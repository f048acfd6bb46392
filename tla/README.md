# A verification project for accruvia-harness

accruvia-harness runs coding tasks through language models: a task is planned,
worked on, validated, analysed and decided (promote, retry, branch, fail), and
the outcome moves the task and its objective on. Everything is kept in one
SQLite file that several operating-system processes open at once: supervisors,
the CLI, the UI server, the MCP server, Temporal workers, the `sa_watch`
sidecar. There is no other coordination between them. This directory holds
TLA+ models of that system, TLC configurations that check them on small
instances, and TLAPS proofs for every instance.

Paths below are relative to `src/src/accruvia_harness/`.

## 1. Inventory

| Component | State | Operations | What is hard | Correct when | Modelled in |
|---|---|---|---|---|---|
| Task queue (`persistence/project_task.py`, `services/queue_service.py`) | `tasks.status`, `task_leases`, `local_exclusions` of a call | acquire, release, list, gates, dispatch | two workers, leases that expire and are never extended, dead holders | one worker per task and the project cap while leases last, only the holder releases, no task starves | `TaskExecution` |
| Run engine (`services/run_service.py`) | `runs`, `decisions`, workspaces on disk, the process's own copy of its run | `run_once` and its phases, status update, rescue, workspace sweep | each phase is a transaction of its own; exceptions and kills between any two; reads outside the write transaction | attempts distinct and bounded, outcome backed by a run, completed is final, no workspace swept from under a lease | `TaskExecution` |
| Policy (`policy.py`, `domain.py`) | none | analyse, decide, validate transition | last-attempt boundary | fails only with the budget spent | `Policy` |
| Recovery (`store.py`) | run rows, active tasks, leases | `recover_stale_state`, at every process start and by supervisors | tells dead from alive by leases alone | repairs the dead, spares the living | `TaskExecution`, `Processes` |
| Control plane (`control_plane.py`, `control_runtime.py`, `control_watch.py`) | lanes, global state, cooldowns, budgets | on, off, freeze, thaw, pause, resume, cooldown, observe, watch | unguarded read-modify-write by several processes; a runtime observer that reopens lanes | a freeze holds, a wrong report is corrected, cooldowns end, budgets hold | `ControlPlane` |
| Objectives (`services/workflow_service.py`, `objective_lifecycle_runner.py`, `ui_mixins/atomic_generation.py`, `persistence/project_task.py`) | phase, status, diagram versions, generations, tasks | reconcile, queue and resume a generation, derive the status, the operator's commands | two processes poll and start the same work; threads that die; a status derived from an old snapshot | work that was started ends, the status agrees with the tasks | `Objective`, `ObjectivePlanning`, `ObjectiveFlow` |
| Objective review (`ui_mixins/objective_review.py`, `services/objective_review_orchestrator.py`) | rounds, packets, remediation tasks, `repo_applyback` marks | queue, review, remediate, rerun, promote, override | rounds that never end, concerns nobody takes up, promotion that dies between push and mark | nothing marked that was not pushed, no concern dropped; nothing pushed unreviewed (it fails, section 5) | `ObjectiveReview`, `ObjectiveFlow` |
| Plans (`skills/plan_draft.py`, `skills/review_plan_atomicity.py`, `services/trio_plan_orchestrator.py`, `services/red_team_loop.py`) | the draft, plan rows, tasks made of them | draft, check, review, materialise, publish | drafts that refer to what is not there, generations that die half published | published plans are sound | `Plans` |
| Work pipeline (`services/work_orchestrator.py`, `skills/`) | scope, workspace, round, diagnostics, commit | scope, implement, self-review, validate, diagnose, fix tests, commit | later steps change what earlier steps approved | what is committed, but for the entry in `CHANGELOG.md`, was validated, reviewed and in scope | `WorkPipeline`, `PlannedWork` |
| LLM routing (`llm.py`) | chain of backends, tries, response file | execute with fallback | a failing backend leaves a file another one's call reads | an error report is never an answer | `LLMRouting` |
| Validation and evidence (`policy.py`, `validation/`) | the report of a run | analyse, promotion gates | gates read a report, not the workspace | what waits for affirmation is what passed | `Evidence` |
| Promotion (`services/promotion_service.py`, `repository_promotion_service.py`, `merge_gate.py`, `review_watcher_service.py`, `structural_fix_promotion_service.py`) | promotions, follow-ons, commits on the remote and in the operator's clone, pull requests | review, affirm, apply, verify, roll back, merge, watch | one step of several failing, refused and lost pushes, several processes on one remote | what is on record is on main, once, and checked where there is a Makefile | `Delivery` |
| Task service (`services/task_service.py`, `issue_service.py`) | tasks with their references and parents | create, dispose, follow-on, import, report | check-then-insert, growth of trees | no duplicates, bounded trees | `Intake`, `RetryTree` |
| Supervisor (`services/supervisor_service.py`, `cognition_service.py`), LLM gate (`llm_availability.py`) | heartbeats due, failures, gate's cache and back-off | loop, heartbeat, drain, process, recover, wait, stop | heartbeats or a closed gate that keep the loop from looking | stop requests are seen, queues are served | `Supervisor` |
| Decision queue, branches (`services/decision_service.py`, `branch_service.py`, `validation_service.py`) | `decision_queue`, branch runs | enqueue, dequeue, decide, create branches, select winner | two drainers, a drainer that dies | decisions are taken | `Decisions` |
| Processes (`commands/core.py`, `commands/common.py`, `commands/control.py`) | records, `stop.request`, runtime, launch and desired-state files | start, stop, kill, nudge, restart the stack; start, adopt, stop the sidecar | pids, files and signals read at different moments | a nudge waits, a stop stops, the sidecar follows | `Processes`, `Sidecar` |
| `sa_watch.py` | snapshots, cooldowns, repair attempts | tick, evaluate rules, call the agent, repair workflow | tasks, leases and snapshots are read at different moments | stuck work is noticed, again and again | `StuckWatch` |

Interaction: the components call each other inside a process and meet between
processes only in the tables and files named above. Callbacks (`progress`, the
runtime observer, `post_task_callback`) run synchronously in the process of the
run.

## 2. Plan

The plan was drawn along the way of a piece of work: first the queue and the
engine that everything runs on, then the control plane that gates it, then
what objectives make of it, then the processes around it. All its modules are
written:

1. `Policy`, `TaskExecution`, `TaskBoard`: queue, leases, runs, recovery, and
   the abstract board they implement.
2. `ControlPlane`: lanes, freeze and off, cooldowns, budgets, the runtime
   observer and the watch.
3. `Objective*`: an objective from its creation to its promotion.
4. `LLMRouting`, `WorkPipeline`, `Evidence`, `Plans`, composed in `PlannedWork`:
   from a drafted plan to a judged commit.
5. `Delivery`: from a judged commit to main.
6. `RetryTree`, `StuckWatch`: the tree of retried and split tasks, and the
   sidecar's rules.
7. `Intake`, `Decisions`, `Processes`, `Sidecar`, `Supervisor`, composed in
   `Harness`: the processes of one harness.

The proofs followed the same way: types and leases first, then the outcome of a
task, the queue and its refinement, the control plane, the promotions of an
objective, the pipeline, the delivery, the processes of a harness, and the retry
tree. Every invariant and every action property of a passing run is a theorem
now, some of them for the executions in which leases last; what would come next
is the liveness, for which another prover is needed.

## 3. Modules

| Module | What it is |
|---|---|
| `Policy` | The pure rules: task transitions, the verdicts of an analysis, `DefaultDecider.decide`, the run and task status a decision leads to |
| `TaskExecution` | Queue, leases, runs, workspaces and recovery, as processes over the tables of the store |
| `TaskBoard`, `TaskExecutionRefinement` | What the queue and the engine promise of a task, with neither leases nor runs, and the mapping onto it |
| `ControlPlane` | System state, lanes, cooldowns, the budget of an objective, and the processes that change them |
| `Objective` | The rows of one objective and what is derived from them: status, gate, state of generations and rounds, clearance |
| `ObjectivePlanning`, `ObjectiveReview` | The handlers, as functions from one state of the objective to the next |
| `ObjectiveFlow` | The processes that call them: operator, polls, threads, engine, crashes |
| `LLMRouting` | One call through the router, as a record and functions over it |
| `WorkPipeline` | One run of the skills pipeline, EXTENDS `LLMRouting` |
| `Evidence` | Report, analyzer's verdict and promotion gates of such a run |
| `Plans` | The planner and the checks of its drafts |
| `PlannedWork` | `Plans` and `Evidence` composed: the scope of a run is that of a published plan |
| `Delivery` | Promotion, apply-back, merge gate and review watcher over a linear history |
| `RetryTree` | Disposers of failed tasks, the cap of a retry tree |
| `StuckWatch` | The sidecar's tick, the agent and the repair workflow, beside workers; EXTENDS `RetryTree` |
| `Intake` | Tasks, issues and their reports |
| `Decisions` | The decision queue and speculative branches, EXTENDS `Intake` |
| `Processes` | Starts, ends, signals and state files of supervisors, nudge and stack |
| `Sidecar` | Launchers, loops and the stop of the sidecar |
| `Supervisor` | The loop of a supervisor |
| `Harness` | All of these together |
| `MC*` | Instances for TLC |
| `TaskExecutionProofs`, `TaskExecutionQueueProofs`, `ControlPlaneProofs`, `ObjectiveProofs`, `WorkProofs`, `DeliveryProofs`, `HarnessProofs`, `StuckWatchProofs` | Theorems, section 6 |

A chain of `EXTENDS` is one specification cut by component: the last module of
the chain has `Init`, `Next` and `Spec`.

### TaskExecution

**State.** `status` is `tasks.status`; `leaseholder` and `expired` are the rows
of `task_leases` (worker, and whether `lease_expires_at` has passed); `runs` are
the rows of `runs` with their decision, per task in creation order;
`workspaces` the run directories on disk. The rest is in the memory of one
process: where it stands (`pc`), the task it has (`job`), the run it drives
(`cur`), the attempt number it read (`attempt`), the analysis and the wanted
status it has not written yet, the `local_exclusions` of its queue call.

**Granularity.** An action is one database transaction, or one read outside
any. Python's `sqlite3` opens a transaction at the first statement that writes,
so a method that starts with a `DELETE` (`acquire_task_lease`,
`recover_stale_state`) holds the write lock for all of it and is one action,
while one that starts with a `SELECT` (`update_task_status`, which reads
through another connection) is two, and other processes step in between.

**Processes.** A queue worker repeats
`Acquire; (Refuse | Dispatch; Sweep; Begin; Start; NextAttempt; CreateRun;
StartWorking; [StartValidating;] StartAnalyzing; StartDeciding; RecordDecision;
CloseRun; Apply; ApplyRead; ApplyWrite; Return; Release)`.
A process in `Direct` starts at `RunDirectly` and takes no lease: that is
`run_once` called by the CLI, the UI, MCP or a Temporal activity;
`run_until_stable` is a sequence of those. Worker ids are distinct, which the
operator runbook asks for (`OPERATOR_RUNBOOK.md`, lines 122 to 124). `Raise` is
an exception anywhere in the run, after which the except clause's
`Rescue; RescueRead; RescueWrite` puts an active task back. `Crash` kills the
process and leaves its rows. `Recover` and `Restart` run `recover_stale_state`.

**What is left to the environment.** The verdict of an analysis is any the
analyzer can give. The gates of the queue (worker lane, objective budget,
execution gate) refuse or admit any task at any time. A sweep removes every
workspace its run's status allows, though a real one would spare those an
artifact refers to; promotion, after which a completed run's workspace may
go, is not part of the model. `Requeue` is atomic.

### ControlPlane

**State.** `system` is the row of `control_system_state` (global state and master
switch), `lane` and `elapsed` the rows of `control_lane_state` (state, and
whether `cooldown_until` has passed), `used` the rows of `control_budgets` of one
objective that lie in the last hour. A lane paused with a reason that names
credit or budget is the state `"exhausted"`, the only reason the code ever
looks at. No code disables a lane, so that state is left out. The registers
of a process are the method it is in (`cmd`), the point it has reached (`pc`),
the lane it is about, its copy of the system row, the state it has worked out and
the lanes its loop has still to write. Dead registers are blanked.

**Granularity.** A method of `ControlPlane` opens a connection per read and per
write, so each is an action: `ReadSystem`, `WriteSystem`, one `WriteNextLane` per
lane, `WriteLane`, and then `status()`: `ListLanes`, `ReadSwitch` and `Reopen`
per due lane, `Reconcile`, `JudgeLanes`, `Settle`; `_sync_global_state` goes
through that twice with `Touch` in between. The order of the lanes in a loop
is left open. Rewriting a row with nothing but another reason is an
optional write of the same copy. Nothing keeps the methods of two processes
apart, in the code or in the model.

**Callers.** Operators run one command at a time (`sa_watch` and the start and
end of a supervisor call the same methods). A supervisor polls
(`Poll; CheckLane; CheckBudget`), starts (`TaskStarted`), creates a run
(`RunCreated`) and ends it (`RunEnded`, with the classes of failure the observer
tells apart, or `RunDropped`). A watch ticks
(`WatchRecovers; WatchEvaluates; WatchReports`); its stuck-state rules match or
not as they like. All runs belong to one objective. The no-progress block and
the execution gate are choices of the environment (`Refuse`).

### Objective, ObjectivePlanning, ObjectiveReview, ObjectiveFlow

**State.** One record, `obj`. Its `task`, `waived`, `status`, `phase`, `version`,
`drawn`, `gens` and `rounds` are the rows and context records of an objective;
`pushed` and `marked` are what a promotion did in the repository and the
`repo_applyback` it wrote; `planner[p]`, `reviewer[p]` and `promo[w]` are the
registers of the threads of a process (UI or command line) and of the
operator's own promotion, with the runner's copy of the phase; `late` is a
status that `update_objective_phase` has derived and not yet written. A record
with a budget (`room`, `edits`, `failures`, `races`, `crashes`) bounds the rest.

**Actions.** A handler is a function from one state of the objective to the
next, so that handlers that call each other compose as they do in the code:
`update_mermaid_artifact`, say, ends in `reconcile_objective`, which ends in
`queue_atomic_generation`. A poll that may start work is two actions, its
check (`AdmitGeneration`, `AdmitRound`) and its record (`BeginGeneration`,
`BeginRound`), between which the other process may do the same. The steps of
`_run_atomic_generation`, `_run_objective_review` and
`_apply_repo_promotion_for_tasks` are the disjuncts of `Plan`, `Review` and
`Promote`. `aged` stands for the 300 seconds after which a record is stale. Of
the task engine only the status of each task is left; that it goes through
`update_task_status` and hence derives the objective's status is kept.

### LLMRouting, WorkPipeline, Evidence, Plans, PlannedWork

**State.** `job` is one run: the task, the program point, the call in progress
(chain, try, response file), the workspace as a function from files to the step
that wrote their content, the snapshots that were reviewed, checked and
committed, and the verdicts. `plan` is the planner with its draft, the rows of
the plan table and the tasks published.

**Actions.** Every skill is `Try`, repeated over backends and tries, and then an
action for what is done with the answer (`ScopeAnswers`, `Implemented`,
`Reviewed`, `Diagnosed`, `Fixed`) or `SkillFails`; `Validate`, `Revalidate`,
`Gate` and `Commit` follow, and the judging of the finished run. `Commit` begins
with the entry in `CHANGELOG.md` (`Entered`), written after everything else and
staged whatever the scope. An answer is any
set of writes and deletions over a small set of paths. A draft is any of a set of
lists of plans of which each has one of the defects the checks are about, or
none. `TakeTask` composes: a worker starts the pipeline on a task that was
published, with the scope of its plan.

### Delivery

**State.** `main` and `local` are the commits on the remote and in the
operator's clone, each with what it does to which run's change, who made it and
whether checks had passed; `ws` the workspaces; `promos`, `filed`, `rebase`,
`fixes` the records in the store; `review` the pull requests; `job` what each
process is doing.

**Actions.** One per step of an affirmation (`Find`, `FileFollowOn`, `Affirm`,
`Answer`, `CommitWork`, `PrePush`, `Push`, `OpenReview`, `Verify`, `PostPush`,
`Rollback`, `RecordPromotion`), of an objective promotion, of a recovery fix, of
the merge gate (`AutoMerge`, `Tested`, `TestMerge`) and of the review watcher.
The checks around a push are the code's own `make` commands: a workspace without
a Makefile passes them unchecked (`HasCommands`). A push is refused unless it is
a fast-forward, may be lost after it arrived, and others push too
(`OutsidePush`). `Crash` ends a process at any step.

### RetryTree, StuckWatch

Disposers decide on failed tasks: the check of the tree's cap and the creation
of each task of a split are actions of their own (`Check`, `CreateRemedy`). A
tick of the sidecar reads tasks, then leases, then snapshots (`ReadTasks`,
`Evaluate`, `RecordSnapshots`), and the agent it calls acts later
(`AgentActs`). Workers claim, write, end, die; `TimePasses` ages what nobody
renews. The repair workflow (`RepairStart`, `RepairPause`, `Delegate`,
`RepairRun`, `RepairFinish`) pauses the worker lane and hands a repair task to a
worker. The nine scenes of `MCStuckWatch` say who is at work.

### Intake, Decisions, Processes, Sidecar, Supervisor, Harness

**State.** `task`, `issue`, `reported` and `clerk` are the tasks, the tracker, the
reports on record and the importers; `run`, `item`, `drain`, `brancher` the
decision queue and the branches; `file` the state files (`stop.request`, the
records, the sidecar's runtime, launch and desired state); `plane` the switch,
the harness lane and the web server; `sv[p]` a supervisor's loop with its
heartbeats, its gate and what it still has to do; `nudge`, `stack`, `launcher`,
`child`, `stopper` the other commands in progress.

**Actions.** The loop of `SupervisorService.run` is cut where it reads what others
write: `LoopHead`, `Heartbeat`, `Materialize`, `HeartbeatsDone`, `DrainQueue`,
`ProcessNextTask`, `GateHolds`, `RunTask`, `IdleCycle`, `Maintain`, `Wake`.
The commands of `core.py` and `common.py` are cut between any two files,
signals or process lists they touch. `scene` says who is at work and how many
commands, faults and outages are left.

## 4. Runs

| Run | Instance | Shows |
|---|---|---|
| `leased` | two queue workers, one task of two attempts, one fault, one requeue | with leases that outlive their runs: one worker per task, rows that tell the truth, distinct and bounded attempts, backed outcomes, completed is final, every task finishes |
| `capped` | two interchangeable queue workers, two tasks of a project with `max_concurrent_tasks = 1` and one of a project without a cap; no faults, leases that outlive their runs | the cap holds for processes, completed work is kept, and the engine implements `TaskBoard` |
| `unleased` | two queue workers whose leases may expire early, a lease-less process, one task of two attempts, one incident | a worker that lost its lease does not end its successor's, and no sweep takes the workspace of a process whose lease is alive |
| `reopened` | two queue workers, a lease that expires early | a finding, section 5 |
| `control` | an operator, a supervisor and the watch, any two of them inside a method at a time, one lane; four starts: switched off, healthy with a command to come, healthy with a kill to come, frozen with a command to come | a freeze is lost at most to a method that was under way, a wrong report is corrected, switch and state agree, the budget is overdrawn by one run at most, every cooldown ends |
| `objective` | one dimension, one unit and one round; both processes, in seven budgets: a crash, an overtaken derivation, an undefined objective, a diagram, a failing task, a promotion or override, a second generation | no mark without a push, generations and rounds end, the status settles, concerns are taken up |
| `unreviewed` | the UI alone, two rounds, two commands | a finding, section 5 |
| `pipeline` | two backends, three files, one of them `CHANGELOG.md`, nine tasks, 18 variants of each of two plans | what is committed and what waits for affirmation is what was validated, reviewed and in scope, but for the entry in `CHANGELOG.md`; error reports are no answers; plans are sound; it all ends |
| `retry_merge` | the same | a finding |
| `delivery` | two runs, two affirmers and the four other actors in ten settings, two of them short of Makefiles, up to two faults | what is on record as applied is on main, once, and was checked where there is a Makefile |
| `sidecar` | six tasks, two disposers, two workers, a watch, a repair, in nine scenes | the retry tree keeps its cap up to a split, work nobody sees to gets the agent called |
| `supervision` | three supervisors, two clerks, launchers and loops, one heartbeat project, in fourteen scenes | an issue gets no more tasks than importers race for it, a nudge waits, a stop is obeyed, queues are served, the sidecar follows |

**Bounds.** In `TaskExecution`, `MaxFaults` bounds crashes, exceptions, outages and
early expiries together, `MaxCommands` requeues and direct runs. One fault may
strike at any program point of any process, and the protocol has no state
that counts faults: a second one meets a state that a fault-free prefix of
another behaviour also reaches. Two workers and one task give every pair of
overlapping operations; more tasks are needed only where tasks meet, at the cap
and in the refinement, and there (`capped`) the faults, whose interleavings
`leased` has, are left out: lease rows that outlive a dead worker are left to the
theorem `Capped`. Two attempts give the boundary of the decider on both sides.
`leased` and `capped` assume that a lease outlives the run it is for. The code
does not see to it: a lease is 300 s by default and never extended, while a
worker may run for 1800 s. `unleased` and `reopened` drop the assumption, and so
do the theorems, where section 6 says so. `unleased` has one incident per
behaviour (`OneIncident`), since three processes are many states by themselves:
an early expiry, with everything that two queue workers then do to one task, or a
direct run beside them, not both.

In `ControlPlane`, `MaxCommands` and `MaxCrashes` bound operators and kills, and
`TwoOverlap` the processes inside a method at a time; supervisors and the watch go
on for ever. Every property but one is about what one method can do to another,
for which two are enough; the budget's depends on the number of supervisors,
and a theorem has any number. The starts keep the operator's command and the kill
apart. One lane suffices for the loops, which a kill or another method may still
enter before or after it. The limit is 0 instead of 3, which moves the boundary:
one run passes the check and the next does not. More lanes, methods and
supervisors are covered by the theorems of section 6.

The other specifications take a set of *alternatives* as a constant (`Budgets`,
`Jobs`, `Projects`, `Scenes`): a behaviour starts in one of them, and each of
them has the actors and the amount of trouble that one kind of hazard needs.
This keeps actors apart that have no state in common, which a product of all
bounds would multiply. In `Objective*` one dimension and one unit are enough
since packets, remediations and units never look at each other; one round gives a
remediation, and the second of `unreviewed` what comes after it; two diagram
versions give an outdated generation. `MaxTrio = 1` (4 in the code) gives the last round of the plan loop, which is the
only one that does anything; `Plans` has the rounds. In `WorkPipeline` rounds
and tries have the values of the code. `MaxPlans` is 2 instead of 15, so that
three plans are too many. In `Delivery` at most four commits reach main, enough
for a change, its rollback, another's push and a second try. In `RetryTree` the
cap is 2 with two findings per split, so that a second split crosses it.

**Deadlock** is checked in the runs of `TaskExecution`, `ControlPlane` and
`PlannedWork`. The others end where an objective is promoted, bounds are spent or
no command comes, so their configurations say `CHECK_DEADLOCK FALSE`; that
they do not stop early is what their liveness properties say.

**Fairness.** `leased`: a process that has a next step takes it; time passes, so
a dead lease expires; some supervisor keeps calling `recover_stale_state`, as
`SupervisorService.run` does when idle. `Dispatch` and `Begin` have strong
fairness: the gates may refuse a task any number of times, but not every time
it is offered. `control`: methods run to their end, cooldowns elapse, and the
watch loop, which a timer drives, goes on when its last method has ended (weak
fairness throughout). `objective`: threads and the task engine make progress, and the supervisor's polls come
again and again, one of which finds a record old that nobody renews; nothing is
assumed of the UI's polls, which need a browser. `pipeline`: every call and
command has a timeout. `sidecar`: the loop ticks, cooldowns end and time passes;
nothing is assumed of the agent, of repairs or of workers. `supervision`: the
processes that live take their steps, time passes in the gate (strong fairness,
since the loop may fill the cache again), a dead lease expires; the operator who
wants a sidecar asks until it is there. Nothing is ever assumed of crashed
processes or of other operators.

**Mutants.** Beside the definitions that could plausibly be wrong stand their
faulty variants (`EligibleThoughLeased`, `KeepGeneration`, `StrandedNever`,
`PushSwallowed` and so on). Each property is violated when one of them takes the
place of the definition it is a variant of.

## 5. Findings

* **A completed task is reopened** (`reopened`). `_apply_task_status_for_run`
  spares a completed task by reading its status first, and
  `update_task_status` reads it again, each outside the transaction that
  writes. When a run outlives its lease, another worker can complete the task
  between the last read and the write, and the late "retry" makes it pending.
  `services/run_service.py`, lines 216 and 217, says that must not happen.
* **A rejected write breaks the retry** (`retry_merge`). After a second round of
  implement and self-review the rejected writes of both rounds are merged with
  `dict.fromkeys`, and each of them is a dictionary: `TypeError`, and the run has
  no outcome (`services/work_orchestrator.py`, line 650).

* **A remediation is pushed unreviewed** (`unreviewed`). `review_clear` looks at the
  packets the latest round has so far, and a round that has just been started, or
  that failed, has none. As soon as the remediation of one round is completed and
  the next one has been started, a promotion finds the objective clear: the
  operator's, or the automatic one at the end of the earlier round, whose thread
  may be overtaken by a poll that creates its remediation and starts the next
  round. `bench.py`, lines 55 to 58, wants a completed round in which every packet
  passed, `ui_mixins/objective_review.py`, lines 166 and 167, that every packet
  passed, and `domain.py`, lines 894 to 896, says that no packets are not clear.
  What is left is that a later round was begun (`FixesFollowed`, section 6).

The following disagreements with a document or a comment are plain in the models
and have no run of their own.

* An outage uses up an attempt: `_work_phase` closes the run as blocked, "don't
  burn an attempt" (`run_service.py:435`), and `next_attempt` counts every row.
* A run started from the UI, MCP or the CLI has no lease, so
  `recover_stale_state` of any other process fails it while it works.
* The dispatch gate looks at the worker lane and not at the global state, and the
  observer sets that lane running: a task in flight reopens dispatch in a frozen
  system (`CONTROL-PLANE-PLAN.md:512`, "emergency halt"). `off` clears the
  switch, and with the switch off the gate admits everything (line 511). The
  budget admits four runs an hour with one supervisor (line 742: three).
* A freeze can be lost: a method that read the system row before the freeze writes
  its copy back after it, and the system is healthy or degraded again
  (`CONTROL-PLANE-PLAN.md:512`, "emergency halt"). In the same way a `status()`
  that was under way undoes an `on` or an `off`. `FreezeHolds` says that only the
  methods under way can do this; what they write agrees with their own copy of the
  switch, so that `StateAgreesWithSwitch` holds.
* A run whose lease ran out, or that has none, may have its workspace swept while it
  works: recovery fails its row, and `run_once` of any process removes the
  workspaces of failed runs. `LiveWorkspace` speaks of processes under a lease.
* A project's cap counts lease rows: processes whose lease ran out, or that take
  none, come on top (`Capped`, section 6, says what holds of whom).
* `CHANGELOG.md` is rewritten after validation, self-review and the quality gate, and
  committed with the rest, also when it is outside the scope or among the
  forbidden paths (`services/work_orchestrator.py:904`; line 951 records a "Git
  commit of validated changes", and `skills/implement.py:110` asks the model not
  to touch files outside the scope).
* Without a Makefile, or without commands, `_run_checks` returns and the push goes
  ahead (`services/repository_promotion_service.py:488`): an affirmation or an
  objective's promotion then brings to main what nothing has checked. A repair
  fails there, its local CI being `make` as well.
* `domain.py:135` gives every phase one valid successor, but two generation
  runners, each with its own copy of the phase, move an objective back.
* `process_queue` indexes the result of a dispatch that was refused for want of a
  backend with a key it does not have (`services/queue_service.py:158`).
* "Skipped" validation counts as passed tests, while a `generic` task whose
  `make test` passed has only the stage "check" and is rejected; terraform tasks
  never pass the promotion gates.
* A `CalledProcessError` anywhere in an apply-back is recorded as approved and
  "skipped: non_git_workspace", also when a change that fails verification stays on
  main. A crash after the push leaves a promotion pending whose change is on main
  and which can never be affirmed.
* A stale response file is taken for the answer of another backend
  (`llm.py:264`): not an error report, which `ReportIsNoAnswer` rules out, but
  whatever else was left there.
* While the availability gate is closed the supervisor's loop never counts as
  idle, so an idle limit does not end it; with two heartbeat projects whose rounds outlast their interval the queue starves, so
  `supervision` has one.
* A starting `run-harness` deletes the stop request meant for others, hence the
  escape in `StopHonoured`; nudging a project stops the supervisors of all
  projects and restarts its own.
* A crash after `dequeue_decision` leaves the item in processing for good, and
  two drainers decide the same item: `QueueServed` says that items are taken,
  not that they are decided once.

## 6. Proofs

TLAPS proves these for every value of the constants, where TLC checks small
ones. A theorem about a state is proved from an inductive invariant, named in
the last column, that TLC checked on the instances of section 4 before it was
proved.

### The queue and the engine

`ConstantsAssumption` types the constants. Whether leases hold is the question of
this part, since nothing in the code makes a run end before its lease does, and
the theorems come in three kinds. The first hold in every execution:

| Theorem | Statement | Argument |
|---|---|---|
| `TypeCorrect` | `Spec => []TypeOK` | `TypeOK` alone is not inductive: `Run(w)` must exist where a process uses it. `TypeInv` adds what each program point relies on: a busy process has a task, from "planning" on its run index is one of its task's rows, at "closing" its analysis and the row's decision are there, at the status update the wanted status is |
| `HolderReleases` | `Spec => OnlyHolderReleases` | by cases over the actions that change `leaseholder`: purges touch expired rows, `DropLease` the caller's own |
| `Outcome` | `Spec => []OutcomeIsBacked` | `Backed`: a process about to write "completed" or "failed" has behind it a run row with the decision that backs it, decided rows are never changed back by a process or by recovery, so the write is backed whatever happened in between |
| `WorkspaceOfLiveRun` | `Spec => []LiveWorkspace` | `LeasedRuns`: a process under an unexpired lease finds its row as it wrote it, and its workspace: recovery fails the runs of tasks without such a lease, whoever else is at the task writes a row of its own (`OwnRuns`), and a sweep goes by the status of rows |
| `CompletedRunsStay` | `Spec => [][...]_vars` | a completed run row stays completed and keeps its workspace, by cases over the actions (`CompleteKept`); needs `Backed` |
| `Capped` | `Spec => [](RowsCapped /\ HoldersCapped /\ (LeaseHeld => ConcurrencyCap))` | `RowsCapped` bounds the rows of `task_leases` of a project, which is what the code counts; a process under an unexpired lease has a row of its own, so that there are no more of them than rows |

The second hold in every execution that satisfies `[]LeaseHeld`: each process at
work holds the unexpired lease of its task. The premise is about the execution,
not about the constants, so that it is met wherever no run happened to outlive
its lease, by `Spec` with `LeaseOutlivesRun = FALSE` as well:

| Theorem | Statement | Argument |
|---|---|---|
| `CompletedWorkIsKept` | `Spec /\ []LeaseHeld => []WorkKept` | `KeptWant`: a process about to write "completed" has a completed run and its workspace, which no sweep takes and nobody writes over |
| `BoundedRetries` | `OrdinaryTasks => (Spec /\ []LeaseHeld => []RetryBudget)` | `BudgetKept`: a task with as many runs as its bound allows has no further one coming, whether it is waiting, being driven or about to be written; a retry needs an attempt left, and whatever else brings a task back is counted among the faults and commands. Needs also `OrdinaryTasks` (at least one attempt, no branching), since the code runs a task of no attempts once, and branches are the decision queue's |
| `Implements` | `Spec /\ []LeaseHeld => ImplementsBoard` | the refinement of `TaskBoard`: each action of `TaskExecution` maps to a step of the board or to none, with the owner of a task the process that works on it, which `LeaseHeld` makes unique. `Standing`: the status of a task is the one the program point of its worker takes for granted, which gives the guards of the abstract steps |

Without the premise `Implements` fails: `reopened` has a step the board has not.

The third assume `QueueOnly` of the constants, that no process runs tasks without
a lease and that leases outlive runs, as in `leased` and `capped`. From it
`LeaseHeld` is an invariant: it survives expiry because `Expire` needs the holder
not to be at work, purges because they remove only expired rows, and
acquisitions because a task with a lease is not eligible. `QueueImplements` is
`Implements` under it.

| Theorem | Statement | Argument |
|---|---|---|
| `OneWorker` | `QueueOnly => (Spec => []OneWorkerPerTask)` | `LeaseHeld`, and one holder per lease |
| `CompletedForGood` | `QueueOnly => (Spec => CompletedIsFinal)` | `SafeWrites`: a process between a read and its write still sees the status it validated, since by `LeaseHeld` nobody else can have changed it; recovery spares it because its task has a lease |
| `RunRows` | `QueueOnly => (Spec => []RunRowIsTrue)` | `LeasedRuns` again, with `LeaseHeld` for every process |
| `DistinctAttempts` | `QueueOnly => (Spec => []AttemptsDistinct)` | `Numbered`: the attempt of a row is its place in the table, the number a process has read is still the next one when it creates the row, and the run it drives is the last |

### The control plane

For any operators, supervisors, watches and lanes, from `ControlAssumption`
(disjoint kinds of processes, finitely many supervisors):

| Theorem | Statement | Argument |
|---|---|---|
| `ControlTypes` | `Spec => []TypeOK` | `ControlInv` adds that the method of a process fits its program point |
| `SwitchAgreement` | `Spec => []StateAgreesWithSwitch` | not inductive for the row alone: `ControlInv` says the same of every process's copy, and of the row a process is about to settle on. Any such copy may be written at any time |
| `FreezeEnds` | `Spec => FreezeHolds` | step by step, from `ControlInv`: what a process reads of a frozen row is frozen (`StaysCurrent`), what a method or a reconciliation makes of a frozen copy is frozen unless it is on, off or thaw (`LeavesCurrent`, `EndsPassCurrent`), so that nobody joins `Outdated` during a freeze (`OutdatedStep`) and only its members or a lifting command end it (`LiftedStep`) |
| `Overdraft` | `Spec => []BudgetBound` | `BudgetInv` counts the supervisors that have passed the check and not recorded their run: recording moves one from the count to `used`, and passing the check needs `used <= Limit` |

### Objectives

For any dimensions, plans, diagrams, rounds and budgets, without fairness:

| Theorem | Statement | Argument |
|---|---|---|
| `MarksAreTrue` | `Spec => []MarkedWasPushed` | `PromoInv`: every promotion that stands at its marks has pushed all it has left to mark |
| `FixesFollowed` | `Spec => []FixesAreFollowed` | a remediation is pushed only after a later round was begun, or with an override; that the later round looked at it is refuted by `unreviewed`. `PromoInv` also says it of every remediation a promotion in flight has claimed, and `RoundInv` what rounds are: no two threads write one, so that packets stay, and a remediation answers a concern of its round. A promotion claims only when no dimension of the last round has a concern or it was overridden; a task claimed then is of an earlier round, or covered by the override |

Most handlers leave `promo`, `pushed` and `marked` alone, which is a lemma per
handler, composed like the handlers (`LeavesTrans`); what remains is a claim of
a promotion at its start, its own steps and a crash, which forgets promotions
and no row. That is also why a promotion may crash between push and mark
without harm to the record: the work is pushed again, never marked unpushed.

### The pipeline and its plans

For any backends, files, tasks and plans, about `WorkSpec`:

| Theorem | Statement | Argument |
|---|---|---|
| `Scoped`, `Validated`, `SelfReviewed`, `PendingPassed` | `[]ScopeKept`, `[]ShippedWasValidated`, `[]ShippedWasReviewed`, `[]PendingIsWhatPassed` | each but for the entry in `CHANGELOG.md`, which the last step makes and nothing touches after. `RunInv`: until then nothing is written outside the scope (`InScope`); a run that goes on has, apart from tests, the workspace its last self-review saw, and one that commits an approval later than its last change (`AsReviewed`); a verdict of the commands is about the workspace as it is, and is gone before anything is written again (`AsChecked`); only an acceptable run is up for promotion, by the report it wrote (`AsJudged`) |
| `AnswersOnly` | `[]ReportIsNoAnswer` | a file that holds a report is only taken over by a call that failed |
| `SoundPlans` | `[]PlansAreSound` | `PlanInv`: what the checks passed of a draft holds of every row made of it, batch by batch, and a generation that dies leaves a prefix. That a parsed answer is a list (`ParseAssumption`, named in `Plans`) is assumed: `SelectSeq` is defined by recursion, which the prover cannot reason about, and TLC evaluates the assumption for the answers of the instances |

### Delivery

For any runs, affirmers, projects and faults. `DeliveryAssumption` says that the
worktree of an objective promotion is none of the runs' workspaces.

| Theorem | Statement | Argument |
|---|---|---|
| `CheckedFirst` | `Spec => []CheckedBeforeMain` | `HasChecked`: between its checks and its push a process whose change has a Makefile, or which is a repair, finds its workspace checked, and nothing unchecks one; a review is opened on a workspace checked in the same sense. For the clone, `LocalChecked` is inductive as long as no process has died |
| `AppliedOnMain` | `Spec => []AppliedIsOnMain` | `Settled`: the change is on main by an affirmer, none rolled it back, and none is left that could, since nothing is left to commit and nobody holds the workspace. A process about to record "applied" has just been its only holder (`Apart`), and while there was one nothing had been rolled back (`NotYetBack`) |
| `NoSecondApply` | `Spec => []NoDoubleApply` | `Fresh`: a workspace of a run is committed to once, while it is based on the first commit of main, so that its push as a fast-forward meets a main without the change; the worktree of an objective brings a change only if its base lacks it; a review merges only what main lacks |

Every step is shown to be a `Turn` of one process: what it may do to its own
job, to one workspace, to main and to the records. The three invariants are
proved from that, not from the actions. `Worked` says what a process that holds
a workspace finds there (`Holds`) and that no workspace has two holders
(`Apart`).

### The processes of a harness

About `Harness`, for any numbers of supervisors, launchers, loops, clerks,
issues and tasks, and any scenes. `HarnessAssumption` gives scenes their form
and lets one start with tasks of an issue only as far as its clerks could have
imported them; both hold for the scenes of `MCHarness`.

| Theorem | Statement | Argument |
|---|---|---|
| `HarnessTypes` | `Spec => [](IntakeTypes /\ DrainTypes /\ ProcessTypes)` | with the other two, since records, matches and imports type each other's steps |
| `ImportsAreBounded` | `Spec => []ImportBound` | `ImportInv` counts with the tasks an issue was imported as the clerks that found none and have yet to insert: an insert moves one from the one count to the other, and a clerk comes to want one only while there is no task, so that clerks alone are counted. A task that was imported is found ever after, since no process drops a row or its issue (`Linked`) |
| `NudgeIsPatient` | `Spec => []NudgeWaits` | `Recorded`: a supervisor has its record from before its first step in the loop to after its last, and none while it starts, so that who is on record and alive is who serves. `Matched`: a supervisor that nudge-project asked to stop is not started again under its pid (fresh pids are nobody's that a command remembers), so that once it has gone it stays away |

Most steps only let a process go on or end (`Lasting`), which keeps both
`Recorded` and `Matched` whatever happens to the records of the dead; what is
left are starts, the write and the removal of a record, and the nudge itself.

### The retry tree

About `StuckWatch`, for any numbers of tasks, disposers, workers and findings
and any cap. `TreeAssumption` wants a finite number of disposers, and at least
one; `SceneAssumption` lets a scene start with tasks none of which has been
split: trees that have grown are what the steps lead to.

| Theorem | Statement | Argument |
|---|---|---|
| `TreesAreBounded` | `Spec => []RetryTreeBound` | `Bounded` counts with the tasks split from a root those that disposers past the check have promised it. A check that passes found room for its own promises, and the other disposers have at most `MaxFindings` outstanding each; a creation makes good on one promise; nothing else splits or promises. It needs that a disposer is about a task that was created (`Assigned`) and that every task keeps its tree (`Rooted`) |

The root of a task is a recursive function over its parents. That such a
function exists, and only one, follows from the order of creation: a task has a
later id than the one it grew from (`Grown`), and where the function failed to
exist or two of them differed there would be a least task. The least element of
a set of naturals comes from the library's well-founded order of finite sets,
in the place of an induction (`MinIs`, `RootsExist`, `RootsAgree`). Then a step
that keeps the parents keeps the roots (`KeptTrees`), and a new task joins the
tree it grows from (`GrownTrees`).

## 7. Only model-checked

Liveness (`EveryTaskFinishes`, `CooldownEnds`,
`ReportSettles`, `GenerationEnds`, `RoundEnds`,
`StatusSettles`, `ConcernsTakenUp`, `WorkEnds`, `StuckIsNoticed`,
`StopHonoured`, `QueueServed`, `SidecarFollows`), which under fairness is
beyond the prover.

## 8. Not modelled

* **The Temporal workflow of an objective** (`workflows/objective_lifecycle.py`)
  cannot run as it stands: its activities build a `HarnessUIDataService` from a
  context without the services its constructor reads, call a `list_plans` the
  store does not have and unpack a list into three names; nobody sends the signals
  it waits for, and its wait raises where it expects a result. Temporal's task
  activities are processes of `TaskExecution`; the states of its calls and its
  connection retries are left out.
* **Text**: interrogation, prompts, reviewers' texts, evidence packets, plan texts
  and summaries appear only through what is decided from them, which is left open.
  So do the diff, formatting and language tools.
* **Records no decision reads**: telemetry, cost (whose budget recovery reads a
  directory as a file and never resumes a lane), notifications, rendering,
  read-only queries of the UI, MCP and command line.
* **Code nobody calls** in production: `ValidationService` (modelled as what fills
  the decision queue all the same), `StructuralFixPromotionService`, the
  `_repair_*` methods of `sa_watch`, `_try_auto_merge_and_verify`.
* **Outside the repository**: git beyond a linear history, issue trackers beyond
  state and comments, Temporal, language models.

In the modelled parts. The nudge of a project matches the records of all
supervisors, while the code matches those of one project. That
`ensure_llm_ready` raises between switching the sidecar on and writing its
desired state is left out, and so are errors of `git ls-remote` and a
`CHANGELOG.md` that is not text. Branch decisions of the engine: a branch decision
reached through the queue leaves the task active and released until recovery
resets it, so the instances of `TaskExecution` keep `max_branches` at 1 and
`Decisions` has the branch service. In `TaskExecution` the gates may refuse any
task at any time, and a requeue is atomic. The window of fifty escalations in
which the no-progress block of an objective is looked up is a choice of the
environment. Plans' `depends_on` is checked where plans are made and read by
nothing that schedules. A `Delivery` history has no merge conflicts but refused
pushes, though `apply_objective` copies whole files and may undo a change. The
control loop and the watch loop of the sidecar both call the agent; the model
has one of them.
