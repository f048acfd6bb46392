---------------------------- MODULE TaskExecution ----------------------------
(***************************************************************************)
(* How several harness processes, sharing nothing but one SQLite file,     *)
(* take tasks from the queue and drive them through runs.                  *)
(*                                                                         *)
(* A worker is a process.  The queue workers repeat                        *)
(* QueueService.process_next_task: lease a task, test the dispatch gates,  *)
(* RunService.run_once, release the lease.  The workers in Direct call     *)
(* run_once / run_until_stable on a task they are given (CLI, MCP, UI) and *)
(* take no lease.  Every database transaction is one action: a method that *)
(* opens two connections, or reads outside its write transaction, is two   *)
(* actions with a program point of its own in between.                     *)
(***************************************************************************)
EXTENDS Policy, Sequences, FiniteSets

CONSTANTS
  Workers,          \* the processes; each has a worker_id of its own
  Direct,           \* the workers that run tasks without a lease
  Tasks,
  Projects,
  ProjectOf,        \* Tasks -> Projects
  MaxConcurrent,    \* Projects -> Nat, max_concurrent_tasks (0: no cap)
  Rank,             \* Tasks -> Nat, position in ORDER BY priority DESC, created_at
  MaxAttempts,      \* Tasks -> Nat
  MaxBranches,      \* Tasks -> Nat
  LeaseOutlivesRun, \* lease_seconds exceeds the duration of every run
  MaxFaults,        \* bound: crashes, exceptions, outages and early expiries, together
  MaxCommands,      \* bound: operator requeues and direct runs
  None

ASSUME ConstantsAssumption ==
  /\ Direct \subseteq Workers
  /\ ProjectOf \in [Tasks -> Projects]
  /\ MaxConcurrent \in [Projects -> Nat]
  /\ Rank \in [Tasks -> Nat]
  /\ MaxAttempts \in [Tasks -> Nat]
  /\ MaxBranches \in [Tasks -> Nat]
  /\ LeaseOutlivesRun \in BOOLEAN
  /\ MaxFaults \in Nat
  /\ MaxCommands \in Nat
  /\ None \notin Workers \cup Tasks
  /\ None \notin TaskStatus \cup DecisionAction
  /\ None \notin Analysis
  \* run_until_stable resolves a "branch" decision through BranchService, which
  \* is not part of this module.
  /\ Direct = {} \/ \A t \in Tasks : MaxBranches[t] <= 1

VARIABLES
  status,       \* tasks.status
  leaseholder,  \* task_leases: the worker_id of the task's row, None without a row
  expired,      \* the tasks whose row has lease_expires_at in the past
  runs,         \* the rows of runs, per task in creation order, with their decision
  workspaces,   \* the <<task, index of its run>> with a workspace directory
  pc,           \* where each process stands
  job,          \* the task it works on
  cur,          \* the index in runs[job] of the run it drives
  attempt,      \* the attempt number it has read and not yet used
  analysis,     \* the analysis it has recorded and not yet decided
  want,         \* the task status its run asks for
  excluded,     \* local_exclusions of the process_next_task call
  faults, commands

store   == <<status, leaseholder, expired, runs, workspaces>>
locals  == <<pc, job, cur, attempt, analysis, want, excluded>>
budgets == <<faults, commands>>
vars    == <<status, leaseholder, expired, runs, workspaces, pc, job, cur, attempt,
             analysis, want, excluded, faults, commands>>

-----------------------------------------------------------------------------
(* Program points.                                                         *)

\* Inside the try block of RunService._run_once.
Running == {"attempt", "create", "planning", "working", "validating", "analyzing",
            "deciding", "closing", "apply", "applyRead", "applyWrite", "settled"}

Rescuing == {"rescue", "rescueRead", "rescueWrite"}

PC == {"idle", "down", "leased", "sweep", "begin", "start", "release"}
        \cup Running \cup Rescuing

Busy(w) == pc[w] \notin {"idle", "down"}

RunRecord == [attempt : Nat, status : RunStatus, decision : DecisionAction \cup {None}]

Goto(w, p) == pc' = [pc EXCEPT ![w] = p]

\* The run of worker w, and the rows once its run is changed to r.
Run(w) == runs[job[w]][cur[w]]
SetRun(w, r) == runs' = [runs EXCEPT ![job[w]][cur[w]] = r]

\* mark_run rewrites the row from the process's own copy, whatever it holds now.
MarkRun(w, s) == SetRun(w, [Run(w) EXCEPT !.status = s])

\* The process forgets the run it was driving.
Forget(w) ==
  /\ job' = [job EXCEPT ![w] = None]
  /\ cur' = [cur EXCEPT ![w] = 0]
  /\ attempt' = [attempt EXCEPT ![w] = 0]
  /\ analysis' = [analysis EXCEPT ![w] = None]
  /\ want' = [want EXCEPT ![w] = None]

Init ==
  /\ status = [t \in Tasks |-> "pending"]
  /\ leaseholder = [t \in Tasks |-> None]
  /\ expired = {}
  /\ runs = [t \in Tasks |-> <<>>]
  /\ workspaces = {}
  /\ pc = [w \in Workers |-> "idle"]
  /\ job = [w \in Workers |-> None]
  /\ cur = [w \in Workers |-> 0]
  /\ attempt = [w \in Workers |-> 0]
  /\ analysis = [w \in Workers |-> None]
  /\ want = [w \in Workers |-> None]
  /\ excluded = [w \in Workers |-> {}]
  /\ faults = 0
  /\ commands = 0

-----------------------------------------------------------------------------
(* The queue: leases.                                                      *)

\* DELETE FROM task_leases WHERE lease_expires_at <= now.
Purged == [t \in Tasks |-> IF t \in expired THEN None ELSE leaseholder[t]]

Leased(p) == {t \in Tasks : ProjectOf[t] = p /\ Purged[t] # None}

\* Faulty variants of Eligible: a lease does not hide its task; the cap is
\* passed by one.
EligibleThoughLeased(w) ==
  {t \in Tasks : status[t] = "pending" /\ t \notin excluded[w]}
EligibleOneOver(w) ==
  {t \in Tasks :
     /\ status[t] = "pending" /\ Purged[t] = None /\ t \notin excluded[w]
     /\ Cardinality(Leased(ProjectOf[t])) <= MaxConcurrent[ProjectOf[t]]}

\* The candidates acquire_task_lease does not skip for worker w.
Eligible(w) ==
  {t \in Tasks :
     /\ status[t] = "pending"
     /\ Purged[t] = None
     /\ t \notin excluded[w]
     /\ \/ MaxConcurrent[ProjectOf[t]] = 0
        \/ Cardinality(Leased(ProjectOf[t])) < MaxConcurrent[ProjectOf[t]]}

\* One transaction: its first statement deletes, so it holds the write lock
\* from the start.
Acquire(w) ==
  /\ pc[w] = "idle" /\ w \notin Direct
  /\ \E t \in Eligible(w) :
       /\ \A u \in Eligible(w) : Rank[t] <= Rank[u]
       /\ leaseholder' = [Purged EXCEPT ![t] = w]
       /\ job' = [job EXCEPT ![w] = t]
  /\ expired' = {}
  /\ Goto(w, "leased")
  /\ UNCHANGED <<status, runs, workspaces, cur, attempt, analysis, want, excluded, budgets>>

\* process_next_task returns None and its exclusions are gone.
AcquireNothing(w) ==
  /\ pc[w] = "idle" /\ w \notin Direct
  /\ Eligible(w) = {}
  /\ leaseholder' = Purged
  /\ expired' = {}
  /\ excluded' = [excluded EXCEPT ![w] = {}]
  /\ UNCHANGED <<status, runs, workspaces, pc, job, cur, attempt, analysis, want, budgets>>

\* DELETE FROM task_leases WHERE task_id = ? AND worker_id = ?.
DropLease(w) ==
  LET mine == {t \in Tasks : t = job[w] /\ leaseholder[t] = w}
  IN  /\ leaseholder' = [t \in Tasks |-> IF t \in mine THEN None ELSE leaseholder[t]]
      /\ expired' = expired \ mine

\* The worker lane, the objective's budget or its execution gate refuses the
\* task; the call goes on to the next candidate.
Refuse(w) ==
  /\ pc[w] = "leased"
  /\ DropLease(w)
  /\ excluded' = [excluded EXCEPT ![w] = @ \cup {job[w]}]
  /\ Goto(w, "idle")
  /\ Forget(w)
  /\ UNCHANGED <<status, runs, workspaces, budgets>>

\* The gates let the task through and run_once is called.
Dispatch(w) ==
  /\ pc[w] = "leased"
  /\ excluded' = [excluded EXCEPT ![w] = {}]
  /\ Goto(w, "sweep")
  /\ UNCHANGED <<store, job, cur, attempt, analysis, want, budgets>>

\* Faulty variant of Release: a queue worker deletes the row whoever holds it.
ReleaseByTask(w) ==
  /\ pc[w] = "release"
  /\ IF w \in Direct THEN UNCHANGED <<leaseholder, expired>>
     ELSE /\ leaseholder' = [leaseholder EXCEPT ![job[w]] = None]
          /\ expired' = expired \ {job[w]}
  /\ Goto(w, "idle")
  /\ Forget(w)
  /\ UNCHANGED <<status, runs, workspaces, excluded, budgets>>

\* The finally clause of process_next_task; a direct caller has no lease.
Release(w) ==
  /\ pc[w] = "release"
  /\ IF w \in Direct THEN UNCHANGED <<leaseholder, expired>> ELSE DropLease(w)
  /\ Goto(w, "idle")
  /\ Forget(w)
  /\ UNCHANGED <<status, runs, workspaces, excluded, budgets>>

\* run_once on a given task, from the CLI, the UI or MCP.  run_until_stable is
\* a sequence of these: it reads the task's status afresh before each.
RunDirectly(w, t) ==
  /\ pc[w] = "idle" /\ w \in Direct
  /\ job' = [job EXCEPT ![w] = t]
  /\ Goto(w, "sweep")
  /\ commands < MaxCommands
  /\ commands' = commands + 1
  /\ UNCHANGED <<store, cur, attempt, analysis, want, excluded, faults>>

-----------------------------------------------------------------------------
(* One run.                                                                *)

\* Faulty variants of Disposable: any run counts, or any finished one.
DisposableThoughRunning(s) == TRUE
DisposableIfFinished(s) == s \notin InProgress

\* The workspace of a failed or blocked run may go; that of a completed run
\* stays until it is promoted, which this module leaves out.
Disposable(s) == s \notin InProgress /\ s # "completed"

\* cleanup_stale_run_workspaces, over the runs of every project.  No workspace
\* has an artifact that refers to it, which would spare it: the sweep removes
\* the most it can.
Sweep(w) ==
  /\ pc[w] = "sweep"
  /\ workspaces' = {d \in workspaces : ~ Disposable(runs[d[1]][d[2]].status)}
  /\ Goto(w, "begin")
  /\ UNCHANGED <<status, leaseholder, expired, runs, job, cur, attempt, analysis, want,
                 excluded, budgets>>

\* run_once refuses a finished task; the read and the validation of
\* update_task_status(ACTIVE) follow.
Begin(w) ==
  /\ pc[w] = "begin"
  /\ status[job[w]] \notin TerminalTask
  /\ Goto(w, "start")
  /\ UNCHANGED <<store, job, cur, attempt, analysis, want, excluded, budgets>>

\* The task is finished, or the execution gate has closed since the dispatch:
\* run_once raises.
CannotBegin(w) ==
  /\ pc[w] = "begin"
  /\ Goto(w, "release")
  /\ UNCHANGED <<store, job, cur, attempt, analysis, want, excluded, budgets>>

\* The UPDATE of update_task_status(ACTIVE), in a transaction of its own.
Start(w) ==
  /\ pc[w] = "start"
  /\ status' = [status EXCEPT ![job[w]] = "active"]
  /\ Goto(w, "attempt")
  /\ UNCHANGED <<leaseholder, expired, runs, workspaces, job, cur, attempt, analysis,
                 want, excluded, budgets>>

\* Faulty variant of LastAttempt: only decided runs count.
LastDecidedAttempt(t, m) ==
  \A i \in 1..Len(runs[t]) : runs[t][i].decision # None => runs[t][i].attempt <= m

\* MAX(attempt) over the rows of the task is m.
LastAttempt(t, m) == \A i \in 1..Len(runs[t]) : runs[t][i].attempt <= m

\* COALESCE(MAX(attempt), 0) + 1, read in a connection of its own.
NextAttempt(w) ==
  LET t == job[w]
  IN  /\ pc[w] = "attempt"
      /\ \E m \in {0} \cup {runs[t][i].attempt : i \in 1..Len(runs[t])} :
           /\ LastAttempt(t, m)
           /\ attempt' = [attempt EXCEPT ![w] = m + 1]
      /\ Goto(w, "create")
      /\ UNCHANGED <<store, job, cur, analysis, want, excluded, budgets>>

CreateRun(w) ==
  /\ pc[w] = "create"
  /\ runs' = [runs EXCEPT ![job[w]] =
                Append(@, [attempt |-> attempt[w], status |-> "planning",
                           decision |-> None])]
  /\ cur' = [cur EXCEPT ![w] = Len(runs[job[w]]) + 1]
  /\ attempt' = [attempt EXCEPT ![w] = 0]
  /\ Goto(w, "planning")
  /\ UNCHANGED <<status, leaseholder, expired, workspaces, job, analysis, want, excluded,
                 budgets>>

\* The workspace is prepared and the plan made.
StartWorking(w) ==
  /\ pc[w] = "planning"
  /\ workspaces' = workspaces \cup {<<job[w], cur[w]>>}
  /\ MarkRun(w, "working")
  /\ Goto(w, "working")
  /\ UNCHANGED <<status, leaseholder, expired, job, cur, attempt, analysis, want,
                 excluded, budgets>>

\* The worker announces its own validation, or an external one is due.
StartValidating(w) ==
  /\ pc[w] = "working"
  /\ MarkRun(w, "validating")
  /\ Goto(w, "validating")
  /\ UNCHANGED <<status, leaseholder, expired, workspaces, job, cur, attempt, analysis,
                 want, excluded, budgets>>

\* The worker reports backends_unavailable: the run is closed without an
\* analysis and the task goes back to the queue.
BackendsUnavailable(w) ==
  /\ pc[w] \in {"working", "validating"}
  /\ faults < MaxFaults
  /\ MarkRun(w, "blocked")
  /\ want' = [want EXCEPT ![w] = "pending"]
  /\ Goto(w, "apply")
  /\ faults' = faults + 1
  /\ UNCHANGED <<status, leaseholder, expired, workspaces, job, cur, attempt, analysis,
                 excluded, commands>>

StartAnalyzing(w) ==
  /\ pc[w] \in {"working", "validating"}
  /\ MarkRun(w, "analyzing")
  /\ Goto(w, "analyzing")
  /\ UNCHANGED <<status, leaseholder, expired, workspaces, job, cur, attempt, analysis,
                 want, excluded, budgets>>

\* The evaluation is recorded and the run handed to the decider.
StartDeciding(w) ==
  /\ pc[w] = "analyzing"
  /\ \E a \in Analysis : analysis' = [analysis EXCEPT ![w] = a]
  /\ MarkRun(w, "deciding")
  /\ Goto(w, "deciding")
  /\ UNCHANGED <<status, leaseholder, expired, workspaces, job, cur, attempt, want,
                 excluded, budgets>>

\* create_decision.
RecordDecision(w) ==
  LET t == job[w]
      action == Decide(analysis[w], Run(w).attempt, MaxAttempts[t], MaxBranches[t])
  IN  /\ pc[w] = "deciding"
      /\ SetRun(w, [Run(w) EXCEPT !.decision = action])
      /\ Goto(w, "closing")
      /\ UNCHANGED <<status, leaseholder, expired, workspaces, job, cur, attempt,
                     analysis, want, excluded, budgets>>

\* mark_run with the final status.
CloseRun(w) ==
  /\ pc[w] = "closing"
  /\ MarkRun(w, FinalRunStatus(analysis[w], Run(w).decision))
  /\ want' = [want EXCEPT ![w] = TaskStatusFor(Run(w).decision)]
  /\ analysis' = [analysis EXCEPT ![w] = None]
  /\ Goto(w, "apply")
  /\ UNCHANGED <<status, leaseholder, expired, workspaces, job, cur, attempt, excluded,
                 budgets>>

-----------------------------------------------------------------------------
(* _apply_task_status_for_run: a read that spares a completed task, then    *)
(* update_task_status, whose SELECT is not in the transaction of its UPDATE. *)

Apply(w) ==
  /\ pc[w] = "apply"
  /\ IF status[job[w]] = "completed" /\ want[w] # "completed"
     THEN Goto(w, "settled")
     ELSE Goto(w, "applyRead")
  /\ UNCHANGED <<store, job, cur, attempt, analysis, want, excluded, budgets>>

ApplyRead(w) ==
  /\ pc[w] = "applyRead"
  /\ IF MayTransition(status[job[w]], want[w])
     THEN Goto(w, "applyWrite")
     ELSE Goto(w, "rescue")
  /\ UNCHANGED <<store, job, cur, attempt, analysis, want, excluded, budgets>>

ApplyWrite(w) ==
  /\ pc[w] = "applyWrite"
  /\ status' = [status EXCEPT ![job[w]] = want[w]]
  /\ Goto(w, "settled")
  /\ UNCHANGED <<leaseholder, expired, runs, workspaces, job, cur, attempt, analysis,
                 want, excluded, budgets>>

\* run_once returns.
Return(w) ==
  /\ pc[w] = "settled"
  /\ Goto(w, "release")
  /\ UNCHANGED <<store, job, cur, attempt, analysis, want, excluded, budgets>>

-----------------------------------------------------------------------------
(* The except clause of _run_once.                                         *)

\* An exception in the try block is rescued; one before it, or in the rescue
\* itself, leaves run_once as it is.
Raise(w) ==
  /\ pc[w] \in Running \cup Rescuing \cup {"start"}
  /\ faults < MaxFaults
  /\ IF pc[w] \in Running THEN Goto(w, "rescue") ELSE Goto(w, "release")
  /\ faults' = faults + 1
  /\ UNCHANGED <<store, job, cur, attempt, analysis, want, excluded, commands>>

Rescue(w) ==
  /\ pc[w] = "rescue"
  /\ IF status[job[w]] = "active" THEN Goto(w, "rescueRead") ELSE Goto(w, "release")
  /\ UNCHANGED <<store, job, cur, attempt, analysis, want, excluded, budgets>>

RescueRead(w) ==
  /\ pc[w] = "rescueRead"
  /\ IF MayTransition(status[job[w]], "pending")
     THEN Goto(w, "rescueWrite")
     ELSE Goto(w, "release")
  /\ UNCHANGED <<store, job, cur, attempt, analysis, want, excluded, budgets>>

RescueWrite(w) ==
  /\ pc[w] = "rescueWrite"
  /\ status' = [status EXCEPT ![job[w]] = "pending"]
  /\ Goto(w, "release")
  /\ UNCHANGED <<leaseholder, expired, runs, workspaces, job, cur, attempt, analysis,
                 want, excluded, budgets>>

-----------------------------------------------------------------------------
(* Time, crashes, recovery, the operator.                                  *)

\* The holder of t's lease is working on t.
HeldLive(t) == \E w \in Workers : w = leaseholder[t] /\ Busy(w) /\ job[w] = t

\* lease_expires_at passes; nothing in the code extends a lease.
Expire(t) ==
  /\ leaseholder[t] # None /\ t \notin expired
  /\ ~ HeldLive(t)
  /\ expired' = expired \cup {t}
  /\ UNCHANGED <<status, leaseholder, runs, workspaces, locals, budgets>>

\* The run takes longer than lease_seconds.
ExpireEarly(t) ==
  /\ ~ LeaseOutlivesRun
  /\ t \notin expired /\ HeldLive(t)
  /\ faults < MaxFaults
  /\ faults' = faults + 1
  /\ expired' = expired \cup {t}
  /\ UNCHANGED <<status, leaseholder, runs, workspaces, locals, commands>>

\* Every reader of the leases deletes the expired rows first.
ListTaskLeases ==
  /\ expired # {}
  /\ leaseholder' = Purged
  /\ expired' = {}
  /\ UNCHANGED <<status, runs, workspaces, locals, budgets>>

\* The process is killed; its lease and its run stay behind.
Crash(w) ==
  /\ Busy(w)
  /\ faults < MaxFaults
  /\ faults' = faults + 1
  /\ Goto(w, "down")
  /\ Forget(w)
  /\ excluded' = [excluded EXCEPT ![w] = {}]
  /\ UNCHANGED <<store, commands>>

\* Faulty variants, of Stale: leases are ignored; of Stranded: finished tasks
\* are reset as well, or no task is.
StaleThoughLeased(t) == TRUE
StrandedUnlessFailed(t) == Purged[t] = None /\ status[t] # "failed"
StrandedNever(t) == FALSE

\* No unexpired lease covers the task, so nobody is taken to work on it.
Stale(t) == Purged[t] = None

Stranded(t) == Stale(t) /\ status[t] = "active"

\* recover_stale_state, one transaction that starts with a DELETE.
RecoverStaleState ==
  /\ leaseholder' = Purged
  /\ expired' = {}
  /\ runs' = [t \in Tasks |->
                [i \in 1..Len(runs[t]) |->
                   IF Stale(t) /\ runs[t][i].status \in InProgress
                   THEN [runs[t][i] EXCEPT !.status = "failed"]
                   ELSE runs[t][i]]]
  /\ status' = [t \in Tasks |-> IF Stranded(t) THEN "pending" ELSE status[t]]

\* An idle supervisor, or the start of any process that opens the database.
Recover ==
  /\ RecoverStaleState
  /\ UNCHANGED <<workspaces, locals, budgets>>

Restart(w) ==
  /\ pc[w] = "down"
  /\ RecoverStaleState
  /\ Goto(w, "idle")
  /\ UNCHANGED <<workspaces, job, cur, attempt, analysis, want, excluded, budgets>>

\* retry_task, retry_all_failed, apply_failed_task_disposition(retry_as_is).
Requeue(t) ==
  /\ status[t] = "failed"
  /\ commands < MaxCommands
  /\ status' = [status EXCEPT ![t] = "pending"]
  /\ commands' = commands + 1
  /\ UNCHANGED <<leaseholder, expired, runs, workspaces, locals, faults>>

-----------------------------------------------------------------------------

\* What a process does by itself, the steps its program takes next.
Step(w) ==
  \/ Dispatch(w) \/ Release(w)
  \/ Sweep(w) \/ Begin(w) \/ CannotBegin(w)
  \/ Start(w) \/ NextAttempt(w) \/ CreateRun(w)
  \/ StartWorking(w) \/ StartValidating(w) \/ StartAnalyzing(w) \/ StartDeciding(w)
  \/ RecordDecision(w) \/ CloseRun(w)
  \/ Apply(w) \/ ApplyRead(w) \/ ApplyWrite(w) \/ Return(w)
  \/ Rescue(w) \/ RescueRead(w) \/ RescueWrite(w)

Next ==
  \/ \E w \in Workers :
       \/ Acquire(w) \/ AcquireNothing(w) \/ Refuse(w)
       \/ \E t \in Tasks : RunDirectly(w, t)
       \/ Step(w)
       \/ BackendsUnavailable(w) \/ Raise(w)
       \/ Crash(w) \/ Restart(w)
  \/ \E t \in Tasks : Expire(t) \/ ExpireEarly(t) \/ Requeue(t)
  \/ ListTaskLeases
  \/ Recover

Spec == Init /\ [][Next]_vars

\* The processes run, time passes, some supervisor keeps recovering stale
\* state, and a task that is offered again and again is not refused by the
\* gates every time.  Nothing is assumed of crashed processes or of operators.
Fairness ==
  /\ \A w \in Workers :
       /\ WF_vars(Acquire(w)) /\ WF_vars(AcquireNothing(w)) /\ WF_vars(Step(w))
       /\ SF_vars(Dispatch(w)) /\ SF_vars(Begin(w))
  /\ \A t \in Tasks : WF_vars(Expire(t))
  /\ WF_vars(Recover)

FairSpec == Spec /\ Fairness

-----------------------------------------------------------------------------
(* Properties.                                                             *)

\* The types of the variables.
TypeOK ==
  /\ status \in [Tasks -> TaskStatus]
  /\ leaseholder \in [Tasks -> Workers \cup {None}]
  /\ expired \subseteq Tasks
  /\ runs \in [Tasks -> Seq(RunRecord)]
  /\ workspaces \subseteq Tasks \X Nat
  /\ pc \in [Workers -> PC]
  /\ job \in [Workers -> Tasks \cup {None}]
  /\ cur \in [Workers -> Nat]
  /\ attempt \in [Workers -> Nat]
  /\ analysis \in [Workers -> Analysis \cup {None}]
  /\ want \in [Workers -> TaskStatus \cup {None}]
  /\ excluded \in [Workers -> SUBSET Tasks]
  /\ faults \in 0..MaxFaults
  /\ commands \in 0..MaxCommands

\* No two processes ever work on one task: what acquire_task_lease is for.
OneWorkerPerTask ==
  \A v, w \in Workers : v # w /\ Busy(v) /\ Busy(w) => job[v] # job[w]

\* A project's tasks are never worked on by more processes than its
\* max_concurrent_tasks, though the code counts rows of task_leases and never
\* processes.
ConcurrencyCap ==
  \A p \in Projects :
    MaxConcurrent[p] > 0 =>
      Cardinality({w \in Workers : Busy(w) /\ ProjectOf[job[w]] = p}) <= MaxConcurrent[p]

\* The row of a run a live process is driving says what the process is doing:
\* recover_stale_state has not failed it under the process.
RunRowIsTrue ==
  \A w \in Workers :
    /\ pc[w] \in {"planning", "working", "validating", "analyzing", "deciding"} =>
         Run(w).status = pc[w]
    /\ pc[w] = "closing" => Run(w).status = "deciding"

\* next_attempt and create_run are separate transactions, and yet no two runs
\* of a task carry the same attempt number.
AttemptsDistinct ==
  \A t \in Tasks : \A i, j \in 1..Len(runs[t]) :
    i # j => runs[t][i].attempt # runs[t][j].attempt

\* The retry budget bounds the work spent on a task: beyond max_attempts, a
\* task only runs again for a crash, an exception, an outage or an operator.
RetryBudget ==
  \A t \in Tasks : Len(runs[t]) <= MaxAttempts[t] + faults + commands

\* A finished task has a run that says why: a completed run decided "promote",
\* or a run decided "fail" with the attempt budget spent.
OutcomeIsBacked ==
  \A t \in Tasks :
    /\ status[t] = "completed" =>
         \E i \in 1..Len(runs[t]) :
           runs[t][i].status = "completed" /\ runs[t][i].decision = "promote"
    /\ status[t] = "failed" =>
         \E i \in 1..Len(runs[t]) :
           runs[t][i].decision = "fail" /\ runs[t][i].attempt >= MaxAttempts[t]

\* As long as a process's lease has not expired, no sweep takes the workspace it
\* works in, though the rows the sweep goes by are also written by recovery and
\* though others may be at the same task: a process whose lease ran out under it, or
\* one that took none (cleanup_stale_run_workspaces, recover_stale_state).
LiveWorkspace ==
  \A w \in Workers :
    /\ pc[w] \in {"working", "validating", "analyzing", "deciding", "closing"}
    /\ leaseholder[job[w]] = w /\ job[w] \notin expired
    => <<job[w], cur[w]>> \in workspaces

\* The work of a completed task is there to be reviewed and promoted.
WorkKept ==
  \A t \in Tasks :
    status[t] = "completed" =>
      \E i \in 1..Len(runs[t]) : runs[t][i].status = "completed" /\ <<t, i>> \in workspaces

\* Completed is for good: no step of any process gives the task another status.
CompletedIsFinal ==
  [][\A t \in Tasks : status[t] = "completed" => status'[t] = "completed"]_vars

\* "Older runs can finish after a newer run has already completed the task. In
\* that case we must not reopen the task and roll it backward to pending"
\* (run_service.py, _apply_task_status_for_run).
NoRollback ==
  [][\A t \in Tasks : status[t] = "completed" => status'[t] # "pending"]_vars

\* A lease that has not expired disappears only by the hand of its holder.
OnlyHolderReleases ==
  [][\A w \in Workers, t \in Tasks :
       leaseholder[t] = w /\ t \notin expired /\ leaseholder'[t] # w
         => pc[w] \in {"leased", "release"} /\ pc'[w] = "idle"]_vars

\* Every task that is waiting or being worked on is eventually finished,
\* whatever crashes, exceptions and outages happen within the bound.
EveryTaskFinishes ==
  \A t \in Tasks : status[t] \in {"pending", "active"} ~> status[t] \in TerminalTask
=============================================================================
