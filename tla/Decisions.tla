------------------------------ MODULE Decisions ------------------------------
(***************************************************************************)
(* The decision queue (services/validation_service.py fills it, services/  *)
(* decision_service.py drains it, persistence/run_records.py keeps it)     *)
(* and the speculative branches of a task (services/branch_service.py).    *)
(* Every write is a transaction of its own.  The queue's SELECT and        *)
(* UPDATE are two, so that two drainers can take the same item, and an     *)
(* item whose drainer dies stays "processing".                             *)
(***************************************************************************)
EXTENDS Intake

CONSTANTS
  Drainers,     \* the supervisors, which drain the queue
  MaxRun,       \* a bound on the runs
  MaxAttempts, MaxBranches  \* of every task

RunIds == 1..MaxRun  \* in the order of their creation; also the items they are queued as

ASSUME DecisionAssumption == {MaxRun, MaxAttempts, MaxBranches} \subseteq Nat

VARIABLES
  run,        \* the runs
  item,       \* the decision queue: an item for each run it holds
  validator,  \* what the validation of a run has come to
  drain,      \* what each drainer is doing
  brancher    \* what the branches of a task have come to

decisions == <<run, item, validator, drain, brancher>>

NoRun == [status |-> "absent", task |-> 0, analysis |-> [verdict |-> "none", infra |-> FALSE],
          score |-> 0]
NoDrain == [pc |-> "select", item |-> 0, action |-> "none", count |-> 0]
NoBranch == [pc |-> "idle", task |-> 0, runs |-> {}, left |-> {}, winner |-> 0]

Runs == {r \in RunIds : run[r].status # "absent"}
Attempt(r) == Cardinality({q \in Runs : run[q].task = run[r].task /\ q <= r})

MarkRun(r, status) == run' = [run EXCEPT ![r].status = status]

\* update_task_status, which raises when the transition is not valid.
UpdateTaskStatus(t, status) ==
  task' = IF MayTransition(task[t].status, status) THEN [task EXCEPT ![t].status = status] ELSE task

-----------------------------------------------------------------------------
(* Validation and the queue. *)

\* process_one of the validation: the verdict is recorded and queued, ...
Validate ==
  /\ On("validator") /\ validator = 0
  /\ \E r \in Runs, a \in Analysis :
       /\ run[r].status = "working" /\ item[r] = "none" /\ ~a.infra
       /\ run' = [run EXCEPT ![r].analysis = a]
       /\ item' = [item EXCEPT ![r] = "pending"]
       /\ validator' = r
  /\ UNCHANGED <<scene, intake, drain, brancher>>

\* ... and then the run is marked as waiting, whatever has been decided meanwhile.
QueuedForDecision ==
  /\ validator # 0
  /\ MarkRun(validator, "deciding") /\ validator' = 0
  /\ UNCHANGED <<scene, intake, item, drain, brancher>>

Pending == {r \in RunIds : item[r] = "pending"}

Drain(p, pc) == drain' = [drain EXCEPT ![p].pc = pc]

\* dequeue_decision: the oldest pending item is read, ...
DequeueDecision(p) ==
  /\ drain[p].pc = "select" /\ Pending # {}
  /\ drain' = [drain EXCEPT ![p].pc = "mark", ![p].item = Min(Pending)]
  /\ UNCHANGED <<scene, intake, run, item, validator, brancher>>

\* ... and marked, without another look at its status.
MarkProcessing(p) ==
  /\ drain[p].pc = "mark"
  /\ item' = [item EXCEPT ![drain[p].item] = "processing"]
  /\ Drain(p, "decide")
  /\ UNCHANGED <<scene, intake, run, validator, brancher>>

RecordDecision(p) ==
  LET r == drain[p].item IN
  /\ drain[p].pc = "decide"
  /\ drain' = [drain EXCEPT ![p].pc = "run",
                 ![p].action = Decide(run[r].analysis, Attempt(r), MaxAttempts, MaxBranches)]
  /\ UNCHANGED <<scene, intake, run, item, validator, brancher>>

CloseRun(p) ==
  LET r == drain[p].item IN
  /\ drain[p].pc = "run"
  /\ MarkRun(r, FinalRunStatus(run[r].analysis, drain[p].action))
  /\ Drain(p, "read")
  /\ UNCHANGED <<scene, intake, item, validator, brancher>>

\* A completed task is not to be reopened: it is looked up first, ...
GuardStatus(p) ==
  LET done == task[run[drain[p].item].task].status = "completed" IN
  /\ drain[p].pc = "read"
  /\ Drain(p, IF done /\ TaskStatusFor(drain[p].action) # "completed" THEN "complete" ELSE "apply")
  /\ UNCHANGED <<scene, intake, run, item, validator, brancher>>

\* ... and written in another transaction, which raises when the transition is not valid.
ApplyStatus(p) ==
  LET t == run[drain[p].item].task
      s == TaskStatusFor(drain[p].action)
  IN
  /\ drain[p].pc = "apply"
  /\ UpdateTaskStatus(t, s)
  /\ Drain(p, IF MayTransition(task[t].status, s) THEN "complete" ELSE "failed")
  /\ UNCHANGED <<scene, issue, reported, clerk, run, item, validator, brancher>>

CompleteDecision(p) ==
  /\ drain[p].pc \in {"complete", "failed"}
  /\ item' = [item EXCEPT ![drain[p].item] = IF drain[p].pc = "failed" THEN "failed" ELSE "completed"]
  /\ drain' = [drain EXCEPT ![p] = [NoDrain EXCEPT !.count = drain[p].count + 1]]
  /\ UNCHANGED <<scene, intake, run, validator, brancher>>

ProcessOne(p) ==
  \/ DequeueDecision(p) \/ MarkProcessing(p) \/ RecordDecision(p) \/ CloseRun(p)
  \/ GuardStatus(p) \/ ApplyStatus(p) \/ CompleteDecision(p)

-----------------------------------------------------------------------------
(* Branches. *)

CreateBranches ==
  /\ On("brancher") /\ brancher.pc = "idle" /\ MaxBranches >= 2 /\ Spend("commands")
  /\ \E t \in Present :
       /\ MayTransition(task[t].status, "active") /\ UpdateTaskStatus(t, "active")
       /\ brancher' = [NoBranch EXCEPT !.pc = "branch", !.task = t]
  /\ UNCHANGED <<issue, reported, clerk, run, item, validator, drain>>

BranchRun ==
  /\ brancher.pc = "branch" /\ Runs # RunIds
  /\ LET r == Min(RunIds \ Runs) IN
       /\ run' = [run EXCEPT ![r] = [NoRun EXCEPT !.status = "working", !.task = brancher.task]]
       /\ brancher' = [brancher EXCEPT !.pc = "work", !.runs = @ \cup {r}]
  /\ UNCHANGED <<scene, intake, item, validator, drain>>

BranchRunEnds ==
  /\ brancher.pc = "work"
  /\ \E status \in {"completed", "failed"}, score \in 1..2 :
       run' = [run EXCEPT ![Max(brancher.runs)].status = status, ![Max(brancher.runs)].score = score]
  /\ brancher' = [brancher EXCEPT !.pc = IF Cardinality(brancher.runs) < MaxBranches THEN "branch"
                                                                                    ELSE "select"]
  /\ UNCHANGED <<scene, intake, item, validator, drain>>

\* The completed run with the best score, the earliest of equals.
Winner(runs) ==
  Min({r \in runs : \A q \in runs : run[q].score <= run[r].score})

SelectWinner ==
  LET completed == {r \in brancher.runs : run[r].status = "completed"} IN
  /\ brancher.pc = "select"
  /\ IF completed # {}
     THEN /\ brancher' = [brancher EXCEPT !.pc = "dispose", !.winner = Winner(completed),
                                          !.left = brancher.runs \ {Winner(completed)}]
          /\ UNCHANGED task
     ELSE /\ brancher' = NoBranch
          /\ UpdateTaskStatus(brancher.task, "failed")
  /\ UNCHANGED <<scene, issue, reported, clerk, run, item, validator, drain>>

DisposeLoser ==
  /\ brancher.pc = "dispose" /\ brancher.left # {}
  /\ MarkRun(Min(brancher.left), "disposed")
  /\ brancher' = [brancher EXCEPT !.left = @ \ {Min(@)}]
  /\ UNCHANGED <<scene, intake, item, validator, drain>>

PromoteWinner ==
  /\ brancher.pc = "dispose" /\ brancher.left = {}
  /\ UpdateTaskStatus(brancher.task, "completed")
  /\ brancher' = NoBranch
  /\ UNCHANGED <<scene, issue, reported, clerk, run, item, validator, drain>>

BrancherFails ==
  /\ brancher.pc # "idle" /\ Spend("faults")
  /\ brancher' = NoBranch
  /\ UNCHANGED <<intake, run, item, validator, drain>>

Branching ==
  \/ CreateBranches \/ BranchRun \/ BranchRunEnds \/ SelectWinner \/ DisposeLoser
  \/ PromoteWinner \/ BrancherFails
=============================================================================
