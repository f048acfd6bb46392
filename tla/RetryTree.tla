------------------------------ MODULE RetryTree ------------------------------
(***************************************************************************)
(* What becomes of a failed task (services/task_service.py): it is         *)
(* retried, split into narrower tasks, handed to the operator or waived,   *)
(* and a refused promotion is remediated by tasks of its own.  The tasks   *)
(* that grow from one root form its retry tree, which is capped, and a     *)
(* remediation that failed as the one before it blocks the objective.      *)
(* Dispositions come from the web server's threads and from affirmations;  *)
(* each reads the task, then writes in transactions of its own.            *)
(***************************************************************************)
EXTENDS Naturals, FiniteSets, FiniteSetsExt

CONSTANTS
  MaxTask,      \* a bound on the tasks of the objective
  Disposers,    \* the threads and processes that apply dispositions
  Cap,          \* _REMEDIATION_TREE_CAP
  MaxFindings,  \* a bound on the findings a task is split into
  Categories    \* the failure categories a run can be classified under

TaskIds == 1..MaxTask  \* in the order of their creation

ASSUME TreeAssumption ==
  /\ {MaxTask, Cap, MaxFindings} \subseteq Nat /\ MaxTask > 0
  /\ IsFiniteSet(Disposers) /\ Disposers # {}
  /\ Categories \cap {"", "acceptable"} = {}

VARIABLES
  task,       \* the tasks of the objective
  objective,  \* the objective's status
  disposer    \* what each disposer is doing

tree == <<task, objective, disposer>>

NoTask == [status |-> "none", parent |-> 0, kind |-> "work", run |-> "none", cat |-> "",
           disp |-> "none", ignored |-> FALSE]
NewTask(parent, kind) == [NoTask EXCEPT !.status = "pending", !.parent = parent, !.kind = kind]

Resting == [pc |-> "idle", task |-> 0, how |-> "none", left |-> 0]

Created(ts) == {t \in TaskIds : ts[t].status # "none"}
With(ts, s) == {t \in TaskIds : ts[t].status = s}
Fresh == Min(TaskIds \ Created(task))
MayCreate == Created(task) # TaskIds

MayTransition(old, new) ==
  \/ old = "pending" /\ new \in {"active", "completed", "failed"}
  \/ old = "active" /\ new \in {"completed", "failed", "pending"}
  \/ old = "failed" /\ new = "pending"
  \/ old = new

\* update_objective_phase.
Phase(ts) ==
  LET counted == {ts[t].status : t \in {u \in Created(ts) : /\ ~ts[u].ignored
                     /\ ~(ts[u].status = "failed" /\ ts[u].disp = "waive_obsolete")}}
      seen    == IF counted = {} THEN {ts[t].status : t \in Created(ts)} ELSE counted
  IN  IF "active" \in seen THEN "executing"
      ELSE IF counted = {"completed"} THEN "resolved"
      ELSE IF "pending" \in seen THEN "planning"
      ELSE IF counted = {} THEN "resolved" ELSE "paused"

-----------------------------------------------------------------------------
(* The retry tree. *)

Root(t) == LET up[u \in TaskIds] == IF task[u].parent = 0 THEN u ELSE up[task[u].parent]
           IN  up[t]

Descendants(r) == {t \in Created(task) \ {r} : Root(t) = r}

\* The tasks of the tree that ran, other than the task itself, and how the last one failed.
RetryHistory(t) == {u \in {Root(t)} \cup Descendants(Root(t)) : task[u].run # "none"} \ {t}
Classification(t) == task[t].cat
PreviousFailure(t) ==
  IF RetryHistory(t) = {} THEN "none" ELSE Classification(Max(RetryHistory(t)))

\* For mutation: the cap looks at the tasks there are, not at those to come.
BlockReasonSoFar(t, n) ==
  \/ Cardinality(Descendants(Root(t))) >= Cap
  \/ PreviousFailure(t) = Classification(t)

\* _remediation_block_reason.
BlockReason(t, n) ==
  \/ Cardinality(Descendants(Root(t))) >= Cap
  \/ Cardinality(Descendants(Root(t))) + n > Cap
  \/ PreviousFailure(t) = Classification(t)

\* _mark_retry_tree_blocked.
MarkBlocked == objective' = "investigating"

Goto(d, job) == disposer' = [disposer EXCEPT ![d] = job]
Rest(d) == Goto(d, Resting)

\* apply_failed_task_disposition reads the task, which must have failed; a split is
\* checked against the tree first.
Dispose(d) ==
  /\ disposer[d].pc = "idle"
  /\ \E t \in With(task, "failed"), n \in 0..MaxFindings :
     \E how \in {"retry_as_is", "split", "manual", "waive_obsolete"} :
       /\ n > 0 => how = "split"
       /\ IF how = "split" /\ BlockReason(t, n)
          THEN Rest(d) /\ MarkBlocked
          ELSE /\ Goto(d, [pc |-> IF how = "split" THEN "check" ELSE "apply",
                           task |-> t, how |-> how, left |-> n])
               /\ UNCHANGED objective
  /\ UNCHANGED task

\* promotion_service: the findings of a refused promotion of a completed task.
Remediate(d) ==
  /\ disposer[d].pc = "idle"
  /\ \E t \in With(task, "completed"), n \in 1..MaxFindings :
       Goto(d, [pc |-> "check", task |-> t, how |-> "promotion", left |-> n])
  /\ UNCHANGED <<task, objective>>

\* create_tasks_from_review_findings checks the tree, in the split once more.
Check(d) ==
  /\ disposer[d].pc = "check"
  /\ IF BlockReason(disposer[d].task, disposer[d].left)
     THEN /\ MarkBlocked
          /\ Goto(d, [disposer[d] EXCEPT !.pc = "finish"])
     ELSE /\ Goto(d, [disposer[d] EXCEPT !.pc = IF disposer[d].left = 0 THEN "finish" ELSE "create"])
          /\ UNCHANGED objective
  /\ UNCHANGED task

\* Each finding becomes a follow-on task; after the last the objective is planned again.
CreateRemedy(d) ==
  /\ disposer[d].pc = "create" /\ MayCreate
  /\ task' = [task EXCEPT ![Fresh] = NewTask(disposer[d].task, "split")]
  /\ IF disposer[d].left > 1
     THEN Goto(d, [disposer[d] EXCEPT !.left = @ - 1]) /\ UNCHANGED objective
     ELSE Goto(d, [disposer[d] EXCEPT !.pc = "finish", !.left = 0]) /\ objective' = "planning"

Finish(d) ==
  /\ disposer[d].pc = "finish"
  /\ task' = IF disposer[d].how = "split"
             THEN [task EXCEPT ![disposer[d].task].disp = "split"] ELSE task
  /\ Rest(d) /\ UNCHANGED objective

\* The other dispositions; a retry of a task that has since moved on may be refused, after
\* its metadata is written.
ApplyDisposition(d) ==
  LET t   == disposer[d].task
      how == disposer[d].how
      ts  == [task EXCEPT ![t].disp = how]
  IN  /\ disposer[d].pc = "apply"
      /\ Rest(d)
      /\ \/ /\ how = "retry_as_is" /\ MayTransition(task[t].status, "pending")
            /\ task' = [ts EXCEPT ![t].status = "pending"] /\ objective' = "planning"
         \/ /\ how = "retry_as_is" /\ ~MayTransition(task[t].status, "pending")
            /\ task' = ts /\ UNCHANGED objective
         \/ /\ how = "manual" /\ MayCreate
            /\ task' = [ts EXCEPT ![Fresh] = NewTask(t, "manual")] /\ objective' = "planning"
         \/ /\ how = "waive_obsolete"
            /\ task' = ts /\ objective' = Phase(ts)

DisposerStep(d) ==
  \/ Dispose(d) \/ Remediate(d) \/ Check(d) \/ CreateRemedy(d) \/ Finish(d)
  \/ ApplyDisposition(d)

\* However many disposers race past the check, the tasks split from a root exceed the cap
\* by at most one split of each of the others (_remediation_block_reason is evaluated, and
\* the tasks are then created one by one).
RetryTreeBound ==
  \A r \in TaskIds :
    Cardinality({t \in Descendants(r) : task[t].kind = "split"})
      <= Cap + (Cardinality(Disposers) - 1) * MaxFindings
=============================================================================
