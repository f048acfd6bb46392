------------------------------- MODULE Intake -------------------------------
(***************************************************************************)
(* How tasks come to be: TaskService.create_task and its policy            *)
(* (services/task_service.py), the issue trackers (services/               *)
(* issue_service.py with its GitHub and GitLab variants) and the tasks a   *)
(* heartbeat proposes (services/cognition_service.py).  Every command is   *)
(* a process of its own; it reads the task table in one transaction and    *)
(* writes in another, and a tracker's comment, close and record are three  *)
(* calls.                                                                  *)
(***************************************************************************)
EXTENDS Policy, FiniteSets, FiniteSetsExt

CONSTANTS
  Clerks,     \* the processes that import, synchronise and report issues
  Issues,     \* the issues of the tracker
  Proposals,  \* the tasks a heartbeat can propose
  HighRisk,   \* the proposals with a strategy of _HIGH_RISK_TASK_STRATEGIES
  MaxTask     \* a bound on the tasks

TaskIds == 1..MaxTask  \* in the order of their creation

ASSUME IntakeAssumption ==
  /\ MaxTask \in Nat \ {0} /\ HighRisk \subseteq Proposals /\ "none" \notin Issues \cup Proposals

VARIABLES
  scene,    \* who is at work, and what may still happen to them
  task,     \* the tasks
  issue,    \* the tracker: an issue's state and the comments on it
  reported, \* the reports on record
  clerk     \* what each clerk is doing

intake == <<task, issue, reported, clerk>>

NoTask == [status |-> "absent", ref |-> "none", title |-> "none", amended |-> FALSE,
           child |-> FALSE, plan |-> "none", meta |-> "none", lease |-> 0]
AtDesk == [pc |-> "idle", how |-> "none", issue |-> "none", task |-> 0, status |-> "none"]

On(actor) == actor \in scene.actors
Spend(field) == scene[field] > 0 /\ scene' = [scene EXCEPT ![field] = @ - 1]

Present == {t \in TaskIds : task[t].status # "absent"}
Room == Present # TaskIds
With(status) == {t \in TaskIds : task[t].status = status}

\* A task of an objective joins the objective's plans: the plan it is given, or one made for it.
EnsurePlanLinkage(objective, plan) ==
  IF ~objective THEN "none" ELSE IF plan # "none" THEN plan ELSE "own"

\* The text of a high-risk task is extended, and is no longer the text that was proposed.
ApplyTaskAmendment(title) == title \in HighRisk

CreateTaskWithPolicy(title, ref, child, objective, plan) ==
  [NoTask EXCEPT !.status = "pending", !.ref = ref, !.title = title, !.child = child,
                 !.amended = ApplyTaskAmendment(title),
                 !.plan = EnsurePlanLinkage(objective, plan)]

CreateTask(new) == Room /\ task' = [task EXCEPT ![Min(TaskIds \ Present)] = new]

\* Faulty variant: a task that is done is not found again.
OpenTaskByRef(i) ==
  LET found == {t \in Present : task[t].ref = i /\ task[t].status # "completed"}
  IN  IF found = {} THEN 0 ELSE Min(found)
\* get_task_by_external_ref, for a task without a parent or a source run; 0 for none.
TaskByExternalRef(i) ==
  LET found == {t \in Present : task[t].ref = i} IN IF found = {} THEN 0 ELSE Min(found)

\* add-task, with an objective of the same project or with none, and a follow-on of a task,
\* which inherits the issue and is not looked up.
AddTask ==
  /\ On("adder") /\ Spend("commands")
  /\ \/ \E objective \in BOOLEAN, plan \in {"none", "given"} :
          CreateTask(CreateTaskWithPolicy("none", "none", FALSE, objective, plan))
     \/ \E t \in Present :
          CreateTask(CreateTaskWithPolicy(task[t].title, task[t].ref, TRUE,
                                          task[t].plan # "none", "none"))
  /\ UNCHANGED <<issue, reported, clerk>>

-----------------------------------------------------------------------------
(* Issues. *)

Clerk(c, pc) == clerk' = [clerk EXCEPT ![c].pc = pc]

\* import_issue, and sync_open_issues for one of the open issues.
ImportIssue(c) ==
  /\ c \in scene.actors /\ clerk[c].pc = "idle" /\ Spend("commands")
  /\ \E i \in Issues, how \in {"import", "sync"} :
       /\ how = "sync" => issue[i].state = "open"
       /\ clerk' = [clerk EXCEPT ![c] = [AtDesk EXCEPT !.pc = "create", !.how = how, !.issue = i,
                                                       !.task = TaskByExternalRef(i)]]
  /\ UNCHANGED <<task, issue, reported>>

\* The second transaction of create_task.  A table with no room ends the model, not the code.
InsertImported(c) ==
  /\ clerk[c].pc = "create" /\ clerk[c].task = 0 /\ Room
  /\ CreateTask(CreateTaskWithPolicy("none", clerk[c].issue, FALSE, FALSE, "none"))
  /\ clerk' = [clerk EXCEPT ![c].task = Min(TaskIds \ Present)]
  /\ UNCHANGED <<scene, issue, reported>>

\* sync_open_issues writes the metadata of the listing, in which the issue was open.
SyncOpenIssue(c) ==
  /\ clerk[c].pc = "create" /\ clerk[c].task # 0
  /\ clerk' = [clerk EXCEPT ![c] = AtDesk]
  /\ IF clerk[c].how = "sync" THEN task' = [task EXCEPT ![clerk[c].task].meta = "open"]
                              ELSE UNCHANGED task
  /\ UNCHANGED <<scene, issue, reported>>

\* IssueStatePolicy.desired_state under the default policy.
DesiredState(status) == IF status = "completed" THEN "closed" ELSE "open"

\* A report says what the task is like, and closes the issue of a completed task.
ReportOf(t) == [task |-> t, comment |-> task[t].status, close |-> DesiredState(task[t].status) = "closed"]

IsDuplicateReport(r) == r \in reported

ReportTask(c) ==
  /\ c \in scene.actors /\ clerk[c].pc = "idle" /\ Spend("commands")
  /\ \E t \in Present :
       /\ task[t].ref \in Issues
       /\ IF IsDuplicateReport(ReportOf(t)) THEN UNCHANGED clerk
          ELSE clerk' = [clerk EXCEPT ![c] = [AtDesk EXCEPT !.pc = "comment", !.task = t,
                                                !.issue = task[t].ref, !.status = task[t].status]]
  /\ UNCHANGED <<task, issue, reported>>

AddComment(c) ==
  /\ clerk[c].pc = "comment"
  /\ issue' = [issue EXCEPT ![clerk[c].issue].comments = @ + 1]
  /\ Clerk(c, IF DesiredState(clerk[c].status) = "closed" THEN "close" ELSE "record")
  /\ UNCHANGED <<scene, task, reported>>

CloseReported(c) ==
  /\ clerk[c].pc = "close"
  /\ issue' = [issue EXCEPT ![clerk[c].issue].state = "closed"]
  /\ Clerk(c, "record")
  /\ UNCHANGED <<scene, task, reported>>

RecordReport(c) ==
  /\ clerk[c].pc = "record"
  /\ reported' = reported \cup {[task |-> clerk[c].task, comment |-> clerk[c].status,
                                 close |-> DesiredState(clerk[c].status) = "closed"]}
  /\ clerk' = [clerk EXCEPT ![c] = AtDesk]
  /\ UNCHANGED <<scene, task, issue>>

\* sync_issue_metadata, whole, and the first half of sync_issue_state: the task is read, then
\* the issue is fetched and its metadata stored.
FetchIssue(c, how) ==
  /\ c \in scene.actors /\ clerk[c].pc = "idle" /\ Spend("commands")
  /\ \E t \in Present :
       /\ task[t].ref \in Issues
       /\ task' = [task EXCEPT ![t].meta = issue[task[t].ref].state]
       /\ IF how = "metadata" \/ DesiredState(task[t].status) = issue[task[t].ref].state
          THEN UNCHANGED clerk
          ELSE clerk' = [clerk EXCEPT ![c] = [AtDesk EXCEPT !.pc = "turn", !.issue = task[t].ref,
                                                            !.status = task[t].status]]
  /\ UNCHANGED <<issue, reported>>

\* sync_issue_state closes or reopens the issue as the task was when it was read.
SyncIssueState(c) ==
  /\ clerk[c].pc = "turn"
  /\ issue' = [issue EXCEPT ![clerk[c].issue].state = DesiredState(clerk[c].status)]
  /\ clerk' = [clerk EXCEPT ![c] = AtDesk]
  /\ UNCHANGED <<scene, task, reported>>

\* A command is interrupted between two of its calls, or the tracker refuses one of them.
ClerkFails(c) ==
  /\ clerk[c].pc # "idle" /\ Spend("faults")
  /\ clerk' = [clerk EXCEPT ![c] = AtDesk]
  /\ UNCHANGED <<task, issue, reported>>

ClerkStep(c) ==
  \/ ImportIssue(c) \/ InsertImported(c) \/ SyncOpenIssue(c)
  \/ ReportTask(c) \/ AddComment(c) \/ CloseReported(c) \/ RecordReport(c)
  \/ FetchIssue(c, "metadata") \/ FetchIssue(c, "state") \/ SyncIssueState(c) \/ ClerkFails(c)

-----------------------------------------------------------------------------
(* Heartbeats. *)

\* The proposals of an answer that no open or completed task answers to.  The text of an
\* amended task is not the proposed text, so it answers to none.
MaterializeProposedTasks(answer) ==
  {p \in answer : ~\E t \in Present : /\ task[t].title = p /\ ~task[t].amended /\ ~task[t].child
                                      /\ task[t].status # "failed"}
=============================================================================
