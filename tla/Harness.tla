------------------------------- MODULE Harness -------------------------------
(***************************************************************************)
(* The processes of a harness together: supervisors that start, work,      *)
(* stop and crash, the operator's commands, a nudge, a restart of the      *)
(* stack, the sidecar, the issue clerks, the validation and the branches,  *)
(* over one task table and one set of state files.  A scene says who is    *)
(* there and how many commands, faults and outages are left.               *)
(***************************************************************************)
EXTENDS Supervisor, Sequences

CONSTANT Scenes  \* the situations to start from

\* A scene: who acts, the supervisors at work, the tasks with their status and issue, what
\* heartbeats may propose, and how much of what may happen is left.
SceneRecords ==
  [actors : SUBSET (Clerks \cup {"operator", "clock", "nudge", "stack", "validator", "brancher",
                                 "stopper", "adder"}),
   sups : SUBSET Sups, tasks : Seq(TaskStatus), ref : Issues \cup {"none"}, runs : Nat,
   beats : SUBSET Projects, proposals : SUBSET Proposals, launchers : Nat, commands : Nat,
   faults : Nat, outages : Nat, upkeep : Nat, giveups : Nat, errands : Nat]

\* A scene starts with no more tasks of an issue than its clerks can have imported.
ASSUME HarnessAssumption ==
  /\ IsFiniteSet(Clerks) /\ Scenes \subseteq SceneRecords
  /\ \A s \in Scenes : s.ref # "none" => Len(s.tasks) <= Cardinality(Clerks \cap s.actors)

vars == <<scene, intake, decisions, procs>>

Init ==
  /\ scene \in Scenes
  /\ task = [t \in TaskIds |-> IF t \in DOMAIN scene.tasks
                               THEN [NoTask EXCEPT !.status = scene.tasks[t], !.ref = scene.ref]
                               ELSE NoTask]
  /\ issue = [i \in Issues |-> [state |-> "open", comments |-> 0]]
  /\ reported = {} /\ clerk = [c \in Clerks |-> AtDesk]
  /\ run = [r \in RunIds |-> IF r <= scene.runs
                             THEN [NoRun EXCEPT !.status = "working", !.task = r] ELSE NoRun]
  /\ item = [r \in RunIds |-> "none"] /\ validator = 0
  /\ drain = [p \in Pids |-> NoDrain] /\ brancher = NoBranch
  /\ sv = [p \in Pids |-> IF p \in scene.sups
                          THEN [Launch(p, TRUE) EXCEPT !.pc = "head"] ELSE NoLoop]
  /\ file = [stop |-> FALSE, records |-> scene.sups, desired |-> scene.sups # {}, runtime |-> 0,
             launch |-> NoLaunch, wanted |-> FALSE]
  /\ plane = [on |-> scene.sups # {}, lane |-> "running", ui |-> TRUE]
  /\ llm = "up" /\ nudge = NoNudge /\ stack = NoStack
  /\ launcher = [l \in Launchers |-> NoLauncher] /\ child = [c \in Children |-> NoChild]
  /\ stopper = NoStopper

SupervisorNext ==
  \/ \E p \in Pids : LoopStep(p) \/ GateAges(p) \/ GiveUp(p) \/ \E q \in Projects : HeartbeatDue(p, q)
  \/ \E p \in Sups : BootAndExit(p) \/ Dies(p) \/ Interrupt(p) \/ StartHarness(p, TRUE) \/ StartHarness(p, FALSE)
  \/ \E t \in TaskIds : LeaseExpires(t)
  \/ StopSupervisors \/ KillSupervisors \/ Nudging \/ Restarting \/ BackendsFail \/ BackendsRecover

SidecarNext ==
  \/ \E l \in Launchers : StartSaWatch(l) \/ LauncherStep(l) \/ LauncherDies(l)
  \/ \E c \in Children : ChildStep(c) \/ ChildDies(c)
  \/ LaunchAges \/ StopSaWatch \/ StopperStep

\* The intake and the queue leave the processes alone.
IntakeNext ==
  \/ (AddTask \/ \E c \in Clerks : ClerkStep(c)) /\ UNCHANGED <<decisions, procs>>
  \/ (Validate \/ QueuedForDecision \/ Branching) /\ UNCHANGED procs

Next == SupervisorNext \/ SidecarNext \/ IntakeNext

\* Processes that live take their steps; time passes; a run ends, by itself or by its timeout.
\* The operator who wants a sidecar asks for it until it is there.  No command needs to come,
\* no backend needs to recover, nothing needs to fail.
Fairness ==
  /\ \A p \in Pids : WF_vars(LoopStep(p) \/ BootAndExit(p))
  /\ SF_vars(\E p \in Pids : GateAges(p))
  /\ \A c \in Children : WF_vars(ChildStep(c))
  /\ WF_vars(\E l \in Launchers : StartSaWatch(l)) /\ WF_vars(\E l \in Launchers : LauncherStep(l))
  /\ WF_vars(\E t \in TaskIds : LeaseExpires(t))
  /\ WF_vars(StopperStep)

Spec == Init /\ [][Next]_vars /\ Fairness

-----------------------------------------------------------------------------
\* An issue has at most as many tasks of its own as processes import it at a time: create_task
\* looks for the issue in one transaction and inserts in another, but whatever becomes of the
\* task, its reports and its follow-ons, it is found again (services/task_service.py,
\* create_task).
ImportBound ==
  \A i \in Issues :
    Cardinality({t \in Present : task[t].ref = i /\ ~task[t].child})
      <= Cardinality(Clerks \cap scene.actors)

\* nudge-project works on the project, and starts its supervisors again, only when the
\* supervisors it asked to stop have left their loops, though they may be killed, be
\* relaunched by others or lose the stop request to a starting supervisor meanwhile
\* (commands/core.py, nudge-project).
NudgeWaits ==
  nudge.pc \in {"beat", "process", "restart"} => \A p \in nudge.matched : ~InLoop(p)

\* A supervisor that finds a stop request leaves its loop, unless the request is removed
\* before it gets to see it: no heartbeat, closed gate, queue or retry cycle keeps it from
\* looking (services/supervisor_service.py, run).
StopHonoured ==
  file.stop ~> (~file.stop \/ \A p \in Sups : ~InLoop(p))

\* A task that waits is taken up, and the decisions that wait are taken, as long as a watching
\* supervisor lives and the backends are up in the end: neither heartbeats that keep falling
\* due nor tasks that keep failing starve the queues (services/supervisor_service.py, run;
\* the drainer of an item may have died with it).
Watched == \E p \in Sups : InLoop(p) /\ sv[p].watch

QueueServed ==
  <>[](llm = "up") =>
    /\ \A t \in TaskIds : (task[t].status = "pending" /\ Watched) ~> (task[t].status # "pending" \/ ~Watched)
    /\ (Pending # {} /\ Watched) ~> (Pending = {} \/ ~Watched)

\* The sidecar comes to follow its desired state, again and again: without one no loop goes
\* on, and with one, and an operator who asks again, a loop comes to run, whatever launch and
\* runtime files a dead launcher or loop has left (commands/common.py, start_sa_watch_process).
SidecarFollows == []<>(file.wanted <=> Resident # {})
=============================================================================
