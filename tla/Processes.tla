------------------------------ MODULE Processes ------------------------------
(***************************************************************************)
(* The processes of a harness and the files they find each other by:       *)
(* run-harness from its start to its end, the commands that stop, kill     *)
(* and nudge supervisors (commands/core.py), the restarts of the stack     *)
(* and the preflight of every start (commands/common.py).  There is one    *)
(* stop.request for all supervisors; each of them has a record under its   *)
(* pid.  Module Supervisor is the loop in between.                         *)
(***************************************************************************)
EXTENDS Decisions

CONSTANTS
  Sups,       \* pids of run-harness processes
  Nudger,     \* the pid of nudge-project
  Launchers,  \* pids of sa-watch-start
  Children,   \* pids of sa-watch-loop
  Projects    \* the projects with heartbeats

Pids == Sups \cup {Nudger}

ASSUME ProcessAssumption ==
  /\ Drainers = Pids /\ Sups \cup Children \subseteq Nat \ {0} /\ Launchers \subseteq Nat \ {0}
  /\ Nudger \notin Sups /\ Launchers \cap Children = {}

VARIABLES
  file,      \* the state files
  plane,     \* the master switch, the harness lane and the web server
  llm,       \* whether a backend answers
  sv,        \* the supervisors' loops, and their processes around them
  nudge,     \* nudge-project
  stack,     \* a restart of the stack
  launcher, child, stopper  \* the sidecar's processes (module Sidecar)

sidecar == <<launcher, child, stopper>>
procs == <<file, plane, llm, sv, nudge, stack, sidecar>>

NoLaunch == [by |-> 0, pid |-> 0, old |-> FALSE]
NoGate == [val |-> "none", fresh |-> FALSE, backoff |-> FALSE]
NoLoop == [pc |-> "off", watch |-> FALSE, signals |-> 0, due |-> {}, beats |-> {},
           fails |-> [q \in Projects |-> 0], disabled |-> {}, todo |-> {}, tried |-> {},
           done |-> 0, cur |-> 0, gate |-> NoGate]
NoNudge == [pc |-> "idle", matched |-> {}, again |-> {}]
NoStack == [pc |-> "idle", kill |-> {}]

\* The program points of SupervisorService.run.
LoopSteps == {"head", "heartbeat", "drain", "next", "gate", "task", "idle", "upkeep", "sleep"}

Alive(p) == sv[p].pc # "off"
InLoop(p) == sv[p].pc \in LoopSteps
Step(p, pc) == sv' = [sv EXCEPT ![p].pc = pc]

\* A fresh pid: one no record and no command remembers.
FreshPids == {p \in Sups : ~Alive(p) /\ p \notin file.records \cup nudge.matched \cup stack.kill}
Fresh(p) == FreshPids # {} /\ p = Min(FreshPids)
\* A supervisor with the heartbeats it is to see to.
Launch(p, watch) ==
  [NoLoop EXCEPT !.pc = "preflight", !.watch = watch, !.due = scene.beats]

\* recover_stale_state: tasks without a lease are pending again, and their runs have failed.
RecoverStaleState ==
  LET lost == {t \in Present : task[t].lease = 0} IN
  /\ task' = [t \in TaskIds |-> IF t \in lost /\ task[t].status = "active"
                                THEN [task[t] EXCEPT !.status = "pending"] ELSE task[t]]
  /\ run' = [r \in RunIds |-> IF run[r].status \in InProgress /\ run[r].task \in lost
                              THEN [run[r] EXCEPT !.status = "failed"] ELSE run[r]]

Unleased == \E t \in Present : task[t].lease = 0 /\ task[t].status = "active"

LiveRecords == {p \in file.records : Alive(p)}

ChildAlive(c) == c \in Children /\ child[c].pc # "off"
LauncherAlive(l) == l \in Launchers /\ launcher[l].pc # "off"

\* _sa_watch_launch_is_active.  Faulty variant: a launch on file is a launch under way.
LaunchOnFile(l) == l # NoLaunch
LaunchIsActive(l) == ChildAlive(l.pid) \/ (LauncherAlive(l.by) /\ ~l.old)

\* startup_preflight: what a dead process left behind is removed, a stop request with no
\* supervisor to obey it included.
StartupPreflight ==
  /\ RecoverStaleState
  /\ file' = [file EXCEPT !.records = LiveRecords,
                          !.stop = @ /\ LiveRecords # {},
                          !.runtime = IF ChildAlive(@) \/ LauncherAlive(@) THEN @ ELSE 0,
                          !.launch = IF LaunchIsActive(@) THEN @ ELSE NoLaunch]

-----------------------------------------------------------------------------
(* run-harness around the loop. *)

StartHarness(p, watch) ==
  /\ On("operator") /\ Spend("commands") /\ Fresh(p)
  /\ sv' = [sv EXCEPT ![p] = Launch(p, watch)]
  /\ UNCHANGED <<intake, decisions, file, plane, llm, nudge, stack, sidecar>>

Preflight(p) ==
  /\ sv[p].pc = "preflight" /\ StartupPreflight /\ Step(p, "turn_on")
  /\ UNCHANGED <<scene, issue, reported, clerk, item, validator, drain, brancher, plane, llm, nudge,
                 stack, sidecar>>

\* The control plane is turned on, the options become the desired state, and a stop request
\* is removed, for whomever it was meant.
TurnOn(p) ==
  /\ sv[p].pc = "turn_on" /\ Step(p, "record")
  /\ plane' = [plane EXCEPT !.on = TRUE]
  /\ file' = [file EXCEPT !.desired = TRUE, !.stop = FALSE]
  /\ UNCHANGED <<scene, intake, decisions, llm, nudge, stack, sidecar>>

WriteRecord(p) ==
  /\ sv[p].pc = "record" /\ Step(p, "head")
  /\ file' = [file EXCEPT !.records = @ \cup {p}]
  /\ plane' = [plane EXCEPT !.lane = "running"]
  /\ UNCHANGED <<scene, intake, decisions, llm, nudge, stack, sidecar>>

\* The finally clause: the lane is paused and, on a stop, everything is turned off, ...
ExitPlane(p) ==
  /\ sv[p].pc = "exit" /\ p \in Sups /\ Step(p, "leave")
  /\ plane' = IF sv[p].signals > 0 \/ file.stop
              THEN [on |-> FALSE, lane |-> "paused", ui |-> FALSE]
              ELSE [plane EXCEPT !.lane = "paused"]
  /\ UNCHANGED <<scene, intake, decisions, file, llm, nudge, stack, sidecar>>

\* ... then the record goes, and with the last record the stop request.
ExitRecord(p) ==
  /\ sv[p].pc = "leave"
  /\ sv' = [sv EXCEPT ![p] = NoLoop]
  /\ file' = IF file.stop
             THEN [file EXCEPT !.records = LiveRecords \ {p}, !.stop = LiveRecords \ {p} # {}]
             ELSE [file EXCEPT !.records = @ \ {p}]
  /\ UNCHANGED <<scene, intake, decisions, plane, llm, nudge, stack, sidecar>>

\* The handler is set for the loop and what follows it, up to the removal of the record.
Handles(p) == InLoop(p) \/ sv[p].pc = "exit"

\* The process as one signal more leaves it: the first asks the loop to stop, the second
\* breaks off the loop, or the finally clause.
Signalled(p) ==
  IF Handles(p) /\ sv[p].signals = 0 THEN [sv[p] EXCEPT !.signals = 1]
  ELSE IF InLoop(p) THEN [sv[p] EXCEPT !.signals = 2, !.pc = "exit", !.cur = 0]
  ELSE NoLoop

\* _request_stop: the handler stops the web server and leaves a stop request for all.
RequestStop(p) ==
  /\ p \in Sups /\ Alive(p)
  /\ sv' = [sv EXCEPT ![p] = Signalled(p)]
  /\ drain' = [drain EXCEPT ![p] = IF InLoop(p) /\ sv[p].signals = 0 THEN @ ELSE NoDrain]
  /\ IF Handles(p) THEN file' = [file EXCEPT !.stop = TRUE] /\ plane' = [plane EXCEPT !.ui = FALSE]
                   ELSE UNCHANGED <<file, plane>>

Interrupt(p) ==
  /\ On("operator") /\ Spend("commands") /\ RequestStop(p)
  /\ UNCHANGED <<intake, run, item, validator, brancher, llm, nudge, stack, sidecar>>

Dies(p) ==
  /\ p \in Sups /\ Alive(p) /\ Spend("faults")
  /\ sv' = [sv EXCEPT ![p] = NoLoop] /\ drain' = [drain EXCEPT ![p] = NoDrain]
  /\ UNCHANGED <<intake, run, item, validator, brancher, file, plane, llm, nudge, stack, sidecar>>

LeaseExpires(t) ==
  /\ task[t].lease \in Pids /\ ~(Alive(task[t].lease) /\ sv[task[t].lease].cur = t)
  /\ task' = [task EXCEPT ![t].lease = 0]
  /\ UNCHANGED <<scene, issue, reported, clerk, decisions, procs>>

-----------------------------------------------------------------------------
(* The operator's commands. *)

StopSupervisors ==
  /\ On("operator") /\ Spend("commands")
  /\ file' = [file EXCEPT !.stop = TRUE, !.records = LiveRecords]
  /\ UNCHANGED <<intake, decisions, plane, llm, sv, nudge, stack, sidecar>>

KillSupervisors ==
  /\ On("operator") /\ Spend("commands")
  /\ file' = [file EXCEPT !.records = LiveRecords]
  /\ sv' = [p \in Pids |-> IF p \in LiveRecords THEN NoLoop ELSE sv[p]]
  /\ drain' = [p \in Pids |-> IF p \in LiveRecords THEN NoDrain ELSE drain[p]]
  /\ UNCHANGED <<intake, run, item, validator, brancher, plane, llm, nudge, stack, sidecar>>

\* nudge-project: the supervisors on record are asked to stop, ...
NudgeStart ==
  /\ On("nudge") /\ nudge.pc = "idle" /\ Spend("errands")
  /\ file' = [file EXCEPT !.records = LiveRecords, !.stop = @ \/ LiveRecords # {}]
  /\ nudge' = [pc |-> IF LiveRecords = {} THEN "beat" ELSE "wait", matched |-> LiveRecords,
               again |-> LiveRecords]
  /\ UNCHANGED <<intake, decisions, plane, llm, sv, stack, sidecar>>

NudgeWait ==
  /\ nudge.pc = "wait" /\ LiveRecords = {}
  /\ file' = [file EXCEPT !.records = {}]
  /\ nudge' = [nudge EXCEPT !.pc = "beat"]
  /\ UNCHANGED <<scene, intake, decisions, plane, llm, sv, stack, sidecar>>

\* ... or the command raises after restart_timeout_seconds.
NudgeGoesOn ==
  /\ nudge.pc = "wait" /\ LiveRecords # {}
  /\ nudge' = [nudge EXCEPT !.pc = "beat"]
  /\ UNCHANGED <<scene, intake, decisions, file, plane, llm, sv, stack, sidecar>>
NudgeTimesOut ==
  /\ nudge.pc = "wait" /\ LiveRecords # {}
  /\ nudge' = NoNudge
  /\ UNCHANGED <<scene, intake, decisions, file, plane, llm, sv, stack, sidecar>>

\* A heartbeat; the tasks it proposed are created and processed on the spot by a loop that no
\* stop request reaches.  A heartbeat that fails ends the command, and nothing is restarted.
NudgeHeartbeat ==
  /\ nudge.pc = "beat"
  /\ \/ /\ llm = "up"
        /\ \E answer \in SUBSET scene.proposals :
             LET todo == MaterializeProposedTasks(answer) IN
             /\ nudge' = [nudge EXCEPT !.pc = IF todo = {} THEN "restart" ELSE "process"]
             /\ sv' = IF todo = {} THEN sv
                      ELSE [sv EXCEPT ![Nudger] = [NoLoop EXCEPT !.pc = "heartbeat", !.todo = todo]]
     \/ nudge' = NoNudge /\ UNCHANGED sv
  /\ UNCHANGED <<scene, intake, decisions, file, plane, llm, stack, sidecar>>

NudgeProcessed ==
  /\ nudge.pc = "process" /\ sv[Nudger].pc = "exit"
  /\ sv' = [sv EXCEPT ![Nudger] = NoLoop] /\ nudge' = [nudge EXCEPT !.pc = "restart"]
  /\ UNCHANGED <<scene, intake, decisions, file, plane, llm, stack, sidecar>>

\* _restart_supervisor_process for each of the supervisors that were asked to stop.
NudgeRestart ==
  /\ nudge.pc = "restart"
  /\ \/ nudge.again = {} /\ nudge' = NoNudge /\ UNCHANGED sv
     \/ \E p \in Sups :
          /\ Fresh(p) /\ nudge.again # {} /\ nudge' = [nudge EXCEPT !.again = @ \ {Min(@)}]
          /\ sv' = [sv EXCEPT ![p] = Launch(p, TRUE)]
  /\ UNCHANGED <<scene, intake, decisions, file, plane, llm, stack, sidecar>>

-----------------------------------------------------------------------------
(* A restart of the stack, which _restart_stack_from_sa_watch and the control loop force. *)

\* restart_api_process: a web server that runs is left alone, unless it is forced.
RestartStack(force) ==
  /\ On("stack") /\ stack.pc = "idle" /\ Spend("errands")
  /\ stack' = [pc |-> "term", kill |-> IF force THEN file.records ELSE {}]
  /\ plane' = [plane EXCEPT !.ui = TRUE]
  /\ UNCHANGED <<intake, decisions, file, llm, sv, nudge, sidecar>>

\* _terminate_pid: a signal, five seconds of patience, and the end of it.
Terminate ==
  /\ stack.pc = "term" /\ stack.kill # {}
  /\ IF Alive(Min(stack.kill))
     THEN RequestStop(Min(stack.kill)) /\ stack' = [stack EXCEPT !.pc = "wait"]
     ELSE stack' = [stack EXCEPT !.kill = @ \ {Min(@)}] /\ UNCHANGED <<sv, drain, file, plane>>
  /\ UNCHANGED <<scene, intake, run, item, validator, brancher, llm, nudge, sidecar>>

Reap ==
  LET p == Min(stack.kill) IN
  /\ stack.pc = "wait"
  /\ stack' = [pc |-> "term", kill |-> stack.kill \ {p}]
  /\ sv' = [sv EXCEPT ![p] = NoLoop] /\ drain' = [drain EXCEPT ![p] = NoDrain]
  /\ UNCHANGED <<scene, intake, run, item, validator, brancher, file, plane, llm, nudge, sidecar>>

\* restart_harness_process: the stop request the handlers left is removed before the relaunch.
Relaunch ==
  /\ stack.pc = "term" /\ stack.kill = {} /\ stack' = NoStack
  /\ IF file.desired
     THEN \E p \in Sups : /\ Fresh(p) /\ file' = [file EXCEPT !.stop = FALSE]
                          /\ sv' = [sv EXCEPT ![p] = Launch(p, TRUE)]
     ELSE UNCHANGED <<file, sv>>
  /\ UNCHANGED <<scene, intake, decisions, plane, llm, nudge, sidecar>>

Restarting == RestartStack(TRUE) \/ RestartStack(FALSE) \/ Terminate \/ Reap \/ Relaunch

Nudging == NudgeStart \/ NudgeWait \/ NudgeTimesOut \/ NudgeHeartbeat \/ NudgeProcessed \/ NudgeRestart
=============================================================================
