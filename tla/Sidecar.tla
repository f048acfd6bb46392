------------------------------- MODULE Sidecar -------------------------------
(***************************************************************************)
(* The life of the sidecar process: sa-watch-start, sa-watch-stop and      *)
(* sa-watch-loop (commands/common.py, commands/control.py).  They agree    *)
(* through four things read at different moments: the process list, the    *)
(* runtime file, the launch file (created exclusively) and the desired     *)
(* state.  What the loop does when it runs is module StuckWatch.           *)
(***************************************************************************)
EXTENDS Processes

Running == {c \in Children : ChildAlive(c)}
Resident == {c \in Children : child[c].pc = "loop"}

NoChild == [pc |-> "off", term |-> FALSE]
NoLauncher == [pc |-> "off", kill |-> {}, child |-> 0]
NoStopper == [pc |-> "idle", kill |-> {}]

rest == <<intake, decisions, plane, llm, sv, nudge, stack>>

Launcher(l, pc) == launcher' = [launcher EXCEPT ![l].pc = pc]
Exit(l) == launcher' = [launcher EXCEPT ![l] = NoLauncher]

\* The pids that a file or a stopping command still names; a new process has none of them.
Named == {file.runtime, file.launch.by, file.launch.pid} \cup stopper.kill
         \cup UNION {launcher[l].kill : l \in Launchers}
FreshLaunchers == {l \in Launchers : launcher[l].pc = "off"} \ Named
FreshChildren == Children \ (Running \cup Named)

\* One signal to a process of the sidecar, which makes a note of it once its handler is set.
Hit(cs, c) ==
  [cs EXCEPT ![c] = IF @.pc = "boot" THEN NoChild ELSE [@ EXCEPT !.term = TRUE]]

-----------------------------------------------------------------------------
(* sa-watch-start. *)

\* _reconcile_matching_sa_watch_processes: the one with the largest pid stays, the others go.
StartSaWatch(l) ==
  /\ Cardinality({x \in Launchers : LauncherAlive(x)}) < scene.launchers
  /\ FreshLaunchers # {} /\ l = Min(FreshLaunchers)
  /\ launcher' = [launcher EXCEPT ![l] =
       IF Running = {} THEN [NoLauncher EXCEPT !.pc = "runtime"]
       ELSE [NoLauncher EXCEPT !.pc = "adopt", !.kill = Running \ {Max(Running)}]]
  /\ UNCHANGED <<scene, rest, file, child, stopper>>

TerminateExtra(l) ==
  /\ launcher[l].pc = "adopt" /\ launcher[l].kill # {}
  /\ LET c == Min(launcher[l].kill) IN
       \/ ChildAlive(c) /\ ~child[c].term /\ child' = Hit(child, c) /\ UNCHANGED launcher
       \/ /\ ~ChildAlive(c) \/ child[c].term
          /\ child' = [child EXCEPT ![c] = NoChild]
          /\ launcher' = [launcher EXCEPT ![l].kill = @ \ {c}]
  /\ UNCHANGED <<scene, rest, file, stopper>>

\* The adopted process is recorded under the launcher's own pid, until its next round.
Adopt(l) ==
  /\ launcher[l].pc = "adopt" /\ launcher[l].kill = {} /\ Exit(l)
  /\ file' = [file EXCEPT !.runtime = l, !.launch = NoLaunch]
  /\ UNCHANGED <<scene, rest, child, stopper>>

ReadRuntime(l) ==
  /\ launcher[l].pc = "runtime"
  /\ IF ChildAlive(file.runtime) \/ LauncherAlive(file.runtime) THEN Exit(l) ELSE Launcher(l, "launch")
  /\ UNCHANGED <<scene, rest, file, child, stopper>>

ReadLaunch(l) ==
  /\ launcher[l].pc = "launch"
  /\ IF LaunchIsActive(file.launch) THEN Exit(l) ELSE Launcher(l, "acquire")
  /\ UNCHANGED <<scene, rest, file, child, stopper>>

\* _acquire_sa_watch_launch_state: a file that is in the way is looked at, and removed when
\* nobody stands behind it; there is one more try.
Acquire(l) ==
  /\ launcher[l].pc \in {"acquire", "again"}
  /\ IF file.launch = NoLaunch
     THEN file' = [file EXCEPT !.launch = [NoLaunch EXCEPT !.by = l]] /\ Launcher(l, "spawn")
     ELSE IF LaunchIsActive(file.launch) THEN Exit(l) /\ UNCHANGED file
     ELSE /\ file' = [file EXCEPT !.launch = NoLaunch]
          /\ IF launcher[l].pc = "again" THEN Exit(l) ELSE Launcher(l, "again")
  /\ UNCHANGED <<scene, rest, child, stopper>>

Spawn(l) ==
  /\ launcher[l].pc = "spawn" /\ FreshChildren # {}
  /\ file' = [file EXCEPT !.wanted = TRUE]
  /\ LET c == Min(FreshChildren) IN
       /\ child' = [child EXCEPT ![c].pc = "boot"]
       /\ launcher' = [launcher EXCEPT ![l].pc = "write", ![l].child = c]
  /\ UNCHANGED <<scene, rest, stopper>>

\* The launch file again, now with the child's pid, whether the child has removed it or not.
WriteLaunch(l) ==
  /\ launcher[l].pc = "write" /\ Exit(l)
  /\ file' = [file EXCEPT !.launch = [by |-> l, pid |-> launcher[l].child, old |-> @.old]]
  /\ UNCHANGED <<scene, rest, child, stopper>>

LauncherDies(l) ==
  /\ LauncherAlive(l) /\ Spend("faults") /\ Exit(l)
  /\ UNCHANGED <<rest, file, child, stopper>>

\* A launch file is taken for stale after thirty seconds.
LaunchAges ==
  /\ file.launch # NoLaunch /\ ~file.launch.old
  /\ file' = [file EXCEPT !.launch.old = TRUE]
  /\ UNCHANGED <<scene, rest, sidecar>>

-----------------------------------------------------------------------------
(* sa-watch-loop. *)

Boot(c) ==
  /\ child[c].pc = "boot" /\ StartupPreflight
  /\ child' = [child EXCEPT ![c].pc = "start"]
  /\ UNCHANGED <<scene, issue, reported, clerk, item, validator, drain, brancher, plane, llm, sv,
                 nudge, stack, launcher, stopper>>

\* A loop that finds no desired state records its own.
Announce(c) ==
  /\ child[c].pc = "start"
  /\ child' = [child EXCEPT ![c].pc = "loop"]
  /\ file' = [file EXCEPT !.wanted = TRUE, !.runtime = c, !.launch = NoLaunch]
  /\ UNCHANGED <<scene, rest, launcher, stopper>>

ShouldStop(c) == child[c].term \/ ~file.wanted

\* A round of the loop: it leaves, or reports in and sleeps.
Round(c) ==
  /\ child[c].pc = "loop"
  /\ IF ShouldStop(c) THEN child' = [child EXCEPT ![c] = NoChild] /\ file' = [file EXCEPT !.runtime = 0]
                      ELSE file' = [file EXCEPT !.runtime = c] /\ UNCHANGED child
  /\ UNCHANGED <<scene, rest, launcher, stopper>>

ChildDies(c) ==
  /\ ChildAlive(c) /\ Spend("faults")
  /\ child' = [child EXCEPT ![c] = NoChild]
  /\ UNCHANGED <<rest, file, launcher, stopper>>

-----------------------------------------------------------------------------
(* sa-watch-stop. *)

\* The process in the runtime file goes, else the one in the launch file, and the matching
\* processes in neither.
StopSaWatch ==
  LET named == {file.runtime, file.launch.pid} IN
  /\ On("stopper") /\ stopper.pc = "idle" /\ Spend("commands")
  /\ stopper' = [pc |-> "term", kill |-> (Running \ named) \cup
                   IF file.runtime # 0 THEN {file.runtime} ELSE {file.launch.pid} \ {0}]
  /\ UNCHANGED <<rest, file, launcher, child>>

TerminateNamed ==
  /\ stopper.pc = "term" /\ stopper.kill # {}
  /\ LET x == Min(stopper.kill)
         done == stopper' = [stopper EXCEPT !.kill = @ \ {x}]
     IN  \/ x \in Launchers /\ Exit(x) /\ done /\ UNCHANGED child
         \/ x \in Children /\ ChildAlive(x) /\ ~child[x].term /\ child' = Hit(child, x)
              /\ UNCHANGED <<launcher, stopper>>
         \/ x \in Children /\ (~ChildAlive(x) \/ child[x].term)
              /\ child' = [child EXCEPT ![x] = NoChild] /\ done /\ UNCHANGED launcher
  /\ UNCHANGED <<scene, rest, file>>

ClearStates ==
  /\ stopper.pc = "term" /\ stopper.kill = {} /\ stopper' = NoStopper
  /\ file' = [file EXCEPT !.runtime = 0, !.launch = NoLaunch, !.wanted = FALSE]
  /\ UNCHANGED <<scene, rest, launcher, child>>

LauncherStep(l) ==
  \/ TerminateExtra(l) \/ Adopt(l) \/ ReadRuntime(l) \/ ReadLaunch(l) \/ Acquire(l) \/ Spawn(l)
  \/ WriteLaunch(l)

ChildStep(c) == Boot(c) \/ Announce(c) \/ Round(c)

StopperStep == TerminateNamed \/ ClearStates
=============================================================================
