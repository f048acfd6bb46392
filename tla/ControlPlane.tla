---------------------------- MODULE ControlPlane ----------------------------
(***************************************************************************)
(* The control plane: one row of system state and one row per lane, which  *)
(* decide whether a supervisor may dispatch work.  Operators' commands,    *)
(* the runtime observer of every supervisor and the watch loop all read    *)
(* and write these rows, each from its own process.  A method of           *)
(* ControlPlane is a chain of transactions, one action each; every write   *)
(* replaces a whole row by the process's own, possibly outdated, copy.     *)
(* Rows carry a free-text reason; what depends on it here is whether a     *)
(* lane was paused for lack of credit, and whether a row is rewritten with *)
(* nothing but its reason changed, which is left open.                     *)
(***************************************************************************)
EXTENDS Integers, FiniteSets

CONSTANTS
  Operators,    \* processes that run one control command at a time
  Supervisors,  \* processes that poll for tasks and run them
  Watches,      \* processes that run ControlWatchService (a supervisor runs one
                \* between its tasks)
  Lanes,        \* DEFAULT_CONTROL_LANES
  Limit,        \* EXPENSIVE_CODING_RUN_LIMIT
  MaxCommands,  \* bound: operator commands
  MaxCrashes    \* bound: processes killed inside a method

Processes == Operators \cup Supervisors \cup Watches

ASSUME ControlAssumption ==
  /\ IsFiniteSet(Supervisors)
  /\ Operators \cap Supervisors = {} /\ Operators \cap Watches = {}
  /\ Supervisors \cap Watches = {}
  /\ "worker" \in Lanes
  /\ Limit \in Nat
  /\ MaxCommands \in Nat
  /\ MaxCrashes \in Nat

VARIABLES
  system,    \* control_system_state: global_state and master_switch
  lane,      \* control_lane_state: the state of each lane
  elapsed,   \* the lanes in cooldown whose cooldown_until has passed
  used,      \* the runs recorded against the objective's budget in the last hour
  pc,        \* where each process stands in the method it is in
  cmd,       \* that method
  target,    \* the lane it is about
  copy,      \* the system row as the process last read it
  expected,  \* the state _reconcile_system_state has worked out
  todo,      \* the lanes its loop has still to write
  final,     \* it is in the status() that ends the method
  work,      \* what a supervisor or a watch does around its methods
  commands, crashes

rows   == <<system, lane, elapsed, used>>
regs   == <<cmd, target, copy, expected, todo, final>>
bounds == <<commands, crashes>>
vars   == <<system, lane, elapsed, used, pc, cmd, target, copy, expected, todo, final,
            work, commands, crashes>>

GlobalState == {"off", "starting", "healthy", "degraded", "frozen"}

\* "exhausted" is a lane PAUSED with a reason that names credit or budget.
\* Nothing in the code disables a lane.
LaneState == {"running", "paused", "exhausted", "cooldown"}

System == [state : GlobalState, switch : BOOLEAN]

Command ==
  {"on", "off", "freeze", "thaw", "degrade", "heal", "status",
   "pause", "resume", "exhaust", "cooldown", "started", "defect", "unknown", "hang",
   "stall"}

PC == {"idle", "read", "reread", "write", "lanes", "lane", "list", "expire", "reopen",
       "judge", "settle", "touch", "checkLane", "checkBudget"}

Work == {"free", "admitted", "started", "running", "evaluate", "report"}

Goto(p, q) == pc' = [pc EXCEPT ![p] = q]

Blank == [state |-> "off", switch |-> FALSE]

Init ==
  /\ system = Blank
  /\ lane = [l \in Lanes |-> "paused"]
  /\ elapsed = {}
  /\ used = 0
  /\ pc = [p \in Processes |-> "idle"]
  /\ cmd = [p \in Processes |-> "status"]
  /\ target = [p \in Processes |-> "worker"]
  /\ copy = [p \in Processes |-> Blank]
  /\ expected = [p \in Processes |-> "off"]
  /\ todo = [p \in Processes |-> {}]
  /\ final = [p \in Processes |-> FALSE]
  /\ work = [p \in Processes |-> "free"]
  /\ commands = 0
  /\ crashes = 0

-----------------------------------------------------------------------------
(* Calling a method, and returning from it.                                *)

MayCall(p) == pc[p] = "idle"

\* The first thing a method does.
Entry(c) ==
  IF c = "status" THEN "list"
  ELSE IF c \in {"pause", "exhaust", "cooldown", "started", "defect", "unknown", "hang"}
       THEN "lane"
  ELSE "read"

Call(p, c, l) ==
  /\ MayCall(p)
  /\ cmd' = [cmd EXCEPT ![p] = c]
  /\ target' = [target EXCEPT ![p] = l]
  /\ final' = [final EXCEPT ![p] = c = "status"]
  /\ Goto(p, Entry(c))
  /\ UNCHANGED <<copy, expected, todo>>

\* Registers that are of no use any more are blanked.  Past its own writes, a
\* method is a status(), but for those that escalate (see Return).
Leave(p, q, c, f) ==
  /\ Goto(p, q)
  /\ cmd' = [cmd EXCEPT ![p] = c]
  /\ final' = [final EXCEPT ![p] = f]
  /\ target' = [target EXCEPT ![p] = "worker"]
  /\ copy' = [copy EXCEPT ![p] = Blank]
  /\ expected' = [expected EXCEPT ![p] = "off"]

Escalating == {"exhaust", "stall"}

Past(c) == IF c \in Escalating THEN c ELSE "status"

\* The method is over; status() comes next; _sync_global_state() comes next.
Idle(p) == Leave(p, "idle", "status", FALSE)
Status(p) == Leave(p, "list", Past(cmd[p]), TRUE)
Sync(p) == Leave(p, "list", Past(cmd[p]), FALSE)

\* status() has returned.  Credit exhaustion, and a run that completed without
\* progress, go on to record an escalation, which ends in another status().
Return(p) ==
  IF cmd[p] \in Escalating THEN Leave(p, "list", "status", TRUE) ELSE Idle(p)

-----------------------------------------------------------------------------
(* The body of a method.                                                   *)

\* get_control_system_state, and the early returns that depend on it: a frozen
\* system is neither degraded nor healed, and resuming a lane of it raises.
ReadSystem(p) ==
  /\ pc[p] = "read"
  /\ \/ /\ \/ cmd[p] \in {"degrade", "heal", "stall"} /\ system.state = "frozen"
           \/ cmd[p] \in {"heal", "stall"} /\ ~ system.switch
        /\ Status(p)
     \/ /\ cmd[p] = "resume" /\ system.state = "frozen"
        /\ Idle(p)
     \/ /\ cmd[p] \in {"heal", "stall"} /\ system.state # "frozen" /\ system.switch
        /\ Sync(p)
     \/ /\ \/ cmd[p] \in {"on", "off", "freeze", "thaw"}
           \/ cmd[p] \in {"degrade", "resume"} /\ system.state # "frozen"
        /\ Goto(p, IF cmd[p] = "resume" THEN "reread" ELSE "write")
        /\ copy' = [copy EXCEPT ![p] = system]
        /\ UNCHANGED <<cmd, target, expected, final>>
  /\ UNCHANGED <<rows, todo, work, bounds>>

\* resume_lane reads the system row a second time, for the switch.
RereadSwitch(p) ==
  /\ pc[p] = "reread"
  /\ copy' = [copy EXCEPT ![p] = system]
  /\ Goto(p, "lane")
  /\ UNCHANGED <<rows, cmd, target, expected, todo, final, work, bounds>>

\* Faulty variant of NewSystem: off clears the switch and leaves the state to status().
NewSystemSwitchOnly(c, old) ==
  CASE c = "on"      -> [state |-> "starting", switch |-> TRUE]
    [] c = "off"     -> [old EXCEPT !.switch = FALSE]
    [] c = "freeze"  -> [old EXCEPT !.state = "frozen"]
    [] c = "thaw"    -> [old EXCEPT !.state = IF old.switch THEN "starting" ELSE "off"]
    [] c = "degrade" -> [old EXCEPT !.state = "degraded"]

\* The row a method writes over the one it has read.
NewSystem(c, old) ==
  CASE c = "on"      -> [state |-> "starting", switch |-> TRUE]
    [] c = "off"     -> [state |-> "off", switch |-> FALSE]
    [] c = "freeze"  -> [old EXCEPT !.state = "frozen"]
    [] c = "thaw"    -> [old EXCEPT !.state = IF old.switch THEN "starting" ELSE "off"]
    [] c = "degrade" -> [old EXCEPT !.state = "degraded"]

\* update_control_system_state.  thaw leaves the lanes of a system that is
\* switched off alone.
WriteSystem(p) ==
  /\ pc[p] = "write"
  /\ system' = NewSystem(cmd[p], copy[p])
  /\ IF cmd[p] = "degrade" \/ (cmd[p] = "thaw" /\ ~ copy[p].switch)
     THEN Sync(p) /\ UNCHANGED todo
     ELSE /\ Goto(p, "lanes")
          /\ todo' = [todo EXCEPT ![p] = Lanes]
          /\ UNCHANGED <<cmd, target, copy, expected, final>>
  /\ UNCHANGED <<lane, elapsed, used, work, bounds>>

SetLane(l, s) ==
  /\ lane' = [lane EXCEPT ![l] = s]
  /\ elapsed' = elapsed \ {l}

\* One turn of the loop over the lanes.
WriteNextLane(p) ==
  /\ pc[p] = "lanes"
  /\ \E l \in todo[p] :
       /\ SetLane(l, IF cmd[p] \in {"on", "thaw"} THEN "running" ELSE "paused")
       /\ todo' = [todo EXCEPT ![p] = @ \ {l}]
       /\ IF todo[p] # {l} THEN UNCHANGED <<pc, cmd, target, copy, expected, final>>
          ELSE IF cmd[p] \in {"on", "thaw"} THEN Sync(p)
          ELSE Status(p)
  /\ UNCHANGED <<system, used, work, bounds>>

\* The state a method gives its lane.
LaneFor(c, switch) ==
  CASE c \in {"pause", "hang"}                -> "paused"
    [] c = "exhaust"                          -> "exhausted"
    [] c = "cooldown"                         -> "cooldown"
    [] c \in {"started", "defect", "unknown"} -> "running"
    [] c = "resume"                           -> IF switch THEN "running" ELSE "paused"

\* pause_lane, resume_lane, enter_cooldown, and the observer's _set_worker_lane,
\* which is all there is to task_started and to a failure of the task itself.
\* A second failure of unknown class is escalated; a hung process is followed by
\* mark_degraded.
WriteLane(p) ==
  /\ pc[p] = "lane"
  /\ SetLane(target[p], LaneFor(cmd[p], copy[p].switch))
  /\ \/ /\ cmd[p] \in {"pause", "resume", "exhaust", "cooldown"}
        /\ Sync(p)
     \/ /\ cmd[p] \in {"started", "defect"}
        /\ Idle(p)
     \/ /\ cmd[p] = "unknown"
        /\ Status(p)
     \/ /\ cmd[p] = "hang"
        /\ cmd' = [cmd EXCEPT ![p] = "degrade"]
        /\ Goto(p, "read")
        /\ UNCHANGED <<target, copy, expected, final>>
  /\ UNCHANGED <<system, used, todo, work, bounds>>

-----------------------------------------------------------------------------
(* status(): _expire_cooldowns, then _reconcile_system_state.              *)

\* Faulty variant of Due: cooldowns end only while the system is switched on.
DueIfOn(l) == system.switch /\ lane[l] = "cooldown" /\ l \in elapsed

Due(l) == lane[l] = "cooldown" /\ l \in elapsed

ListLanes(p) ==
  /\ pc[p] = "list"
  /\ todo' = [todo EXCEPT ![p] = {l \in Lanes : Due(l)}]
  /\ Goto(p, "expire")
  /\ UNCHANGED <<rows, cmd, target, copy, expected, final, work, bounds>>

ReadSwitch(p) ==
  /\ pc[p] = "expire"
  /\ \E l \in todo[p] : target' = [target EXCEPT ![p] = l]
  /\ copy' = [copy EXCEPT ![p] = system]
  /\ Goto(p, "reopen")
  /\ UNCHANGED <<rows, cmd, expected, todo, final, work, bounds>>

\* The lane reopens from the list made at the start, whatever it is by now.
Reopen(p) ==
  /\ pc[p] = "reopen"
  /\ SetLane(target[p], IF copy[p].switch THEN "running" ELSE "paused")
  /\ todo' = [todo EXCEPT ![p] = @ \ {target[p]}]
  /\ Leave(p, "expire", cmd[p], final[p])
  /\ UNCHANGED <<system, used, work, bounds>>

\* The end of _reconcile_system_state: of status(), or of the first half of
\* _sync_global_state.
EndPass(p, current) ==
  IF final[p]
  THEN Return(p)
  ELSE /\ Goto(p, "touch")
       /\ copy' = [copy EXCEPT ![p] = current]
       /\ expected' = [expected EXCEPT ![p] = "off"]
       /\ UNCHANGED <<cmd, target, final>>

\* Faulty variant of Untouchable: reconciliation does not spare a freeze.
UntouchableNever(s) == FALSE

\* _reconcile_system_state leaves a frozen system alone.
Untouchable(s) == s.state = "frozen"

Reconcile(p) ==
  /\ pc[p] = "expire" /\ todo[p] = {}
  /\ \/ Untouchable(system) /\ EndPass(p, system)
     \/ /\ ~ Untouchable(system)
        /\ Goto(p, IF system.switch THEN "judge" ELSE "settle")
        /\ copy' = [copy EXCEPT ![p] = system]
        /\ UNCHANGED <<cmd, target, expected, final>>
  /\ UNCHANGED <<rows, todo, work, bounds>>

\* Faulty variant of AnyClosed: only a cooldown degrades the system.
AnyCoolingDown == \E l \in Lanes : lane[l] = "cooldown"

AnyClosed == \E l \in Lanes : lane[l] # "running"

JudgeLanes(p) ==
  /\ pc[p] = "judge"
  /\ expected' = [expected EXCEPT ![p] = IF AnyClosed THEN "degraded" ELSE "healthy"]
  /\ Goto(p, "settle")
  /\ UNCHANGED <<rows, cmd, target, copy, todo, final, work, bounds>>

\* The copy is written back with the new state; where the state is the old one,
\* only if the reason differs.
Settle(p) ==
  LET new == [copy[p] EXCEPT !.state = expected[p]]
  IN  /\ pc[p] = "settle"
      /\ \/ system' = new
         \/ copy[p].state = expected[p] /\ UNCHANGED system
      /\ EndPass(p, new)
      /\ UNCHANGED <<lane, elapsed, used, todo, work, bounds>>

\* _sync_global_state rewrites the reason of a degraded system, then status().
Touch(p) ==
  /\ pc[p] = "touch"
  /\ \/ copy[p].state = "degraded" /\ system' = copy[p]
     \/ UNCHANGED system
  /\ Status(p)
  /\ UNCHANGED <<lane, elapsed, used, todo, work, bounds>>

-----------------------------------------------------------------------------
(* The callers.                                                            *)

OperatorCommand(o) ==
  /\ o \in Operators
  /\ commands < MaxCommands
  /\ \/ \E c \in {"on", "off", "freeze", "thaw", "status"} : Call(o, c, "worker")
     \/ \E c \in {"pause", "resume"}, l \in Lanes : Call(o, c, l)
  /\ commands' = commands + 1
  /\ UNCHANGED <<rows, work, crashes>>

\* _worker_lane_blocks: a system that is switched off never blocks.
Poll(s) ==
  /\ s \in Supervisors /\ work[s] = "free"
  /\ MayCall(s)
  /\ Goto(s, IF system.switch THEN "checkLane" ELSE "checkBudget")
  /\ UNCHANGED <<rows, regs, work, bounds>>

CheckLane(s) ==
  /\ pc[s] = "checkLane"
  /\ Goto(s, IF lane["worker"] = "running" THEN "checkBudget" ELSE "idle")
  /\ UNCHANGED <<rows, regs, work, bounds>>

\* Faulty variant of Exhausted: the budget is never refused.
ExhaustedNever == FALSE

Exhausted == used > Limit

\* _objective_budget_exhausted.
CheckBudget(s) ==
  /\ pc[s] = "checkBudget"
  /\ Goto(s, "idle")
  /\ work' = [work EXCEPT ![s] = IF Exhausted THEN "free" ELSE "admitted"]
  /\ UNCHANGED <<rows, regs, bounds>>

\* The no-progress block or the execution gate of the objective refuses the task.
Refuse(s) ==
  /\ work[s] = "admitted" /\ pc[s] = "idle"
  /\ work' = [work EXCEPT ![s] = "free"]
  /\ UNCHANGED <<rows, regs, pc, bounds>>

\* The task_started event.
TaskStarted(s) ==
  /\ work[s] = "admitted"
  /\ Call(s, "started", "worker")
  /\ work' = [work EXCEPT ![s] = "started"]
  /\ UNCHANGED <<rows, bounds>>

\* The run_created event: every call adds a row to control_budgets, since no row
\* has the window of this very moment; an overdrawn budget is escalated.
RunCreated(s) ==
  /\ work[s] = "started"
  /\ used' = used + 1
  /\ IF used + 1 > Limit THEN Call(s, "status", "worker")
     ELSE MayCall(s) /\ UNCHANGED <<pc, regs>>
  /\ work' = [work EXCEPT ![s] = "running"]
  /\ UNCHANGED <<system, lane, elapsed, bounds>>

\* task_finished, failure_diagnostic or backends_unavailable, as classified.
RunEnded(s) ==
  /\ work[s] = "running"
  /\ \E c \in {"heal", "stall", "defect", "unknown", "cooldown", "exhaust", "hang"} :
       Call(s, c, "worker")
  /\ work' = [work EXCEPT ![s] = "free"]
  /\ UNCHANGED <<rows, bounds>>

\* run_once raises, before the run or in it, or the run is to be retried: the
\* observer has nothing to do.
RunDropped(s) ==
  /\ work[s] \in {"started", "running"} /\ pc[s] = "idle"
  /\ work' = [work EXCEPT ![s] = "free"]
  /\ UNCHANGED <<rows, regs, pc, bounds>>

\* _check_budget_recovery.
WatchRecovers(w) ==
  /\ w \in Watches /\ work[w] = "free"
  /\ \/ lane["worker"] = "exhausted" /\ Call(w, "resume", "worker")
     \/ MayCall(w) /\ UNCHANGED <<pc, regs>>
  /\ work' = [work EXCEPT ![w] = "evaluate"]
  /\ UNCHANGED <<rows, bounds>>

\* Some stuck-state rule matches, or none does.
WatchEvaluates(w) ==
  /\ work[w] = "evaluate"
  /\ \E c \in {"degrade", "heal"} : Call(w, c, "worker")
  /\ work' = [work EXCEPT ![w] = "report"]
  /\ UNCHANGED <<rows, bounds>>

WatchReports(w) ==
  /\ work[w] = "report"
  /\ Call(w, "status", "worker")
  /\ work' = [work EXCEPT ![w] = "free"]
  /\ UNCHANGED <<rows, bounds>>

\* cooldown_until passes.
Elapse(l) ==
  /\ lane[l] = "cooldown" /\ l \notin elapsed
  /\ elapsed' = elapsed \cup {l}
  /\ UNCHANGED <<system, lane, used, pc, regs, work, bounds>>

\* The oldest row of the budget leaves the last hour.
Age ==
  /\ used > 0
  /\ used' = used - 1
  /\ UNCHANGED <<system, lane, elapsed, pc, regs, work, bounds>>

\* The process is killed inside a method and started again.
Crash(p) ==
  /\ pc[p] # "idle"
  /\ crashes < MaxCrashes
  /\ crashes' = crashes + 1
  /\ Idle(p)
  /\ todo' = [todo EXCEPT ![p] = {}]
  /\ work' = [work EXCEPT ![p] = "free"]
  /\ UNCHANGED <<rows, commands>>

-----------------------------------------------------------------------------

\* The next step of a method a process is in.
MethodStep(p) ==
  \/ ReadSystem(p) \/ RereadSwitch(p) \/ WriteSystem(p) \/ WriteNextLane(p)
  \/ WriteLane(p)
  \/ ListLanes(p) \/ ReadSwitch(p) \/ Reopen(p) \/ Reconcile(p) \/ JudgeLanes(p)
  \/ Settle(p) \/ Touch(p)
  \/ CheckLane(p) \/ CheckBudget(p)

WatchStep(w) == WatchRecovers(w) \/ WatchEvaluates(w) \/ WatchReports(w)

Next ==
  \/ \E p \in Processes : MethodStep(p) \/ Crash(p)
  \/ \E o \in Operators : OperatorCommand(o)
  \/ \E s \in Supervisors :
       \/ Poll(s) \/ Refuse(s) \/ TaskStarted(s) \/ RunCreated(s)
       \/ RunEnded(s) \/ RunDropped(s)
  \/ \E w \in Watches : WatchStep(w)
  \/ \E l \in Lanes : Elapse(l)
  \/ Age

Spec == Init /\ [][Next]_vars

\* Methods run to their end, the watch loop goes on when they have, and time passes.
Fairness ==
  /\ \A p \in Processes : WF_vars(MethodStep(p))
  /\ \A w \in Watches : WF_vars(WatchStep(w))
  /\ \A l \in Lanes : WF_vars(Elapse(l))

FairSpec == Spec /\ Fairness

-----------------------------------------------------------------------------
(* Properties.                                                             *)

\* The types of the variables.
TypeOK ==
  /\ system \in System
  /\ lane \in [Lanes -> LaneState]
  /\ elapsed \subseteq Lanes
  /\ used \in Nat
  /\ pc \in [Processes -> PC]
  /\ cmd \in [Processes -> Command]
  /\ target \in [Processes -> Lanes]
  /\ copy \in [Processes -> System]
  /\ expected \in [Processes -> GlobalState]
  /\ todo \in [Processes -> SUBSET Lanes]
  /\ final \in [Processes -> BOOLEAN]
  /\ work \in [Processes -> Work]
  /\ commands \in 0..MaxCommands
  /\ crashes \in 0..MaxCrashes

Agrees(s) ==
  /\ s.state = "off" => ~ s.switch
  /\ s.state \in {"starting", "healthy"} => s.switch

\* However the methods of several processes interleave, the global state never
\* contradicts the master switch: no system reported off is switched on, none
\* reported starting or healthy is switched off.
StateAgreesWithSwitch == Agrees(system)

\* The hourly budget of an objective is overdrawn by at most one run per
\* supervisor, though it is checked long before the run is recorded.
BudgetBound == used <= Limit + Cardinality(Supervisors)

\* No lane stays in cooldown for ever: however supervisors and operators put it
\* there again, some status() reopens it once the time has passed.
CooldownEnds == \A l \in Lanes : lane[l] = "cooldown" ~> lane[l] # "cooldown"

\* The processes about to write the system row over with what they read of it
\* before it was frozen.
Outdated ==
  {p \in Processes : /\ pc[p] \in {"write", "judge", "settle", "touch"}
                     /\ copy[p].state # "frozen"}

Lifts(p) == p \in Operators /\ pc[p] = "write" /\ cmd[p] \in {"on", "off", "thaw"}

\* Nothing locks the row between the read and the write of a method, so a freeze
\* may be lost to a method that was under way when it was written.  It is lost to
\* no other: while it lasts nobody reads a row to write it back unfrozen, and once
\* those methods are done it ends only by a command that is meant to end it.
FreezeHolds ==
  [][system.state = "frozen" =>
       /\ Outdated' \subseteq Outdated
       /\ system'.state # "frozen" => \E p \in Processes : Lifts(p) \/ p \in Outdated]_vars

MisreportsHealth == system.state = "healthy" /\ \E l \in Lanes : lane[l] # "running"

MisreportsSwitch == ~ system.switch /\ system.state \notin {"off", "frozen"}

\* The row may be wrong about lanes that another process is changing, but it does not
\* stay wrong: the status() of some later pass of the watch judges them again.
ReportSettles ==
  /\ MisreportsHealth ~> ~ MisreportsHealth
  /\ MisreportsSwitch ~> ~ MisreportsSwitch
=============================================================================
