----------------------------- MODULE Supervisor -----------------------------
(***************************************************************************)
(* The supervisor's loop (services/supervisor_service.py) with what it     *)
(* drives: the heartbeats (services/cognition_service.py), the decision    *)
(* queue, the task queue behind the availability gate (services/           *)
(* queue_service.py, llm_availability.py) and the upkeep when idle.        *)
(* nudge-project runs the same loop, once and deaf to stop requests.       *)
(*                                                                         *)
(* Time passes where the loop waits: in a heartbeat, a task or a sleep.    *)
(* Then heartbeats fall due, and the gate's cache and backoff run out.     *)
(***************************************************************************)
EXTENDS Sidecar

CONSTANTS
  Escalation,   \* heartbeat_failure_escalation_threshold
  DrainBound,   \* the items drained in a cycle
  Every         \* processed tasks between two recoveries

ASSUME SupervisorAssumption == {Escalation, DrainBound, Every} \subseteq Nat \ {0}

around == <<file, plane, llm, nudge, stack, sidecar>>

\* A step of the loop of p: new values for some of its fields.
Loop(p, new) == sv' = [sv EXCEPT ![p] = new]
Go(p, pc) == Loop(p, [sv[p] EXCEPT !.pc = pc])

\* stop_requested, which nudge-project does not pass.
StopRequested(p) == p \in Sups /\ (sv[p].signals > 0 \/ file.stop)

\* _due_heartbeat_projects.  Faulty variant: a heartbeat is due whenever one is configured.
AlwaysDue(p) == Projects \ sv[p].disabled
DueHeartbeats(p) == sv[p].due \ sv[p].disabled

LoopHead(p) ==
  /\ sv[p].pc = "head"
  /\ IF StopRequested(p) THEN Go(p, "exit")
     ELSE IF DueHeartbeats(p) # {} THEN Loop(p, [sv[p] EXCEPT !.pc = "heartbeat", !.beats = DueHeartbeats(p)])
     ELSE Go(p, "drain")
  /\ IF ~StopRequested(p) /\ DueHeartbeats(p) = {} /\ sv[p].done = Every
     THEN RecoverStaleState ELSE UNCHANGED <<task, run>>
  /\ UNCHANGED <<scene, issue, reported, clerk, item, validator, drain, brancher, around>>

-----------------------------------------------------------------------------
(* Heartbeats. *)

\* A heartbeat that raises is counted, and the project is disabled at the threshold.
HeartbeatFails(p, q) ==
  Loop(p, [sv[p] EXCEPT !.beats = @ \ {q}, !.due = @ \ {q}, !.fails[q] = @ + 1,
             !.disabled = IF sv[p].fails[q] + 1 >= Escalation THEN @ \cup {q} ELSE @])

\* The answer of a backend; its proposals are held against the tasks as they are now.
Heartbeat(p) ==
  /\ sv[p].pc = "heartbeat" /\ sv[p].todo = {} /\ sv[p].beats # {}
  /\ LET q == CHOOSE x \in sv[p].beats : TRUE IN
       \/ HeartbeatFails(p, q)
       \/ /\ llm = "up"
          /\ \E answer \in SUBSET scene.proposals :
               Loop(p, [sv[p] EXCEPT !.beats = @ \ {q}, !.due = @ \ {q}, !.fails[q] = 0,
                                     !.todo = MaterializeProposedTasks(answer)])
  /\ UNCHANGED <<scene, intake, decisions, around>>

\* A proposal becomes a task.  A full table ends the model, not the code.
Materialize(p) ==
  /\ sv[p].pc = "heartbeat" /\ sv[p].todo # {}
  /\ \E title \in sv[p].todo :
       /\ IF Room THEN CreateTask(CreateTaskWithPolicy(title, "none", FALSE, FALSE, "none"))
                  ELSE UNCHANGED task
       /\ Loop(p, [sv[p] EXCEPT !.todo = @ \ {title}])
  /\ UNCHANGED <<scene, issue, reported, clerk, decisions, around>>

HeartbeatsDone(p) ==
  /\ sv[p].pc = "heartbeat" /\ sv[p].todo = {} /\ sv[p].beats = {} /\ Go(p, "head")
  /\ UNCHANGED <<scene, intake, decisions, around>>

-----------------------------------------------------------------------------
(* The queues. *)

DrainQueue(p) ==
  /\ sv[p].pc = "drain" /\ drain[p].count < DrainBound /\ ProcessOne(p)
  /\ UNCHANGED <<sv, around>>

Drained(p) ==
  /\ sv[p].pc = "drain" /\ drain[p].pc = "select"
  /\ Pending = {} \/ drain[p].count >= DrainBound
  /\ drain' = [drain EXCEPT ![p] = NoDrain]
  /\ Go(p, "next")
  /\ UNCHANGED <<scene, intake, run, item, validator, brancher, around>>

\* LLMAvailabilityGate.is_available: the gate as the question leaves it.
Probe(g) ==
  IF g.backoff \/ (g.val # "none" /\ g.fresh) THEN g
  ELSE [val |-> llm, fresh |-> TRUE, backoff |-> llm = "down"]
IsAvailable(g) == ~g.backoff /\ g.val = "up"

\* acquire_task_lease picks among these.
Eligible(p) == {t \in With("pending") : task[t].lease = 0 /\ t \notin sv[p].tried}

ProcessNextTask(p) ==
  LET g == Probe(sv[p].gate) IN
  /\ sv[p].pc = "next"
  /\ \/ /\ ~IsAvailable(g) /\ UNCHANGED task
        /\ Loop(p, [sv[p] EXCEPT !.gate = g, !.pc = "gate"])
     \/ /\ IsAvailable(g) /\ Eligible(p) = {} /\ UNCHANGED task
        /\ Loop(p, [sv[p] EXCEPT !.gate = g, !.pc = "idle"])
     \/ \E t \in Eligible(p) :
          /\ IsAvailable(g)
          /\ task' = [task EXCEPT ![t].lease = p, ![t].status = "active"]
          /\ Loop(p, [sv[p] EXCEPT !.gate = g, !.pc = "task", !.cur = t])
  /\ UNCHANGED <<scene, issue, reported, clerk, decisions, around>>

\* Faulty variant: the loop waits for the gate to open.
GateHolds(p) ==
  /\ sv[p].pc = "gate" /\ llm = "up" /\ Go(p, "head")
  /\ UNCHANGED <<scene, intake, decisions, around>>

\* The gate is closed: the loop sleeps for the backoff and begins anew.
GateBlocked(p) ==
  /\ sv[p].pc = "gate" /\ Go(p, "head")
  /\ UNCHANGED <<scene, intake, decisions, around>>

\* The run's outcome; the task is not tried again before the others had their turn.
Processed(p, t) ==
  [sv[p] EXCEPT !.pc = "head", !.cur = 0, !.tried = @ \cup {t}, !.done = (@ % Every) + 1]

RunTask(p) ==
  LET t == sv[p].cur IN
  /\ sv[p].pc = "task"
  /\ \E status \in {"completed", "failed", "pending"} :
       task' = [task EXCEPT ![t].lease = IF @ = p THEN 0 ELSE @,
                  ![t].status = IF MayTransition(@, status) THEN status ELSE @]
  /\ Loop(p, Processed(p, t))
  /\ UNCHANGED <<scene, issue, reported, clerk, decisions, around>>

-----------------------------------------------------------------------------
(* Upkeep. *)

QueueDepth == Cardinality(With("pending") \cup With("active"))

\* Nothing was left to try: what was tried gets another turn, as long as there is anything.
RetryCycle(p) ==
  /\ sv[p].pc = "idle" /\ sv[p].watch /\ sv[p].tried # {} /\ QueueDepth > 0
  /\ Loop(p, [sv[p] EXCEPT !.pc = "head", !.tried = {}])
  /\ UNCHANGED <<scene, intake, decisions, around>>

\* _resume_objective_backlog changed what can be run.
ResumeObjectiveBacklog(p) == Spend("upkeep") /\ Go(p, "head")

\* A review was due, or a backlog was resumed, or neither.
Maintain(p) ==
  /\ sv[p].pc = "idle" /\ ~(sv[p].watch /\ sv[p].tried # {} /\ QueueDepth > 0)
  /\ ResumeObjectiveBacklog(p) \/ (UNCHANGED scene /\ Go(p, "upkeep"))
  /\ UNCHANGED <<intake, decisions, around>>

IdleCycle(p) ==
  /\ sv[p].pc = "upkeep"
  /\ RecoverStaleState
  /\ Go(p, IF Unleased THEN "head" ELSE IF ~sv[p].watch \/ StopRequested(p) THEN "exit" ELSE "sleep")
  /\ UNCHANGED <<scene, issue, reported, clerk, item, validator, drain, brancher, around>>

\* A supervisor with max_idle_cycles leaves instead of going to sleep.
GiveUp(p) ==
  /\ sv[p].pc = "sleep" /\ Spend("giveups") /\ Go(p, "exit")
  /\ UNCHANGED <<intake, decisions, around>>

Wake(p) ==
  /\ sv[p].pc = "sleep" /\ Go(p, "head")
  /\ UNCHANGED <<scene, intake, decisions, around>>

-----------------------------------------------------------------------------
(* Time and the backends. *)

\* A heartbeat falls due, also while others of the round are still to run.
HeartbeatDue(p, q) ==
  /\ sv[p].pc \in {"task", "gate", "sleep"} \/ sv[p].beats # {}
  /\ p \in Sups /\ q \in scene.beats \ sv[p].due
  /\ Loop(p, [sv[p] EXCEPT !.due = @ \cup {q}])
  /\ UNCHANGED <<scene, intake, decisions, around>>

\* The gate's cache and its backoff run out, one before the other as they were set.
GateAges(p) ==
  /\ On("clock") /\ sv[p].pc \in {"heartbeat", "task", "gate", "sleep"}
  /\ \/ sv[p].gate.fresh /\ Loop(p, [sv[p] EXCEPT !.gate.fresh = FALSE])
     \/ sv[p].gate.backoff /\ Loop(p, [sv[p] EXCEPT !.gate.backoff = FALSE])
  /\ UNCHANGED <<scene, intake, decisions, around>>

BackendsFail ==
  /\ llm = "up" /\ Spend("outages") /\ llm' = "down"
  /\ UNCHANGED <<intake, decisions, file, plane, sv, nudge, stack, sidecar>>

BackendsRecover ==
  /\ llm = "down" /\ llm' = "up"
  /\ UNCHANGED <<scene, intake, decisions, file, plane, sv, nudge, stack, sidecar>>

LoopStep(p) ==
  \/ LoopHead(p) \/ Heartbeat(p) \/ Materialize(p) \/ HeartbeatsDone(p) \/ DrainQueue(p) \/ Drained(p)
  \/ ProcessNextTask(p) \/ GateBlocked(p) \/ RunTask(p) \/ RetryCycle(p) \/ Maintain(p)
  \/ IdleCycle(p) \/ Wake(p)

BootAndExit(p) ==
  Preflight(p) \/ TurnOn(p) \/ WriteRecord(p) \/ ExitPlane(p) \/ ExitRecord(p)
=============================================================================
