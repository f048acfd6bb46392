---------------------- MODULE TaskExecutionQueueProofs ----------------------
(***************************************************************************)
(* What a lease is worth.  Whoever else is at a task, a process whose      *)
(* lease has not expired keeps the row of its run and its workspace, and   *)
(* no project has more such processes than its cap.  As long as every      *)
(* process at work has such a lease (LeaseHeld), tasks keep their status   *)
(* besides, so that their rows keep their meaning and the engine           *)
(* implements TaskBoard.  LeaseHeld is no theorem: nothing in the code     *)
(* extends a lease, and direct callers take none.  It holds in every       *)
(* execution where the queue is used alone and no run outlives its lease   *)
(* (QueueOnly), and an execution departs from the board only after it      *)
(* failed.                                                                 *)
(***************************************************************************)
EXTENDS TaskExecutionProofs, TaskExecutionRefinement, FiniteSetTheorems

-----------------------------------------------------------------------------
(* Executions in which every process at work has its lease.                *)

\* Callers without leases hold none.
NoDirectLease == \A t \in Tasks : leaseholder[t] \notin Direct

\* Only acquire_task_lease writes a row, for a worker of the queue.
LEMMA NoDirectLeaseStep ==
  ASSUME TypeInv, NoDirectLease, [Next]_vars
  PROVE  NoDirectLease'
<1>1. None \notin Direct
  BY ConstantsAssumption
<1>2. ASSUME NEW w \in Workers, Acquire(w)
      PROVE  NoDirectLease'
  BY <1>1, <1>2 DEF Acquire, Purged, NoDirectLease
<1>3. CASE leaseholder' = Purged
  BY <1>1, <1>3 DEF Purged, NoDirectLease
<1>4. ASSUME NEW w \in Workers, DropLease(w)
      PROVE  NoDirectLease'
  BY <1>1, <1>4 DEF DropLease, NoDirectLease
<1>5. CASE UNCHANGED leaseholder
  BY <1>5 DEF NoDirectLease
<1>6. ASSUME NEW w \in Workers, Step(w) \/ BackendsUnavailable(w) \/ Raise(w)
      PROVE  NoDirectLease'
  BY <1>4, <1>5, <1>6, StepLeases DEF NoLeaseStep, Release
<1>7. ASSUME NEW w \in Workers,
             \/ AcquireNothing(w) \/ Refuse(w) \/ Crash(w) \/ Restart(w)
             \/ \E t \in Tasks : RunDirectly(w, t)
      PROVE  NoDirectLease'
  BY <1>3, <1>4, <1>5, <1>7 DEF AcquireNothing, Refuse, Crash, Restart, RecoverStaleState,
     RunDirectly, store
<1>8. CASE \/ \E t \in Tasks : Expire(t) \/ ExpireEarly(t) \/ Requeue(t)
           \/ ListTaskLeases \/ Recover \/ UNCHANGED vars
  BY <1>3, <1>5, <1>8 DEF Expire, ExpireEarly, Requeue, ListTaskLeases, Recover,
     RecoverStaleState, vars
<1> QED BY <1>2, <1>6, <1>7, <1>8 DEF Next

\* A step between two states in which every process at work has its lease.
Covered == NoDirectLease /\ LeaseHeld /\ LeaseHeld'

\* No direct run begins in such a step and no lease expires under its holder.
LEMMA CoveredSteps ==
  ASSUME TypeInv, Covered, NEW t \in Tasks
  PROVE  ~ ExpireEarly(t) /\ \A w \in Workers : ~ RunDirectly(w, t)
<1>1. ASSUME NEW w \in Workers, RunDirectly(w, t)
      PROVE  FALSE
  <2>1. w \in Direct /\ job'[w] = t /\ pc'[w] = "sweep" /\ UNCHANGED leaseholder
    BY <1>1 DEF RunDirectly, Goto, store, TypeInv, TypeOK
  <2>2. leaseholder'[t] = w
    BY <2>1 DEF Covered, LeaseHeld, Busy
  <2> QED BY <2>1, <2>2 DEF Covered, NoDirectLease
<1>2. ASSUME ExpireEarly(t)
      PROVE  FALSE
  <2>1. PICK w \in Workers : Busy(w) /\ job[w] = t
    BY <1>2 DEF ExpireEarly, HeldLive
  <2> QED BY <1>2, <2>1 DEF ExpireEarly, Covered, LeaseHeld, Busy, locals
<1> QED BY <1>1, <1>2

\* Where the queue is used alone every execution is of this kind.
LEMMA AlwaysHeld == QueueOnly => (Spec => []LeaseHeld)
<1> SUFFICES ASSUME QueueOnly PROVE Spec => []LeaseHeld
  OBVIOUS
<1>1. Init => LeaseHeld
  BY DEF Init, LeaseHeld, Busy
<1> QED BY <1>1, LeaseHeldStep, InitType, TypeStep, PTL DEF Spec

-----------------------------------------------------------------------------
(* What the rest of the system may do to a task that a process holds.      *)

\* The registers of w stay, and its task is as w left it, but that an
\* operator may requeue it once it has failed.
Elsewhere(w) ==
  /\ pc'[w] = pc[w] /\ job'[w] = job[w] /\ cur'[w] = cur[w]
  /\ attempt'[w] = attempt[w] /\ analysis'[w] = analysis[w] /\ want'[w] = want[w]
  /\ Busy(w) =>
       /\ \/ status'[job[w]] = status[job[w]]
          \/ status[job[w]] = "failed" /\ status'[job[w]] = "pending"
       /\ Len(runs'[job[w]]) = Len(runs[job[w]])
       /\ \A i \in 1..Len(runs[job[w]]) : runs'[job[w]][i] = runs[job[w]][i]

\* A process uses the attempt number of no other process.
LEMMA AttemptKept ==
  ASSUME TypeInv, [Next]_vars, NEW w \in Workers, ~ ByWorker(w)
  PROVE  attempt'[w] = attempt[w]
<1>1. ASSUME NEW v \in Workers \ {w}, Step(v)
      PROVE  attempt'[w] = attempt[w]
  BY <1>1 DEF Step, Dispatch, Release, Sweep, Begin, CannotBegin, Start, NextAttempt, CreateRun,
     StartWorking, StartValidating, StartAnalyzing, StartDeciding, RecordDecision, CloseRun,
     Apply, ApplyRead, ApplyWrite, Return, Rescue, RescueRead, RescueWrite, Forget, TypeInv, TypeOK
<1>2. ASSUME NEW v \in Workers \ {w}, ByWorker(v), ~ Step(v)
      PROVE  attempt'[w] = attempt[w]
  BY <1>2 DEF ByWorker, Acquire, AcquireNothing, Refuse, BackendsUnavailable, Raise, Crash,
     Restart, RunDirectly, Forget, TypeInv, TypeOK
<1>3. (\E v \in Workers : ByWorker(v)) \/ UNCHANGED attempt
  BY DEF Next, ByWorker, Expire, ExpireEarly, Requeue, ListTaskLeases, Recover, locals, vars
<1> QED BY <1>1, <1>2, <1>3

\* A process with a lease covers its task against recovery.
LEMMA HolderCovers ==
  ASSUME TypeInv, LeaseHeld, NEW w \in Workers, Busy(w)
  PROVE  job[w] \in Tasks /\ Purged[job[w]] = w /\ ~ Stale(job[w])
<1>1. job[w] \in Tasks
  BY DEF TypeInv, Registers, RegistersOf
<1>2. Purged[job[w]] = w
  BY <1>1, PurgedSpares DEF LeaseHeld
<1> QED BY <1>1, <1>2, NoneNoWorker DEF Stale

\* No other process rewrites or adds a row of the task, and recovery spares it.
LEMMA RowsLeft ==
  ASSUME TypeInv, LeaseHeld, [Next]_vars, NEW w \in Workers, Busy(w), ~ ByWorker(w)
  PROVE  /\ Len(runs'[job[w]]) = Len(runs[job[w]])
         /\ \A i \in 1..Len(runs[job[w]]) : runs'[job[w]][i] = runs[job[w]][i]
<1>1. job[w] \in Tasks /\ ~ Stale(job[w])
  BY HolderCovers
<1>2. ASSUME NEW v \in Workers, RowStep(v) \/ CreateRun(v)
      PROVE  v # w /\ Busy(v) /\ job[v] # job[w]
  <2>1. v # w
    BY <1>2 DEF RowStep, ByWorker, Step
  <2>2. Busy(v)
    BY <1>2 DEF RowStep, StartWorking, StartValidating, BackendsUnavailable, StartAnalyzing,
       StartDeciding, RecordDecision, CloseRun, CreateRun, Busy
  <2> QED BY <2>1, <2>2, HeldAlone DEF OneWorkerPerTask
<1>3. ASSUME NEW v \in Workers, RowStep(v)
      PROVE  runs'[job[w]] = runs[job[w]]
  BY <1>1, <1>2, <1>3, RowStepRow DEF NewRow, SetRun, TypeInv, TypeOK
<1>4. ASSUME NEW v \in Workers, CreateRun(v)
      PROVE  runs'[job[w]] = runs[job[w]]
  BY <1>1, <1>2, <1>4, CreateRunRows
<1>5. CASE RecoverStaleState
  <2>1. Len(runs'[job[w]]) = Len(runs[job[w]])
    BY <1>1, <1>5, RecoverRows
  <2>2. ASSUME NEW i \in 1..Len(runs[job[w]])
        PROVE  runs'[job[w]][i] = runs[job[w]][i]
    BY <1>1, <1>5, <2>2 DEF RecoverStaleState
  <2> QED BY <2>1, <2>2
<1> QED BY <1>3, <1>4, <1>5, RunsSteps

\* No other process writes the status of the task, and recovery does not reset it.
LEMMA StatusLeft ==
  ASSUME TypeInv, LeaseHeld, [Next]_vars, NEW w \in Workers, Busy(w), ~ ByWorker(w)
  PROVE  \/ status'[job[w]] = status[job[w]]
         \/ status[job[w]] = "failed" /\ status'[job[w]] = "pending"
<1>1. job[w] \in Tasks /\ ~ Stale(job[w])
  BY HolderCovers
<1>2. ASSUME NEW v \in Workers, Writes(v)
      PROVE  status'[job[w]] = status[job[w]]
  <2>1. v # w /\ Busy(v)
    BY <1>2 DEF Writes, Start, ApplyWrite, RescueWrite, Busy, ByWorker, Step
  <2>2. job[v] # job[w]
    BY <2>1, HeldAlone DEF OneWorkerPerTask
  <2> QED BY <1>1, <1>2, <2>2 DEF Writes, Start, ApplyWrite, RescueWrite, TypeInv, TypeOK
<1>3. ASSUME NEW v \in Workers, Step(v)
      PROVE  Writes(v) \/ UNCHANGED status
  BY <1>3 DEF Step, Dispatch, Release, Sweep, Begin, CannotBegin, NextAttempt, CreateRun,
     StartWorking, StartValidating, StartAnalyzing, StartDeciding, RecordDecision, CloseRun,
     Apply, ApplyRead, Return, Rescue, RescueRead, Writes, store
<1>4. ASSUME NEW v \in Workers,
             \/ Acquire(v) \/ AcquireNothing(v) \/ Refuse(v) \/ BackendsUnavailable(v)
             \/ Raise(v) \/ Crash(v) \/ \E t \in Tasks : RunDirectly(v, t)
      PROVE  UNCHANGED status
  BY <1>4 DEF Acquire, AcquireNothing, Refuse, BackendsUnavailable, Raise, Crash, RunDirectly,
     store
<1>5. CASE Recover \/ \E v \in Workers : Restart(v)
  BY <1>1, <1>5 DEF Recover, Restart, RecoverStaleState, Stranded
<1>6. CASE \E t \in Tasks : Expire(t) \/ ExpireEarly(t) \/ Requeue(t)
  BY <1>1, <1>6 DEF Expire, ExpireEarly, Requeue, TypeInv, TypeOK
<1>7. CASE ListTaskLeases \/ UNCHANGED vars
  BY <1>7 DEF ListTaskLeases, vars
<1> QED BY <1>2, <1>3, <1>4, <1>5, <1>6, <1>7 DEF Next

\* A step is one of w, or leaves w and its task to themselves.
LEMMA HeldTask ==
  ASSUME TypeInv, LeaseHeld, [Next]_vars, NEW w \in Workers
  PROVE  ByWorker(w) \/ Elsewhere(w)
<1> SUFFICES ASSUME ~ ByWorker(w) PROVE Elsewhere(w)
  OBVIOUS
<1>1. CASE UNCHANGED <<pc, job, cur, analysis, want>>
  BY <1>1, AttemptKept, RowsLeft, StatusLeft DEF Elsewhere
<1>2. ASSUME NEW v \in Workers \ {w}, ByWorker(v)
      PROVE  Elsewhere(w)
  BY <1>2, MovesOne, AttemptKept, RowsLeft, StatusLeft DEF OnlyMoves, Elsewhere
<1> QED BY <1>1, <1>2, WorkerSteps

-----------------------------------------------------------------------------
(* The status of a task and the row of a run while a process drives them.  *)

\* A task is pending until its holder starts it, active until the holder gives
\* it its next status.
StandingOf(w) ==
  /\ pc[w] \in {"leased", "sweep", "begin", "start"} => status[job[w]] = "pending"
  /\ pc[w] \in (Running \ {"settled"}) \cup {"rescueRead", "rescueWrite"} =>
       status[job[w]] = "active"

Standing == \A w \in Workers : StandingOf(w)

\* A worker's own step leaves its task at the status that its next step relies on.
LEMMA OwnStanding ==
  ASSUME TypeInv, Covered, Standing, NEW w \in Workers, ByWorker(w)
  PROVE  StandingOf(w)'
<1> USE DEF Goto, StandingOf, Running, TypeInv, TypeOK, store
<1>0. StandingOf(w) /\ (Busy(w) => job[w] \in Tasks)
  BY DEF Standing, Registers, RegistersOf
<1>1. CASE Dispatch(w) \/ Release(w) \/ Sweep(w) \/ Begin(w) \/ CannotBegin(w) \/ NextAttempt(w)
           \/ CreateRun(w)
  BY <1>0, <1>1 DEF Dispatch, Release, Sweep, Begin, CannotBegin, NextAttempt, CreateRun
<1>2. CASE StartWorking(w) \/ StartValidating(w) \/ StartAnalyzing(w) \/ StartDeciding(w)
  BY <1>0, <1>2 DEF StartWorking, StartValidating, StartAnalyzing, StartDeciding
<1>3. CASE RecordDecision(w) \/ CloseRun(w) \/ BackendsUnavailable(w) \/ Raise(w)
  BY <1>0, <1>3 DEF RecordDecision, CloseRun, BackendsUnavailable, Raise
<1>4. CASE Apply(w) \/ ApplyRead(w) \/ ApplyWrite(w) \/ Return(w)
  BY <1>0, <1>4 DEF Apply, ApplyRead, ApplyWrite, Return
<1>5. CASE Rescue(w) \/ RescueRead(w) \/ RescueWrite(w)
  BY <1>0, <1>5 DEF Rescue, RescueRead, RescueWrite
<1>6. CASE AcquireNothing(w) \/ Refuse(w) \/ Crash(w) \/ Restart(w)
  BY <1>6 DEF AcquireNothing, Refuse, Crash, Restart
<1>7. CASE Start(w)
  BY <1>0, <1>7 DEF Start, Busy
<1>8. CASE Acquire(w)
  BY <1>8 DEF Acquire, Eligible
<1> QED BY <1>1, <1>2, <1>3, <1>4, <1>5, <1>6, <1>7, <1>8, CoveredSteps DEF ByWorker, Step

\* So do the steps of the others and of recovery.
LEMMA StandingStep ==
  ASSUME TypeInv, Covered, Standing, [Next]_vars
  PROVE  Standing'
<1> SUFFICES ASSUME NEW w \in Workers PROVE StandingOf(w)'
  BY DEF Standing
<1>1. CASE Elsewhere(w)
  BY <1>1 DEF Elsewhere, StandingOf, Standing, Busy, Running
<1> QED BY <1>1, HeldTask, OwnStanding DEF Covered

\* The row of the run w drives has the status of what w is doing.
TrueRow(w) ==
  /\ pc[w] \in InProgress => Run(w).status = pc[w]
  /\ pc[w] = "closing" => Run(w).status = "deciding"

\* The row after a change of its status.
LEMMA MarkedRun ==
  ASSUME TypeInv, NEW w \in Workers, pc[w] \in Driving, UNCHANGED <<job, cur>>,
         NEW s \in RunStatus, MarkRun(w, s)
  PROVE  /\ Run(w)'.status = s
         /\ Run(w)'.decision = Run(w).decision
         /\ Run(w)'.attempt = Run(w).attempt
<1>1. Run(w)' = [Run(w) EXCEPT !.status = s] /\ Run(w) \in RunRecord
  BY MarkRunRows, RunType
<1> QED BY <1>1 DEF RunRecord

\* A worker's own step leaves its row at the stage it is at.
LEMMA OwnTrueRow ==
  ASSUME TypeInv, NEW w \in Workers, TrueRow(w), ByWorker(w)
  PROVE  TrueRow(w)'
<1> USE DEF Goto
<1>1. CASE pc'[w] \notin Driving
  BY <1>1 DEF TrueRow, Driving, InProgress
<1>2. CASE CreateRun(w)
  <2>1. Run(w)' = [attempt |-> attempt[w], status |-> "planning", decision |-> None]
    BY <1>2, CreateRunRows DEF CreateRun, Run, TypeInv, TypeOK
  <2>2. pc'[w] = "planning"
    BY <1>2 DEF CreateRun, TypeInv, TypeOK
  <2> QED BY <2>1, <2>2 DEF TrueRow
<1>3. ASSUME NEW s \in InProgress, MarkRun(w, s), UNCHANGED <<job, cur>>, pc[w] \in Driving,
             pc'[w] = s
      PROVE  TrueRow(w)'
  <2>1. Run(w)'.status = s
    BY <1>3, MarkedRun DEF RunStatus
  <2> QED BY <1>3, <2>1 DEF TrueRow, InProgress
<1>4. CASE StartWorking(w) \/ StartValidating(w) \/ StartAnalyzing(w) \/ StartDeciding(w)
  BY <1>3, <1>4 DEF StartWorking, StartValidating, StartAnalyzing, StartDeciding, Driving,
     InProgress, TypeInv, TypeOK
<1>5. CASE BackendsUnavailable(w) \/ CloseRun(w)
  BY <1>1, <1>5 DEF BackendsUnavailable, CloseRun, Driving, TypeInv, TypeOK
<1>6. CASE RecordDecision(w)
  <2> DEFINE action == Decide(analysis[w], Run(w).attempt, MaxAttempts[job[w]],
                              MaxBranches[job[w]])
             r == [Run(w) EXCEPT !.decision = action]
  <2>1. /\ pc[w] = "deciding" /\ pc[w] \in Driving /\ pc'[w] = "closing"
        /\ SetRun(w, r) /\ UNCHANGED <<job, cur>>
    BY <1>6 DEF RecordDecision, Driving, TypeInv, TypeOK
  <2>2. action \in DecisionAction
    BY DecideType
  <2> HIDE DEF action
  <2>3. r \in RunRecord /\ r.status = Run(w).status
    BY <2>1, <2>2, RunType DEF RunRecord
  <2> HIDE DEF r
  <2>4. Run(w)' = r
    BY <2>1, <2>3, SetRunRows, RunType DEF Run
  <2> QED BY <2>1, <2>3, <2>4 DEF TrueRow, InProgress
<1> QED BY <1>1, <1>2, <1>4, <1>5, <1>6, ToDriving DEF RowStep

-----------------------------------------------------------------------------
(* Workspaces, and the rows of runs under a lease.                         *)

\* Only the sweep removes a workspace, by the status it finds in the row.
LEMMA WorkspaceKept ==
  ASSUME [Next]_vars, NEW d \in workspaces, ~ Disposable(runs[d[1]][d[2]].status)
  PROVE  d \in workspaces'
<1>1. ASSUME NEW w \in Workers, Step(w)
      PROVE  d \in workspaces'
  <2>1. CASE Sweep(w) \/ StartWorking(w)
    BY <2>1 DEF Sweep, StartWorking
  <2> QED BY <1>1, <2>1 DEF Step, Dispatch, Release, Begin, CannotBegin, Start, NextAttempt,
          CreateRun, StartValidating, StartAnalyzing, StartDeciding, RecordDecision, CloseRun,
          Apply, ApplyRead, ApplyWrite, Return, Rescue, RescueRead, RescueWrite, store
<1> QED BY <1>1 DEF Next, Acquire, AcquireNothing, Refuse, RunDirectly, BackendsUnavailable,
        Raise, Crash, Restart, Expire, ExpireEarly, Requeue, ListTaskLeases, Recover, store, vars

\* The workspace of the run w drives exists.
AtWork == {"working", "validating", "analyzing", "deciding", "closing"}

HasWorkspace(w) == pc[w] \in AtWork => <<job[w], cur[w]>> \in workspaces

\* prepare_workspace and cleanup: the worker of a live run keeps its workspace.
LEMMA OwnWorkspace ==
  ASSUME TypeInv, NEW w \in Workers, HasWorkspace(w), ByWorker(w)
  PROVE  HasWorkspace(w)'
<1> USE DEF Goto, HasWorkspace, AtWork, TypeInv, TypeOK
<1>1. CASE pc'[w] \notin Driving
  BY <1>1 DEF Driving
<1>2. CASE CreateRun(w)
  BY <1>2 DEF CreateRun
<1>3. CASE StartWorking(w)
  BY <1>3 DEF StartWorking
<1>4. CASE RowStep(w) /\ ~ StartWorking(w)
  BY <1>4 DEF RowStep, StartValidating, BackendsUnavailable, StartAnalyzing, StartDeciding,
     RecordDecision, CloseRun
<1> QED BY <1>1, <1>2, <1>3, <1>4, ToDriving

\* The process is at work and its lease has not expired.
Holding(w) == Busy(w) /\ leaseholder[job[w]] = w /\ job[w] \notin expired

\* A lease that a step leaves unexpired was so before, or has just been acquired.
LEMMA HeldBefore ==
  ASSUME TypeInv, [Next]_vars, NEW w \in Workers, NEW t \in Tasks, ~ Acquire(w),
         leaseholder'[t] = w, t \notin expired'
  PROVE  leaseholder[t] = w /\ t \notin expired
<1>1. w # None
  BY NoneNoWorker
<1>2. ASSUME NEW v \in Workers, Acquire(v)
      PROVE  Purged[t] = w
  BY <1>2 DEF Acquire, Purged
<1>3. CASE leaseholder' = Purged
  BY <1>1, <1>3 DEF Purged
<1>4. ASSUME NEW v \in Workers, DropLease(v)
      PROVE  leaseholder[t] = w /\ t \notin expired
  BY <1>1, <1>4 DEF DropLease
<1>5. CASE UNCHANGED leaseholder /\ expired \subseteq expired'
  BY <1>5
<1>6. ASSUME NEW v \in Workers, Step(v) \/ BackendsUnavailable(v) \/ Raise(v)
      PROVE  leaseholder[t] = w /\ t \notin expired
  BY <1>4, <1>5, <1>6, StepLeases DEF NoLeaseStep, Release
<1>7. ASSUME NEW v \in Workers,
             \/ AcquireNothing(v) \/ Refuse(v) \/ Crash(v) \/ Restart(v)
             \/ \E u \in Tasks : RunDirectly(v, u)
      PROVE  leaseholder[t] = w /\ t \notin expired
  BY <1>3, <1>4, <1>5, <1>7 DEF AcquireNothing, Refuse, Crash, Restart, RecoverStaleState,
     RunDirectly, store
<1>8. CASE \/ \E u \in Tasks : Expire(u) \/ ExpireEarly(u) \/ Requeue(u)
           \/ ListTaskLeases \/ Recover \/ UNCHANGED vars
  BY <1>3, <1>5, <1>8 DEF Expire, ExpireEarly, Requeue, ListTaskLeases, Recover,
     RecoverStaleState, vars
<1> QED BY <1>1, <1>2, <1>6, <1>7, <1>8 DEF Next, Purged

\* A process that drives a run after a step drove or created it before.
LEMMA HoldingBefore ==
  ASSUME TypeInv, [Next]_vars, NEW w \in Workers, Holding(w)', pc'[w] \in Driving
  PROVE  Holding(w) /\ (ByWorker(w) \/ (/\ pc[w] \in Driving /\ pc'[w] = pc[w]
                                        /\ job'[w] = job[w] /\ cur'[w] = cur[w]))
<1>1. CASE ByWorker(w)
  <2>1. Busy(w) /\ UNCHANGED job /\ ~ Acquire(w)
    BY <1>1, ToDriving, RowStepRow DEF CreateRun, NewRow, Driving, Busy, Acquire
  <2>2. job[w] \in Tasks
    BY <2>1 DEF TypeInv, Registers, RegistersOf
  <2> QED BY <1>1, <2>1, <2>2, HeldBefore DEF Holding
<1>2. CASE ~ ByWorker(w)
  <2>1. pc'[w] = pc[w] /\ job'[w] = job[w] /\ cur'[w] = cur[w]
    BY <1>2, WorkerSteps, MovesOne DEF OnlyMoves
  <2>2. Busy(w) /\ job[w] \in Tasks
    BY <2>1 DEF Driving, Busy, TypeInv, Registers, RegistersOf
  <2>3. ~ Acquire(w)
    BY <1>2 DEF ByWorker
  <2> QED BY <2>1, <2>2, <2>3, HeldBefore DEF Holding
<1> QED BY <1>1, <1>2

\* A process with an unexpired lease finds the row of its run as it wrote it, and
\* the workspace of the run in its place.
LeasedRuns == \A w \in Workers : Holding(w) => TrueRow(w) /\ HasWorkspace(w)

\* Recovery spares the row, whoever else works on the task drives a run of its own,
\* and the sweep goes by the row.
LEMMA LeasedRunsStep ==
  ASSUME TypeInv, OwnRuns, LeasedRuns, [Next]_vars
  PROVE  LeasedRuns'
<1> SUFFICES ASSUME NEW w \in Workers, Holding(w)'
             PROVE  TrueRow(w)' /\ HasWorkspace(w)'
  BY DEF LeasedRuns
<1>1. CASE pc'[w] \notin Driving
  BY <1>1 DEF TrueRow, HasWorkspace, Driving, InProgress, AtWork
<1>2. CASE pc'[w] \in Driving
  <2>1. Holding(w) /\ TrueRow(w) /\ HasWorkspace(w)
    BY <1>2, HoldingBefore DEF LeasedRuns
  <2>2. CASE ByWorker(w)
    BY <2>1, <2>2, OwnTrueRow, OwnWorkspace
  <2>3. CASE ~ ByWorker(w)
    <3>1. /\ pc[w] \in Driving /\ pc'[w] = pc[w]
          /\ job'[w] = job[w] /\ cur'[w] = cur[w]
      BY <1>2, <2>3, HoldingBefore
    <3>2. /\ job[w] \in Tasks /\ cur[w] \in 1..Len(runs[job[w]])
          /\ Purged[job[w]] = w
      BY <2>1, <3>1, RunType, PurgedSpares DEF Holding
    <3>3. Run(w)' = Run(w)
      <4>1. CASE RecoverStaleState
        BY <3>1, <3>2, <4>1, NoneNoWorker DEF RecoverStaleState, Stale, Run
      <4> QED BY <3>1, <4>1, OthersRun
    <3>4. TrueRow(w)'
      BY <2>1, <3>1, <3>3 DEF TrueRow
    <3>5. CASE pc[w] \in AtWork
      <4>1. Run(w).status \in InProgress
        BY <2>1, <3>5 DEF TrueRow, AtWork, InProgress
      <4>2. <<job[w], cur[w]>> \in workspaces'
        BY <2>1, <3>5, <4>1, WorkspaceKept DEF HasWorkspace, Run, Disposable
      <4> QED BY <3>1, <3>4, <4>2 DEF HasWorkspace
    <3>6. CASE pc[w] \notin AtWork
      BY <3>1, <3>4, <3>6 DEF HasWorkspace
    <3> QED BY <3>5, <3>6
  <2> QED BY <2>2, <2>3
<1> QED BY <1>1, <1>2

\* Nobody is at work in the beginning.
LEMMA LeasedRunsInit == Init => LeasedRuns
BY DEF Init, LeasedRuns, Holding, Busy

\* In every execution, with direct callers and leases that expire under their
\* holders: as long as a process's own lease has not expired, no sweep takes the
\* workspace it works in.  recover_stale_state fails only the runs of tasks without
\* an unexpired lease, another process at the same task writes the row of a run of
\* its own, and the sweep spares the runs whose row is in progress.
THEOREM WorkspaceOfLiveRun == Spec => []LiveWorkspace
<1>1. Init => LeasedRuns /\ Backed
  BY LeasedRunsInit, BackedInit
<1>2. TypeInv /\ Backed /\ LeasedRuns /\ [Next]_vars => Backed' /\ LeasedRuns'
  BY BackedStep, LeasedRunsStep DEF Backed
<1>3. LeasedRuns => LiveWorkspace
  BY DEF LeasedRuns, Holding, HasWorkspace, AtWork, Busy, LiveWorkspace
<1> QED BY <1>1, <1>2, <1>3, InitType, TypeStep, PTL DEF Spec

\* When the queue is used alone, the row of a run a live process drives says
\* what the process is doing: recover_stale_state fails only the runs of tasks
\* without a lease, and nobody else rewrites the row.
THEOREM RunRows == QueueOnly => (Spec => []RunRowIsTrue)
<1> SUFFICES ASSUME QueueOnly PROVE Spec => []RunRowIsTrue
  OBVIOUS
<1>1. Init => LeasedRuns /\ Backed
  BY LeasedRunsInit, BackedInit
<1>2. TypeInv /\ Backed /\ LeasedRuns /\ [Next]_vars => Backed' /\ LeasedRuns'
  BY BackedStep, LeasedRunsStep DEF Backed
<1>3. LeasedRuns /\ LeaseHeld => RunRowIsTrue
  BY DEF LeasedRuns, LeaseHeld, Holding, Busy, TrueRow, RunRowIsTrue, InProgress
<1> QED BY <1>1, <1>2, <1>3, AlwaysHeld, InitType, TypeStep, PTL DEF Spec

-----------------------------------------------------------------------------
(* Attempt numbers.                                                        *)

\* The rows of a task are numbered in creation order.
NumberedRows == \A t \in Tasks : \A i \in 1..Len(runs[t]) : runs[t][i].attempt = i

\* The attempt number a process has read is still the next one when it creates
\* the run; the run it then drives is the last.
NextNumber(w) == pc[w] = "create" => attempt[w] = Len(runs[job[w]]) + 1

LastRun(w) == pc[w] \in Driving => cur[w] = Len(runs[job[w]])

Numbered == NumberedRows /\ \A w \in Workers : NextNumber(w) /\ LastRun(w)

\* COALESCE(MAX(attempt), 0) + 1 over rows numbered in order.
LEMMA NextAttemptNumber ==
  ASSUME TypeInv, NumberedRows, NEW w \in Workers, NextAttempt(w)
  PROVE  attempt'[w] = Len(runs[job[w]]) + 1 /\ UNCHANGED <<job, runs>>
<1> DEFINE t == job[w]
           n == Len(runs[t])
<1>1. t \in Tasks
  BY DEF NextAttempt, Busy, TypeInv, Registers, RegistersOf
<1>2. n \in Nat
  BY <1>1, LenProperties DEF TypeInv, TypeOK
<1>3. PICK m \in {0} \cup {runs[t][i].attempt : i \in 1..n} :
        LastAttempt(t, m) /\ attempt' = [attempt EXCEPT ![w] = m + 1]
  BY DEF NextAttempt
<1>4. \A i \in 1..n : runs[t][i].attempt = i
  BY <1>1 DEF NumberedRows
<1>5. m \in 0..n
  BY <1>2, <1>3, <1>4
<1>6. \A i \in 1..n : i <= m
  BY <1>3, <1>4 DEF LastAttempt
<1> HIDE DEF n
<1>7. m = n
  BY <1>2, <1>5, <1>6
<1>8. attempt' = [attempt EXCEPT ![w] = n + 1]
  BY <1>3, <1>7
<1>9. attempt'[w] = n + 1
  BY <1>8 DEF TypeInv, TypeOK
<1> QED BY <1>9 DEF n, NextAttempt, store, TypeInv, TypeOK

\* The attempt of a row of run_once is its place among the rows.
LEMMA NumberedRowsStep ==
  ASSUME TypeInv, Numbered, [Next]_vars
  PROVE  NumberedRows'
<1>1. ASSUME NEW w \in Workers, RowStep(w)
      PROVE  NumberedRows'
  <2>1. PICK r : NewRow(w, r)
    BY <1>1, RowStepRow
  <2>2. /\ \A t \in Tasks : Len(runs'[t]) = Len(runs[t])
        /\ \A t \in Tasks : \A i \in 1..Len(runs[t]) :
             runs'[t][i] = IF t = job[w] /\ i = cur[w] THEN r ELSE runs[t][i]
    BY <2>1, SetRunRows DEF NewRow
  <2>3. r.attempt = runs[job[w]][cur[w]].attempt
    BY <2>1 DEF NewRow, Run
  <2> QED BY <2>2, <2>3 DEF NumberedRows, Numbered
<1>2. ASSUME NEW w \in Workers, CreateRun(w), NEW t \in Tasks, NEW i \in 1..Len(runs'[t])
      PROVE  runs'[t][i].attempt = i
  <2>1. /\ attempt[w] = Len(runs[job[w]]) + 1
        /\ Len(runs'[job[w]]) = Len(runs[job[w]]) + 1 /\ Len(runs[job[w]]) \in Nat
        /\ runs'[job[w]][Len(runs[job[w]]) + 1].attempt = attempt[w]
    <3>1. runs'[job[w]][Len(runs[job[w]]) + 1]
            = [attempt |-> attempt[w], status |-> "planning", decision |-> None]
      BY <1>2, CreateRunRows
    <3>2. attempt[w] = Len(runs[job[w]]) + 1
      BY <1>2 DEF CreateRun, Numbered, NextNumber
    <3>3. Len(runs'[job[w]]) = Len(runs[job[w]]) + 1 /\ Len(runs[job[w]]) \in Nat
      BY <1>2, CreateRunRows
    <3> QED BY <3>1, <3>2, <3>3
  <2>2. CASE t # job[w]
    <3>1. runs'[t] = runs[t]
      BY <1>2, <2>2, CreateRunRows
    <3> QED BY <1>2, <3>1 DEF NumberedRows, Numbered
  <2>3. CASE t = job[w] /\ i \in 1..Len(runs[t])
    <3>1. runs'[t][i] = runs[t][i]
      BY <1>2, <2>3, CreateRunRows
    <3> QED BY <2>3, <3>1 DEF NumberedRows, Numbered
  <2>4. CASE t = job[w] /\ i = Len(runs[t]) + 1
    BY <2>1, <2>4
  <2> QED BY <2>1, <2>2, <2>3, <2>4
<1>3. CASE RecoverStaleState
  BY <1>3, RecoverRows DEF NumberedRows, Numbered
<1>4. CASE UNCHANGED runs
  BY <1>4 DEF NumberedRows, Numbered
<1> QED BY <1>1, <1>2, <1>3, <1>4, RunsSteps DEF NumberedRows

\* A process comes to create a run by reading the next attempt number.
LEMMA ToCreate ==
  ASSUME TypeInv, NEW w \in Workers, ByWorker(w), pc'[w] = "create"
  PROVE  NextAttempt(w)
<1> USE DEF Goto, TypeInv, TypeOK
<1>1. ~ (Dispatch(w) \/ Release(w) \/ Sweep(w) \/ Begin(w) \/ CannotBegin(w) \/ Start(w) \/ CreateRun(w))
  BY DEF Dispatch, Release, Sweep, Begin, CannotBegin, Start, CreateRun
<1>2. ~ RowStep(w)
  BY DEF RowStep, StartWorking, StartValidating, StartAnalyzing, StartDeciding, RecordDecision,
     CloseRun, BackendsUnavailable
<1>3. ~ (Apply(w) \/ ApplyRead(w) \/ ApplyWrite(w) \/ Return(w) \/ Raise(w) \/ Rescue(w)
         \/ RescueRead(w) \/ RescueWrite(w))
  BY DEF Apply, ApplyRead, ApplyWrite, Return, Raise, Rescue, RescueRead, RescueWrite
<1>4. ~ (Acquire(w) \/ AcquireNothing(w) \/ Refuse(w) \/ Crash(w) \/ Restart(w)
         \/ \E t \in Tasks : RunDirectly(w, t))
  BY DEF Acquire, AcquireNothing, Refuse, Crash, Restart, RunDirectly
<1> QED BY <1>1, <1>2, <1>3, <1>4 DEF ByWorker, Step, RowStep

\* A number read before create_run is still the next one when the row is written.
LEMMA NumberedStep ==
  ASSUME TypeInv, LeaseHeld, Numbered, [Next]_vars
  PROVE  Numbered'
<1>1. NumberedRows'
  BY NumberedRowsStep
<1>2. ASSUME NEW w \in Workers, Elsewhere(w)
      PROVE  NextNumber(w)' /\ LastRun(w)'
  BY <1>2 DEF Elsewhere, Numbered, NextNumber, LastRun, Busy, Driving
<1>3. ASSUME NEW w \in Workers, ByWorker(w)
      PROVE  NextNumber(w)'
  BY <1>3, ToCreate, NextAttemptNumber DEF Numbered, NextNumber
<1>4. ASSUME NEW w \in Workers, RowStep(w)
      PROVE  LastRun(w)'
  <2>1. PICK r : NewRow(w, r)
    BY <1>4, RowStepRow
  <2>2. Len(runs'[job[w]]) = Len(runs[job[w]])
    BY <2>1, SetRunRows, RunType DEF NewRow
  <2> QED BY <2>1, <2>2 DEF NewRow, LastRun, Numbered
<1>5. ASSUME NEW w \in Workers, CreateRun(w)
      PROVE  LastRun(w)'
  BY <1>5, CreateRunRows DEF CreateRun, LastRun, TypeInv, TypeOK
<1>6. ASSUME NEW w \in Workers, ByWorker(w)
      PROVE  LastRun(w)'
  BY <1>4, <1>5, <1>6, ToDriving DEF LastRun
<1> QED BY <1>1, <1>2, <1>3, <1>6, HeldTask DEF Numbered

\* When the queue is used alone, no two runs of a task carry the same attempt
\* number, though next_attempt and create_run are separate transactions: they
\* are numbered 1, 2, 3 in the order of their creation.
THEOREM DistinctAttempts == QueueOnly => (Spec => []AttemptsDistinct)
<1> SUFFICES ASSUME QueueOnly PROVE Spec => []AttemptsDistinct
  OBVIOUS
<1>1. Init => Numbered /\ LeaseHeld
  BY DEF Init, Numbered, NumberedRows, NextNumber, LastRun, Driving, LeaseHeld, Busy
<1>2. TypeInv /\ LeaseHeld /\ Numbered /\ [Next]_vars => LeaseHeld' /\ Numbered'
  BY LeaseHeldStep, NumberedStep
<1>3. Numbered => AttemptsDistinct
  BY DEF Numbered, NumberedRows, AttemptsDistinct
<1> QED BY <1>1, <1>2, <1>3, InitType, TypeStep, PTL DEF Spec

-----------------------------------------------------------------------------
(* The work of completed runs.                                             *)

\* Run i of task t is completed and its workspace is there.
Complete(t, i) ==
  i \in 1..Len(runs[t]) /\ runs[t][i].status = "completed" /\ <<t, i>> \in workspaces

\* No process rewrites the row of a completed run and no sweep takes its workspace.
LEMMA CompleteKept ==
  ASSUME TypeInv, Backed, [Next]_vars, NEW t \in Tasks, NEW i, Complete(t, i)
  PROVE  Complete(t, i)'
<1>1. <<t, i>> \in workspaces'
  BY WorkspaceKept DEF Complete, Disposable
<1>2. ASSUME NEW w \in Workers, RowStep(w)
      PROVE  i \in 1..Len(runs'[t]) /\ runs'[t][i].status = "completed"
  <2>1. PICK r : NewRow(w, r)
    BY <1>2, RowStepRow
  <2>2. /\ Len(runs'[t]) = Len(runs[t])
        /\ \A j \in 1..Len(runs[t]) :
             runs'[t][j] = IF t = job[w] /\ j = cur[w] THEN r ELSE runs[t][j]
    BY <2>1, SetRunRows DEF NewRow
  <2>3. Run(w).status # "completed"
    BY <2>1 DEF NewRow, Backed, DrivenRun, InProgress
  <2> QED BY <2>2, <2>3 DEF Complete, Run
<1>3. ASSUME NEW w \in Workers, CreateRun(w)
      PROVE  i \in 1..Len(runs'[t]) /\ runs'[t][i].status = "completed"
  BY <1>3, CreateRunRows DEF RowsKept, Complete
<1>4. CASE RecoverStaleState
  BY <1>1, <1>4, RecoverRows DEF Complete, InProgress
<1>5. CASE UNCHANGED runs
  BY <1>1, <1>5 DEF Complete
<1> QED BY <1>1, <1>2, <1>3, <1>4, <1>5, RunsSteps DEF Complete

\* A process that is about to complete its task has completed its run.
KeptWant(w) == pc[w] \in Applying /\ want[w] = "completed" => Complete(job[w], cur[w])

\* A worker about to complete a task has a completed run and its workspace.
LEMMA OwnKeptWant ==
  ASSUME TypeInv, Backed, NEW w \in Workers, HasWorkspace(w), KeptWant(w), ByWorker(w)
  PROVE  KeptWant(w)'
<1>1. CASE pc'[w] \notin Applying
  BY <1>1 DEF KeptWant
<1>2. CASE pc[w] \in Applying /\ UNCHANGED <<job, cur, want, runs, workspaces>>
  BY <1>2 DEF KeptWant, Complete
<1>3. CASE BackendsUnavailable(w)
  BY <1>3 DEF BackendsUnavailable, KeptWant, TypeInv, TypeOK
<1>4. CASE CloseRun(w)
  <2> DEFINE d == Run(w).decision
             s == FinalRunStatus(analysis[w], d)
  <2>1. /\ pc[w] \in Driving /\ pc[w] = "closing" /\ MarkRun(w, s)
        /\ UNCHANGED <<job, cur, workspaces>>
        /\ want'[w] = TaskStatusFor(d)
    BY <1>4 DEF CloseRun, Driving, TypeInv, TypeOK
  <2>2. d \in DecisionAction
    BY <2>1 DEF TypeInv, Registers, RegistersOf
  <2>3. s \in RunStatus
    BY <2>2, OutcomeTypes DEF RunStatus
  <2>4. want'[w] = "completed" => d = "promote"
    BY <2>1, <2>2 DEF TaskStatusFor, DecisionAction
  <2>5. d = "promote" => s = "completed"
    BY <2>1 DEF Backed, DrivenRun, FinalRunStatus
  <2> HIDE DEF s
  <2>6. Run(w)'.status = s /\ cur[w] \in 1..Len(runs'[job[w]])
    BY <2>1, <2>3, MarkedRun, MarkRunRows, RunType DEF RowsKept
  <2>7. <<job[w], cur[w]>> \in workspaces
    BY <2>1 DEF HasWorkspace, AtWork
  <2> QED BY <2>1, <2>4, <2>5, <2>6, <2>7 DEF KeptWant, Complete, Run
<1> QED BY <1>1, <1>2, <1>3, <1>4, ToApplying

\* The other workers leave that work alone.
LEMMA KeptWantStep ==
  ASSUME TypeInv, LeaseHeld, Backed, NEW w \in Workers, HasWorkspace(w), KeptWant(w), [Next]_vars
  PROVE  KeptWant(w)'
<1>1. CASE Elsewhere(w)
  <2> SUFFICES ASSUME pc[w] \in Applying, want[w] = "completed" PROVE KeptWant(w)'
    BY <1>1 DEF Elsewhere, KeptWant
  <2>1. PICK t \in Tasks : t = job[w]
    BY DEF Applying, Busy, TypeInv, Registers, RegistersOf
  <2>2. PICK i : i = cur[w]
    OBVIOUS
  <2>3. Complete(t, i)'
    BY <2>1, <2>2, CompleteKept DEF KeptWant
  <2>4. t = job'[w] /\ i = cur'[w]
    BY <1>1, <2>1, <2>2 DEF Elsewhere
  <2> QED BY <2>3, <2>4 DEF KeptWant, Complete
<1> QED BY <1>1, HeldTask, OwnKeptWant

\* The work of a completed task stays when its status is written and after.
LEMMA WorkKeptStep ==
  ASSUME TypeInv, Backed, WorkKept, \A w \in Workers : KeptWant(w), [Next]_vars
  PROVE  WorkKept'
<1> SUFFICES ASSUME NEW t \in Tasks, status'[t] = "completed"
             PROVE  \E i : Complete(t, i)'
  BY DEF WorkKept, Complete
<1>1. CASE status[t] = "completed"
  <2>1. PICK i : Complete(t, i)
    BY <1>1 DEF WorkKept, Complete
  <2> QED BY <2>1, CompleteKept
<1>2. CASE status[t] # "completed"
  <2>1. PICK w \in Workers : Writes(w) /\ job[w] = t
    BY <1>2, StatusSteps
  <2>2. ApplyWrite(w) /\ want[w] = "completed" /\ pc[w] \in Applying
    BY <2>1 DEF Writes, Start, ApplyWrite, RescueWrite, Applying, TypeInv, TypeOK
  <2>3. Complete(t, cur[w])
    BY <2>1, <2>2 DEF KeptWant
  <2>4. PICK i : i = cur[w]
    OBVIOUS
  <2> QED BY <2>3, <2>4, CompleteKept
<1> QED BY <1>1, <1>2

\* In every execution: once a run is completed, no process rewrites its row, recovery
\* does not fail it and no sweep takes its workspace.
THEOREM CompletedRunsStay ==
  Spec => [][\A t \in Tasks : \A i \in 1..Len(runs[t]) : Complete(t, i) => Complete(t, i)']_vars
<1>1. TypeInv /\ Backed /\ [Next]_vars =>
        [\A t \in Tasks : \A i \in 1..Len(runs[t]) : Complete(t, i) => Complete(t, i)']_vars
  BY CompleteKept
<1>2. Spec => []TypeInv
  BY InitType, TypeStep, PTL DEF Spec
<1>3. Spec => []Backed
  BY <1>2, BackedInit, BackedStep, PTL DEF Spec
<1> QED BY <1>1, <1>2, <1>3, PTL DEF Spec

\* As long as every process at work has its lease, a completed task has a completed
\* run whose workspace is there to be reviewed and promoted.  A process that has
\* lost its lease may complete a task on a run that recovery failed and a sweep
\* emptied.
THEOREM CompletedWorkIsKept == Spec /\ []LeaseHeld => []WorkKept
<1> DEFINE Inv == LeasedRuns /\ Backed /\ WorkKept /\ \A w \in Workers : KeptWant(w)
<1>1. Init => Inv
  BY LeasedRunsInit, BackedInit DEF Init, KeptWant, Applying, WorkKept
<1>2. ASSUME LeaseHeld, LeasedRuns
      PROVE  \A w \in Workers : HasWorkspace(w)
  BY <1>2 DEF LeaseHeld, LeasedRuns, Holding, HasWorkspace, AtWork, Busy
<1>3. TypeInv /\ LeaseHeld /\ Inv /\ [Next]_vars => Inv'
  BY <1>2, LeasedRunsStep, KeptWantStep, WorkKeptStep, BackedStep DEF Backed
<1>4. Spec => []TypeInv
  BY InitType, TypeStep, PTL DEF Spec
<1> QED BY <1>1, <1>3, <1>4, PTL DEF Spec

-----------------------------------------------------------------------------
(* The cap on a project's concurrent tasks.                                *)

\* The rows of task_leases of a project, the expired ones included.
LeaseRows(p) == {t \in Tasks : ProjectOf[t] = p /\ leaseholder[t] # None}

RowsCapped ==
  \A p \in Projects :
    MaxConcurrent[p] > 0 =>
      IsFiniteSet(LeaseRows(p)) /\ Cardinality(LeaseRows(p)) <= MaxConcurrent[p]

\* Fewer rows stay within the cap.
LEMMA FewerRows ==
  ASSUME TypeInv, RowsCapped, \A t \in Tasks : leaseholder'[t] # None => leaseholder[t] # None
  PROVE  RowsCapped'
<1> SUFFICES ASSUME NEW p \in Projects, MaxConcurrent[p] > 0
             PROVE  IsFiniteSet(LeaseRows(p)') /\ Cardinality(LeaseRows(p)') <= MaxConcurrent[p]
  BY DEF RowsCapped
<1> DEFINE S == LeaseRows(p)
           T == LeaseRows(p)'
<1>1. T \subseteq S
  BY DEF LeaseRows
<1>2. IsFiniteSet(S) /\ Cardinality(S) <= MaxConcurrent[p]
  BY DEF RowsCapped
<1> HIDE DEF S, T
<1>3. IsFiniteSet(T) /\ Cardinality(T) <= Cardinality(S)
  BY <1>1, <1>2, FS_Subset
<1>4. Cardinality(S) \in Nat /\ Cardinality(T) \in Nat /\ MaxConcurrent[p] \in Nat
  BY <1>2, <1>3, FS_CardinalityType, ConstantsAssumption
<1>5. IsFiniteSet(T) /\ Cardinality(T) <= MaxConcurrent[p]
  BY <1>2, <1>3, <1>4
<1> QED BY <1>5 DEF T

\* acquire_task_lease adds one row, where there was room for it.
LEMMA AcquiredRows ==
  ASSUME TypeInv, RowsCapped, NEW w \in Workers, Acquire(w)
  PROVE  RowsCapped'
<1> SUFFICES ASSUME NEW p \in Projects, MaxConcurrent[p] > 0
             PROVE  IsFiniteSet(LeaseRows(p)') /\ Cardinality(LeaseRows(p)') <= MaxConcurrent[p]
  BY DEF RowsCapped
<1>1. PICK t \in Eligible(w) : leaseholder' = [Purged EXCEPT ![t] = w]
  BY DEF Acquire
<1>2. t \in Tasks /\ \A u \in Tasks : leaseholder'[u] = IF u = t THEN w ELSE Purged[u]
  BY <1>1 DEF Eligible, Purged
<1> DEFINE S == LeaseRows(p)
           L == Leased(p)
           T == LeaseRows(p)'
<1>3. L \subseteq S
  BY DEF Leased, LeaseRows, Purged
<1>4. T = IF ProjectOf[t] = p THEN L \cup {t} ELSE L
  BY <1>2, NoneNoWorker DEF Leased, LeaseRows
<1>5. ProjectOf[t] = p => Cardinality(L) < MaxConcurrent[p]
  BY <1>2 DEF Eligible
<1>6. IsFiniteSet(S) /\ Cardinality(S) <= MaxConcurrent[p]
  BY DEF RowsCapped
<1> HIDE DEF S, L, T
<1>7. IsFiniteSet(L) /\ Cardinality(L) <= Cardinality(S)
  BY <1>3, <1>6, FS_Subset
<1>8. Cardinality(S) \in Nat /\ Cardinality(L) \in Nat /\ MaxConcurrent[p] \in Nat
  BY <1>6, <1>7, FS_CardinalityType, ConstantsAssumption
<1>9. IsFiniteSet(L \cup {t}) /\ Cardinality(L \cup {t}) <= Cardinality(L) + 1
  <2>1. /\ IsFiniteSet(L \cup {t})
        /\ Cardinality(L \cup {t}) = IF t \in L THEN Cardinality(L) ELSE Cardinality(L) + 1
    BY <1>7, FS_AddElement
  <2> QED BY <1>8, <2>1
<1>10. Cardinality(L \cup {t}) \in Nat
  BY <1>9, FS_CardinalityType
<1>11. IsFiniteSet(T) /\ Cardinality(T) <= MaxConcurrent[p]
  BY <1>4, <1>5, <1>6, <1>7, <1>8, <1>9, <1>10
<1> QED BY <1>11 DEF T

\* acquire_task_lease grants no row above the project's max_concurrent_tasks.
LEMMA RowsCappedStep ==
  ASSUME TypeInv, RowsCapped, [Next]_vars
  PROVE  RowsCapped'
<1>1. CASE leaseholder' = Purged
  BY <1>1, FewerRows DEF Purged
<1>2. ASSUME NEW w \in Workers, DropLease(w)
      PROVE  RowsCapped'
  BY <1>2, FewerRows DEF DropLease
<1>3. CASE UNCHANGED leaseholder
  BY <1>3, FewerRows
<1>4. ASSUME NEW w \in Workers, Step(w) \/ BackendsUnavailable(w) \/ Raise(w)
      PROVE  RowsCapped'
  BY <1>2, <1>3, <1>4, StepLeases DEF NoLeaseStep, Release
<1>5. ASSUME NEW w \in Workers,
             \/ AcquireNothing(w) \/ Refuse(w) \/ Crash(w) \/ Restart(w)
             \/ \E t \in Tasks : RunDirectly(w, t)
      PROVE  RowsCapped'
  BY <1>1, <1>2, <1>3, <1>5 DEF AcquireNothing, Refuse, Crash, Restart, RecoverStaleState,
     RunDirectly, store
<1>6. CASE \/ \E t \in Tasks : Expire(t) \/ ExpireEarly(t) \/ Requeue(t)
           \/ ListTaskLeases \/ Recover \/ UNCHANGED vars
  BY <1>1, <1>3, <1>6 DEF Expire, ExpireEarly, Requeue, ListTaskLeases, Recover,
     RecoverStaleState, vars
<1> QED BY <1>4, <1>5, <1>6, AcquiredRows DEF Next

\* The processes at work for a project whose lease has not expired.
Holders(p) == {w \in Workers : Holding(w) /\ ProjectOf[job[w]] = p}

HoldersCapped ==
  \A p \in Projects : MaxConcurrent[p] > 0 => Cardinality(Holders(p)) <= MaxConcurrent[p]

\* They are no more than its lease rows: a row names one holder.
LEMMA HoldersCounted ==
  ASSUME TypeInv, RowsCapped
  PROVE  HoldersCapped
<1> SUFFICES ASSUME NEW p \in Projects, MaxConcurrent[p] > 0
             PROVE  Cardinality(Holders(p)) <= MaxConcurrent[p]
  BY DEF HoldersCapped
<1> DEFINE B == Holders(p)
           S == LeaseRows(p)
           f == [w \in B |-> job[w]]
<1>1. \A w \in B : job[w] \in S
  BY NoneNoWorker DEF Holders, Holding, LeaseRows, TypeInv, Registers, RegistersOf
<1>2. \A v, w \in B : job[v] = job[w] => v = w
  BY DEF Holders, Holding
<1>3. IsFiniteSet(S) /\ Cardinality(S) <= MaxConcurrent[p]
  BY DEF RowsCapped
<1> HIDE DEF B, S
<1>4. f \in Injection(B, S)
  BY <1>1, <1>2 DEF Injection, IsInjective
<1> HIDE DEF f
<1>5. IsFiniteSet(B) /\ Cardinality(B) <= Cardinality(S)
  BY <1>3, <1>4, FS_Injection
<1>6. Cardinality(B) \in Nat /\ Cardinality(S) \in Nat /\ MaxConcurrent[p] \in Nat
  BY <1>3, <1>5, FS_CardinalityType, ConstantsAssumption
<1>7. Cardinality(B) <= MaxConcurrent[p]
  BY <1>3, <1>5, <1>6
<1> QED BY <1>7 DEF B

\* Where every process at work has its lease, these are all of its processes.
LEMMA AllHolders ==
  ASSUME LeaseHeld, HoldersCapped
  PROVE  ConcurrencyCap
<1>1. \A p \in Projects : Holders(p) = {w \in Workers : Busy(w) /\ ProjectOf[job[w]] = p}
  BY DEF LeaseHeld, Holders, Holding
<1> QED BY <1>1 DEF HoldersCapped, ConcurrencyCap

\* In every execution a project's rows of task_leases, and with them the processes
\* whose lease has not expired, are no more than its max_concurrent_tasks.  The
\* processes at work are within the cap in every state in which none of them has
\* lost its lease: that is how far a cap that counts rows goes.
THEOREM Capped == Spec => [](RowsCapped /\ HoldersCapped /\ (LeaseHeld => ConcurrencyCap))
<1>1. ASSUME Init PROVE RowsCapped
  <2>1. \A p \in Projects : LeaseRows(p) = {}
    BY <1>1 DEF Init, LeaseRows
  <2>2. IsFiniteSet({}) /\ Cardinality({}) = 0
    BY FS_EmptySet
  <2>3. \A p \in Projects : MaxConcurrent[p] \in Nat
    BY ConstantsAssumption
  <2> QED BY <2>1, <2>2, <2>3 DEF RowsCapped
<1>2. TypeInv /\ RowsCapped /\ [Next]_vars => RowsCapped'
  BY RowsCappedStep
<1>3. TypeInv /\ RowsCapped => HoldersCapped /\ (LeaseHeld => ConcurrencyCap)
  BY HoldersCounted, AllHolders
<1> QED BY <1>1, <1>2, <1>3, InitType, TypeStep, PTL DEF Spec

-----------------------------------------------------------------------------
(* The retry budget.                                                       *)

\* A task may run at least once and does not branch, as the defaults have it
\* (max_attempts 3, max_branches 1).  The code validates neither: a task with
\* max_attempts 0 runs once, and a branched one stays active without a lease
\* until recovery sends it back to the queue, attempt budget spent or not.
OrdinaryTasks == \A t \in Tasks : MaxAttempts[t] >= 1 /\ MaxBranches[t] <= 1

Bound(t) == MaxAttempts[t] + faults + commands

Room(t) == Len(runs[t]) < Bound(t)

\* The run of w is under way, or has ended with a decision that ends the task.
Final(w) ==
  /\ pc[w] \in Driving \cup Applying
  /\ pc[w] = "closing" => Run(w).decision \in {"promote", "fail"}
  /\ pc[w] \in Applying => want[w] \in TerminalTask

Finishing(t) == \E w \in Workers : job[w] = t /\ Final(w)

\* There is room for one more run of a task that waits for one, and of an
\* active task unless its last run may still end it.
WithinBudget(t) ==
  /\ Len(runs[t]) <= Bound(t)
  /\ status[t] = "pending" => Room(t)
  /\ status[t] = "active" => Room(t) \/ Finishing(t)

BudgetKept == \A t \in Tasks : WithinBudget(t)

\* The bound on the runs of a task is a number, at least max_attempts.
LEMMA BoundType ==
  ASSUME TypeInv, NEW t \in Tasks
  PROVE  Bound(t) \in Nat /\ Len(runs[t]) \in Nat /\ MaxAttempts[t] \in Nat /\ MaxAttempts[t] <= Bound(t)
<1>1. Len(runs[t]) \in Nat
  BY LenProperties DEF TypeInv, TypeOK
<1>2. MaxAttempts[t] \in Nat /\ MaxFaults \in Nat /\ MaxCommands \in Nat
  BY ConstantsAssumption
<1>3. faults \in Nat /\ commands \in Nat
  BY <1>2 DEF TypeInv, TypeOK
<1> QED BY <1>1, <1>2, <1>3 DEF Bound

\* A fault or a command makes room for one more run.
LEMMA MoreBudget ==
  ASSUME TypeInv, NEW t \in Tasks, WithinBudget(t), Len(runs'[t]) = Len(runs[t]),
         \/ faults' = faults + 1 /\ commands' = commands
         \/ faults' = faults /\ commands' = commands + 1
  PROVE  WithinBudget(t)'
<1>1. MaxAttempts[t] \in Nat /\ MaxFaults \in Nat /\ MaxCommands \in Nat
  BY ConstantsAssumption
<1>2. faults \in Nat /\ commands \in Nat
  BY <1>1 DEF TypeInv, TypeOK
<1>3. Bound(t)' = Bound(t) + 1
  BY <1>1, <1>2 DEF Bound
<1>4. Room(t)'
  BY <1>3, BoundType DEF Room, WithinBudget
<1> QED BY <1>3, <1>4, BoundType DEF WithinBudget

\* A process keeps its run if neither its registers nor the row change.
LEMMA FinalKept ==
  ASSUME TypeInv, NEW v \in Workers, Final(v),
         pc'[v] = pc[v], job'[v] = job[v], cur'[v] = cur[v], want'[v] = want[v],
         pc[v] \in Driving => runs'[job[v]][cur[v]].decision = runs[job[v]][cur[v]].decision
  PROVE  job'[v] = job[v] /\ Final(v)'
BY DEF Final, Run, Driving

\* The holder of a task is the only one that can be finishing it.
LEMMA HolderFinishes ==
  ASSUME OneWorkerPerTask, NEW w \in Workers, Busy(w), Finishing(job[w])
  PROVE  Final(w)
BY DEF OneWorkerPerTask, Finishing, Final, Busy, Driving, Applying

\* A process that drives no run leaves the count of its task's runs as it is.
LEMMA IdleBudget ==
  ASSUME TypeInv, OneWorkerPerTask, NEW w \in Workers, NEW t \in Tasks, t = job[w],
         WithinBudget(t), Busy(w), ~ Final(w), runs'[t] = runs[t], UNCHANGED budgets,
         status'[t] # status[t] => status[t] \in {"pending", "active"}
  PROVE  WithinBudget(t)'
<1>1. UNCHANGED <<Bound(t), runs[t]>>
  BY DEF Bound, budgets
<1>2. status[t] \in {"pending", "active"} => Room(t)
  BY HolderFinishes DEF WithinBudget
<1> QED BY <1>1, <1>2 DEF WithinBudget, Room

\* The run a process goes on with may still end the task.
LEMMA FinalBudget ==
  ASSUME TypeInv, NEW w \in Workers, NEW t \in Tasks, t = job'[w], Final(w)',
         WithinBudget(t), Len(runs'[t]) = Len(runs[t]), UNCHANGED budgets,
         status'[t] # "pending"
  PROVE  WithinBudget(t)'
<1>1. Bound(t)' = Bound(t)
  BY DEF Bound, budgets
<1>2. Finishing(t)'
  BY DEF Finishing
<1> QED BY <1>1, <1>2 DEF WithinBudget

\* DefaultDecider retries within the attempt budget, and a task that does not
\* branch is then given up.
LEMMA DecisionBudget ==
  ASSUME NEW a, NEW n \in Nat, NEW m \in Nat, NEW b \in Nat, b <= 1
  PROVE  LET d == Decide(a, n, m, b)
         IN  d \in {"promote", "fail"} \/ n < m
BY DEF Decide, BudgetLeft

\* The steps of the holder of t.
LEMMA OwnBudget ==
  ASSUME OrdinaryTasks, TypeInv, OneWorkerPerTask, Standing, Numbered,
         NEW w \in Workers, Step(w), NEW t \in Tasks, t = job[w], WithinBudget(t)
  PROVE  WithinBudget(t)'
<1> USE DEF Goto, TypeInv, TypeOK, store
<1>0. /\ StandingOf(w)
      /\ Len(runs[t]) \in Nat /\ Bound(t) \in Nat
      /\ MaxAttempts[t] \in Nat /\ MaxAttempts[t] <= Bound(t)
  BY BoundType DEF Standing
<1>1. CASE Dispatch(w) \/ Release(w) \/ Sweep(w) \/ Begin(w) \/ CannotBegin(w) \/ Start(w)
           \/ NextAttempt(w) \/ Return(w)
  <2>1. /\ Busy(w) /\ ~ Final(w) /\ runs' = runs /\ UNCHANGED budgets
        /\ status'[t] # status[t] => status[t] = "pending"
    BY <1>0, <1>1 DEF Dispatch, Release, Sweep, Begin, CannotBegin, Start, NextAttempt, Return,
       Busy, Final, Driving, Applying, StandingOf
  <2> QED BY <2>1, IdleBudget
<1>2. CASE Rescue(w) \/ RescueRead(w) \/ RescueWrite(w)
  <2>1. /\ Busy(w) /\ ~ Final(w) /\ runs' = runs /\ UNCHANGED budgets
        /\ status'[t] # status[t] => status[t] = "active"
    BY <1>0, <1>2 DEF Rescue, RescueRead, RescueWrite, Busy, Final, Driving, Applying, StandingOf
  <2> QED BY <2>1, IdleBudget
<1>3. CASE CreateRun(w)
  <2>1. Busy(w) /\ ~ Final(w) /\ status[t] = "active"
    BY <1>0, <1>3 DEF CreateRun, Busy, Final, Driving, Applying, StandingOf, Running
  <2>2. Room(t)
    BY <2>1, HolderFinishes DEF WithinBudget
  <2>3. Len(runs'[t]) = Len(runs[t]) + 1
    BY <1>3, CreateRunRows
  <2>4. UNCHANGED <<job, budgets, status>> /\ pc'[w] = "planning"
    BY <1>3 DEF CreateRun
  <2>5. Finishing(t)' /\ Bound(t)' = Bound(t)
    BY <2>4 DEF Finishing, Final, Driving, Applying, Bound, budgets
  <2>6. Len(runs'[t]) <= Bound(t)'
    BY <1>0, <2>2, <2>3, <2>5 DEF Room
  <2> QED BY <2>1, <2>4, <2>5, <2>6 DEF WithinBudget
<1>4. ASSUME RowStep(w)
      PROVE  Len(runs'[t]) = Len(runs[t]) /\ UNCHANGED <<job, cur, status>> /\ status[t] = "active"
             /\ Busy(w) /\ pc[w] \in Driving
  <2>1. PICK r : NewRow(w, r)
    BY <1>4, RowStepRow
  <2>2. Len(runs'[t]) = Len(runs[t])
    BY <2>1, SetRunRows DEF NewRow
  <2> QED BY <1>0, <2>1, <2>2 DEF NewRow, StandingOf, Running, Busy, Driving
<1>5. CASE StartWorking(w) \/ StartValidating(w) \/ StartAnalyzing(w) \/ StartDeciding(w)
  <2>1. Final(w)' /\ UNCHANGED budgets /\ RowStep(w)
    BY <1>5 DEF StartWorking, StartValidating, StartAnalyzing, StartDeciding, Final, Driving,
       Applying, RowStep
  <2> QED BY <1>4, <2>1, FinalBudget
<1>6. CASE RecordDecision(w)
  <2> DEFINE n == Run(w).attempt
             action == Decide(analysis[w], n, MaxAttempts[t], MaxBranches[t])
             r == [Run(w) EXCEPT !.decision = action]
  <2>1. RowStep(w) /\ SetRun(w, r) /\ pc'[w] = "closing" /\ UNCHANGED budgets /\ action \in DecisionAction
    BY <1>6, DecideType DEF RecordDecision, RowStep
  <2>2. Run(w) \in RunRecord /\ cur[w] \in 1..Len(runs[t])
    BY <1>4, <2>1, RunType
  <2>3. n = Len(runs[t])
    BY <1>4, <2>1, <2>2 DEF Numbered, NumberedRows, LastRun, Run
  <2>4. action \in {"promote", "fail"} \/ Len(runs[t]) < MaxAttempts[t]
    BY <1>0, <2>3, DecisionBudget, ConstantsAssumption DEF OrdinaryTasks
  <2> HIDE DEF action
  <2>5. r \in RunRecord /\ r.decision = action
    BY <2>1, <2>2 DEF RunRecord
  <2> HIDE DEF r, n
  <2>6. Run(w)' = r
    BY <1>4, <2>1, <2>2, <2>5, SetRunRows DEF Run
  <2>7. CASE action \in {"promote", "fail"}
    <3>1. Final(w)'
      BY <2>1, <2>5, <2>6, <2>7 DEF Final, Driving, Applying
    <3> QED BY <1>4, <2>1, <3>1, FinalBudget
  <2>8. CASE Len(runs[t]) < MaxAttempts[t]
    <3>1. Bound(t)' = Bound(t) /\ Room(t)'
      BY <1>0, <1>4, <2>1, <2>8 DEF Room, Bound, budgets
    <3> QED BY <1>4, <2>1, <3>1 DEF WithinBudget
  <2> QED BY <2>4, <2>7, <2>8
<1>7. CASE CloseRun(w)
  <2>1. /\ RowStep(w) /\ UNCHANGED budgets
        /\ pc[w] = "closing" /\ pc'[w] = "apply"
        /\ want'[w] = TaskStatusFor(Run(w).decision)
    BY <1>7 DEF CloseRun, RowStep
  <2>2. CASE Final(w)
    <3>1. want'[w] \in TerminalTask
      BY <2>1, <2>2 DEF Final, TaskStatusFor, TerminalTask
    <3>2. Final(w)'
      BY <2>1, <3>1 DEF Final, Driving, Applying
    <3> QED BY <1>4, <2>1, <3>2, FinalBudget
  <2>3. CASE ~ Final(w)
    <3>1. Room(t)
      BY <1>4, <2>1, <2>3, HolderFinishes DEF WithinBudget
    <3>2. Bound(t)' = Bound(t) /\ Room(t)'
      BY <1>4, <2>1, <3>1 DEF Room, Bound, budgets
    <3> QED BY <1>4, <2>1, <3>2 DEF WithinBudget
  <2> QED BY <2>2, <2>3
<1>8. CASE Apply(w) \/ ApplyRead(w)
  <2>1. /\ Busy(w) /\ status[t] = "active" /\ want[w] \in TaskStatus
        /\ UNCHANGED <<runs, status, budgets, job, cur, want>>
    BY <1>0, <1>8 DEF Apply, ApplyRead, Busy, StandingOf, Running, Registers, RegistersOf, Applying
  <2>2. pc[w] \in Applying /\ pc'[w] \in Applying
    BY <1>8, <2>1 DEF Apply, ApplyRead, Applying, MayTransition, ValidTaskTransitions, TaskStatus
  <2>3. CASE Final(w)
    <3>1. Final(w)'
      BY <2>1, <2>2, <2>3 DEF Final, Applying
    <3> QED BY <2>1, <3>1, FinalBudget
  <2>4. CASE ~ Final(w)
    BY <2>1, <2>4, IdleBudget
  <2> QED BY <2>3, <2>4
<1>9. CASE ApplyWrite(w)
  <2>1. /\ Busy(w) /\ status[t] = "active" /\ status'[t] = want[w]
        /\ UNCHANGED <<runs, budgets>> /\ pc[w] = "applyWrite"
    BY <1>0, <1>9 DEF ApplyWrite, Busy, StandingOf, Running
  <2>2. CASE Final(w)
    <3>1. status'[t] \notin {"pending", "active"}
      BY <2>1, <2>2 DEF Final, Applying, TerminalTask
    <3>2. Bound(t)' = Bound(t)
      BY <2>1 DEF Bound, budgets
    <3> QED BY <2>1, <3>1, <3>2 DEF WithinBudget
  <2>3. CASE ~ Final(w)
    BY <2>1, <2>3, IdleBudget
  <2> QED BY <2>2, <2>3
<1> QED BY <1>1, <1>2, <1>3, <1>5, <1>6, <1>7, <1>8, <1>9 DEF Step

\* What a process does by itself touches the rows and the status of its own
\* task, and is no fault.
LEMMA OwnStatus ==
  ASSUME TypeInv, NEW w \in Workers, Step(w), NEW t \in Tasks, job[w] # t
  PROVE  status'[t] = status[t]
<1>1. CASE Writes(w)
  BY <1>1 DEF Writes, Start, ApplyWrite, RescueWrite, TypeInv, TypeOK
<1>2. CASE ~ Writes(w)
  BY <1>2 DEF Step, Dispatch, Release, Sweep, Begin, CannotBegin, NextAttempt, CreateRun,
     StartWorking, StartValidating, StartAnalyzing, StartDeciding, RecordDecision, CloseRun,
     Apply, ApplyRead, Return, Rescue, RescueRead, Writes, store
<1> QED BY <1>1, <1>2

\* A worker writes runs of the task it works on only.
LEMMA OwnRows ==
  ASSUME TypeInv, NEW w \in Workers, Step(w), NEW t \in Tasks, job[w] # t
  PROVE  runs'[t] = runs[t]
<1>1. CASE RowStep(w)
  BY <1>1, RowStepRow DEF NewRow, SetRun, TypeInv, TypeOK
<1>2. CASE CreateRun(w)
  BY <1>2, CreateRunRows
<1>3. CASE ~ RowStep(w) /\ ~ CreateRun(w)
  BY <1>3 DEF Step, RowStep, Dispatch, Release, Sweep, Begin, CannotBegin, Start, NextAttempt,
     Apply, ApplyRead, ApplyWrite, Return, Rescue, RescueRead, RescueWrite, store
<1> QED BY <1>1, <1>2, <1>3

\* No step of a worker changes what the operator allowed.
LEMMA StepBudgets ==
  ASSUME NEW w \in Workers, Step(w)
  PROVE  UNCHANGED budgets
BY DEF Step, Dispatch, Release, Sweep, Begin, CannotBegin, Start, NextAttempt, CreateRun,
   StartWorking, StartValidating, StartAnalyzing, StartDeciding, RecordDecision, CloseRun,
   Apply, ApplyRead, ApplyWrite, Return, Rescue, RescueRead, RescueWrite, budgets

\* The step of a process that works on another task, or on none.
LEMMA OtherBudget ==
  ASSUME TypeInv, NEW t \in Tasks, WithinBudget(t), NEW w \in Workers, OnlyMoves(w), ~ Final(w) \/ job[w] # t,
         runs'[t] = runs[t], status'[t] = status[t], UNCHANGED budgets
  PROVE  WithinBudget(t)'
<1>1. Bound(t)' = Bound(t)
  BY DEF Bound, budgets
<1>2. ASSUME NEW v \in Workers, job[v] = t, Final(v)
      PROVE  job'[v] = t /\ Final(v)'
  <2>1. v # w
    BY <1>2
  <2> QED BY <1>2, <2>1, FinalKept DEF OnlyMoves
<1>3. Finishing(t) => Finishing(t)'
  BY <1>2 DEF Finishing
<1> QED BY <1>1, <1>3 DEF WithinBudget, Room

\* recover_stale_state gives back the active tasks without a holder.
LEMMA RecoverBudget ==
  ASSUME TypeInv, LeaseHeld, BudgetKept, RecoverStaleState, UNCHANGED budgets,
         \A v \in Workers : Busy(v) => /\ pc'[v] = pc[v] /\ job'[v] = job[v] /\ cur'[v] = cur[v]
                                       /\ want'[v] = want[v],
         NEW t \in Tasks
  PROVE  WithinBudget(t)'
<1>1. Len(runs'[t]) = Len(runs[t]) /\ Bound(t)' = Bound(t)
  BY RecoverRows DEF Bound, budgets
<1>2. ASSUME NEW v \in Workers, job[v] = t, Final(v)
      PROVE  job'[v] = t /\ Final(v)' /\ ~ Stale(t)
  <2>1. Busy(v)
    BY <1>2 DEF Final, Busy, Driving, Applying
  <2>2. pc[v] \in Driving => runs'[t][cur[v]].decision = runs[t][cur[v]].decision
    BY <1>2, RecoverRows, RunType
  <2> QED BY <1>2, <2>1, <2>2, FinalKept, HolderCovers
<1>3. status'[t] = IF Stale(t) /\ status[t] = "active" THEN "pending" ELSE status[t]
  BY DEF RecoverStaleState, Stranded
<1>4. WithinBudget(t)
  BY DEF BudgetKept
<1> QED BY <1>1, <1>2, <1>3, <1>4 DEF WithinBudget, Room, Finishing

\* Invariants the budget rests on, together.
QueueInv == NoDirectLease /\ Standing /\ Numbered

\* The store starts with an empty queue.
LEMMA QueueInvInit == Init => QueueInv
BY ConstantsAssumption DEF Init, QueueInv, NoDirectLease, Standing, StandingOf, Running, Busy,
   Numbered, NumberedRows, NextNumber, LastRun, Driving

\* Every part of the invariant of the queue, over every step.
LEMMA QueueInvStep ==
  ASSUME TypeInv, LeaseHeld, LeaseHeld', QueueInv, [Next]_vars
  PROVE  QueueInv'
BY NoDirectLeaseStep, StandingStep, NumberedStep DEF QueueInv, Covered

\* should_retry and create_run: the runs of a task stay within its retry budget.
LEMMA BudgetStep ==
  ASSUME OrdinaryTasks, TypeInv, LeaseHeld, LeaseHeld', QueueInv, BudgetKept, [Next]_vars
  PROVE  BudgetKept'
<1> SUFFICES ASSUME NEW t \in Tasks PROVE WithinBudget(t)'
  BY DEF BudgetKept
<1>0. WithinBudget(t) /\ OneWorkerPerTask
  BY HeldAlone DEF BudgetKept, QueueInv
<1>1. ASSUME NEW w \in Workers, Step(w)
      PROVE  WithinBudget(t)'
  <2>1. CASE job[w] = t
    BY <1>0, <1>1, <2>1, OwnBudget DEF QueueInv
  <2>2. CASE job[w] # t
    <3>1. OnlyMoves(w)
      BY <1>1, MovesOne DEF ByWorker
    <3>2. status'[t] = status[t]
      BY <1>1, <2>2, OwnStatus
    <3>3. runs'[t] = runs[t]
      BY <1>1, <2>2, OwnRows
    <3>4. UNCHANGED budgets
      BY <1>1, StepBudgets
    <3> QED BY <1>0, <2>2, <3>1, <3>2, <3>3, <3>4, OtherBudget
  <2> QED BY <2>1, <2>2
<1>2. ASSUME NEW w \in Workers, BackendsUnavailable(w)
      PROVE  WithinBudget(t)'
  <2>1. PICK r : NewRow(w, r)
    BY <1>2, RowStepRow DEF RowStep
  <2>2. Len(runs'[t]) = Len(runs[t])
    BY <2>1, SetRunRows DEF NewRow
  <2> QED BY <1>0, <1>2, <2>2, MoreBudget DEF BackendsUnavailable
<1>3. ASSUME NEW w \in Workers, Raise(w) \/ Crash(w)
      PROVE  WithinBudget(t)'
  BY <1>0, <1>3, MoreBudget DEF Raise, Crash, store
<1>4. ASSUME NEW u \in Tasks, Requeue(u)
      PROVE  WithinBudget(t)'
  BY <1>0, <1>4, MoreBudget DEF Requeue
<1>5. ASSUME NEW w \in Workers, Acquire(w) \/ AcquireNothing(w) \/ Refuse(w)
      PROVE  WithinBudget(t)'
  <2>1. OnlyMoves(w)
    BY <1>5, MovesOne DEF ByWorker
  <2>2. ~ Final(w) /\ UNCHANGED <<runs, status, budgets>>
    BY <1>5 DEF Acquire, AcquireNothing, Refuse, Final, Driving, Applying
  <2> QED BY <1>0, <2>1, <2>2, OtherBudget
<1>6. CASE \/ ListTaskLeases \/ UNCHANGED vars \/ \E u \in Tasks : Expire(u)
  <2>1. UNCHANGED <<runs, status, budgets, pc, job, cur, want>>
    BY <1>6 DEF ListTaskLeases, Expire, vars, locals, budgets
  <2>2. Finishing(t)' = Finishing(t) /\ Bound(t)' = Bound(t)
    BY <2>1 DEF Finishing, Final, Run, Bound, budgets
  <2> QED BY <1>0, <2>1, <2>2 DEF WithinBudget, Room
<1>7. CASE Recover
  BY <1>7, RecoverBudget DEF Recover, QueueInv, locals
<1>8. ASSUME NEW w \in Workers, Restart(w)
      PROVE  WithinBudget(t)'
  BY <1>8, RecoverBudget DEF Restart, QueueInv, Busy, Goto, TypeInv, TypeOK
<1>9. /\ \A w \in Workers, u \in Tasks : ~ RunDirectly(w, u)
      /\ \A u \in Tasks : ~ ExpireEarly(u)
  BY CoveredSteps DEF Covered, QueueInv
<1> QED BY <1>1, <1>2, <1>3, <1>4, <1>5, <1>6, <1>7, <1>8, <1>9 DEF Next

\* As long as every process at work has its lease, max_attempts bounds the runs spent
\* on a task: every run beyond it is owed to a crash, an exception, an outage or a
\* requeue, whatever recovery resets and however often.
THEOREM BoundedRetries == OrdinaryTasks => (Spec /\ []LeaseHeld => []RetryBudget)
<1> SUFFICES ASSUME OrdinaryTasks PROVE Spec /\ []LeaseHeld => []RetryBudget
  OBVIOUS
<1>1. ASSUME Init PROVE BudgetKept
  <2>1. \A t \in Tasks : status[t] = "pending" /\ Len(runs[t]) = 0 /\ Bound(t) = MaxAttempts[t]
    BY <1>1, ConstantsAssumption DEF Init, Bound
  <2> QED BY <2>1, ConstantsAssumption DEF BudgetKept, WithinBudget, Room, OrdinaryTasks
<1>2. Init => QueueInv
  BY QueueInvInit
<1>3. TypeInv /\ LeaseHeld /\ LeaseHeld' /\ QueueInv /\ BudgetKept /\ [Next]_vars
        => QueueInv' /\ BudgetKept'
  BY QueueInvStep, BudgetStep
<1>4. BudgetKept => RetryBudget
  BY DEF BudgetKept, WithinBudget, Bound, RetryBudget
<1> QED BY <1>1, <1>2, <1>3, <1>4, InitType, TypeStep, PTL DEF Spec

-----------------------------------------------------------------------------
(* TaskExecution implements TaskBoard.                                     *)

WorksOn(w, t) == Busy(w) /\ job[w] = t

\* The owner of a task is the one process that works on it.
LEMMA OwnerIs ==
  ASSUME OneWorkerPerTask, NEW t \in Tasks
  PROVE  /\ \A w \in Workers : WorksOn(w, t) => Owner[t] = w
         /\ (\A w \in Workers : ~ WorksOn(w, t)) => Owner[t] = None
BY DEF OneWorkerPerTask, Owner, WorksOn

\* Who owns a task after a step is who then works on it.
LEMMA OwnerWillBe ==
  ASSUME OneWorkerPerTask', NEW t \in Tasks
  PROVE  /\ \A w \in Workers : WorksOn(w, t)' => Owner'[t] = w
         /\ (\A w \in Workers : ~ WorksOn(w, t)') => Owner'[t] = None
BY DEF OneWorkerPerTask, Owner, WorksOn

\* Every task has an owner or none.
LEMMA OwnerDomain ==
  /\ DOMAIN Owner = Tasks /\ Owner = [t \in Tasks |-> Owner[t]]
  /\ DOMAIN Owner' = Tasks /\ Owner' = [t \in Tasks |-> Owner'[t]]
BY DEF Owner

\* A task keeps its owner when the processes that work on it do not change.
LEMMA OwnerKept ==
  ASSUME OneWorkerPerTask, OneWorkerPerTask', NEW t \in Tasks,
         \A w \in Workers : WorksOn(w, t)' <=> WorksOn(w, t)
  PROVE  Owner'[t] = Owner[t]
<1>1. CASE \E w \in Workers : WorksOn(w, t)
  BY <1>1, OwnerIs, OwnerWillBe
<1>2. CASE \A w \in Workers : ~ WorksOn(w, t)
  BY <1>2, OwnerIs, OwnerWillBe
<1> QED BY <1>1, <1>2

\* Two functions on Tasks that agree everywhere but at t.
LEMMA OwnerExcept ==
  ASSUME NEW t \in Tasks, NEW o, Owner'[t] = o, \A u \in Tasks \ {t} : Owner'[u] = Owner[u]
  PROVE  Owner' = [Owner EXCEPT ![t] = o]
<1> DEFINE f == Owner
           g == Owner'
<1>1. f = [u \in Tasks |-> f[u]] /\ g = [u \in Tasks |-> g[u]]
  BY OwnerDomain
<1>2. g[t] = o /\ \A u \in Tasks \ {t} : g[u] = f[u]
  OBVIOUS
<1> HIDE DEF f, g
<1>3. g = [f EXCEPT ![t] = o]
  BY <1>1, <1>2
<1> QED BY <1>3 DEF f, g

\* A task keeps its owner as long as no worker takes up or puts down its job.
LEMMA OwnerStays ==
  ASSUME OneWorkerPerTask, OneWorkerPerTask',
         \A w \in Workers : Busy(w)' = Busy(w) /\ (Busy(w) => job'[w] = job[w])
  PROVE  UNCHANGED Owner
<1>1. \A t \in Tasks, w \in Workers : WorksOn(w, t)' <=> WorksOn(w, t)
  BY DEF WorksOn
<1>2. \A t \in Tasks : Owner'[t] = Owner[t]
  BY <1>1, OwnerKept
<1> DEFINE f == Owner
           g == Owner'
<1>3. f = [u \in Tasks |-> f[u]] /\ g = [u \in Tasks |-> g[u]] /\ \A t \in Tasks : g[t] = f[t]
  BY <1>2, OwnerDomain
<1> HIDE DEF f, g
<1>4. g = f
  BY <1>3
<1> QED BY <1>4 DEF f, g

\* The two states of a step have one worker per task.
Exclusive == OneWorkerPerTask /\ OneWorkerPerTask'

\* A lease claims the task on the board.
LEMMA AcquireClaims ==
  ASSUME TypeInv, LeaseHeld, Exclusive, NEW w \in Workers, Acquire(w)
  PROVE  \E t \in Tasks : Board!Claim(t, w)
<1>1. PICK t \in Eligible(w) : job' = [job EXCEPT ![w] = t]
  BY DEF Acquire
<1>2. t \in Tasks /\ status[t] = "pending" /\ Purged[t] = None
  BY DEF Eligible
<1>3. pc[w] = "idle" /\ pc'[w] = "leased" /\ job'[w] = t /\ OnlyMoves(w)
  BY <1>1, MovesOne DEF Acquire, Goto, ByWorker, TypeInv, TypeOK
<1>4. \A v \in Workers : ~ WorksOn(v, t)
  BY <1>2, HolderCovers, NoneNoWorker DEF WorksOn
<1>5. Owner[t] = None
  BY <1>2, <1>4, OwnerIs DEF Exclusive
<1>6. Owner'[t] = w
  BY <1>2, <1>3, OwnerWillBe DEF Exclusive, WorksOn, Busy
<1>7. ASSUME NEW u \in Tasks \ {t}
      PROVE  Owner'[u] = Owner[u]
  <2>1. \A v \in Workers : WorksOn(v, u)' <=> WorksOn(v, u)
    BY <1>3 DEF WorksOn, Busy, OnlyMoves
  <2> QED BY <2>1, OwnerKept DEF Exclusive
<1>8. Owner' = [Owner EXCEPT ![t] = w]
  BY <1>2, <1>6, <1>7, OwnerExcept
<1> QED BY <1>2, <1>5, <1>8 DEF Acquire, Board!Claim

\* A refusal, a release or a crash leaves it.
LEMMA EndLeaves ==
  ASSUME TypeInv, Exclusive, NEW w \in Workers, Refuse(w) \/ Release(w) \/ Crash(w)
  PROVE  \E t \in Tasks : Board!Leave(t)
<1>1. Busy(w) /\ ~ Busy(w)' /\ UNCHANGED status
  BY DEF Refuse, Release, Crash, Goto, Busy, store, TypeInv, TypeOK
<1>2. PICK t \in Tasks : t = job[w]
  BY <1>1 DEF TypeInv, Registers, RegistersOf
<1>3. OnlyMoves(w)
  BY MovesOne DEF ByWorker, Step
<1>4. \A v \in Workers : v # w => ~ WorksOn(v, t)
  BY <1>1, <1>2 DEF Exclusive, OneWorkerPerTask, WorksOn
<1>5. Owner[t] = w /\ w # None
  BY <1>1, <1>2, OwnerIs, NoneNoWorker DEF Exclusive, WorksOn
<1>6. \A v \in Workers : ~ WorksOn(v, t)'
  BY <1>1, <1>3, <1>4 DEF WorksOn, Busy, OnlyMoves
<1>7. Owner'[t] = None
  BY <1>6, OwnerWillBe DEF Exclusive
<1>8. ASSUME NEW u \in Tasks \ {t}
      PROVE  Owner'[u] = Owner[u]
  <2>1. \A v \in Workers : WorksOn(v, u)' <=> WorksOn(v, u)
    BY <1>1, <1>2, <1>3 DEF WorksOn, Busy, OnlyMoves
  <2> QED BY <2>1, OwnerKept DEF Exclusive
<1>9. Owner' = [Owner EXCEPT ![t] = None]
  BY <1>7, <1>8, OwnerExcept
<1> QED BY <1>1, <1>5, <1>9 DEF Board!Leave

\* A process that stays busy keeps its task.
LEMMA BusyStays ==
  ASSUME TypeInv, Exclusive, NEW w \in Workers, ByWorker(w), Busy(w), Busy(w)', job'[w] = job[w]
  PROVE  UNCHANGED Owner
BY MovesOne, OwnerStays DEF Exclusive, OnlyMoves, Busy

\* The board and the engine go by the same table.
LEMMA BoardRules ==
  Board!ValidTaskTransitions = ValidTaskTransitions /\ Board!TaskStatus = TaskStatus
BY DEF Board!ValidTaskTransitions, ValidTaskTransitions, Board!TaskStatus, TaskStatus

\* The three writes of update_task_status advance the task along a valid
\* transition, or write the status it has.
LEMMA WriteAdvances ==
  ASSUME TypeInv, Exclusive, Standing, NEW w \in Workers, Writes(w)
  PROVE  (\E t \in Tasks, s \in TaskStatus : Board!Advance(t, s)) \/ UNCHANGED <<status, Owner>>
<1>1. Step(w) /\ Busy(w) /\ Busy(w)' /\ job'[w] = job[w]
  BY DEF Writes, Start, ApplyWrite, RescueWrite, Step, Busy, Goto, TypeInv, TypeOK
<1>2. UNCHANGED Owner
  BY <1>1, BusyStays DEF ByWorker
<1>3. PICK t \in Tasks : t = job[w]
  BY <1>1 DEF TypeInv, Registers, RegistersOf
<1>4. Owner[t] = w /\ w # None
  BY <1>1, <1>3, OwnerIs, NoneNoWorker DEF Exclusive, WorksOn
<1>5. StandingOf(w)
  BY DEF Standing
<1>6. CASE Start(w)
  <2>1. "active" \in ValidTaskTransitions[status[t]]
    BY <1>3, <1>5, <1>6 DEF Start, StandingOf, ValidTaskTransitions
  <2>2. Board!Advance(t, "active")
    BY <1>2, <1>3, <1>4, <1>6, <2>1, BoardRules DEF Start, Board!Advance
  <2> QED BY <2>2 DEF TaskStatus
<1>7. CASE RescueWrite(w)
  <2>1. "pending" \in ValidTaskTransitions[status[t]]
    BY <1>3, <1>5, <1>7 DEF RescueWrite, StandingOf, ValidTaskTransitions
  <2>2. Board!Advance(t, "pending")
    BY <1>2, <1>3, <1>4, <1>7, <2>1, BoardRules DEF RescueWrite, Board!Advance
  <2> QED BY <2>2 DEF TaskStatus
<1>8. CASE ApplyWrite(w)
  <2>1. /\ status[t] = "active" /\ want[w] \in TaskStatus
        /\ status' = [status EXCEPT ![t] = want[w]]
    BY <1>3, <1>5, <1>8 DEF ApplyWrite, StandingOf, Running, TypeInv, Registers, RegistersOf,
       Applying
  <2>2. CASE want[w] = "active"
    BY <1>2, <2>1, <2>2 DEF TypeInv, TypeOK
  <2>3. CASE want[w] # "active"
    <3>1. want[w] \in ValidTaskTransitions[status[t]]
      BY <2>1, <2>3 DEF ValidTaskTransitions, TaskStatus
    <3>2. Board!Advance(t, want[w])
      BY <1>2, <1>4, <2>1, <3>1, BoardRules DEF Board!Advance
    <3> QED BY <2>1, <3>2
  <2> QED BY <2>2, <2>3
<1> QED BY <1>6, <1>7, <1>8 DEF Writes

\* The other steps of a process are its own affair.
LEMMA StepStutters ==
  ASSUME TypeInv, Exclusive, NEW w \in Workers,
         \/ Step(w) /\ ~ Writes(w) /\ ~ Release(w)
         \/ BackendsUnavailable(w) \/ Raise(w)
  PROVE  UNCHANGED <<status, Owner>>
<1>1. UNCHANGED <<status, job>> /\ Busy(w) /\ Busy(w)'
  <2> USE DEF Goto, Busy, store, TypeInv, TypeOK
  <2>1. CASE Dispatch(w) \/ Sweep(w) \/ Begin(w) \/ CannotBegin(w) \/ NextAttempt(w) \/ CreateRun(w)
    BY <2>1 DEF Dispatch, Sweep, Begin, CannotBegin, NextAttempt, CreateRun
  <2>2. CASE StartWorking(w) \/ StartValidating(w) \/ StartAnalyzing(w) \/ StartDeciding(w)
    BY <2>2 DEF StartWorking, StartValidating, StartAnalyzing, StartDeciding
  <2>3. CASE RecordDecision(w) \/ CloseRun(w) \/ BackendsUnavailable(w) \/ Raise(w)
    BY <2>3 DEF RecordDecision, CloseRun, BackendsUnavailable, Raise, Running, Rescuing
  <2>4. CASE Apply(w) \/ ApplyRead(w) \/ Return(w) \/ Rescue(w) \/ RescueRead(w)
    BY <2>4 DEF Apply, ApplyRead, Return, Rescue, RescueRead
  <2> QED BY <2>1, <2>2, <2>3, <2>4 DEF Step, Writes
<1> QED BY <1>1, BusyStays DEF ByWorker

\* Recovery hands back the active tasks nobody owns.
LEMMA RecoverHandsBack ==
  ASSUME TypeInv, LeaseHeld, Exclusive, RecoverStaleState, UNCHANGED job,
         \A v \in Workers : Busy(v)' = Busy(v)
  PROVE  (\E S \in SUBSET Tasks : Board!HandBack(S)) \/ UNCHANGED <<status, Owner>>
<1>1. UNCHANGED Owner
  BY OwnerStays DEF Exclusive
<1> DEFINE S == {t \in Tasks : Stranded(t)}
<1>2. status' = [t \in Tasks |-> IF t \in S THEN "pending" ELSE status[t]]
  BY DEF RecoverStaleState
<1>3. ASSUME NEW t \in S
      PROVE  status[t] = "active" /\ Owner[t] = None
  <2>1. \A v \in Workers : ~ WorksOn(v, t)
    BY HolderCovers DEF WorksOn, Stranded
  <2> QED BY <2>1, OwnerIs DEF Exclusive, Stranded
<1>4. CASE S # {}
  <2>1. Board!HandBack(S)
    BY <1>1, <1>2, <1>3, <1>4 DEF Board!HandBack
  <2> QED BY <2>1
<1>5. CASE S = {}
  <2>1. status = [t \in Tasks |-> status[t]]
    BY DEF TypeInv, TypeOK
  <2> QED BY <1>1, <1>2, <1>5, <2>1
<1> QED BY <1>4, <1>5

\* Every step of the engine is one of the board, or none.
LEMMA BoardStep ==
  ASSUME TypeInv, LeaseHeld, LeaseHeld', QueueInv, [Next]_vars
  PROVE  [Board!Next]_<<status, Owner>>
<1>1. Standing /\ OneWorkerPerTask
  BY HeldAlone DEF QueueInv
<1>2. Exclusive
  BY <1>1 DEF Exclusive, LeaseHeld, OneWorkerPerTask
<1>3. ASSUME NEW w \in Workers, Acquire(w)
      PROVE  Board!Next
  BY <1>1, <1>2, <1>3, AcquireClaims DEF Board!Next
<1>4. ASSUME NEW w \in Workers, Refuse(w) \/ Release(w) \/ Crash(w)
      PROVE  Board!Next
  BY <1>2, <1>4, EndLeaves DEF Board!Next
<1>5. ASSUME NEW w \in Workers, Writes(w)
      PROVE  [Board!Next]_<<status, Owner>>
  BY <1>1, <1>2, <1>5, WriteAdvances, BoardRules DEF Board!Next
<1>6. ASSUME NEW w \in Workers, Step(w) \/ BackendsUnavailable(w) \/ Raise(w)
      PROVE  [Board!Next]_<<status, Owner>>
  BY <1>2, <1>4, <1>5, <1>6, StepStutters
<1>7. CASE Recover \/ \E w \in Workers : Restart(w)
  <2>1. RecoverStaleState /\ UNCHANGED job /\ \A v \in Workers : Busy(v)' = Busy(v)
    BY <1>7 DEF Recover, Restart, locals, Goto, Busy, TypeInv, TypeOK
  <2> QED BY <1>1, <1>2, <2>1, RecoverHandsBack DEF Board!Next
<1>8. ASSUME NEW t \in Tasks, Requeue(t)
      PROVE  Board!Next
  <2>1. UNCHANGED <<pc, job>>
    BY <1>8 DEF Requeue, locals
  <2>2. UNCHANGED Owner
    BY <1>2, <2>1, OwnerStays DEF Exclusive, Busy
  <2>3. Board!Reopen(t)
    BY <1>8, <2>2 DEF Requeue, Board!Reopen
  <2> QED BY <2>3 DEF Board!Next
<1>9. CASE \/ ListTaskLeases \/ UNCHANGED vars \/ \E t \in Tasks : Expire(t)
           \/ \E w \in Workers : AcquireNothing(w)
  <2>1. UNCHANGED <<pc, job, status>>
    BY <1>9 DEF ListTaskLeases, Expire, AcquireNothing, vars, locals
  <2>2. UNCHANGED Owner
    BY <1>2, <2>1, OwnerStays DEF Exclusive, Busy
  <2> QED BY <2>1, <2>2
<1>10. /\ \A w \in Workers, t \in Tasks : ~ RunDirectly(w, t)
       /\ \A t \in Tasks : ~ ExpireEarly(t)
  BY CoveredSteps DEF Covered, QueueInv
<1> QED BY <1>3, <1>4, <1>6, <1>7, <1>8, <1>9, <1>10 DEF Next

\* An execution in which every process at work has its lease is one of TaskBoard: a
\* task belongs to one worker at a time, only its owner moves it, along a valid
\* transition and in spite of the two halves of update_task_status, recovery hands
\* back only what nobody owns, and completed is final.  So the engine departs from
\* the board only after a run outlived its lease or took none.
THEOREM Implements == Spec /\ []LeaseHeld => ImplementsBoard
<1>1. ASSUME Init PROVE Board!Init
  <2>1. Owner = [t \in Tasks |-> None]
    BY <1>1 DEF Init, Owner, Busy
  <2> QED BY <1>1, <2>1 DEF Init, Board!Init
<1>2. TypeInv /\ LeaseHeld /\ LeaseHeld' /\ QueueInv /\ [Next]_vars => QueueInv'
  BY QueueInvStep
<1>3. Spec /\ []LeaseHeld => []QueueInv /\ []TypeInv
  BY <1>2, QueueInvInit, InitType, TypeStep, PTL DEF Spec
<1>4. TypeInv /\ LeaseHeld /\ LeaseHeld' /\ QueueInv /\ [Next]_vars
        => [Board!Next]_<<status, Owner>>
  BY BoardStep
<1> QED BY <1>1, <1>3, <1>4, PTL DEF Spec, ImplementsBoard, Board!Spec

\* Where the queue is used alone and no run outlives its lease, every execution is
\* one of TaskBoard: what the refinement checks on small instances.
COROLLARY QueueImplements == QueueOnly => (Spec => ImplementsBoard)
BY Implements, AlwaysHeld, PTL
=============================================================================
