------------------------- MODULE TaskExecutionProofs -------------------------
(***************************************************************************)
(* Theorems about TaskExecution, for every number of workers, tasks and    *)
(* projects and every value of the bounds: that its state is well-formed;  *)
(* that only a lease's holder ends it before it expires and, where every   *)
(* run takes a lease that outlives it, a task has one worker at a time and *)
(* is completed once and for all; and that a finished task has a run that  *)
(* says why, for queue workers and lease-less callers together, crashes,   *)
(* early expiries and recoveries included.                                 *)
(***************************************************************************)
EXTENDS TaskExecution, SequenceTheorems, TLAPS

-----------------------------------------------------------------------------
(* The pure rules.                                                         *)

\* DefaultDecider always answers with one of the four actions.
LEMMA DecideType ==
  ASSUME NEW a, NEW n, NEW m, NEW b
  PROVE  Decide(a, n, m, b) \in DecisionAction
BY DEF Decide, DecisionAction

\* It fails a task only once the attempt budget is spent, and promotes only
\* acceptable work.
LEMMA DecideMeaning ==
  ASSUME NEW a, NEW n \in Nat, NEW m \in Nat, NEW b \in Nat
  PROVE  /\ Decide(a, n, m, b) = "fail" => n >= m
         /\ Decide(a, n, m, b) = "promote" => a.verdict = "acceptable"
BY DEF Decide, BudgetLeft

\* decide and its callers: the statuses that a decision leads to.
LEMMA OutcomeTypes ==
  ASSUME NEW a, NEW d \in DecisionAction
  PROVE  /\ FinalRunStatus(a, d) \in {"blocked", "completed", "failed"}
         /\ TaskStatusFor(d) \in TaskStatus
BY DEF FinalRunStatus, TaskStatusFor, DecisionAction, TaskStatus

-----------------------------------------------------------------------------
(* Type correctness.  TypeOK is not inductive: a step on a run is well     *)
(* typed only if the process knows which run it drives, and so on.         *)

\* The program points at which a process drives a run, and rewrites its row.
Driving == {"planning", "working", "validating", "analyzing", "deciding", "closing"}

Applying == {"apply", "applyRead", "applyWrite"}

\* The registers of a process hold what its program point relies on.
RegistersOf(w) ==
  /\ Busy(w) => job[w] \in Tasks
  /\ pc[w] \in Driving => cur[w] \in 1..Len(runs[job[w]])
  /\ pc[w] \in {"deciding", "closing"} => analysis[w] \in Analysis
  /\ pc[w] = "closing" => Run(w).decision \in DecisionAction
  /\ pc[w] \in Applying => want[w] \in TaskStatus

Registers == \A w \in Workers : RegistersOf(w)

TypeInv == TypeOK /\ Registers

\* Rows are appended or rewritten in place, and a decision is never unmade.
RowsKept ==
  /\ runs' \in [Tasks -> Seq(RunRecord)]
  /\ \A t \in Tasks : \A i \in 1..Len(runs[t]) :
       /\ i \in 1..Len(runs'[t])
       /\ runs[t][i].decision \in DecisionAction => runs'[t][i].decision \in DecisionAction

\* A worker that drives a run has a row of its task to write.
LEMMA RunType ==
  ASSUME TypeInv, NEW w \in Workers, pc[w] \in Driving
  PROVE  /\ job[w] \in Tasks
         /\ cur[w] \in 1..Len(runs[job[w]])
         /\ runs[job[w]] \in Seq(RunRecord)
         /\ Run(w) \in RunRecord
<1>1. job[w] \in Tasks
  BY DEF TypeInv, Registers, RegistersOf, Driving, Busy
<1>2. cur[w] \in 1..Len(runs[job[w]])
  BY DEF TypeInv, Registers, RegistersOf
<1>3. runs[job[w]] \in Seq(RunRecord)
  BY <1>1 DEF TypeInv, TypeOK
<1>4. Run(w) \in RunRecord
  BY <1>2, <1>3, ElementOfSeq DEF Run
<1> QED BY <1>1, <1>2, <1>3, <1>4

\* Rewriting the row of the run a process drives.
LEMMA SetRunRows ==
  ASSUME TypeInv, NEW w \in Workers, pc[w] \in Driving,
         NEW r \in RunRecord, SetRun(w, r)
  PROVE  /\ runs' \in [Tasks -> Seq(RunRecord)]
         /\ \A t \in Tasks : Len(runs'[t]) = Len(runs[t])
         /\ \A t \in Tasks : \A i \in 1..Len(runs[t]) :
              runs'[t][i] = IF t = job[w] /\ i = cur[w] THEN r ELSE runs[t][i]
<1>1. /\ job[w] \in Tasks
      /\ cur[w] \in 1..Len(runs[job[w]])
      /\ runs[job[w]] \in Seq(RunRecord)
  BY RunType
<1> DEFINE row == [runs[job[w]] EXCEPT ![cur[w]] = r]
<1>2. runs \in [Tasks -> Seq(RunRecord)]
  BY DEF TypeInv, TypeOK
<1>3. runs' = [runs EXCEPT ![job[w]] = row]
  BY DEF SetRun
<1>4. /\ row \in Seq(RunRecord)
      /\ Len(row) = Len(runs[job[w]])
      /\ \A i \in 1..Len(runs[job[w]]) :
           row[i] = IF i = cur[w] THEN r ELSE runs[job[w]][i]
  BY <1>1, ExceptSeq
<1> HIDE DEF row
<1> QED BY <1>1, <1>2, <1>3, <1>4

\* update_run writes the status and decision of one row.
LEMMA SetRunKeeps ==
  ASSUME TypeInv, NEW w \in Workers, pc[w] \in Driving,
         NEW r \in RunRecord, SetRun(w, r),
         Run(w).decision \in DecisionAction => r.decision \in DecisionAction
  PROVE  RowsKept
<1>1. /\ runs' \in [Tasks -> Seq(RunRecord)]
      /\ \A t \in Tasks : Len(runs'[t]) = Len(runs[t])
      /\ \A t \in Tasks : \A i \in 1..Len(runs[t]) :
           runs'[t][i] = IF t = job[w] /\ i = cur[w] THEN r ELSE runs[t][i]
  BY SetRunRows
<1>2. runs[job[w]][cur[w]].decision \in DecisionAction => r.decision \in DecisionAction
  BY DEF Run
<1> QED BY <1>1, <1>2 DEF RowsKept

\* Changing the status of a run leaves a run.
LEMMA MarkRunRows ==
  ASSUME TypeInv, NEW w \in Workers, pc[w] \in Driving,
         NEW s \in RunStatus, MarkRun(w, s)
  PROVE  /\ RowsKept
         /\ [Run(w) EXCEPT !.status = s] \in RunRecord
         /\ Run(w)' = [Run(w) EXCEPT !.status = s] \/ ~ UNCHANGED <<job, cur>>
<1> DEFINE r == [Run(w) EXCEPT !.status = s]
<1>1. r \in RunRecord /\ r.decision = Run(w).decision
  BY RunType DEF RunRecord
<1>2. SetRun(w, r)
  BY DEF MarkRun
<1> HIDE DEF r
<1>3. RowsKept
  BY <1>1, <1>2, SetRunKeeps
<1>4. UNCHANGED <<job, cur>> => Run(w)' = r
  BY <1>1, <1>2, SetRunRows, RunType DEF Run
<1> QED BY <1>1, <1>3, <1>4 DEF r

\* A step that touches no other process leaves its registers good.
LEMMA OthersRegisters ==
  ASSUME TypeInv, RowsKept, NEW w \in Workers, NEW v \in Workers, v # w,
         pc'[v] = pc[v], job'[v] = job[v], cur'[v] = cur[v],
         analysis'[v] = analysis[v], want'[v] = want[v]
  PROVE  RegistersOf(v)'
<1>1. RegistersOf(v)
  BY DEF TypeInv, Registers
<1> QED BY <1>1 DEF RegistersOf, RowsKept, Busy, Run, Driving

\* create_run adds a row, numbered one higher than the rows before it.
LEMMA CreateRunRows ==
  ASSUME TypeInv, NEW w \in Workers, CreateRun(w)
  PROVE  /\ RowsKept
         /\ job[w] \in Tasks
         /\ Len(runs'[job[w]]) = Len(runs[job[w]]) + 1
         /\ Len(runs[job[w]]) \in Nat
         /\ runs'[job[w]][Len(runs[job[w]]) + 1]
              = [attempt |-> attempt[w], status |-> "planning", decision |-> None]
         /\ \A t \in Tasks : \A i \in 1..Len(runs[t]) : runs'[t][i] = runs[t][i]
         /\ \A t \in Tasks : t # job[w] => runs'[t] = runs[t]
<1> DEFINE r == [attempt |-> attempt[w], status |-> "planning", decision |-> None]
<1>1. job[w] \in Tasks /\ runs \in [Tasks -> Seq(RunRecord)]
  BY DEF TypeInv, TypeOK, Registers, RegistersOf, CreateRun, Busy
<1>2. r \in RunRecord
  BY DEF TypeInv, TypeOK, RunRecord, RunStatus, InProgress
<1>3. runs' = [runs EXCEPT ![job[w]] = Append(runs[job[w]], r)]
  BY DEF CreateRun
<1> HIDE DEF r
<1>4. runs[job[w]] \in Seq(RunRecord) /\ Len(runs[job[w]]) \in Nat
  BY <1>1, LenProperties
<1>5. /\ Append(runs[job[w]], r) \in Seq(RunRecord)
      /\ Len(Append(runs[job[w]], r)) = Len(runs[job[w]]) + 1
      /\ \A i \in 1..Len(runs[job[w]]) : Append(runs[job[w]], r)[i] = runs[job[w]][i]
      /\ Append(runs[job[w]], r)[Len(runs[job[w]]) + 1] = r
  BY <1>2, <1>4, AppendProperties
<1>6. runs' \in [Tasks -> Seq(RunRecord)]
  BY <1>1, <1>3, <1>5
<1>7. \A t \in Tasks : \A i \in 1..Len(runs[t]) :
        i \in 1..Len(runs'[t]) /\ runs'[t][i] = runs[t][i]
  BY <1>1, <1>3, <1>4, <1>5
<1> QED BY <1>1, <1>3, <1>4, <1>5, <1>6, <1>7 DEF RowsKept, r

\* recover_stale_state writes nothing of a run but its status.
LEMMA RecoverRows ==
  ASSUME TypeInv, RecoverStaleState
  PROVE  /\ RowsKept
         /\ \A t \in Tasks : \A i \in 1..Len(runs[t]) :
              /\ runs'[t][i].attempt = runs[t][i].attempt
              /\ runs'[t][i].decision = runs[t][i].decision
              /\ \/ runs'[t][i].status = runs[t][i].status
                 \/ /\ Stale(t) /\ runs[t][i].status \in InProgress
                    /\ runs'[t][i].status = "failed"
         /\ \A t \in Tasks : Len(runs'[t]) = Len(runs[t])
<1> DEFINE row(t, i) == IF Stale(t) /\ runs[t][i].status \in InProgress
                        THEN [runs[t][i] EXCEPT !.status = "failed"]
                        ELSE runs[t][i]
<1>1. runs' = [t \in Tasks |-> [i \in 1..Len(runs[t]) |-> row(t, i)]]
  BY DEF RecoverStaleState
<1>2. ASSUME NEW t \in Tasks
      PROVE  /\ Len(runs[t]) \in Nat
             /\ \A i \in 1..Len(runs[t]) : runs[t][i] \in RunRecord
  BY ElementOfSeq, LenProperties DEF TypeInv, TypeOK
<1>3. ASSUME NEW t \in Tasks, NEW i \in 1..Len(runs[t])
      PROVE  /\ row(t, i) \in RunRecord
             /\ row(t, i).attempt = runs[t][i].attempt
             /\ row(t, i).decision = runs[t][i].decision
             /\ \/ row(t, i).status = runs[t][i].status
                \/ /\ Stale(t) /\ runs[t][i].status \in InProgress
                   /\ row(t, i).status = "failed"
  BY <1>2 DEF RunRecord, RunStatus
<1> HIDE DEF row
<1>4. ASSUME NEW t \in Tasks
      PROVE  /\ runs'[t] \in Seq(RunRecord)
             /\ Len(runs'[t]) = Len(runs[t])
             /\ \A i \in 1..Len(runs[t]) : runs'[t][i] = row(t, i)
  BY <1>1, <1>2, <1>3
<1>5. runs' \in [Tasks -> Seq(RunRecord)]
  BY <1>1, <1>4
<1>6. RowsKept
  BY <1>3, <1>4, <1>5 DEF RowsKept
<1> QED BY <1>3, <1>4, <1>6

\* Only process w moves: no other process changes its program point or registers.
OnlyMoves(w) ==
  \A v \in Workers \ {w} :
    /\ pc'[v] = pc[v] /\ job'[v] = job[v] /\ cur'[v] = cur[v]
    /\ analysis'[v] = analysis[v] /\ want'[v] = want[v]

\* What has to be shown of a step of one process.
LEMMA OneMoves ==
  ASSUME TypeInv, NEW w \in Workers, TypeOK', RowsKept, OnlyMoves(w), RegistersOf(w)'
  PROVE  TypeInv'
BY OthersRegisters DEF TypeInv, Registers, OnlyMoves

\* A fault within the bound.
LEMMA OneFault ==
  ASSUME TypeInv, faults < MaxFaults, faults' = faults + 1
  PROVE  faults' \in 0..MaxFaults
<1>1. MaxFaults \in Nat /\ faults \in 0..MaxFaults
  BY ConstantsAssumption DEF TypeInv, TypeOK
<1> QED BY <1>1

\* A command within the bound.
LEMMA OneCommand ==
  ASSUME TypeInv, commands < MaxCommands, commands' = commands + 1
  PROVE  commands' \in 0..MaxCommands
<1>1. MaxCommands \in Nat /\ commands \in 0..MaxCommands
  BY ConstantsAssumption DEF TypeInv, TypeOK
<1> QED BY <1>1

\* A step that writes no run keeps the rows.
LEMMA SameRows ==
  ASSUME TypeInv, UNCHANGED runs
  PROVE  RowsKept
BY DEF TypeInv, TypeOK, RowsKept

-----------------------------------------------------------------------------
(* Type correctness, action by action.                                     *)

\* The store starts without runs, leases and decisions.
LEMMA InitType == Init => TypeInv
<1> SUFFICES ASSUME Init PROVE TypeInv
  OBVIOUS
<1>1. TypeOK
  BY ConstantsAssumption DEF Init, TypeOK, TaskStatus, PC
<1>2. Registers
  BY DEF Init, Registers, RegistersOf, Busy, Driving, Applying
<1> QED BY <1>1, <1>2 DEF TypeInv

\* The queue.
LEMMA QueueType ==
  ASSUME TypeInv, NEW w \in Workers,
         \/ Acquire(w) \/ AcquireNothing(w) \/ Refuse(w) \/ Dispatch(w) \/ Release(w)
         \/ \E t \in Tasks : RunDirectly(w, t)
  PROVE  TypeInv'
<1> USE DEF TypeInv, TypeOK, Goto, Forget, OnlyMoves, budgets, store
<1>0. RowsKept
  BY SameRows DEF Acquire, AcquireNothing, Refuse, Dispatch, Release, RunDirectly
<1>1. Purged \in [Tasks -> Workers \cup {None}]
  BY DEF Purged
<1>2. CASE Acquire(w)
  <2>1. /\ leaseholder' \in [Tasks -> Workers \cup {None}]
        /\ job' \in [Workers -> Tasks \cup {None}]
        /\ \A v \in Workers \ {w} : job'[v] = job[v]
    BY <1>1, <1>2 DEF Acquire, Eligible
  <2>2. TypeOK' /\ OnlyMoves(w)
    BY <1>2, <2>1 DEF Acquire, PC
  <2>3. RegistersOf(w)'
    BY <1>2 DEF Acquire, Eligible, RegistersOf, Registers, Busy, Driving, Applying
  <2> QED BY <1>0, <2>2, <2>3, OneMoves
<1>3. CASE AcquireNothing(w)
  <2>1. TypeOK' /\ OnlyMoves(w)
    BY <1>1, <1>3, ConstantsAssumption DEF AcquireNothing, PC
  <2>2. RegistersOf(w)'
    BY <1>3 DEF AcquireNothing, RegistersOf, Registers, Busy, Driving, Applying
  <2> QED BY <1>0, <2>1, <2>2, OneMoves
<1>4. CASE Refuse(w)
  <2>1. job[w] \in Tasks
    BY <1>4 DEF Refuse, Registers, RegistersOf, Busy
  <2>2. TypeOK' /\ OnlyMoves(w)
    BY <1>1, <1>4, <2>1, ConstantsAssumption DEF Refuse, DropLease, PC
  <2>3. RegistersOf(w)'
    BY <1>4 DEF Refuse, RegistersOf, Registers, Busy, Driving, Applying
  <2> QED BY <1>0, <2>2, <2>3, OneMoves
<1>5. CASE Dispatch(w)
  <2>1. TypeOK' /\ OnlyMoves(w)
    BY <1>1, <1>5, ConstantsAssumption DEF Dispatch, PC
  <2>2. RegistersOf(w)'
    BY <1>5 DEF Dispatch, RegistersOf, Registers, Busy, Driving, Applying
  <2> QED BY <1>0, <2>1, <2>2, OneMoves
<1>6. CASE Release(w)
  <2>1. TypeOK' /\ OnlyMoves(w)
    BY <1>1, <1>6, ConstantsAssumption DEF Release, DropLease, PC
  <2>2. RegistersOf(w)'
    BY <1>6 DEF Release, RegistersOf, Registers, Busy, Driving, Applying
  <2> QED BY <1>0, <2>1, <2>2, OneMoves
<1>7. ASSUME NEW t \in Tasks, RunDirectly(w, t)  PROVE TypeInv'
  <2>1. commands' \in 0..MaxCommands
    BY <1>7, OneCommand DEF RunDirectly
  <2>2. TypeOK' /\ OnlyMoves(w)
    BY <1>7, <2>1 DEF RunDirectly, PC
  <2>3. RegistersOf(w)'
    BY <1>7 DEF RunDirectly, RegistersOf, Registers, Busy, Driving, Applying
  <2> QED BY <1>0, <2>2, <2>3, OneMoves
<1> QED BY <1>2, <1>3, <1>4, <1>5, <1>6, <1>7

\* The steps of a run before its outcome is known.
LEMMA RunStepType ==
  ASSUME TypeInv, NEW w \in Workers,
         \/ Sweep(w) \/ Begin(w) \/ CannotBegin(w) \/ Start(w) \/ NextAttempt(w) \/ CreateRun(w)
  PROVE  TypeInv'
<1> USE DEF TypeInv, TypeOK, Goto, OnlyMoves, budgets, store
<1>0. job[w] \in Tasks
  BY DEF Registers, RegistersOf, Busy, Sweep, Begin, CannotBegin, Start, NextAttempt, CreateRun
<1>1. CASE Begin(w)
  <2>1. TypeOK' /\ OnlyMoves(w) /\ RowsKept
    BY <1>0, <1>1, ConstantsAssumption, SameRows DEF Begin, PC, Running, TaskStatus
  <2>2. RegistersOf(w)'
    BY <1>0, <1>1 DEF Begin, RegistersOf, Registers, Busy, Driving, Applying
  <2> QED BY <2>1, <2>2, OneMoves
<1>2. CASE CannotBegin(w)
  <2>1. TypeOK' /\ OnlyMoves(w) /\ RowsKept
    BY <1>0, <1>2, ConstantsAssumption, SameRows DEF CannotBegin, PC, Running, TaskStatus
  <2>2. RegistersOf(w)'
    BY <1>0, <1>2 DEF CannotBegin, RegistersOf, Registers, Busy, Driving, Applying
  <2> QED BY <2>1, <2>2, OneMoves
<1>3. CASE Start(w)
  <2>1. TypeOK' /\ OnlyMoves(w) /\ RowsKept
    BY <1>0, <1>3, ConstantsAssumption, SameRows DEF Start, PC, Running, TaskStatus
  <2>2. RegistersOf(w)'
    BY <1>0, <1>3 DEF Start, RegistersOf, Registers, Busy, Driving, Applying
  <2> QED BY <2>1, <2>2, OneMoves
<1>4. CASE NextAttempt(w)
  <2> DEFINE rows == runs[job[w]]
  <2>1. \A i \in 1..Len(rows) : rows[i] \in RunRecord
    BY <1>0, ElementOfSeq
  <2>2. \A i \in 1..Len(rows) : rows[i].attempt \in Nat
    BY <2>1 DEF RunRecord
  <2>3. PICK m \in Nat : attempt' = [attempt EXCEPT ![w] = m + 1]
    BY <1>4, <2>2 DEF NextAttempt
  <2>4. TypeOK' /\ OnlyMoves(w) /\ RowsKept
    BY <1>4, <2>3, SameRows DEF NextAttempt, PC, Running
  <2>5. RegistersOf(w)'
    BY <1>0, <1>4 DEF NextAttempt, RegistersOf, Registers, Busy, Driving, Applying
  <2> QED BY <2>4, <2>5, OneMoves
<1>5. CASE CreateRun(w)
  <2> DEFINE n == Len(runs[job[w]])
  <2>1. n \in Nat /\ runs' \in [Tasks -> Seq(RunRecord)] /\ cur' = [cur EXCEPT ![w] = n + 1]
    BY <1>5, CreateRunRows DEF RowsKept, CreateRun
  <2> HIDE DEF n
  <2>2. TypeOK' /\ OnlyMoves(w)
    BY <1>5, <2>1 DEF CreateRun, PC, Running
  <2>3. RegistersOf(w)'
    BY <1>0, <1>5, CreateRunRows DEF CreateRun, RegistersOf, Busy, Driving, Applying
  <2> QED BY <1>5, <2>2, <2>3, CreateRunRows, OneMoves
<1>6. CASE Sweep(w)
  <2>1. TypeOK' /\ OnlyMoves(w) /\ RowsKept
    BY <1>0, <1>6, SameRows DEF Sweep, PC
  <2>2. RegistersOf(w)'
    BY <1>0, <1>6 DEF Sweep, RegistersOf, Registers, Busy, Driving, Applying
  <2> QED BY <2>1, <2>2, OneMoves
<1> QED BY <1>1, <1>2, <1>3, <1>4, <1>5, <1>6

\* The steps that rewrite the row of the run.
LEMMA RowStepType ==
  ASSUME TypeInv, NEW w \in Workers,
         \/ StartWorking(w) \/ StartValidating(w) \/ BackendsUnavailable(w)
         \/ StartAnalyzing(w) \/ StartDeciding(w) \/ RecordDecision(w) \/ CloseRun(w)
  PROVE  TypeInv'
<1> USE DEF TypeInv, TypeOK, Goto, OnlyMoves, budgets
<1>0. /\ pc[w] \in Driving
      /\ job[w] \in Tasks
      /\ Run(w) \in RunRecord
      /\ UNCHANGED job /\ UNCHANGED cur
  BY RunType DEF StartWorking, StartValidating, BackendsUnavailable, StartAnalyzing,
     StartDeciding, RecordDecision, CloseRun, Driving
<1>1. CASE StartWorking(w)
  <2>1. RowsKept
    BY <1>0, <1>1, MarkRunRows DEF StartWorking, RunStatus, InProgress
  <2>2. workspaces' \subseteq Tasks \X Nat
    BY <1>0, <1>1 DEF StartWorking
  <2>3. TypeOK' /\ OnlyMoves(w)
    BY <1>1, <2>1, <2>2 DEF StartWorking, PC, Running, RowsKept
  <2>4. RegistersOf(w)'
    BY <1>0, <1>1, <2>1 DEF StartWorking, RegistersOf, Registers, RowsKept, Busy, Driving, Applying,
       TaskStatus
  <2> QED BY <2>1, <2>3, <2>4, OneMoves
<1>2. CASE StartValidating(w)
  <2>1. RowsKept
    BY <1>0, <1>2, MarkRunRows DEF StartValidating, RunStatus, InProgress
  <2>2. TypeOK' /\ OnlyMoves(w)
    BY <1>2, <2>1 DEF StartValidating, PC, Running, RowsKept, TaskStatus
  <2>3. RegistersOf(w)'
    BY <1>0, <1>2, <2>1 DEF StartValidating, RegistersOf, Registers, RowsKept, Busy, Driving, Applying,
       TaskStatus
  <2> QED BY <2>1, <2>2, <2>3, OneMoves
<1>3. CASE BackendsUnavailable(w)
  <2>1. RowsKept
    BY <1>0, <1>3, MarkRunRows DEF BackendsUnavailable, RunStatus, InProgress
  <2>2. TypeOK' /\ OnlyMoves(w)
    <3>1. /\ pc' = [pc EXCEPT ![w] = "apply"] /\ want' = [want EXCEPT ![w] = "pending"]
          /\ UNCHANGED <<status, leaseholder, expired, workspaces, job, cur, attempt, analysis,
                         excluded, commands>>
      BY <1>3 DEF BackendsUnavailable
    <3>2. pc' \in [Workers -> PC] /\ faults' \in 0..MaxFaults
      BY <1>3, <3>1, OneFault DEF BackendsUnavailable, PC, Running
    <3>3. runs' \in [Tasks -> Seq(RunRecord)] /\ "pending" \in TaskStatus
      BY <2>1 DEF RowsKept, TaskStatus
    <3> QED
      BY <3>1, <3>2, <3>3
  <2>3. RegistersOf(w)'
    BY <1>0, <1>3, <2>1 DEF BackendsUnavailable, RegistersOf, Registers, RowsKept, Busy, Driving, Applying,
       TaskStatus
  <2> QED BY <2>1, <2>2, <2>3, OneMoves
<1>4. CASE StartAnalyzing(w)
  <2>1. RowsKept
    BY <1>0, <1>4, MarkRunRows DEF StartAnalyzing, RunStatus, InProgress
  <2>2. TypeOK' /\ OnlyMoves(w)
    BY <1>4, <2>1 DEF StartAnalyzing, PC, Running, RowsKept, TaskStatus
  <2>3. RegistersOf(w)'
    BY <1>0, <1>4, <2>1 DEF StartAnalyzing, RegistersOf, Registers, RowsKept, Busy, Driving, Applying,
       TaskStatus
  <2> QED BY <2>1, <2>2, <2>3, OneMoves
<1>5. CASE StartDeciding(w)
  <2>1. RowsKept
    BY <1>0, <1>5, MarkRunRows DEF StartDeciding, RunStatus, InProgress
  <2>2. TypeOK' /\ OnlyMoves(w)
    BY <1>5, <2>1 DEF StartDeciding, PC, Running, RowsKept, TaskStatus
  <2>3. RegistersOf(w)'
    BY <1>0, <1>5, <2>1 DEF StartDeciding, RegistersOf, Registers, RowsKept, Busy, Driving, Applying,
       TaskStatus
  <2> QED BY <2>1, <2>2, <2>3, OneMoves
<1>6. CASE RecordDecision(w)
  <2> DEFINE action == Decide(analysis[w], Run(w).attempt, MaxAttempts[job[w]],
                              MaxBranches[job[w]])
             r == [Run(w) EXCEPT !.decision = action]
  <2>1. action \in DecisionAction
    BY DecideType
  <2> HIDE DEF action
  <2>2. r \in RunRecord /\ r.decision = action
    BY <1>0, <2>1 DEF RunRecord
  <2>3. SetRun(w, r)
    BY <1>6 DEF RecordDecision, action
  <2> HIDE DEF r
  <2>4. RowsKept /\ Run(w)' = r
    BY <1>0, <2>1, <2>2, <2>3, SetRunKeeps, SetRunRows, RunType DEF Run
  <2>5. TypeOK' /\ OnlyMoves(w)
    BY <1>6, <2>4 DEF RecordDecision, PC, Running, RowsKept
  <2>6. RegistersOf(w)'
    BY <1>0, <1>6, <2>1, <2>2, <2>4 DEF RecordDecision, RegistersOf, Registers, RowsKept, Busy,
       Driving, Applying
  <2> QED BY <2>4, <2>5, <2>6, OneMoves
<1>7. CASE CloseRun(w)
  <2>1. Run(w).decision \in DecisionAction
    BY <1>7 DEF CloseRun, Registers, RegistersOf
  <2>2. /\ FinalRunStatus(analysis[w], Run(w).decision) \in RunStatus
        /\ TaskStatusFor(Run(w).decision) \in TaskStatus
    BY <2>1, OutcomeTypes DEF RunStatus
  <2>3. RowsKept
    BY <1>0, <1>7, <2>2, MarkRunRows DEF CloseRun
  <2>4. TypeOK' /\ OnlyMoves(w)
    BY <1>7, <2>2, <2>3 DEF CloseRun, PC, Running, RowsKept
  <2>5. RegistersOf(w)'
    BY <1>0, <1>7, <2>2, <2>3 DEF CloseRun, RegistersOf, Busy, Driving, Applying
  <2> QED BY <2>3, <2>4, <2>5, OneMoves
<1> QED BY <1>1, <1>2, <1>3, <1>4, <1>5, <1>6, <1>7

\* The steps that settle the task's status.
LEMMA StatusStepType ==
  ASSUME TypeInv, NEW w \in Workers,
         \/ Apply(w) \/ ApplyRead(w) \/ ApplyWrite(w) \/ Return(w) \/ Raise(w)
         \/ Rescue(w) \/ RescueRead(w) \/ RescueWrite(w)
  PROVE  TypeInv'
<1> USE DEF TypeInv, TypeOK, Goto, OnlyMoves, budgets, store
<1>0. job[w] \in Tasks /\ RowsKept
  BY SameRows DEF Registers, RegistersOf, Busy, Apply, ApplyRead, ApplyWrite, Return, Raise,
     Rescue, RescueRead, RescueWrite, Running, Rescuing
<1>1. CASE Apply(w)
  <2>1. TypeOK' /\ OnlyMoves(w)
    BY <1>0, <1>1, ConstantsAssumption DEF Apply, PC, Running, Rescuing, TaskStatus, Registers,
       RegistersOf, Applying
  <2>2. RegistersOf(w)'
    BY <1>0, <1>1 DEF Apply, RegistersOf, Registers, Busy, Driving, Applying
  <2> QED BY <1>0, <2>1, <2>2, OneMoves
<1>2. CASE ApplyRead(w)
  <2>1. TypeOK' /\ OnlyMoves(w)
    BY <1>0, <1>2, ConstantsAssumption DEF ApplyRead, PC, Running, Rescuing, TaskStatus, Registers,
       RegistersOf, Applying
  <2>2. RegistersOf(w)'
    BY <1>0, <1>2 DEF ApplyRead, RegistersOf, Registers, Busy, Driving, Applying
  <2> QED BY <1>0, <2>1, <2>2, OneMoves
<1>3. CASE ApplyWrite(w)
  <2>1. TypeOK' /\ OnlyMoves(w)
    BY <1>0, <1>3, ConstantsAssumption DEF ApplyWrite, PC, Running, Rescuing, TaskStatus, Registers,
       RegistersOf, Applying
  <2>2. RegistersOf(w)'
    BY <1>0, <1>3 DEF ApplyWrite, RegistersOf, Registers, Busy, Driving, Applying
  <2> QED BY <1>0, <2>1, <2>2, OneMoves
<1>4. CASE Return(w)
  <2>1. TypeOK' /\ OnlyMoves(w)
    BY <1>0, <1>4, ConstantsAssumption DEF Return, PC, Running, Rescuing, TaskStatus, Registers,
       RegistersOf, Applying
  <2>2. RegistersOf(w)'
    BY <1>0, <1>4 DEF Return, RegistersOf, Registers, Busy, Driving, Applying
  <2> QED BY <1>0, <2>1, <2>2, OneMoves
<1>5. CASE Raise(w)
  <2>1. pc' \in [Workers -> PC] /\ faults' \in 0..MaxFaults
    BY <1>5, OneFault DEF Raise, PC, Rescuing
  <2>2. TypeOK' /\ OnlyMoves(w)
    BY <1>5, <2>1 DEF Raise
  <2>3. RegistersOf(w)'
    BY <1>0, <1>5 DEF Raise, RegistersOf, Registers, Busy, Driving, Applying
  <2> QED BY <1>0, <2>2, <2>3, OneMoves
<1>6. CASE Rescue(w)
  <2>1. UNCHANGED <<store, job, cur, attempt, analysis, want, excluded, budgets>>
        /\ \E p \in {"rescueRead", "release"} : pc' = [pc EXCEPT ![w] = p]
    BY <1>6 DEF Rescue, Goto
  <2>2. pc' \in [Workers -> PC] /\ \A v \in Workers : v # w => pc'[v] = pc[v]
    BY <1>0, <2>1 DEF PC, Rescuing
  <2>3. TypeOK' /\ OnlyMoves(w)
    BY <1>0, <2>1, <2>2
  <2>4. RegistersOf(w)'
    BY <1>0, <1>6 DEF Rescue, RegistersOf, Registers, Busy, Driving, Applying
  <2> QED BY <1>0, <2>3, <2>4, OneMoves
<1>7. CASE RescueRead(w)
  <2>1. UNCHANGED <<store, job, cur, attempt, analysis, want, excluded, budgets>>
        /\ \E p \in {"rescueWrite", "release"} : pc' = [pc EXCEPT ![w] = p]
    BY <1>7 DEF RescueRead, Goto
  <2>2. pc' \in [Workers -> PC] /\ \A v \in Workers : v # w => pc'[v] = pc[v]
    BY <1>0, <2>1 DEF PC, Rescuing
  <2>3. TypeOK' /\ OnlyMoves(w)
    BY <1>0, <2>1, <2>2
  <2>4. RegistersOf(w)'
    BY <1>0, <1>7 DEF RescueRead, RegistersOf, Registers, Busy, Driving, Applying
  <2> QED BY <1>0, <2>3, <2>4, OneMoves
<1>8. CASE RescueWrite(w)
  <2>1. TypeOK' /\ OnlyMoves(w)
    BY <1>0, <1>8, ConstantsAssumption DEF RescueWrite, PC, Running, Rescuing, TaskStatus, Registers,
       RegistersOf, Applying
  <2>2. RegistersOf(w)'
    BY <1>0, <1>8 DEF RescueWrite, RegistersOf, Registers, Busy, Driving, Applying
  <2> QED BY <1>0, <2>1, <2>2, OneMoves
<1> QED BY <1>1, <1>2, <1>3, <1>4, <1>5, <1>6, <1>7, <1>8

\* recover_stale_state, and the processes that call it.
LEMMA RecoveryType ==
  ASSUME TypeInv, Recover \/ \E w \in Workers : Restart(w)
  PROVE  TypeInv'
<1>1. RecoverStaleState
  BY DEF Recover, Restart
<1>2. RowsKept
  BY <1>1, RecoverRows
<1>3. /\ status' \in [Tasks -> TaskStatus]
      /\ leaseholder' \in [Tasks -> Workers \cup {None}]
      /\ expired' \subseteq Tasks
  BY <1>1 DEF RecoverStaleState, Purged, TypeInv, TypeOK, TaskStatus
<1>4. CASE Recover
  <2>1. TypeOK'
    BY <1>2, <1>3, <1>4 DEF Recover, TypeInv, TypeOK, RowsKept, locals, budgets
  <2>2. Registers'
    BY <1>2, <1>4 DEF Recover, TypeInv, Registers, RegistersOf, RowsKept, Run, Busy, Driving,
       locals
  <2> QED BY <2>1, <2>2 DEF TypeInv
<1>5. ASSUME NEW w \in Workers, Restart(w)
      PROVE  TypeInv'
  <2>1. TypeOK' /\ OnlyMoves(w)
    BY <1>2, <1>3, <1>5 DEF Restart, TypeInv, TypeOK, RowsKept, OnlyMoves, Goto, PC, budgets
  <2>2. RegistersOf(w)'
    BY <1>5 DEF Restart, TypeInv, TypeOK, RegistersOf, Goto, Busy, Driving, Applying
  <2> QED BY <1>2, <2>1, <2>2, OneMoves
<1> QED BY <1>4, <1>5

\* Time, crashes and the operator.
LEMMA OutsideType ==
  ASSUME TypeInv,
         \/ \E w \in Workers : Crash(w)
         \/ \E t \in Tasks : Expire(t) \/ ExpireEarly(t) \/ Requeue(t)
         \/ ListTaskLeases
         \/ UNCHANGED vars
  PROVE  TypeInv'
<1> USE DEF TypeInv, TypeOK
<1>1. ASSUME NEW w \in Workers, Crash(w)
      PROVE  TypeInv'
  <2>1. faults' \in 0..MaxFaults
    BY <1>1, OneFault DEF Crash
  <2>2. TypeOK' /\ OnlyMoves(w) /\ RowsKept
    BY <1>1, <2>1, SameRows DEF Crash, Forget, Goto, PC, OnlyMoves, store
  <2>3. RegistersOf(w)'
    BY <1>1 DEF Crash, Goto, RegistersOf, Busy, Driving, Applying
  <2> QED BY <2>2, <2>3, OneMoves
<1>2. ASSUME NEW t \in Tasks, Expire(t) \/ ExpireEarly(t) \/ Requeue(t)
      PROVE  TypeInv'
  <2>1. faults' \in 0..MaxFaults /\ commands' \in 0..MaxCommands
    BY <1>2, OneFault, OneCommand DEF Expire, ExpireEarly, Requeue, budgets
  <2>2. TypeOK'
    BY <1>2, <2>1 DEF Expire, ExpireEarly, Requeue, TaskStatus, locals
  <2>3. Registers'
    BY <1>2 DEF Expire, ExpireEarly, Requeue, Registers, RegistersOf, Run, Busy, locals
  <2> QED BY <2>2, <2>3
<1>3. CASE ListTaskLeases
  <2>1. TypeOK'
    BY <1>3 DEF ListTaskLeases, Purged, locals, budgets
  <2>2. Registers'
    BY <1>3 DEF ListTaskLeases, Registers, RegistersOf, Run, Busy, locals
  <2> QED BY <2>1, <2>2
<1>4. CASE UNCHANGED vars
  BY <1>4 DEF vars, Registers, RegistersOf, Run, Busy
<1> QED BY <1>1, <1>2, <1>3, <1>4

\* TypeInv is inductive.
LEMMA TypeStep == TypeInv /\ [Next]_vars => TypeInv'
<1> SUFFICES ASSUME TypeInv, [Next]_vars PROVE TypeInv'
  OBVIOUS
<1>1. ASSUME NEW w \in Workers, Step(w)
      PROVE  TypeInv'
  BY <1>1, QueueType, RunStepType, RowStepType, StatusStepType DEF Step
<1> QED BY <1>1, QueueType, RowStepType, StatusStepType, RecoveryType, OutsideType DEF Next

\* Every value the harness stores or keeps has its type, in every reachable
\* state.
THEOREM TypeCorrect == Spec => []TypeOK
<1>1. Spec => []TypeInv
  BY InitType, TypeStep, PTL DEF Spec
<1>2. TypeInv => TypeOK
  BY DEF TypeInv
<1> QED BY <1>1, <1>2, PTL

-----------------------------------------------------------------------------
(* The steps that touch the leases and the statuses.                       *)

\* The steps of process w.
ByWorker(w) ==
  \/ Acquire(w) \/ AcquireNothing(w) \/ Refuse(w)
  \/ \E t \in Tasks : RunDirectly(w, t)
  \/ Step(w)
  \/ BackendsUnavailable(w) \/ Raise(w)
  \/ Crash(w) \/ Restart(w)

\* The fields of a worker are written by its own steps.
LEMMA WorkerSteps ==
  ASSUME [Next]_vars
  PROVE  (\E w \in Workers : ByWorker(w)) \/ UNCHANGED <<pc, job, cur, analysis, want>>
BY DEF Next, ByWorker, Expire, ExpireEarly, Requeue, ListTaskLeases, Recover, locals, vars

\* A process moves no other process.
LEMMA MovesOne ==
  ASSUME TypeInv, NEW w \in Workers, ByWorker(w)
  PROVE  OnlyMoves(w)
<1> USE DEF OnlyMoves, Goto, TypeInv, TypeOK, store
<1>1. CASE Dispatch(w) \/ Release(w) \/ Sweep(w) \/ Begin(w) \/ CannotBegin(w) \/ Start(w) \/ NextAttempt(w)
           \/ CreateRun(w)
  BY <1>1 DEF Dispatch, Release, Sweep, Begin, CannotBegin, Start, NextAttempt, CreateRun, Forget
<1>2. CASE StartWorking(w) \/ StartValidating(w) \/ StartAnalyzing(w) \/ StartDeciding(w)
  BY <1>2 DEF StartWorking, StartValidating, StartAnalyzing, StartDeciding
<1>3. CASE RecordDecision(w) \/ CloseRun(w) \/ BackendsUnavailable(w) \/ Raise(w)
  BY <1>3 DEF RecordDecision, CloseRun, BackendsUnavailable, Raise
<1>4. CASE Apply(w) \/ ApplyRead(w) \/ ApplyWrite(w) \/ Return(w)
  BY <1>4 DEF Apply, ApplyRead, ApplyWrite, Return
<1>5. CASE Rescue(w) \/ RescueRead(w) \/ RescueWrite(w)
  BY <1>5 DEF Rescue, RescueRead, RescueWrite
<1>6. CASE Acquire(w) \/ AcquireNothing(w) \/ Refuse(w) \/ Crash(w) \/ Restart(w)
  BY <1>6 DEF Acquire, AcquireNothing, Refuse, Crash, Restart, Forget
<1>7. CASE \E t \in Tasks : RunDirectly(w, t)
  BY <1>7 DEF RunDirectly
<1> QED BY <1>1, <1>2, <1>3, <1>4, <1>5, <1>6, <1>7 DEF ByWorker, Step

\* The steps that leave task_leases and the jobs of the busy processes alone.
NoLeaseStep(w) ==
  /\ UNCHANGED <<leaseholder, expired, job>>
  /\ Busy(w)
  /\ \A v \in Workers \ {w} : pc'[v] = pc[v]

\* Within run_once a worker writes no lease but in releasing its own.
LEMMA StepLeases ==
  ASSUME TypeInv, NEW w \in Workers, Step(w) \/ BackendsUnavailable(w) \/ Raise(w)
  PROVE  NoLeaseStep(w) \/ Release(w)
<1> USE DEF NoLeaseStep, Busy, Goto, TypeInv, TypeOK, store
<1>1. CASE Dispatch(w) \/ Sweep(w) \/ Begin(w) \/ CannotBegin(w) \/ Start(w) \/ NextAttempt(w) \/ CreateRun(w)
  BY <1>1 DEF Dispatch, Sweep, Begin, CannotBegin, Start, NextAttempt, CreateRun
<1>2. CASE StartWorking(w) \/ StartValidating(w) \/ StartAnalyzing(w) \/ StartDeciding(w)
  BY <1>2 DEF StartWorking, StartValidating, StartAnalyzing, StartDeciding
<1>3. CASE RecordDecision(w) \/ CloseRun(w) \/ BackendsUnavailable(w) \/ Raise(w)
  BY <1>3 DEF RecordDecision, CloseRun, BackendsUnavailable, Raise, Running, Rescuing
<1>4. CASE Apply(w) \/ ApplyRead(w) \/ ApplyWrite(w) \/ Return(w)
  BY <1>4 DEF Apply, ApplyRead, ApplyWrite, Return
<1>5. CASE Rescue(w) \/ RescueRead(w) \/ RescueWrite(w)
  BY <1>5 DEF Rescue, RescueRead, RescueWrite
<1> QED BY <1>1, <1>2, <1>3, <1>4, <1>5 DEF Step

\* Deleting the expired rows spares a lease that has not expired.
LEMMA PurgedSpares ==
  ASSUME NEW t \in Tasks, t \notin expired
  PROVE  Purged[t] = leaseholder[t]
BY DEF Purged

\* The absent owner of a lease row is none of the workers.
LEMMA NoneNoWorker == None \notin Workers /\ None \notin Tasks
BY ConstantsAssumption

\* The steps that end a lease that has not expired.
LEMMA HolderStep ==
  ASSUME TypeInv, [Next]_vars, NEW w \in Workers, NEW t \in Tasks,
         leaseholder[t] = w, t \notin expired, leaseholder'[t] # w
  PROVE  pc[w] \in {"leased", "release"} /\ pc'[w] = "idle"
<1>1. Purged[t] = w /\ w # None
  BY PurgedSpares, NoneNoWorker
<1>2. ASSUME NEW v \in Workers, Acquire(v)
      PROVE  FALSE
  BY <1>1, <1>2 DEF Acquire, Eligible, Purged
<1>3. ASSUME NEW v \in Workers, Refuse(v) \/ Release(v)
      PROVE  pc[w] \in {"leased", "release"} /\ pc'[w] = "idle"
  <2>1. DropLease(v)
    BY <1>3 DEF Refuse, Release
  <2>2. v = w
    BY <2>1 DEF DropLease
  <2> QED BY <1>3, <2>2 DEF Refuse, Release, Goto, TypeInv, TypeOK
<1>4. leaseholder' # Purged /\ ~ UNCHANGED leaseholder
  BY <1>1
<1>5. ASSUME NEW v \in Workers, Step(v) \/ BackendsUnavailable(v) \/ Raise(v)
      PROVE  Release(v)
  BY <1>4, <1>5, StepLeases DEF NoLeaseStep
<1>6. PICK v \in Workers : Refuse(v) \/ Release(v)
  <2>1. CASE \E v \in Workers : AcquireNothing(v) \/ Restart(v)
    BY <1>4, <2>1 DEF AcquireNothing, Restart, RecoverStaleState
  <2>2. CASE ListTaskLeases \/ Recover
    BY <1>4, <2>2 DEF ListTaskLeases, Recover, RecoverStaleState
  <2>3. CASE \E u \in Tasks : Expire(u) \/ ExpireEarly(u) \/ Requeue(u)
    BY <1>4, <2>3 DEF Expire, ExpireEarly, Requeue
  <2>4. CASE \E v \in Workers : Crash(v) \/ \E u \in Tasks : RunDirectly(v, u)
    BY <1>4, <2>4 DEF Crash, RunDirectly, store
  <2>5. CASE UNCHANGED vars
    BY <1>4, <2>5 DEF vars
  <2> QED BY <1>2, <1>5, <2>1, <2>2, <2>3, <2>4, <2>5 DEF Next
<1> QED BY <1>3, <1>6

\* A lease that has not expired is only ended by its holder, when the gates
\* refuse its task or process_next_task returns: release_task_lease and the
\* deletion of expired rows never take it from anyone else, whatever the
\* processes without leases do.
THEOREM HolderReleases == Spec => OnlyHolderReleases
<1>1. TypeInv /\ [Next]_vars =>
        [\A w \in Workers, t \in Tasks :
           leaseholder[t] = w /\ t \notin expired /\ leaseholder'[t] # w
             => pc[w] \in {"leased", "release"} /\ pc'[w] = "idle"]_vars
  BY HolderStep
<1>2. Spec => []TypeInv
  BY InitType, TypeStep, PTL DEF Spec
<1> QED BY <1>1, <1>2, PTL DEF Spec, OnlyHolderReleases

-----------------------------------------------------------------------------
(* The queue on its own: no process works without a lease, and every run   *)
(* ends before its lease does.                                             *)

QueueOnly == Direct = {} /\ LeaseOutlivesRun

\* A busy process holds the lease of its task, which has not expired.
LeaseHeld == \A w \in Workers : Busy(w) => leaseholder[job[w]] = w /\ job[w] \notin expired

\* One holder per lease makes one worker per task.
LEMMA HeldAlone == LeaseHeld => OneWorkerPerTask
BY DEF LeaseHeld, OneWorkerPerTask

\* acquire_task_lease and expiry: who works on a task of the queue keeps its lease.
LEMMA LeaseHeldStep ==
  ASSUME QueueOnly, TypeInv, LeaseHeld, [Next]_vars
  PROVE  LeaseHeld'
<1>1. \A w \in Workers : Busy(w) => job[w] \in Tasks /\ Purged[job[w]] = w
  BY PurgedSpares DEF TypeInv, Registers, RegistersOf, LeaseHeld
<1>2. ASSUME NEW v \in Workers, Acquire(v)
      PROVE  LeaseHeld'
  <2>1. PICK t \in Eligible(v) : /\ leaseholder' = [Purged EXCEPT ![t] = v]
                                /\ job' = [job EXCEPT ![v] = t]
    BY <1>2 DEF Acquire
  <2>2. t \in Tasks /\ Purged[t] = None
    BY DEF Eligible
  <2>3. expired' = {} /\ \A w \in Workers \ {v} : pc'[w] = pc[w]
    BY <1>2 DEF Acquire, Goto, TypeInv, TypeOK
  <2>4. \A u \in Tasks : leaseholder'[u] = IF u = t THEN v ELSE Purged[u]
    BY <2>1 DEF Purged
  <2>5. job'[v] = t /\ \A w \in Workers \ {v} : job'[w] = job[w]
    BY <2>1 DEF TypeInv, TypeOK
  <2>6. ASSUME NEW w \in Workers \ {v}, Busy(w)
        PROVE  leaseholder'[job[w]] = w
    <3>1. job[w] # t
      BY <1>1, <2>2, <2>6, NoneNoWorker
    <3> QED BY <1>1, <2>4, <2>6, <3>1
  <2> QED BY <2>2, <2>3, <2>4, <2>5, <2>6 DEF LeaseHeld, Busy
<1>3. ASSUME NEW v \in Workers, Refuse(v) \/ Release(v)
      PROVE  LeaseHeld'
  <2>1. DropLease(v)
    BY <1>3 DEF Refuse, Release, QueueOnly
  <2>2. \A t \in Tasks : leaseholder[t] # v => leaseholder'[t] = leaseholder[t]
    BY <2>1 DEF DropLease
  <2>3. /\ expired' \subseteq expired
        /\ ~ Busy(v)'
        /\ \A w \in Workers \ {v} : pc'[w] = pc[w] /\ job'[w] = job[w]
    BY <1>3, <2>1 DEF Refuse, Release, DropLease, Goto, Forget, Busy, TypeInv, TypeOK
  <2> QED BY <1>1, <2>2, <2>3 DEF LeaseHeld, Busy
<1>4. CASE /\ leaseholder' = Purged /\ expired' = {}
           /\ job' = job /\ \A w \in Workers : Busy(w)' => Busy(w)
  BY <1>1, <1>4 DEF LeaseHeld
<1>5. ASSUME NEW v \in Workers, NoLeaseStep(v)
      PROVE  LeaseHeld'
  BY <1>5 DEF LeaseHeld, NoLeaseStep, Busy
<1>6. ASSUME NEW t \in Tasks, Expire(t)
      PROVE  LeaseHeld'
  <2>1. \A w \in Workers : Busy(w) => job[w] # t
    BY <1>6 DEF Expire, HeldLive, LeaseHeld
  <2> QED BY <1>6, <2>1 DEF Expire, LeaseHeld, Busy, locals
<1>7. ASSUME NEW v \in Workers, Crash(v)
      PROVE  LeaseHeld'
  BY <1>7 DEF Crash, LeaseHeld, Busy, Goto, Forget, TypeInv, TypeOK, store
<1>8. CASE UNCHANGED <<leaseholder, expired, job, pc>>
  BY <1>8 DEF LeaseHeld, Busy
<1>9. ASSUME NEW v \in Workers, AcquireNothing(v) \/ Restart(v)
      PROVE  LeaseHeld'
  BY <1>4, <1>9 DEF AcquireNothing, Restart, RecoverStaleState, Busy, Goto, TypeInv, TypeOK
<1>10. CASE ListTaskLeases \/ Recover
  BY <1>4, <1>10 DEF ListTaskLeases, Recover, RecoverStaleState, Busy, locals
<1>11. ASSUME NEW t \in Tasks, ExpireEarly(t) \/ Requeue(t)
       PROVE  LeaseHeld'
  BY <1>8, <1>11 DEF ExpireEarly, Requeue, QueueOnly, locals
<1>12. \A v \in Workers, t \in Tasks : ~ RunDirectly(v, t)
  BY DEF RunDirectly, QueueOnly
<1> QED BY <1>2, <1>3, <1>5, <1>6, <1>7, <1>8, <1>9, <1>10, <1>11, <1>12, StepLeases
    DEF Next, vars

\* No two processes ever work on one task when the queue is used alone.
THEOREM OneWorker == QueueOnly => (Spec => []OneWorkerPerTask)
<1> SUFFICES ASSUME QueueOnly PROVE Spec => []OneWorkerPerTask
  OBVIOUS
<1>1. Init => LeaseHeld
  BY DEF Init, LeaseHeld, Busy
<1>2. TypeInv /\ LeaseHeld /\ [Next]_vars => LeaseHeld'
  BY LeaseHeldStep
<1>3. Spec => []LeaseHeld
  BY <1>1, <1>2, InitType, TypeStep, PTL DEF Spec
<1> QED BY <1>3, HeldAlone, PTL

-----------------------------------------------------------------------------
(* Completed is final.                                                     *)

\* A process about to write a status has made sure that it undoes no
\* completion; between its read and its write nobody else completes the task.
SafeWrite(w) ==
  /\ pc[w] \in {"start", "rescueWrite"} => status[job[w]] # "completed"
  /\ pc[w] = "applyWrite" => status[job[w]] # "completed" \/ want[w] = "completed"

SafeWrites == \A w \in Workers : SafeWrite(w)

Writes(w) == Start(w) \/ ApplyWrite(w) \/ RescueWrite(w)

\* The steps that change the status of a task.
LEMMA StatusSteps ==
  ASSUME TypeInv, [Next]_vars, NEW t \in Tasks, status'[t] # status[t]
  PROVE  \/ status'[t] = "pending" /\ status[t] # "completed"
         \/ \E w \in Workers : Writes(w) /\ job[w] = t
<1>1. ASSUME NEW w \in Workers, Step(w) PROVE Writes(w) /\ job[w] = t
  <2>1. Writes(w)
    BY <1>1 DEF Step, Dispatch, Release, Sweep, Begin, CannotBegin, NextAttempt, CreateRun,
       StartWorking, StartValidating, StartAnalyzing, StartDeciding, RecordDecision, CloseRun,
       Apply, ApplyRead, Return, Rescue, RescueRead, Writes, store
  <2> QED BY <2>1 DEF Writes, Start, ApplyWrite, RescueWrite, TypeInv, TypeOK
<1>2. ASSUME NEW u \in Tasks, Expire(u) \/ ExpireEarly(u) \/ Requeue(u)
      PROVE  status'[t] = "pending" /\ status[t] # "completed"
  BY <1>2 DEF Expire, ExpireEarly, Requeue, TypeInv, TypeOK
<1>3. ASSUME Recover \/ \E w \in Workers : Restart(w)
      PROVE  status'[t] = "pending" /\ status[t] # "completed"
  BY <1>3 DEF Recover, Restart, RecoverStaleState, Stranded, TypeInv, TypeOK
<1>4. ASSUME \E w \in Workers : \/ Acquire(w) \/ AcquireNothing(w) \/ Refuse(w)
                               \/ BackendsUnavailable(w) \/ Raise(w) \/ Crash(w)
                               \/ \E u \in Tasks : RunDirectly(w, u)
      PROVE  FALSE
  BY <1>4 DEF Acquire, AcquireNothing, Refuse, BackendsUnavailable, Raise, Crash, RunDirectly,
     store
<1> QED BY <1>1, <1>2, <1>3, <1>4 DEF Next, ListTaskLeases, vars

\* update_task_status: a completed task is not written back to another status.
LEMMA FinalStep ==
  ASSUME TypeInv, SafeWrites, [Next]_vars, NEW t \in Tasks, status[t] = "completed"
  PROVE  status'[t] = "completed"
<1> SUFFICES ASSUME status'[t] # status[t] PROVE FALSE
  OBVIOUS
<1>1. PICK w \in Workers : Writes(w) /\ job[w] = t
  BY StatusSteps
<1> QED BY <1>1 DEF Writes, Start, ApplyWrite, RescueWrite, SafeWrites, SafeWrite, TypeInv, TypeOK

\* A process that reaches a write has just read the status it relies on.
LEMMA OwnSafeWrite ==
  ASSUME TypeInv, NEW w \in Workers, Step(w) \/ BackendsUnavailable(w) \/ Raise(w)
  PROVE  SafeWrite(w)'
<1> USE DEF Goto, SafeWrite, TypeInv, TypeOK, store
<1>1. CASE Dispatch(w) \/ Release(w) \/ Sweep(w) \/ CannotBegin(w) \/ Start(w) \/ NextAttempt(w)
           \/ CreateRun(w)
  BY <1>1 DEF Dispatch, Release, Sweep, CannotBegin, Start, NextAttempt, CreateRun
<1>2. CASE StartWorking(w) \/ StartValidating(w) \/ StartAnalyzing(w) \/ StartDeciding(w)
  BY <1>2 DEF StartWorking, StartValidating, StartAnalyzing, StartDeciding
<1>3. CASE RecordDecision(w) \/ CloseRun(w) \/ BackendsUnavailable(w) \/ Raise(w)
  BY <1>3 DEF RecordDecision, CloseRun, BackendsUnavailable, Raise
<1>4. CASE Apply(w) \/ ApplyWrite(w) \/ Return(w) \/ Rescue(w) \/ RescueWrite(w)
  BY <1>4 DEF Apply, ApplyWrite, Return, Rescue, RescueWrite
<1>5. CASE Begin(w)
  BY <1>5 DEF Begin, TerminalTask
<1>6. CASE ApplyRead(w) \/ RescueRead(w)
  BY <1>6 DEF ApplyRead, RescueRead, MayTransition, ValidTaskTransitions
<1> QED BY <1>1, <1>2, <1>3, <1>4, <1>5, <1>6 DEF Step

\* What a worker is about to write is no return from a final status.
LEMMA SafeWritesStep ==
  ASSUME TypeInv, OneWorkerPerTask, SafeWrites, [Next]_vars
  PROVE  SafeWrites'
<1> SUFFICES ASSUME NEW w \in Workers PROVE SafeWrite(w)'
  BY DEF SafeWrites
<1>1. CASE Step(w) \/ BackendsUnavailable(w) \/ Raise(w)
  BY <1>1, OwnSafeWrite
<1>2. CASE pc'[w] \notin {"start", "rescueWrite", "applyWrite"}
  BY <1>2 DEF SafeWrite
<1>3. CASE pc'[w] = pc[w] /\ job'[w] = job[w] /\ want'[w] = want[w]
  <2> SUFFICES ASSUME pc[w] \in {"start", "rescueWrite", "applyWrite"} PROVE SafeWrite(w)'
    BY <1>2, <1>3
  <2>1. Busy(w) /\ job[w] \in Tasks
    BY DEF Busy, TypeInv, Registers, RegistersOf
  <2>2. ASSUME NEW v \in Workers, Writes(v)
        PROVE  job[v] # job[w]
    <3>1. v # w
      BY <1>3, <2>2 DEF Writes, Start, ApplyWrite, RescueWrite, Goto, TypeInv, TypeOK
    <3>2. Busy(v)
      BY <2>2 DEF Writes, Start, ApplyWrite, RescueWrite, Busy
    <3> QED BY <2>1, <3>1, <3>2 DEF OneWorkerPerTask
  <2>3. status'[job[w]] = status[job[w]] \/ status'[job[w]] = "pending"
    BY <2>1, <2>2, StatusSteps
  <2> QED BY <1>3, <2>3 DEF SafeWrite, SafeWrites
<1>4. CASE Acquire(w) \/ AcquireNothing(w) \/ Refuse(w) \/ Crash(w) \/ Restart(w)
           \/ \E t \in Tasks : RunDirectly(w, t)
  BY <1>2, <1>4 DEF Acquire, AcquireNothing, Refuse, Crash, Restart, RunDirectly, Goto, TypeInv,
     TypeOK
<1>5. CASE ByWorker(w)
  BY <1>1, <1>4, <1>5 DEF ByWorker
<1>6. ASSUME NEW v \in Workers \ {w}, ByWorker(v)
      PROVE  SafeWrite(w)'
  BY <1>3, <1>6, MovesOne DEF OnlyMoves
<1> QED BY <1>3, <1>5, <1>6, WorkerSteps

\* When the queue is used alone, a completed task stays completed: the two
\* halves of update_task_status are never split by another status change.
THEOREM CompletedForGood == QueueOnly => (Spec => CompletedIsFinal)
<1> SUFFICES ASSUME QueueOnly PROVE Spec => CompletedIsFinal
  OBVIOUS
<1>1. Init => SafeWrites
  BY DEF Init, SafeWrites, SafeWrite
<1>2. TypeInv /\ OneWorkerPerTask /\ SafeWrites /\ [Next]_vars => SafeWrites'
  BY SafeWritesStep
<1>3. Spec => []OneWorkerPerTask
  BY OneWorker
<1>4. Spec => []TypeInv
  BY InitType, TypeStep, PTL DEF Spec
<1>5. Spec => []SafeWrites
  BY <1>1, <1>2, <1>3, <1>4, PTL DEF Spec
<1>6. TypeInv /\ SafeWrites /\ [Next]_vars =>
        [\A t \in Tasks : status[t] = "completed" => status'[t] = "completed"]_vars
  BY FinalStep
<1> QED BY <1>4, <1>5, <1>6, PTL DEF Spec, CompletedIsFinal

-----------------------------------------------------------------------------
(* A finished task has a run that says why: OutcomeIsBacked.               *)

Promoted(t) ==
  \E i \in 1..Len(runs[t]) : runs[t][i].status = "completed" /\ runs[t][i].decision = "promote"

GivenUp(t) ==
  \E i \in 1..Len(runs[t]) :
    runs[t][i].decision = "fail" /\ runs[t][i].attempt >= MaxAttempts[t]

\* No two processes drive the same run.
OwnRuns ==
  \A v, w \in Workers :
    v # w /\ pc[v] \in Driving /\ pc[w] \in Driving /\ job[v] = job[w] => cur[v] # cur[w]

\* A run that is driven is unfinished, though recovery may have failed it, and
\* undecided until it is about to be closed; a decision to fail or to promote
\* has its reason.
DrivenRun(w) ==
  pc[w] \in Driving =>
    /\ Run(w).status \in InProgress \cup {"failed"}
    /\ pc[w] # "closing" => Run(w).decision = None
    /\ pc[w] = "closing" =>
         /\ Run(w).decision = "promote" => analysis[w].verdict = "acceptable"
         /\ Run(w).decision = "fail" => Run(w).attempt >= MaxAttempts[job[w]]

\* A process that asks for a final status has the run that backs it.
BackedWant(w) ==
  pc[w] \in Applying =>
    /\ want[w] = "completed" => Promoted(job[w])
    /\ want[w] = "failed" => GivenUp(job[w])

Backed ==
  /\ OwnRuns
  /\ \A w \in Workers : DrivenRun(w) /\ BackedWant(w)
  /\ OutcomeIsBacked

-----------------------------------------------------------------------------
(* What a step does to the rows of runs.                                   *)

\* The steps that rewrite the row of the run w drives.
RowStep(w) ==
  \/ StartWorking(w) \/ StartValidating(w) \/ BackendsUnavailable(w) \/ StartAnalyzing(w)
  \/ StartDeciding(w) \/ RecordDecision(w) \/ CloseRun(w)

\* The row w's step leaves.
NewRow(w, r) ==
  /\ pc[w] \in Driving /\ r \in RunRecord
  /\ UNCHANGED <<job, cur, status>>
  /\ SetRun(w, r)
  /\ r.attempt = Run(w).attempt
  /\ r.decision = Run(w).decision \/ RecordDecision(w)

\* A step of run_once that writes a run writes one row, the run it drives.
LEMMA RowStepRow ==
  ASSUME TypeInv, NEW w \in Workers, RowStep(w)
  PROVE  \E r : NewRow(w, r)
<1> DEFINE marked(s) == [Run(w) EXCEPT !.status = s]
<1>1. pc[w] \in Driving /\ UNCHANGED <<job, cur, status>>
  BY DEF RowStep, StartWorking, StartValidating, BackendsUnavailable, StartAnalyzing,
     StartDeciding, RecordDecision, CloseRun, Driving
<1>2. Run(w) \in RunRecord
  BY <1>1, RunType
<1>3. ASSUME NEW s \in RunStatus, MarkRun(w, s)
      PROVE  NewRow(w, marked(s))
  BY <1>1, <1>2, <1>3 DEF NewRow, MarkRun, RunRecord
<1>4. CASE RecordDecision(w)
  <2> DEFINE action == Decide(analysis[w], Run(w).attempt, MaxAttempts[job[w]],
                              MaxBranches[job[w]])
  <2>1. SetRun(w, [Run(w) EXCEPT !.decision = action]) /\ action \in DecisionAction
    BY <1>4, DecideType DEF RecordDecision
  <2> HIDE DEF action
  <2>2. NewRow(w, [Run(w) EXCEPT !.decision = action])
    BY <1>1, <1>2, <1>4, <2>1 DEF NewRow, RunRecord
  <2> QED BY <2>2
<1>5. CASE CloseRun(w)
  <2>1. Run(w).decision \in DecisionAction
    BY <1>5 DEF CloseRun, TypeInv, Registers, RegistersOf
  <2>2. FinalRunStatus(analysis[w], Run(w).decision) \in RunStatus
    BY <2>1, OutcomeTypes DEF RunStatus
  <2> QED BY <1>3, <1>5, <2>2 DEF CloseRun
<1>6. {"working", "validating", "blocked", "analyzing", "deciding"} \subseteq RunStatus
  BY DEF RunStatus, InProgress
<1> HIDE DEF marked
<1> QED BY <1>3, <1>4, <1>5, <1>6 DEF RowStep, StartWorking, StartValidating,
        BackendsUnavailable, StartAnalyzing, StartDeciding

\* The steps that leave the rows alone, and the rest.
LEMMA RunsSteps ==
  ASSUME [Next]_vars
  PROVE  \/ UNCHANGED runs
         \/ \E w \in Workers : RowStep(w) \/ CreateRun(w)
         \/ RecoverStaleState
<1>1. ASSUME NEW w \in Workers, Step(w)
      PROVE  UNCHANGED runs \/ RowStep(w) \/ CreateRun(w)
  BY <1>1 DEF Step, RowStep, Dispatch, Release, Sweep, Begin, CannotBegin, Start, NextAttempt, Apply,
     ApplyRead, ApplyWrite, Return, Rescue, RescueRead, RescueWrite, store
<1> QED BY <1>1 DEF Next, RowStep, Acquire, AcquireNothing, Refuse, RunDirectly, Raise, Crash,
        Restart, Expire, ExpireEarly, Requeue, ListTaskLeases, Recover, store, vars

\* The rows of RecordDecision and CloseRun, besides, are those of driven runs,
\* which back nothing yet.
LEMMA EvidenceKept ==
  ASSUME TypeInv, Backed, [Next]_vars, NEW t \in Tasks
  PROVE  /\ Promoted(t) => Promoted(t)'
         /\ GivenUp(t) => GivenUp(t)'
<1>1. CASE UNCHANGED runs
  BY <1>1 DEF Promoted, GivenUp
<1>2. ASSUME NEW w \in Workers, RowStep(w)
      PROVE  /\ Promoted(t) => Promoted(t)'
             /\ GivenUp(t) => GivenUp(t)'
  <2>1. PICK r : NewRow(w, r)
    BY <1>2, RowStepRow
  <2>2. /\ Len(runs'[t]) = Len(runs[t])
        /\ \A i \in 1..Len(runs[t]) :
             runs'[t][i] = IF t = job[w] /\ i = cur[w] THEN r ELSE runs[t][i]
    BY <2>1, SetRunRows DEF NewRow
  <2>3. Run(w).status # "completed"
    BY <2>1 DEF NewRow, Backed, DrivenRun, InProgress
  <2>4. Promoted(t) => Promoted(t)'
    BY <2>2, <2>3 DEF Promoted, Run
  <2>5. r.decision = Run(w).decision \/ Run(w).decision = None
    BY <2>1 DEF NewRow, RecordDecision, Backed, DrivenRun, Driving
  <2>6. GivenUp(t) => GivenUp(t)'
    BY <2>1, <2>2, <2>5, ConstantsAssumption DEF DecisionAction, GivenUp, Run, NewRow
  <2> QED BY <2>4, <2>6
<1>3. ASSUME NEW w \in Workers, CreateRun(w)
      PROVE  /\ Promoted(t) => Promoted(t)'
             /\ GivenUp(t) => GivenUp(t)'
  <2>1. \A i \in 1..Len(runs[t]) : i \in 1..Len(runs'[t]) /\ runs'[t][i] = runs[t][i]
    BY <1>3, CreateRunRows DEF RowsKept
  <2> QED BY <2>1 DEF Promoted, GivenUp
<1>4. CASE RecoverStaleState
  <2>1. /\ Len(runs'[t]) = Len(runs[t])
        /\ \A i \in 1..Len(runs[t]) :
             /\ runs'[t][i].attempt = runs[t][i].attempt
             /\ runs'[t][i].decision = runs[t][i].decision
             /\ runs[t][i].status = "completed" => runs'[t][i].status = "completed"
    BY <1>4, RecoverRows DEF InProgress
  <2> QED BY <2>1 DEF Promoted, GivenUp
<1> QED BY <1>1, <1>2, <1>3, <1>4, RunsSteps

-----------------------------------------------------------------------------
(* Backed is inductive, part by part.                                      *)

\* A process drives a run after it created one, or rewrote its row.
LEMMA ToDriving ==
  ASSUME TypeInv, NEW w \in Workers, ByWorker(w), pc'[w] \in Driving
  PROVE  CreateRun(w) \/ RowStep(w)
<1> USE DEF Goto, Driving, TypeInv, TypeOK
<1>1. ~ (Dispatch(w) \/ Release(w) \/ Sweep(w) \/ Begin(w) \/ CannotBegin(w) \/ Start(w) \/ NextAttempt(w))
  BY DEF Dispatch, Release, Sweep, Begin, CannotBegin, Start, NextAttempt
<1>2. ~ (Apply(w) \/ ApplyRead(w) \/ ApplyWrite(w) \/ Return(w) \/ Raise(w) \/ Rescue(w)
         \/ RescueRead(w) \/ RescueWrite(w))
  BY DEF Apply, ApplyRead, ApplyWrite, Return, Raise, Rescue, RescueRead, RescueWrite
<1>3. ~ (Acquire(w) \/ AcquireNothing(w) \/ Refuse(w) \/ Crash(w) \/ Restart(w)
         \/ \E t \in Tasks : RunDirectly(w, t))
  BY DEF Acquire, AcquireNothing, Refuse, Crash, Restart, RunDirectly
<1> QED BY <1>1, <1>2, <1>3 DEF ByWorker, Step, RowStep

\* Who drives a run drives one of its own task.
LEMMA OwnRunsStep ==
  ASSUME TypeInv, OwnRuns, [Next]_vars
  PROVE  OwnRuns'
<1>1. CASE UNCHANGED <<pc, job, cur, analysis, want>>
  BY <1>1 DEF OwnRuns
<1>2. ASSUME NEW w \in Workers, ByWorker(w)
      PROVE  OwnRuns'
  <2>1. OnlyMoves(w)
    BY <1>2, MovesOne
  <2>2. CASE pc'[w] \notin Driving
    BY <2>1, <2>2 DEF OwnRuns, OnlyMoves
  <2>3. CASE pc[w] \in Driving /\ UNCHANGED <<job, cur>>
    BY <2>1, <2>3 DEF OwnRuns, OnlyMoves
  <2>4. CASE CreateRun(w)
    <3>1. ASSUME NEW v \in Workers \ {w}, pc[v] \in Driving, job[v] = job[w]
          PROVE  cur[v] # cur'[w]
      <4>1. cur[v] \in 1..Len(runs[job[w]]) /\ Len(runs[job[w]]) \in Nat
        BY <2>4, <3>1, RunType, CreateRunRows
      <4>2. cur'[w] = Len(runs[job[w]]) + 1
        BY <2>4 DEF CreateRun, TypeInv, TypeOK
      <4> QED BY <4>1, <4>2
    <3>2. UNCHANGED job
      BY <2>4 DEF CreateRun
    <3> QED BY <2>1, <3>1, <3>2 DEF OwnRuns, OnlyMoves
  <2>5. CASE RowStep(w)
    BY <2>3, <2>5, RowStepRow DEF NewRow
  <2> QED BY <1>2, <2>2, <2>4, <2>5, ToDriving
<1> QED BY <1>1, <1>2, WorkerSteps

\* Nobody else disturbs the row of a run, except recovery, which fails it.
LEMMA OthersRun ==
  ASSUME TypeInv, OwnRuns, [Next]_vars, NEW w \in Workers, pc[w] \in Driving,
         pc'[w] = pc[w], job'[w] = job[w], cur'[w] = cur[w]
  PROVE  /\ Run(w)'.decision = Run(w).decision /\ Run(w)'.attempt = Run(w).attempt
         /\ Run(w)'.status \in {Run(w).status, "failed"}
         /\ RecoverStaleState \/ Run(w)' = Run(w)
<1>1. CASE UNCHANGED runs
  BY <1>1 DEF Run
<1>2. job[w] \in Tasks /\ cur[w] \in 1..Len(runs[job[w]])
  BY RunType
<1>3. ASSUME NEW v \in Workers, RowStep(v)
      PROVE  Run(w)' = Run(w)
  <2>1. v # w
    BY <1>3 DEF RowStep, StartWorking, StartValidating, BackendsUnavailable, StartAnalyzing,
       StartDeciding, RecordDecision, CloseRun, Goto, TypeInv, TypeOK
  <2>2. PICK r : NewRow(v, r)
    BY <1>3, RowStepRow
  <2>3. ~ (job[v] = job[w] /\ cur[v] = cur[w])
    BY <2>1, <2>2 DEF OwnRuns, NewRow
  <2> QED BY <1>2, <2>2, <2>3, SetRunRows DEF NewRow, Run
<1>4. ASSUME NEW v \in Workers, CreateRun(v)
      PROVE  Run(w)' = Run(w)
  <2>1. runs'[job[w]][cur[w]] = runs[job[w]][cur[w]]
    BY <1>2, <1>4, CreateRunRows
  <2> QED BY <2>1 DEF Run
<1>5. CASE RecoverStaleState
  BY <1>2, <1>5, RecoverRows DEF Run
<1> QED BY <1>1, <1>3, <1>4, <1>5, RunsSteps

\* The run being driven is at the stage its worker is at.
LEMMA DrivenRunStep ==
  ASSUME TypeInv, Backed, [Next]_vars, NEW w \in Workers
  PROVE  DrivenRun(w)'
<1> USE DEF Goto
<1>1. CASE pc'[w] \notin Driving
  BY <1>1 DEF DrivenRun
<1>2. CASE CreateRun(w)
  <2>1. Run(w)' = [attempt |-> attempt[w], status |-> "planning", decision |-> None]
    BY <1>2, CreateRunRows DEF CreateRun, Run, TypeInv, TypeOK
  <2>2. pc'[w] = "planning"
    BY <1>2 DEF CreateRun, TypeInv, TypeOK
  <2> QED BY <2>1, <2>2 DEF DrivenRun, InProgress
<1>3. ASSUME NEW s \in InProgress, MarkRun(w, s), UNCHANGED <<job, cur>>,
             pc[w] \in Driving \ {"closing"}, pc'[w] # "closing"
      PROVE  DrivenRun(w)'
  <2>1. Run(w)' = [Run(w) EXCEPT !.status = s] /\ Run(w) \in RunRecord
    BY <1>3, MarkRunRows, RunType DEF RunStatus
  <2>2. Run(w)'.status = s /\ Run(w)'.decision = Run(w).decision
    BY <2>1 DEF RunRecord
  <2> QED BY <1>3, <2>2 DEF DrivenRun, Backed
<1>4. CASE StartWorking(w) \/ StartValidating(w) \/ StartAnalyzing(w) \/ StartDeciding(w)
  BY <1>3, <1>4 DEF StartWorking, StartValidating, StartAnalyzing, StartDeciding, Driving,
     InProgress, TypeInv, TypeOK
<1>5. CASE BackendsUnavailable(w) \/ CloseRun(w)
  BY <1>1, <1>5 DEF BackendsUnavailable, CloseRun, Driving, TypeInv, TypeOK
<1>6. CASE RecordDecision(w)
  <2> DEFINE n == Run(w).attempt
             m == MaxAttempts[job[w]]
             action == Decide(analysis[w], n, m, MaxBranches[job[w]])
             r == [Run(w) EXCEPT !.decision = action]
  <2>1. /\ pc[w] \in Driving \ {"closing"} /\ pc'[w] = "closing"
        /\ SetRun(w, r)
        /\ UNCHANGED <<job, cur, analysis>>
    BY <1>6 DEF RecordDecision, Driving, TypeInv, TypeOK
  <2>2. job[w] \in Tasks /\ cur[w] \in 1..Len(runs[job[w]]) /\ Run(w) \in RunRecord
    BY <2>1, RunType
  <2>3. action \in DecisionAction
    BY DecideType
  <2>4. /\ action = "fail" => n >= m
        /\ action = "promote" => analysis[w].verdict = "acceptable"
    BY <2>2, DecideMeaning, ConstantsAssumption DEF RunRecord
  <2> HIDE DEF action
  <2>5. r \in RunRecord /\ r.decision = action /\ r.status = Run(w).status /\ r.attempt = n
    BY <2>2, <2>3 DEF RunRecord
  <2> HIDE DEF r
  <2>6. Run(w)' = r
    BY <2>1, <2>2, <2>5, SetRunRows DEF Run
  <2>7. r.status \in InProgress \cup {"failed"}
    BY <2>1, <2>5 DEF Backed, DrivenRun
  <2> QED BY <2>1, <2>4, <2>5, <2>6, <2>7 DEF DrivenRun
<1>7. CASE /\ pc'[w] = pc[w] /\ job'[w] = job[w] /\ cur'[w] = cur[w]
           /\ analysis'[w] = analysis[w] /\ pc[w] \in Driving
  <2>1. DrivenRun(w) /\ OwnRuns
    BY DEF Backed
  <2> QED BY <1>7, <2>1, OthersRun DEF DrivenRun
<1>8. CASE ByWorker(w)
  BY <1>1, <1>2, <1>4, <1>5, <1>6, <1>8, ToDriving DEF RowStep
<1>9. ASSUME NEW v \in Workers \ {w}, ByWorker(v)
      PROVE  DrivenRun(w)'
  BY <1>1, <1>7, <1>9, MovesOne DEF OnlyMoves
<1> QED BY <1>1, <1>7, <1>8, <1>9, WorkerSteps

\* A process comes to apply a status after it closed its run.
LEMMA ToApplying ==
  ASSUME TypeInv, NEW w \in Workers, ByWorker(w), pc'[w] \in Applying
  PROVE  \/ CloseRun(w) \/ BackendsUnavailable(w)
         \/ pc[w] \in Applying /\ UNCHANGED <<job, cur, want, runs, workspaces>>
<1> USE DEF Goto, Applying, TypeInv, TypeOK, store
<1>1. ~ (Dispatch(w) \/ Release(w) \/ Sweep(w) \/ Begin(w) \/ CannotBegin(w) \/ Start(w) \/ NextAttempt(w)
         \/ CreateRun(w))
  BY DEF Dispatch, Release, Sweep, Begin, CannotBegin, Start, NextAttempt, CreateRun
<1>2. ~ (StartWorking(w) \/ StartValidating(w) \/ StartAnalyzing(w) \/ StartDeciding(w)
         \/ RecordDecision(w))
  BY DEF StartWorking, StartValidating, StartAnalyzing, StartDeciding, RecordDecision
<1>3. ~ (ApplyWrite(w) \/ Return(w) \/ Raise(w) \/ Rescue(w) \/ RescueRead(w) \/ RescueWrite(w))
  BY DEF ApplyWrite, Return, Raise, Rescue, RescueRead, RescueWrite
<1>4. ~ (Acquire(w) \/ AcquireNothing(w) \/ Refuse(w) \/ Crash(w) \/ Restart(w)
         \/ \E t \in Tasks : RunDirectly(w, t))
  BY DEF Acquire, AcquireNothing, Refuse, Crash, Restart, RunDirectly
<1>5. Apply(w) \/ ApplyRead(w) =>
        pc[w] \in Applying /\ UNCHANGED <<job, cur, want, runs, workspaces>>
  BY DEF Apply, ApplyRead
<1> QED BY <1>1, <1>2, <1>3, <1>4, <1>5 DEF ByWorker, Step

\* The status a worker is about to write is backed by the decision of its run.
LEMMA BackedWantStep ==
  ASSUME TypeInv, Backed, [Next]_vars, NEW w \in Workers
  PROVE  BackedWant(w)'
<1>1. CASE pc'[w] \notin Applying
  BY <1>1 DEF BackedWant
<1>2. CASE pc[w] \in Applying /\ job'[w] = job[w] /\ want'[w] = want[w]
  <2>1. PICK t \in Tasks : t = job[w]
    BY <1>2 DEF Applying, Busy, TypeInv, Registers, RegistersOf
  <2>2. BackedWant(w)
    BY DEF Backed
  <2>3. /\ want[w] = "completed" => Promoted(t)'
        /\ want[w] = "failed" => GivenUp(t)'
    BY <1>2, <2>1, <2>2, EvidenceKept DEF BackedWant
  <2>4. /\ Promoted(t)' => Promoted(job[w])'
        /\ GivenUp(t)' => GivenUp(job[w])'
    BY <1>2, <2>1 DEF Promoted, GivenUp
  <2> QED BY <1>2, <2>3, <2>4 DEF BackedWant
<1>3. CASE BackendsUnavailable(w)
  BY <1>3 DEF BackendsUnavailable, BackedWant, TypeInv, TypeOK
<1>4. CASE CloseRun(w)
  <2> DEFINE d == Run(w).decision
             s == FinalRunStatus(analysis[w], d)
  <2>1. /\ pc[w] \in Driving /\ pc[w] = "closing" /\ MarkRun(w, s)
        /\ UNCHANGED <<job, cur>>
        /\ want'[w] = TaskStatusFor(d)
    BY <1>4 DEF CloseRun, Driving, TypeInv, TypeOK
  <2>2. d \in DecisionAction
    BY <2>1 DEF TypeInv, Registers, RegistersOf
  <2>3. s \in RunStatus
    BY <2>2, OutcomeTypes DEF RunStatus
  <2>4. /\ want'[w] = "completed" => d = "promote"
        /\ want'[w] = "failed" => d = "fail"
    BY <2>1, <2>2 DEF TaskStatusFor, DecisionAction
  <2>5. /\ d = "promote" => analysis[w].verdict = "acceptable"
        /\ d = "fail" => Run(w).attempt >= MaxAttempts[job[w]]
    BY <2>1 DEF Backed, DrivenRun
  <2>6. d = "promote" => s = "completed"
    BY <2>5 DEF FinalRunStatus
  <2> HIDE DEF s
  <2>7. Run(w)' = [Run(w) EXCEPT !.status = s] /\ Run(w) \in RunRecord /\ RowsKept
    BY <2>1, <2>3, MarkRunRows, RunType
  <2>8. Run(w)'.status = s /\ Run(w)'.decision = d /\ Run(w)'.attempt = Run(w).attempt
    BY <2>7 DEF RunRecord
  <2>9. job[w] \in Tasks /\ cur[w] \in 1..Len(runs'[job[w]])
    BY <2>1, <2>7, RunType DEF RowsKept
  <2>10. want'[w] = "completed" => Promoted(job[w])'
    BY <2>1, <2>4, <2>6, <2>8, <2>9 DEF Promoted, Run
  <2>11. want'[w] = "failed" => GivenUp(job[w])'
    BY <2>1, <2>4, <2>5, <2>8, <2>9 DEF GivenUp, Run
  <2> QED BY <2>1, <2>10, <2>11 DEF BackedWant
<1>5. CASE ByWorker(w)
  BY <1>1, <1>2, <1>3, <1>4, <1>5, ToApplying
<1>6. ASSUME NEW v \in Workers \ {w}, ByWorker(v)
      PROVE  BackedWant(w)'
  BY <1>1, <1>2, <1>6, MovesOne DEF OnlyMoves
<1> QED BY <1>1, <1>2, <1>5, <1>6, WorkerSteps

\* A finished task stays backed by a run that was promoted, or failed on its budget.
LEMMA OutcomeStep ==
  ASSUME TypeInv, Backed, [Next]_vars
  PROVE  OutcomeIsBacked'
<1> SUFFICES ASSUME NEW t \in Tasks
             PROVE  /\ status'[t] = "completed" => Promoted(t)'
                    /\ status'[t] = "failed" => GivenUp(t)'
  BY DEF OutcomeIsBacked, Promoted, GivenUp
<1>1. CASE status'[t] = status[t]
  BY <1>1, EvidenceKept DEF Backed, OutcomeIsBacked, Promoted, GivenUp
<1>2. ASSUME NEW w \in Workers, Writes(w), job[w] = t
      PROVE  /\ status'[t] = "completed" => Promoted(t)'
             /\ status'[t] = "failed" => GivenUp(t)'
  <2>1. CASE Start(w) \/ RescueWrite(w)
    BY <1>2, <2>1 DEF Start, RescueWrite, TypeInv, TypeOK
  <2>2. CASE ApplyWrite(w)
    <3>1. status'[t] = want[w] /\ pc[w] \in Applying
      BY <1>2, <2>2 DEF ApplyWrite, Applying, TypeInv, TypeOK
    <3> QED BY <1>2, <3>1, EvidenceKept DEF Backed, BackedWant
  <2> QED BY <1>2, <2>1, <2>2 DEF Writes
<1> QED BY <1>1, <1>2, StatusSteps

\* No task has an outcome before the first run.
LEMMA BackedInit == Init => Backed
BY DEF Init, Backed, OwnRuns, DrivenRun, BackedWant, OutcomeIsBacked, Driving, Applying

\* Every part of the invariant, over the steps of every worker and of recovery.
LEMMA BackedStep ==
  ASSUME TypeInv, Backed, [Next]_vars
  PROVE  Backed'
BY OwnRunsStep, DrivenRunStep, BackedWantStep, OutcomeStep DEF Backed

\* A completed task has a completed run decided "promote", a failed one a run
\* decided "fail" with its attempts spent.  No lease is needed: whoever writes
\* a final status has closed a run of its own with it, and neither recovery nor
\* another process touches a closed run.
THEOREM Outcome == Spec => []OutcomeIsBacked
<1>1. Init => Backed
  BY BackedInit
<1>2. TypeInv /\ Backed /\ [Next]_vars => Backed'
  BY BackedStep
<1>3. Spec => []TypeInv
  BY InitType, TypeStep, PTL DEF Spec
<1>4. Backed => OutcomeIsBacked
  BY DEF Backed
<1> QED BY <1>1, <1>2, <1>3, <1>4, PTL DEF Spec
=============================================================================
