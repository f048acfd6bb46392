------------------------- MODULE ControlPlaneProofs -------------------------
(***************************************************************************)
(* Theorems about ControlPlane, for any number of operators, supervisors,  *)
(* watches and lanes.                                                      *)
(***************************************************************************)
EXTENDS ControlPlane, FiniteSetTheorems, TLAPS

-----------------------------------------------------------------------------
(* Type correctness, and what each point of a method relies on.            *)

\* A process is in a method that its program point belongs to; only operators
\* switch the system on or off or thaw it; what it has read, and what it is about to
\* write, agree with the switch they are written with.
RegistersOf(p) ==
  /\ pc[p] = "read" => cmd[p] \in {"on", "off", "freeze", "thaw", "degrade", "heal",
                                   "stall", "resume"}
  /\ pc[p] = "reread" => cmd[p] = "resume"
  /\ pc[p] = "write" => cmd[p] \in {"on", "off", "freeze", "thaw", "degrade"}
  /\ pc[p] = "lane" => cmd[p] \in {"pause", "exhaust", "cooldown", "started", "defect",
                                   "unknown", "hang", "resume"}
  /\ pc[p] # "settle" => expected[p] = "off"
  /\ cmd[p] \in {"on", "off", "thaw"} => p \in Operators
  /\ pc[p] = "judge" => copy[p].switch
  /\ pc[p] = "write" /\ cmd[p] = "degrade" => copy[p].state # "frozen"
  /\ pc[p] \in {"judge", "settle"} => copy[p].state # "frozen"
  /\ Agrees(copy[p])
  /\ pc[p] = "settle" => Agrees([copy[p] EXCEPT !.state = expected[p]])

Registers == \A p \in Processes : RegistersOf(p)

\* The types of the registers that calls and returns change.
RegsOK ==
  /\ pc \in [Processes -> PC]
  /\ cmd \in [Processes -> Command]
  /\ target \in [Processes -> Lanes]
  /\ copy \in [Processes -> System]
  /\ expected \in [Processes -> GlobalState]
  /\ final \in [Processes -> BOOLEAN]

ControlInv == TypeOK /\ Agrees(system) /\ Registers

\* The initial state satisfies the invariant.
LEMMA ControlInit == Init => ControlInv
<1> SUFFICES ASSUME Init PROVE ControlInv
  OBVIOUS
<1> USE ControlAssumption DEF Init, Blank
<1>1. TypeOK
  BY DEF TypeOK, System, GlobalState, LaneState, PC, Command, Work
<1>2. Agrees(system) /\ Registers
  BY DEF Agrees, Registers, RegistersOf
<1> QED
  BY <1>1, <1>2 DEF ControlInv

\* The registers of a process that leaves its method's own part are in order.
LEMMA LeaveRegisters ==
  ASSUME ControlInv, NEW p \in Processes,
         NEW q \in {"idle", "list", "expire"}, NEW c \in {"status", "exhaust", "stall"},
         NEW f \in BOOLEAN, Leave(p, q, c, f)
  PROVE  RegsOK' /\ Registers'
<1> USE ControlAssumption DEF ControlInv, TypeOK, RegsOK, Leave, Goto, Blank
<1>1. RegsOK'
  BY DEF System, GlobalState, PC, Command
<1>2. Registers'
  BY DEF Registers, RegistersOf, Agrees
<1> QED
  BY <1>1, <1>2

\* So are those of a process that calls a method it may call.
LEMMA CallRegisters ==
  ASSUME ControlInv, NEW p \in Processes, NEW c \in Command, NEW l \in Lanes, Call(p, c, l),
         c \in {"on", "off", "thaw"} => p \in Operators
  PROVE  RegsOK' /\ Registers' /\ todo' = todo
<1> USE DEF ControlInv, TypeOK, RegsOK, Call, MayCall, Entry, Goto
<1>1. RegsOK'
  BY DEF System, GlobalState, PC, Command
<1>2. Registers'
  BY DEF Registers, RegistersOf, Agrees, Command
<1> QED
  BY <1>1, <1>2

\* Every method leaves by way of status, but for those that escalate.
LEMMA PastType ==
  ASSUME NEW c
  PROVE  Past(c) \in {"status", "exhaust", "stall"}
BY DEF Past, Escalating

\* A method that is over, or goes on to status() or _sync_global_state().
LEMMA ReturnRegisters ==
  ASSUME ControlInv, NEW p \in Processes, Status(p) \/ Idle(p) \/ Sync(p)
  PROVE  RegsOK' /\ Registers'
<1>1. PICK q \in {"idle", "list", "expire"}, c \in {"status", "exhaust", "stall"},
           f \in BOOLEAN : Leave(p, q, c, f)
  BY PastType DEF Status, Idle, Sync
<1> QED
  BY <1>1, LeaveRegisters

\* So are those of a process that ends a pass over the state.
LEMMA EndPassRegisters ==
  ASSUME ControlInv, NEW p \in Processes, NEW current \in System, Agrees(current),
         EndPass(p, current)
  PROVE  RegsOK' /\ Registers'
<1>1. CASE final[p]
  BY <1>1, LeaveRegisters DEF EndPass, Return, Idle
<1>2. CASE ~ final[p]
  <2> USE <1>2 DEF ControlInv, TypeOK, EndPass, Goto
  <2>1. RegsOK'
    BY DEF RegsOK, PC, GlobalState
  <2>2. Registers'
    BY DEF Registers, RegistersOf, Agrees
  <2> QED
    BY <2>1, <2>2
<1> QED
  BY <1>1, <1>2

\* Every step preserves the invariant.
LEMMA ControlStep == ControlInv /\ [Next]_vars => ControlInv'
<1> SUFFICES ASSUME ControlInv, [Next]_vars PROVE ControlInv'
  OBVIOUS
<1> USE ControlAssumption DEF ControlInv, TypeOK, System, GlobalState, LaneState, PC,
   Command, Work,
    Goto, rows, regs, bounds, Processes
<1>1. ASSUME NEW p \in Processes, ReadSystem(p) PROVE ControlInv'
  <2>1. CASE Status(p) \/ Idle(p) \/ Sync(p)
    <3>1. RegsOK' /\ Registers'
      BY <2>1, ReturnRegisters
    <3> QED
      BY <1>1, <3>1 DEF ReadSystem, RegsOK, Agrees
  <2>2. CASE /\ cmd[p] \in {"on", "off", "freeze", "thaw", "degrade", "resume"}
             /\ cmd[p] = "degrade" => system.state # "frozen"
             /\ copy' = [copy EXCEPT ![p] = system]
             /\ UNCHANGED <<cmd, target, expected, final>>
             /\ Goto(p, IF cmd[p] = "resume" THEN "reread" ELSE "write")
    <3>1. TypeOK' /\ Agrees(system)'
      BY <1>1, <2>2 DEF ReadSystem, Agrees
    <3>2. Registers'
      BY <1>1, <2>2 DEF ReadSystem, Registers, RegistersOf, Agrees
    <3> QED
      BY <3>1, <3>2
  <2> QED
    BY <1>1, <2>1, <2>2 DEF ReadSystem
<1>2. ASSUME NEW p \in Processes, RereadSwitch(p) PROVE ControlInv'
  BY <1>2 DEF RereadSwitch, Registers, RegistersOf, Agrees, Blank
<1>3. ASSUME NEW p \in Processes, WriteSystem(p) PROVE ControlInv'
  <2>1. cmd[p] \in {"on", "off", "freeze", "thaw", "degrade"} /\ Agrees(copy[p])
    BY <1>3 DEF WriteSystem, Registers, RegistersOf
  <2>2. system' \in System /\ Agrees(system')
    BY <1>3, <2>1 DEF WriteSystem, NewSystem, Agrees
  <2>3. CASE Sync(p) /\ UNCHANGED todo
    <3>1. RegsOK' /\ Registers'
      BY <2>3, ReturnRegisters
    <3> QED
      BY <1>3, <2>2, <2>3, <3>1 DEF WriteSystem, RegsOK
  <2>4. CASE /\ Goto(p, "lanes") /\ todo' = [todo EXCEPT ![p] = Lanes]
             /\ UNCHANGED <<cmd, target, copy, expected, final>>
    <3>1. Registers'
      BY <2>4, <1>3 DEF WriteSystem, Registers, RegistersOf
    <3> QED
      BY <1>3, <2>2, <2>4, <3>1 DEF WriteSystem
  <2> QED
    BY <1>3, <2>3, <2>4 DEF WriteSystem
<1>4. ASSUME NEW p \in Processes, WriteNextLane(p) PROVE ControlInv'
  <2>1. /\ lane' \in [Lanes -> LaneState] /\ elapsed' \subseteq Lanes
        /\ todo' \in [Processes -> SUBSET Lanes]
    BY <1>4 DEF WriteNextLane, SetLane
  <2>2. CASE Sync(p) \/ Status(p)
    <3>1. RegsOK' /\ Registers'
      BY <2>2, ReturnRegisters
    <3> QED
      BY <1>4, <2>1, <3>1 DEF WriteNextLane, RegsOK, Agrees
  <2>3. CASE UNCHANGED <<pc, cmd, target, copy, expected, final>>
    <3>1. Registers'
      BY <2>3 DEF Registers, RegistersOf
    <3> QED
      BY <1>4, <2>1, <2>3, <3>1 DEF WriteNextLane, Agrees
  <2> QED
    BY <1>4, <2>2, <2>3 DEF WriteNextLane
<1>5. ASSUME NEW p \in Processes, WriteLane(p) PROVE ControlInv'
  <2>1. cmd[p] \in {"pause", "exhaust", "cooldown", "started", "defect", "unknown", "hang",
                     "resume"}
    BY <1>5 DEF WriteLane, Registers, RegistersOf
  <2>2. lane' \in [Lanes -> LaneState] /\ elapsed' \subseteq Lanes
    BY <1>5, <2>1 DEF WriteLane, SetLane, LaneFor
  <2>3. CASE Sync(p) \/ Idle(p) \/ Status(p)
    <3>1. RegsOK' /\ Registers'
      BY <2>3, ReturnRegisters
    <3> QED
      BY <1>5, <2>2, <3>1 DEF WriteLane, RegsOK, Agrees
  <2>4. CASE /\ cmd' = [cmd EXCEPT ![p] = "degrade"] /\ Goto(p, "read")
             /\ UNCHANGED <<target, copy, expected, final>>
    <3>1. Registers'
      BY <1>5, <2>4 DEF WriteLane, Registers, RegistersOf
    <3> QED
      BY <1>5, <2>2, <2>4, <3>1 DEF WriteLane, Agrees
  <2> QED
    BY <1>5, <2>1, <2>3, <2>4 DEF WriteLane
<1>6. ASSUME NEW p \in Processes, ListLanes(p) PROVE ControlInv'
  BY <1>6 DEF ListLanes, Registers, RegistersOf, Agrees, Blank
<1>7. ASSUME NEW p \in Processes, ReadSwitch(p) PROVE ControlInv'
  BY <1>7 DEF ReadSwitch, Registers, RegistersOf, Agrees, Blank
<1>8. ASSUME NEW p \in Processes, Reopen(p) PROVE ControlInv'
  BY <1>8 DEF Reopen, SetLane, Leave, Registers, RegistersOf, Agrees, Blank
<1>9. ASSUME NEW p \in Processes, Reconcile(p) PROVE ControlInv'
  <2>1. CASE EndPass(p, system)
    <3>1. RegsOK' /\ Registers'
      BY <2>1, EndPassRegisters
    <3> QED
      BY <1>9, <3>1 DEF Reconcile, RegsOK, Agrees
  <2>2. CASE /\ Goto(p, IF system.switch THEN "judge" ELSE "settle")
             /\ copy' = [copy EXCEPT ![p] = system] /\ system.state # "frozen"
             /\ UNCHANGED <<cmd, target, expected, final>>
    <3>1. expected[p] = "off"
      BY <1>9 DEF Reconcile, Registers, RegistersOf
    <3>2. Registers'
      BY <1>9, <2>2, <3>1 DEF Reconcile, Registers, RegistersOf, Agrees
    <3> QED
      BY <1>9, <2>2, <3>2 DEF Reconcile, Agrees
  <2> QED
    BY <1>9, <2>1, <2>2 DEF Reconcile, Untouchable
<1>10. ASSUME NEW p \in Processes, JudgeLanes(p) PROVE ControlInv'
  BY <1>10 DEF JudgeLanes, Registers, RegistersOf, Agrees, Blank
<1>11. ASSUME NEW p \in Processes, Settle(p) PROVE ControlInv'
  <2> DEFINE new == [copy[p] EXCEPT !.state = expected[p]]
  <2>1. new \in System /\ Agrees(new)
    BY <1>11 DEF Settle, Registers, RegistersOf
  <2>2. RegsOK' /\ Registers'
    BY <1>11, <2>1, EndPassRegisters DEF Settle
  <2>3. system' \in System /\ Agrees(system')
    BY <1>11, <2>1 DEF Settle
  <2> QED
    BY <1>11, <2>2, <2>3 DEF Settle, RegsOK
<1>12. ASSUME NEW p \in Processes, Touch(p) PROVE ControlInv'
  BY <1>12 DEF Touch, Status, Leave, Past, Registers, RegistersOf, Agrees, Blank
<1>13. ASSUME NEW p \in Processes, CheckLane(p) PROVE ControlInv'
  BY <1>13 DEF CheckLane, Registers, RegistersOf, Agrees, Blank
<1>14. ASSUME NEW p \in Processes, CheckBudget(p) PROVE ControlInv'
  BY <1>14 DEF CheckBudget, Exhausted, Registers, RegistersOf, Agrees, Blank
<1>15. ASSUME NEW p \in Processes, Crash(p) PROVE ControlInv'
  BY <1>15 DEF Crash, Idle, Leave, Registers, RegistersOf, Agrees, Blank
<1>16. ASSUME NEW o \in Operators, OperatorCommand(o) PROVE ControlInv'
  <2>1. RegsOK' /\ Registers' /\ todo' = todo
    BY <1>16, CallRegisters DEF OperatorCommand
  <2> QED
    BY <1>16, <2>1 DEF OperatorCommand, RegsOK, Agrees
<1>17. ASSUME NEW s \in Supervisors, Poll(s) PROVE ControlInv'
  BY <1>17 DEF Poll, MayCall, Registers, RegistersOf, Agrees, Blank
<1>18. ASSUME NEW s \in Supervisors, Refuse(s) PROVE ControlInv'
  BY <1>18 DEF Refuse, Registers, RegistersOf, Agrees, Blank
<1>19. ASSUME NEW s \in Supervisors, TaskStarted(s) PROVE ControlInv'
  BY <1>19 DEF TaskStarted, Call, MayCall, Entry, Registers, RegistersOf, Agrees, Blank
<1>20. ASSUME NEW s \in Supervisors, RunCreated(s) PROVE ControlInv'
  <2>1. RegsOK' /\ Registers' /\ todo' = todo
    <3>1. CASE used + 1 > Limit
      BY <1>20, <3>1, CallRegisters DEF RunCreated
    <3>2. CASE ~ (used + 1 > Limit)
      BY <1>20, <3>2 DEF RunCreated, RegsOK, Registers, RegistersOf
    <3> QED
      BY <3>1, <3>2
  <2> QED
    BY <1>20, <2>1 DEF RunCreated, RegsOK, Agrees
<1>21. ASSUME NEW s \in Supervisors, RunEnded(s) PROVE ControlInv'
  BY <1>21 DEF RunEnded, Call, MayCall, Entry, Registers, RegistersOf, Agrees, Blank
<1>22. ASSUME NEW s \in Supervisors, RunDropped(s) PROVE ControlInv'
  BY <1>22 DEF RunDropped, Registers, RegistersOf, Agrees, Blank
<1>23. ASSUME NEW w \in Watches, WatchRecovers(w) PROVE ControlInv'
  <2>1. RegsOK' /\ Registers' /\ todo' = todo
    <3>1. CASE Call(w, "resume", "worker")
      BY <3>1, CallRegisters
    <3>2. CASE UNCHANGED <<pc, regs>>
      BY <3>2 DEF RegsOK, Registers, RegistersOf
    <3> QED
      BY <1>23, <3>1, <3>2 DEF WatchRecovers
  <2> QED
    BY <1>23, <2>1 DEF WatchRecovers, RegsOK, Agrees
<1>24. ASSUME NEW w \in Watches, WatchEvaluates(w) PROVE ControlInv'
  BY <1>24 DEF WatchEvaluates, Call, MayCall, Entry, Registers, RegistersOf, Agrees, Blank
<1>25. ASSUME NEW w \in Watches, WatchReports(w) PROVE ControlInv'
  BY <1>25 DEF WatchReports, Call, MayCall, Entry, Registers, RegistersOf, Agrees, Blank
<1>26. ASSUME NEW l \in Lanes, Elapse(l) PROVE ControlInv'
  BY <1>26 DEF Elapse, Registers, RegistersOf, Agrees, Blank
<1>27. CASE Age
  BY <1>27 DEF Age, Registers, RegistersOf, Agrees, Blank
<1>28. CASE UNCHANGED vars
  BY <1>28 DEF vars, Registers, RegistersOf, Agrees
<1> QED
  BY <1>1, <1>2, <1>3, <1>4, <1>5, <1>6, <1>7, <1>8, <1>9, <1>10, <1>11, <1>12, <1>13,
     <1>14, <1>15, <1>16, <1>17, <1>18, <1>19, <1>20, <1>21, <1>22, <1>23, <1>24, <1>25,
        <1>26, <1>27, <1>28 DEF Next, MethodStep, WatchStep

\* The invariant holds throughout.
LEMMA ControlInvariant == Spec => []ControlInv
BY ControlInit, ControlStep, PTL DEF Spec

\* Every row and register keeps its type.
THEOREM ControlTypes == Spec => []TypeOK
BY ControlInvariant, PTL DEF ControlInv

\* However the methods of any number of processes interleave, and wherever they
\* are killed, the global state agrees with the master switch: each of them
\* writes the state together with the switch it worked it out from.
THEOREM SwitchAgreement == Spec => []StateAgreesWithSwitch
BY ControlInvariant, PTL DEF ControlInv, StateAgreesWithSwitch

-----------------------------------------------------------------------------
(* What can end a freeze.                                                  *)

\* A step over a frozen row leaves it frozen, or lifts it the way it may be lifted.
Lifted == system'.state # "frozen" => \E p \in Processes : Lifts(p) \/ p \in Outdated

\* A process whose step reads no row that is not frozen is not outdated by it.
LEMMA StaysCurrent ==
  ASSUME ControlInv, NEW p \in Processes,
         \A q \in Processes : q # p => pc'[q] = pc[q] /\ copy'[q] = copy[q],
         \/ pc'[p] \notin {"write", "judge", "settle", "touch"}
         \/ copy'[p].state = "frozen"
         \/ p \in Outdated
  PROVE  Outdated' \subseteq Outdated
BY DEF Outdated

\* Nor is one that leaves its method's own part, or begins another.
LEMMA LeavesCurrent ==
  ASSUME ControlInv, NEW p \in Processes,
         \/ Status(p) \/ Idle(p) \/ Sync(p)
         \/ \E q \in {"idle", "list", "expire"} : \E c, f : Leave(p, q, c, f)
         \/ \E c, l : Call(p, c, l)
  PROVE  Outdated' \subseteq Outdated
<1>1. ASSUME NEW q \in {"idle", "list", "expire"}, NEW c, NEW f, Leave(p, q, c, f)
      PROVE  Outdated' \subseteq Outdated
  <2>1. /\ pc'[p] \notin {"write", "judge", "settle", "touch"}
        /\ \A r \in Processes : r # p => pc'[r] = pc[r] /\ copy'[r] = copy[r]
    BY <1>1 DEF ControlInv, TypeOK, Leave, Goto
  <2> QED
    BY <2>1, StaysCurrent
<1>2. ASSUME NEW c, NEW l, Call(p, c, l) PROVE Outdated' \subseteq Outdated
  <2>1. /\ pc'[p] \notin {"write", "judge", "settle", "touch"}
        /\ \A r \in Processes : r # p => pc'[r] = pc[r] /\ copy'[r] = copy[r]
    BY <1>2 DEF ControlInv, TypeOK, Call, Goto, Entry
  <2> QED
    BY <2>1, StaysCurrent
<1> QED
  BY <1>1, <1>2 DEF Status, Idle, Sync

\* What a pass over the state ends with outdates nobody, if it was frozen, or the
\* process was outdated before.
LEMMA EndsPassCurrent ==
  ASSUME ControlInv, NEW p \in Processes, NEW current, EndPass(p, current),
         current.state = "frozen" \/ p \in Outdated
  PROVE  Outdated' \subseteq Outdated
<1>1. CASE final[p]
  BY <1>1, LeavesCurrent DEF EndPass, Return, Idle
<1>2. CASE ~ final[p]
  BY <1>2, StaysCurrent DEF EndPass, Goto, ControlInv, TypeOK
<1> QED
  BY <1>1, <1>2

\* No step over a frozen row reads it to write it back unfrozen.
LEMMA OutdatedStep ==
  ASSUME ControlInv, [Next]_vars, system.state = "frozen"
  PROVE  Outdated' \subseteq Outdated
<1> USE ControlAssumption DEF Goto, rows, regs, bounds
<1>1. ASSUME NEW p \in Processes, ReadSystem(p) PROVE Outdated' \subseteq Outdated
  <2>1. CASE Status(p) \/ Idle(p) \/ Sync(p)
    BY <2>1, LeavesCurrent
  <2>2. CASE /\ Goto(p, IF cmd[p] = "resume" THEN "reread" ELSE "write")
             /\ copy' = [copy EXCEPT ![p] = system]
    BY <1>1, <2>2, StaysCurrent DEF ControlInv, TypeOK
  <2> QED
    BY <1>1, <2>1, <2>2 DEF ReadSystem
<1>2. ASSUME NEW p \in Processes, RereadSwitch(p) PROVE Outdated' \subseteq Outdated
  BY <1>2, StaysCurrent DEF RereadSwitch, ControlInv, TypeOK
<1>3. ASSUME NEW p \in Processes, WriteSystem(p) PROVE Outdated' \subseteq Outdated
  <2>1. CASE Sync(p)
    BY <2>1, LeavesCurrent
  <2>2. CASE Goto(p, "lanes") /\ UNCHANGED copy
    BY <2>2, StaysCurrent DEF ControlInv, TypeOK
  <2> QED
    BY <1>3, <2>1, <2>2 DEF WriteSystem
<1>4. ASSUME NEW p \in Processes, WriteNextLane(p) PROVE Outdated' \subseteq Outdated
  <2>1. CASE Status(p) \/ Sync(p)
    BY <2>1, LeavesCurrent
  <2>2. CASE UNCHANGED <<pc, copy>>
    BY <2>2 DEF Outdated
  <2> QED
    BY <1>4, <2>1, <2>2 DEF WriteNextLane
<1>5. ASSUME NEW p \in Processes, WriteLane(p) PROVE Outdated' \subseteq Outdated
  <2>1. CASE Sync(p) \/ Idle(p) \/ Status(p)
    BY <2>1, LeavesCurrent
  <2>2. CASE Goto(p, "read") /\ UNCHANGED copy
    BY <2>2, StaysCurrent DEF ControlInv, TypeOK
  <2> QED
    BY <1>5, <2>1, <2>2 DEF WriteLane
<1>6. ASSUME NEW p \in Processes, ListLanes(p) PROVE Outdated' \subseteq Outdated
  BY <1>6, StaysCurrent DEF ListLanes, ControlInv, TypeOK
<1>7. ASSUME NEW p \in Processes, ReadSwitch(p) PROVE Outdated' \subseteq Outdated
  BY <1>7, StaysCurrent DEF ReadSwitch, ControlInv, TypeOK
<1>8. ASSUME NEW p \in Processes, Reopen(p) PROVE Outdated' \subseteq Outdated
  BY <1>8, LeavesCurrent DEF Reopen
<1>9. ASSUME NEW p \in Processes, Reconcile(p) PROVE Outdated' \subseteq Outdated
  <2>1. EndPass(p, system)
    BY <1>9 DEF Reconcile, Untouchable
  <2> QED
    BY <2>1, EndsPassCurrent
<1>10. ASSUME NEW p \in Processes, JudgeLanes(p) PROVE Outdated' \subseteq Outdated
  <2>1. copy[p].state = "frozen" \/ p \in Outdated
    BY <1>10 DEF JudgeLanes, Outdated
  <2> QED
    BY <1>10, <2>1, StaysCurrent DEF JudgeLanes, ControlInv, TypeOK
<1>11. ASSUME NEW p \in Processes, Settle(p) PROVE Outdated' \subseteq Outdated
  <2>1. PICK new \in System : EndPass(p, new)
    BY <1>11 DEF Settle, ControlInv, TypeOK, System
  <2>2. p \in Outdated
    BY <1>11 DEF Settle, Outdated, ControlInv, Registers, RegistersOf
  <2> QED
    BY <2>1, <2>2, EndsPassCurrent
<1>12. ASSUME NEW p \in Processes, Touch(p) PROVE Outdated' \subseteq Outdated
  BY <1>12, LeavesCurrent DEF Touch
<1>13. ASSUME NEW p \in Processes, CheckLane(p) PROVE Outdated' \subseteq Outdated
  BY <1>13, StaysCurrent DEF CheckLane, ControlInv, TypeOK
<1>14. ASSUME NEW p \in Processes, CheckBudget(p) PROVE Outdated' \subseteq Outdated
  BY <1>14, StaysCurrent DEF CheckBudget, ControlInv, TypeOK
<1>15. ASSUME NEW p \in Processes, Crash(p) PROVE Outdated' \subseteq Outdated
  BY <1>15, LeavesCurrent DEF Crash
<1>16. ASSUME NEW o \in Operators, OperatorCommand(o) PROVE Outdated' \subseteq Outdated
  BY <1>16, LeavesCurrent DEF OperatorCommand, Processes
<1>17. ASSUME NEW s \in Supervisors, Poll(s) PROVE Outdated' \subseteq Outdated
  BY <1>17, StaysCurrent DEF Poll, Processes, ControlInv, TypeOK
<1>18. ASSUME NEW s \in Supervisors, TaskStarted(s) PROVE Outdated' \subseteq Outdated
  BY <1>18, LeavesCurrent DEF TaskStarted, Processes
<1>19. ASSUME NEW s \in Supervisors, RunCreated(s) PROVE Outdated' \subseteq Outdated
  <2>1. CASE Call(s, "status", "worker")
    BY <2>1, LeavesCurrent DEF Processes
  <2>2. CASE UNCHANGED <<pc, regs>>
    BY <2>2 DEF Outdated
  <2> QED
    BY <1>19, <2>1, <2>2 DEF RunCreated
<1>20. ASSUME NEW s \in Supervisors, RunEnded(s) PROVE Outdated' \subseteq Outdated
  BY <1>20, LeavesCurrent DEF RunEnded, Processes
<1>21. ASSUME NEW w \in Watches, WatchRecovers(w) PROVE Outdated' \subseteq Outdated
  <2>1. CASE Call(w, "resume", "worker")
    BY <2>1, LeavesCurrent DEF Processes
  <2>2. CASE UNCHANGED <<pc, regs>>
    BY <2>2 DEF Outdated
  <2> QED
    BY <1>21, <2>1, <2>2 DEF WatchRecovers
<1>22. ASSUME NEW w \in Watches, WatchEvaluates(w) PROVE Outdated' \subseteq Outdated
  BY <1>22, LeavesCurrent DEF WatchEvaluates, Processes
<1>23. ASSUME NEW w \in Watches, WatchReports(w) PROVE Outdated' \subseteq Outdated
  BY <1>23, LeavesCurrent DEF WatchReports, Processes
<1>24. CASE UNCHANGED <<pc, copy>>
  BY <1>24 DEF Outdated
<1>25. ASSUME NEW s \in Supervisors, Refuse(s) \/ RunDropped(s) PROVE UNCHANGED <<pc, copy>>
  BY <1>25 DEF Refuse, RunDropped
<1>26. ASSUME Age \/ (\E l \in Lanes : Elapse(l)) \/ UNCHANGED vars
       PROVE  UNCHANGED <<pc, copy>>
  BY <1>26 DEF Age, Elapse, vars
<1> QED
  BY <1>1, <1>2, <1>3, <1>4, <1>5, <1>6, <1>7, <1>8, <1>9, <1>10, <1>11, <1>12, <1>13,
     <1>14, <1>15, <1>16, <1>17, <1>18, <1>19, <1>20, <1>21, <1>22, <1>23, <1>24, <1>25,
     <1>26 DEF Next, MethodStep, WatchStep

\* A freeze is lifted by a command that is meant to, or by the write of a method that
\* read the row before it was frozen.
LEMMA LiftedStep ==
  ASSUME ControlInv, [Next]_vars, system.state = "frozen"
  PROVE  Lifted
<1> SUFFICES ASSUME system'.state # "frozen"
             PROVE  \E p \in Processes : Lifts(p) \/ p \in Outdated
  BY DEF Lifted
<1>1. PICK p \in Processes : WriteSystem(p) \/ Settle(p) \/ Touch(p)
  BY DEF Next, MethodStep, WatchStep, vars, rows, ReadSystem, RereadSwitch,
     WriteNextLane, WriteLane, ListLanes, ReadSwitch, Reopen, Reconcile, JudgeLanes,
     CheckLane, CheckBudget, Crash, OperatorCommand, Poll, Refuse, TaskStarted,
     RunCreated, RunEnded, RunDropped, WatchRecovers, WatchEvaluates, WatchReports,
     Elapse, Age
<1>2. CASE WriteSystem(p)
  <2>1. pc[p] = "write" /\ cmd[p] \in {"on", "off", "freeze", "thaw", "degrade"}
    BY <1>2 DEF WriteSystem, ControlInv, Registers, RegistersOf
  <2>2. cmd[p] # "freeze"
    BY <1>2, <2>1 DEF WriteSystem, NewSystem, ControlInv, TypeOK, System
  <2>3. CASE cmd[p] \in {"on", "off", "thaw"}
    BY <2>1, <2>3 DEF Lifts, ControlInv, Registers, RegistersOf
  <2>4. CASE cmd[p] = "degrade"
    BY <2>1, <2>4 DEF Outdated, ControlInv, Registers, RegistersOf
  <2> QED
    BY <2>1, <2>2, <2>3, <2>4
<1>3. CASE Settle(p)
  BY <1>3 DEF Settle, Outdated, ControlInv, Registers, RegistersOf
<1>4. CASE Touch(p)
  BY <1>4 DEF Touch, Outdated
<1> QED
  BY <1>1, <1>2, <1>3, <1>4

\* However many methods overlap: while the system is frozen nobody reads the row to
\* write it back unfrozen, so a freeze ends by on, off or thaw, or at the hands of a
\* method that was under way before it.
THEOREM FreezeEnds == Spec => FreezeHolds
<1>1. ControlInv /\ [Next]_vars =>
        [system.state = "frozen" =>
           /\ Outdated' \subseteq Outdated
           /\ system'.state # "frozen" =>
                \E p \in Processes : Lifts(p) \/ p \in Outdated]_vars
  BY OutdatedStep, LiftedStep DEF Lifted
<1> QED
  BY <1>1, ControlInvariant, PTL DEF Spec, FreezeHolds

-----------------------------------------------------------------------------
(* The budget.                                                             *)

\* The supervisors that have passed the check and not yet recorded their run.
Committed == {s \in Supervisors : work[s] \in {"admitted", "started"}}

BudgetInv == used + Cardinality(Committed) <= Limit + Cardinality(Supervisors)

Frees == used' <= used /\ Committed' \subseteq Committed

Records == \E s \in Committed : used' = used + 1 /\ Committed' = Committed \ {s}

\* A step records a committed run, frees what it may, or finds the budget open.
LEMMA BudgetStep ==
  ASSUME ControlInv, [Next]_vars
  PROVE  Frees \/ Records \/ used' <= Limit
<1> USE ControlAssumption DEF ControlInv, TypeOK, Frees, Committed, rows, Processes
<1>1. ASSUME NEW p \in Processes, ReadSystem(p) PROVE Frees \/ Records \/ used' <= Limit
  BY <1>1 DEF ReadSystem
<1>2. ASSUME NEW p \in Processes, RereadSwitch(p) PROVE Frees \/ Records \/ used' <= Limit
  BY <1>2 DEF RereadSwitch
<1>3. ASSUME NEW p \in Processes, WriteSystem(p) PROVE Frees \/ Records \/ used' <= Limit
  BY <1>3 DEF WriteSystem
<1>4. ASSUME NEW p \in Processes, WriteNextLane(p) PROVE Frees \/ Records \/ used' <= Limit
  BY <1>4 DEF WriteNextLane
<1>5. ASSUME NEW p \in Processes, WriteLane(p) PROVE Frees \/ Records \/ used' <= Limit
  BY <1>5 DEF WriteLane
<1>6. ASSUME NEW p \in Processes, ListLanes(p) PROVE Frees \/ Records \/ used' <= Limit
  BY <1>6 DEF ListLanes
<1>7. ASSUME NEW p \in Processes, ReadSwitch(p) PROVE Frees \/ Records \/ used' <= Limit
  BY <1>7 DEF ReadSwitch
<1>8. ASSUME NEW p \in Processes, Reopen(p) PROVE Frees \/ Records \/ used' <= Limit
  BY <1>8 DEF Reopen
<1>9. ASSUME NEW p \in Processes, Reconcile(p) PROVE Frees \/ Records \/ used' <= Limit
  BY <1>9 DEF Reconcile
<1>10. ASSUME NEW p \in Processes, JudgeLanes(p) PROVE Frees \/ Records \/ used' <= Limit
  BY <1>10 DEF JudgeLanes
<1>11. ASSUME NEW p \in Processes, Settle(p) PROVE Frees \/ Records \/ used' <= Limit
  BY <1>11 DEF Settle
<1>12. ASSUME NEW p \in Processes, Touch(p) PROVE Frees \/ Records \/ used' <= Limit
  BY <1>12 DEF Touch
<1>13. ASSUME NEW p \in Processes, CheckLane(p) PROVE Frees \/ Records \/ used' <= Limit
  BY <1>13 DEF CheckLane
<1>14. ASSUME NEW p \in Processes, CheckBudget(p) PROVE Frees \/ Records \/ used' <= Limit
  BY <1>14 DEF CheckBudget, Exhausted
<1>15. ASSUME NEW p \in Processes, Crash(p) PROVE Frees \/ Records \/ used' <= Limit
  BY <1>15 DEF Crash
<1>16. ASSUME NEW o \in Operators,
   OperatorCommand(o) PROVE Frees \/ Records \/ used' <= Limit
  BY <1>16 DEF OperatorCommand
<1>17. ASSUME NEW s \in Supervisors, Poll(s) PROVE Frees \/ Records \/ used' <= Limit
  BY <1>17 DEF Poll
<1>18. ASSUME NEW s \in Supervisors, Refuse(s) PROVE Frees \/ Records \/ used' <= Limit
  BY <1>18 DEF Refuse
<1>19. ASSUME NEW s \in Supervisors, TaskStarted(s) PROVE Frees \/ Records \/ used' <= Limit
  BY <1>19 DEF TaskStarted
<1>20. ASSUME NEW s \in Supervisors, RunCreated(s) PROVE Frees \/ Records \/ used' <= Limit
  BY <1>20 DEF RunCreated, Records
<1>21. ASSUME NEW s \in Supervisors, RunEnded(s) PROVE Frees \/ Records \/ used' <= Limit
  BY <1>21 DEF RunEnded
<1>22. ASSUME NEW s \in Supervisors, RunDropped(s) PROVE Frees \/ Records \/ used' <= Limit
  BY <1>22 DEF RunDropped
<1>23. ASSUME NEW w \in Watches, WatchRecovers(w) PROVE Frees \/ Records \/ used' <= Limit
  BY <1>23 DEF WatchRecovers
<1>24. ASSUME NEW w \in Watches, WatchEvaluates(w) PROVE Frees \/ Records \/ used' <= Limit
  BY <1>24 DEF WatchEvaluates
<1>25. ASSUME NEW w \in Watches, WatchReports(w) PROVE Frees \/ Records \/ used' <= Limit
  BY <1>25 DEF WatchReports
<1>26. ASSUME NEW l \in Lanes, Elapse(l) PROVE Frees \/ Records \/ used' <= Limit
  BY <1>26 DEF Elapse
<1>27. CASE Age
  BY <1>27 DEF Age
<1>28. CASE UNCHANGED vars
  BY <1>28 DEF vars
<1> QED
  BY <1>1, <1>2, <1>3, <1>4, <1>5, <1>6, <1>7, <1>8, <1>9, <1>10, <1>11, <1>12, <1>13,
     <1>14, <1>15, <1>16, <1>17, <1>18, <1>19, <1>20, <1>21, <1>22, <1>23, <1>24, <1>25,
        <1>26, <1>27, <1>28 DEF Next, MethodStep, WatchStep

\* The budget is overdrawn by at most one run per supervisor, however polls,
\* runs and the passing of time interleave.
THEOREM Overdraft == Spec => []BudgetBound
<1>1. Init => BudgetInv
  <2> SUFFICES ASSUME Init PROVE BudgetInv
    OBVIOUS
  <2>1. Committed = {}
    BY DEF Init, Committed, Processes
  <2> QED
    BY <2>1, FS_EmptySet, FS_CardinalityType, ControlAssumption DEF Init, BudgetInv
<1>2. ControlInv /\ BudgetInv /\ [Next]_vars => BudgetInv'
  <2> SUFFICES ASSUME ControlInv, BudgetInv, [Next]_vars PROVE BudgetInv'
    OBVIOUS
  <2>1. /\ IsFiniteSet(Committed) /\ IsFiniteSet(Committed')
        /\ Cardinality(Committed') <= Cardinality(Supervisors)
    BY FS_Subset, ControlAssumption DEF Committed
  <2>2. /\ Cardinality(Committed) \in Nat /\ Cardinality(Committed') \in Nat
        /\ Cardinality(Supervisors) \in Nat /\ Limit \in Nat
        /\ used \in Nat
    BY <2>1, FS_CardinalityType, ControlAssumption DEF ControlInv, TypeOK
  <2>3. used' \in Nat
    BY ControlStep DEF ControlInv, TypeOK
  <2>4. CASE Frees
    <3>1. Cardinality(Committed') <= Cardinality(Committed)
      BY <2>1, <2>4, FS_Subset DEF Frees
    <3> QED
      BY <2>2, <2>3, <2>4, <3>1 DEF Frees, BudgetInv
  <2>5. CASE Records
    <3>1. Cardinality(Committed') = Cardinality(Committed) - 1 /\ used' = used + 1
      BY <2>1, <2>5, FS_RemoveElement DEF Records
    <3> QED
      BY <2>2, <3>1 DEF BudgetInv
  <2>6. CASE used' <= Limit
    BY <2>1, <2>2, <2>3, <2>6 DEF BudgetInv
  <2> QED
    BY <2>4, <2>5, <2>6, BudgetStep
<1>3. ControlInv /\ BudgetInv => BudgetBound
  <2>1. IsFiniteSet(Committed)
    BY FS_Subset, ControlAssumption DEF Committed
  <2> QED
    BY <2>1, FS_CardinalityType, ControlAssumption DEF ControlInv, TypeOK, BudgetInv,
       BudgetBound
<1> QED
  BY <1>1, <1>2, <1>3, ControlInvariant, PTL DEF Spec

=============================================================================
