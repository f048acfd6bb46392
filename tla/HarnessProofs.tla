---------------------------- MODULE HarnessProofs ----------------------------
(***************************************************************************)
(* Theorems about Harness, for any supervisors, launchers, loops, clerks,  *)
(* issues, tasks and scenes: that nudge-project waits for the supervisors  *)
(* it stops, and that an issue is imported at most once by each process.   *)
(***************************************************************************)
EXTENDS Harness, FiniteSetTheorems, TLAPS

-----------------------------------------------------------------------------
(* What the state is made of. *)

Booting == {"preflight", "turn_on", "record"}
Serving == LoopSteps \cup {"exit", "leave"}

Tasks ==
  [status : TaskStatus \cup {"absent"}, ref : Issues \cup {"none"},
   title : Proposals \cup {"none"}, amended : BOOLEAN, child : BOOLEAN,
   plan : {"none", "own", "given"}, meta : {"none", "open", "closed"}, lease : Pids \cup {0}]
Jobs ==
  [pc : {"idle", "create", "comment", "close", "record", "turn"}, how : {"none", "import", "sync"},
   issue : Issues \cup {"none"}, task : TaskIds \cup {0}, status : TaskStatus \cup {"absent", "none"}]
Gates == [val : {"none", "up", "down"}, fresh : BOOLEAN, backoff : BOOLEAN]
Loops ==
  [pc : {"off"} \cup Booting \cup Serving, watch : BOOLEAN, signals : Nat, due : SUBSET Projects,
   beats : SUBSET Projects, fails : [Projects -> Nat], disabled : SUBSET Projects,
   todo : SUBSET Proposals, tried : SUBSET (TaskIds \cup {0}), done : Nat, cur : TaskIds \cup {0},
   gate : Gates]
Files ==
  [stop : BOOLEAN, records : SUBSET Sups, desired : BOOLEAN, runtime : Nat,
   launch : [by : Nat, pid : Nat, old : BOOLEAN], wanted : BOOLEAN]
Drains ==
  [pc : {"select", "mark", "decide", "run", "read", "apply", "complete", "failed"},
   item : RunIds \cup {0}, action : DecisionAction \cup {"none"}, count : Nat]

IntakeTypes ==
  /\ scene \in SceneRecords
  /\ task \in [TaskIds -> Tasks]
  /\ issue \in [Issues -> [state : {"open", "closed"}, comments : Nat]]
  /\ clerk \in [Clerks -> Jobs]

\* A drainer that has decided has an action.
DrainTypes ==
  /\ drain \in [Pids -> Drains]
  /\ \A p \in Pids : drain[p].pc \in {"run", "read", "apply"} => drain[p].action # "none"

ProcessTypes ==
  /\ sv \in [Pids -> Loops]
  /\ file \in Files
  /\ llm \in {"up", "down"}
  /\ nudge \in [pc : {"idle", "wait", "beat", "process", "restart"}, matched : SUBSET Sups,
                again : SUBSET Sups]
  /\ stack \in [pc : {"idle", "term", "wait"}, kill : SUBSET Sups]
  /\ launcher \in [Launchers -> [pc : {"off", "adopt", "runtime", "launch", "acquire", "again",
                                       "spawn", "write"},
                                 kill : SUBSET Children, child : Nat]]

Types == IntakeTypes /\ DrainTypes /\ ProcessTypes

-----------------------------------------------------------------------------
(* The operators of the model. *)

\* The least of some naturals is one of them: every process takes the first free number.
LEMMA MinIs == ASSUME NEW S \in SUBSET Nat, S # {} PROVE Min(S) \in S
<1> DEFINE Below(n) == 0..n
           F == {Below(n) : n \in S}
           R == StrictSubsetOrdering(Nat)
<1>1. F \subseteq FiniteSubsetsOf(Nat) /\ F # {}
  <2>1. \A n \in Nat : 0..n \in SUBSET Nat /\ IsFiniteSet(0..n)
    BY FS_Interval
  <2> QED
    BY <2>1 DEF FiniteSubsetsOf
<1>2. IsWellFoundedOn(R, FiniteSubsetsOf(Nat))
  BY FS_StrictSubsetOrderingWellFounded
<1>3. \E x \in F : \A y \in F : ~(<<y, x>> \in R)
  <2> HIDE DEF F, R
  <2> QED
    BY <1>1, <1>2, WFMin
<1>4. PICK n \in S : \A m \in S : ~(<<0..m, 0..n>> \in R)
  BY <1>3
<1>5. \A m \in S : n <= m
  <2>1. SUFFICES ASSUME NEW m \in S, m < n PROVE FALSE
    OBVIOUS
  <2>2. 0..m \subseteq 0..n /\ 0..m # 0..n /\ {0..m, 0..n} \subseteq SUBSET Nat
    <3>1. n \in 0..n /\ n \notin 0..m
      BY <2>1
    <3> QED
      BY <2>1, <3>1
  <2>3. <<0..m, 0..n>> \in R
    BY <2>2 DEF StrictSubsetOrdering
  <2> QED
    BY <1>4, <2>3
<1> QED
  BY <1>5 DEF Min

\* A finite set cannot have more elements than one that has all of them.
LEMMA FewerThan ==
  ASSUME NEW S, NEW T \in SUBSET S, IsFiniteSet(S)
  PROVE  /\ IsFiniteSet(T) /\ Cardinality(T) <= Cardinality(S)
         /\ Cardinality(T) \in Nat /\ Cardinality(S) \in Nat
BY FS_Subset, FS_CardinalityType

\* One element adds at most one.
LEMMA AddOne ==
  ASSUME NEW S, NEW x, IsFiniteSet(S)
  PROVE  /\ IsFiniteSet(S \cup {x}) /\ Cardinality(S \cup {x}) <= Cardinality(S) + 1
         /\ Cardinality(S \cup {x}) \in Nat
<1>1. IsFiniteSet(S \cup {x}) /\ Cardinality(S) \in Nat
  BY FS_AddElement, FS_CardinalityType
<1>2. Cardinality(S \cup {x}) = IF x \in S THEN Cardinality(S) ELSE Cardinality(S) + 1
  BY FS_AddElement
<1> QED
  BY <1>1, <1>2

\* No issue and no proposal is taken for the absence of one.
LEMMA NotNone == "none" \notin Issues /\ "none" \notin Proposals
BY IntakeAssumption

\* nudge-project has a pid of its own, and pids are numbers other than 0.
LEMMA PidsAre == /\ Nudger \in Pids /\ Nudger \notin Sups /\ Sups \subseteq Pids
                 /\ Sups \subseteq Nat \ {0} /\ Children \subseteq Nat /\ Launchers \subseteq Nat
BY ProcessAssumption DEF Pids

\* A command or a fault less changes nobody's presence.
LEMMA SpendIs ==
  ASSUME scene \in SceneRecords,
         NEW field \in {"commands", "faults", "outages", "upkeep", "giveups", "errands"},
         Spend(field)
  PROVE  /\ scene' \in SceneRecords /\ scene'.actors = scene.actors
         /\ scene'.proposals = scene.proposals /\ scene'.beats = scene.beats
<1> DEFINE Less(f) == scene[f] > 0 /\ scene' = [scene EXCEPT ![f] = @ - 1]
<1>1. Less(field)
  BY DEF Spend
<1>2. CASE field = "commands"
  <2>1. scene.commands > 0 /\ scene' = [scene EXCEPT !.commands = @ - 1]
    BY <1>1, <1>2
  <2> QED
    BY <2>1, SMTT(60) DEF SceneRecords
<1>3. CASE field = "faults"
  <2>1. scene.faults > 0 /\ scene' = [scene EXCEPT !.faults = @ - 1]
    BY <1>1, <1>3
  <2> QED
    BY <2>1, SMTT(60) DEF SceneRecords
<1>4. CASE field = "outages"
  <2>1. scene.outages > 0 /\ scene' = [scene EXCEPT !.outages = @ - 1]
    BY <1>1, <1>4
  <2> QED
    BY <2>1, SMTT(60) DEF SceneRecords
<1>5. CASE field = "upkeep"
  <2>1. scene.upkeep > 0 /\ scene' = [scene EXCEPT !.upkeep = @ - 1]
    BY <1>1, <1>5
  <2> QED
    BY <2>1, SMTT(60) DEF SceneRecords
<1>6. CASE field = "giveups"
  <2>1. scene.giveups > 0 /\ scene' = [scene EXCEPT !.giveups = @ - 1]
    BY <1>1, <1>6
  <2> QED
    BY <2>1, SMTT(60) DEF SceneRecords
<1>7. CASE field = "errands"
  <2>1. scene.errands > 0 /\ scene' = [scene EXCEPT !.errands = @ - 1]
    BY <1>1, <1>7
  <2> QED
    BY <2>1, SMTT(60) DEF SceneRecords
<1> QED
  BY <1>2, <1>3, <1>4, <1>5, <1>6, <1>7

\* A step that spends nothing leaves the scene as it is.
LEMMA SameScene ==
  ASSUME scene \in SceneRecords, UNCHANGED scene
  PROVE  scene' \in SceneRecords /\ scene'.actors = scene.actors
OBVIOUS

-----------------------------------------------------------------------------
(* The tasks of an issue. *)

\* The tasks an issue was imported as, and the clerks that have found none and are about to
\* create one.
Imports(i) == {t \in TaskIds : task[t].ref = i /\ ~task[t].child}
Importing(i) ==
  {c \in Clerks : clerk[c].pc = "create" /\ clerk[c].task = 0 /\ clerk[c].issue = i}

\* A task with an issue is there to be found.
Linked == \A t \in TaskIds : task[t].status = "absent" => task[t].ref = "none"
\* A clerk that is about to create a task is at work.
Hired == \A c \in Clerks : clerk[c].pc = "create" => c \in scene.actors

\* Each import was or will be of another clerk.
ImportInv ==
  /\ Linked /\ Hired
  /\ \A i \in Issues :
       Cardinality(Imports(i)) + Cardinality(Importing(i)) <= Cardinality(Clerks \cap scene.actors)

\* A step that imports nothing.
NoImport == Linked' /\ \A i \in Issues : Imports(i)' \subseteq Imports(i)

\* A task keeps its issue, whether it has a parent, and, once created, its existence.
TasksKept ==
  \A t \in TaskIds : /\ task'[t].ref = task[t].ref /\ task'[t].child = task[t].child
                     /\ task'[t].status = "absent" => task[t].status = "absent"

\* Nothing is imported by a step that keeps the tasks' issues and creates none.
LEMMA KeptNoImport == ASSUME Linked, TasksKept PROVE NoImport
BY DEF Linked, TasksKept, NoImport, Imports

\* Nor by one that leaves the task table alone.
LEMMA SameNoImport == ASSUME Linked, UNCHANGED task PROVE NoImport
BY DEF Linked, NoImport, Imports

\* Where no clerk has come to want to import, and nothing was imported, the bound is kept.
LEMMA FewerImports ==
  ASSUME IntakeTypes, ImportInv, NoImport, Hired', scene'.actors = scene.actors,
         \A i \in Issues : Importing(i)' \subseteq Importing(i)
  PROVE  ImportInv'
<1>1. IsFiniteSet(TaskIds) /\ IsFiniteSet(Clerks)
  BY FS_Interval, IntakeAssumption, HarnessAssumption DEF TaskIds
<1>2. ASSUME NEW i \in Issues
      PROVE  Cardinality(Imports(i)') + Cardinality(Importing(i)')
               <= Cardinality(Clerks \cap scene'.actors)
  <2>1. Imports(i) \in SUBSET TaskIds /\ Importing(i) \in SUBSET Clerks
        /\ Clerks \cap scene.actors \in SUBSET Clerks
    BY DEF Imports, Importing
  <2>2. IsFiniteSet(Imports(i)) /\ IsFiniteSet(Importing(i))
    BY <1>1, <2>1, FS_Subset
  <2>3. /\ Cardinality(Imports(i)') <= Cardinality(Imports(i))
        /\ Cardinality(Imports(i)') \in Nat /\ Cardinality(Imports(i)) \in Nat
    BY <2>2, FewerThan DEF NoImport
  <2>4. /\ Cardinality(Importing(i)') <= Cardinality(Importing(i))
        /\ Cardinality(Importing(i)') \in Nat /\ Cardinality(Importing(i)) \in Nat
    BY <2>2, FewerThan
  <2>5. Cardinality(Clerks \cap scene.actors) \in Nat
    BY <1>1, <2>1, FewerThan
  <2>6. Cardinality(Imports(i)) + Cardinality(Importing(i)) <= Cardinality(Clerks \cap scene.actors)
    BY DEF ImportInv
  <2> QED
    BY <2>3, <2>4, <2>5, <2>6
<1> QED
  BY <1>2 DEF ImportInv, NoImport

\* As long as no clerk moves, none comes to want to import.
LEMMA SameClerks ==
  ASSUME ImportInv, UNCHANGED clerk, scene'.actors = scene.actors
  PROVE  Hired' /\ \A i \in Issues : Importing(i)' \subseteq Importing(i)
BY DEF ImportInv, Hired, Importing

\* A task that is created has the status, issue and parent it was asked for.
LEMMA NewTaskIs ==
  ASSUME NEW title \in Proposals \cup {"none"}, NEW ref \in Issues \cup {"none"},
         NEW hasParent \in BOOLEAN, NEW joins \in BOOLEAN, NEW plan \in {"none", "own", "given"}
  PROVE  /\ CreateTaskWithPolicy(title, ref, hasParent, joins, plan) \in Tasks
         /\ CreateTaskWithPolicy(title, ref, hasParent, joins, plan).status = "pending"
         /\ CreateTaskWithPolicy(title, ref, hasParent, joins, plan).ref = ref
         /\ CreateTaskWithPolicy(title, ref, hasParent, joins, plan).child = hasParent
<1>1. EnsurePlanLinkage(joins, plan) \in {"none", "own", "given"}
  BY DEF EnsurePlanLinkage
<1>2. ApplyTaskAmendment(title) \in BOOLEAN
  BY DEF ApplyTaskAmendment
<1> HIDE DEF EnsurePlanLinkage, ApplyTaskAmendment
<1> QED
  BY <1>1, <1>2 DEF CreateTaskWithPolicy, NoTask, Tasks, TaskStatus

\* create_task writes to a free row; unless it is for an issue and without a parent, it
\* imports nothing.
LEMMA CreateIs ==
  ASSUME IntakeTypes, Linked, NEW new \in Tasks, CreateTask(new), new.status = "pending"
  PROVE  /\ task' \in [TaskIds -> Tasks] /\ Linked'
         /\ \E n \in TaskIds : n = Min(TaskIds \ Present) /\ task' = [task EXCEPT ![n] = new]
         /\ new.child \/ new.ref = "none" => NoImport
<1>1. PICK n : n = Min(TaskIds \ Present)
  OBVIOUS
<1>2. n \in TaskIds
  <2>1. TaskIds \ Present \in SUBSET Nat /\ TaskIds \ Present # {}
    BY DEF CreateTask, Room, Present, TaskIds
  <2> QED
    BY <1>1, <2>1, MinIs
<1>3. task' = [task EXCEPT ![n] = new]
  BY <1>1 DEF CreateTask
<1> QED
  BY <1>1, <1>2, <1>3, NotNone DEF IntakeTypes, Linked, NoImport, Imports

-----------------------------------------------------------------------------
(* The intake. *)

\* The status a report or a synchronisation gives an issue is one it can have.
LEMMA DesiredIs == ASSUME NEW status PROVE DesiredState(status) \in {"open", "closed"}
BY DEF DesiredState

\* A clerk finds no task of an issue only if there is none.
LEMMA FoundIs ==
  ASSUME IntakeTypes, Linked, NEW i \in Issues
  PROVE  /\ TaskByExternalRef(i) \in TaskIds \cup {0}
         /\ TaskByExternalRef(i) = 0 => Imports(i) = {}
<1> DEFINE found == {t \in Present : task[t].ref = i}
<1>1. CASE found = {}
  <2>1. TaskByExternalRef(i) = 0
    BY <1>1 DEF TaskByExternalRef
  <2>2. \A t \in TaskIds : task[t].ref # i
    BY <1>1, NotNone DEF Present, Linked
  <2> QED
    BY <2>1, <2>2 DEF Imports
<1>2. CASE found # {}
  <2>1. found \in SUBSET TaskIds /\ TaskIds \subseteq Nat /\ 0 \notin TaskIds
    BY DEF Present, TaskIds
  <2>2. Min(found) \in found
    BY <1>2, <2>1, MinIs
  <2>3. TaskByExternalRef(i) = Min(found)
    BY <1>2 DEF TaskByExternalRef
  <2> QED
    BY <2>1, <2>2, <2>3
<1> QED
  BY <1>1, <1>2

\* A clerk that goes to work on another thing, or on a task it has found.
LEMMA JobIs ==
  ASSUME IntakeTypes, ImportInv, NoImport, task' \in [TaskIds -> Tasks],
         scene' \in SceneRecords, scene'.actors = scene.actors,
         issue' \in [Issues -> [state : {"open", "closed"}, comments : Nat]],
         NEW c \in Clerks, NEW j \in Jobs, clerk' = [clerk EXCEPT ![c] = j],
         j.pc = "create" => j.task # 0 /\ c \in scene.actors
  PROVE  IntakeTypes' /\ ImportInv'
<1>1. IntakeTypes'
  BY DEF IntakeTypes
<1>2. Hired' /\ \A i \in Issues : Importing(i)' \subseteq Importing(i)
  BY DEF IntakeTypes, ImportInv, Hired, Importing
<1> QED
  BY <1>1, <1>2, FewerImports

\* import_issue finds a task, or finds that there is none and is one of the clerks to create it.
LEMMA ImportStep ==
  ASSUME IntakeTypes, ImportInv, NEW c \in Clerks, ImportIssue(c)
  PROVE  IntakeTypes' /\ ImportInv'
<1>1. PICK i \in Issues, how \in {"import", "sync"} :
        clerk' = [clerk EXCEPT ![c] = [AtDesk EXCEPT !.pc = "create", !.how = how, !.issue = i,
                                                     !.task = TaskByExternalRef(i)]]
  BY DEF ImportIssue
<1>2. /\ c \in scene.actors /\ UNCHANGED <<task, issue>>
      /\ scene' \in SceneRecords /\ scene'.actors = scene.actors
  BY SpendIs DEF ImportIssue, IntakeTypes
<1>3. PICK n : n = TaskByExternalRef(i)
  OBVIOUS
<1>4. PICK j : j = [AtDesk EXCEPT !.pc = "create", !.how = how, !.issue = i, !.task = n]
  OBVIOUS
<1>5. n \in TaskIds \cup {0} /\ (n = 0 => Imports(i) = {}) /\ Linked
  BY <1>3, FoundIs DEF ImportInv
<1>6. j \in Jobs /\ j.pc = "create" /\ j.issue = i /\ j.task = n /\ clerk' = [clerk EXCEPT ![c] = j]
  BY <1>1, <1>3, <1>4, <1>5 DEF AtDesk, Jobs
<1>7. NoImport /\ task' \in [TaskIds -> Tasks]
      /\ issue' \in [Issues -> [state : {"open", "closed"}, comments : Nat]]
  BY <1>2, <1>5, SameNoImport DEF IntakeTypes
<1>8. CASE n # 0
  BY <1>2, <1>6, <1>7, <1>8, JobIs
<1>9. CASE n = 0
  <2>1. IntakeTypes' /\ Hired' /\ Linked'
    BY <1>2, <1>6, <1>7 DEF IntakeTypes, ImportInv, Hired, NoImport
  <2>2. ASSUME NEW k \in Issues
        PROVE  Cardinality(Imports(k)') + Cardinality(Importing(k)')
                 <= Cardinality(Clerks \cap scene'.actors)
    <3>1. Imports(k)' = Imports(k)
      BY <1>2 DEF Imports
    <3>2. IsFiniteSet(Clerks) /\ Clerks \cap scene.actors \in SUBSET Clerks
      BY HarnessAssumption
    <3>3. IsFiniteSet(Clerks \cap scene.actors)
      BY <3>2, FS_Subset
    <3>4. CASE k = i
      <4>1. Importing(k)' \in SUBSET (Clerks \cap scene.actors)
        BY <1>2, <2>1 DEF Importing, Hired
      <4>2. /\ Cardinality(Importing(k)') <= Cardinality(Clerks \cap scene.actors)
            /\ Cardinality(Importing(k)') \in Nat /\ Cardinality(Clerks \cap scene.actors) \in Nat
        BY <3>3, <4>1, FewerThan
      <4> QED
        BY <1>2, <1>5, <1>9, <3>1, <3>4, <4>2, FS_EmptySet
    <3>5. CASE k # i
      <4>1. Importing(k)' \in SUBSET Importing(k)
        BY <1>6, <3>5 DEF Importing, IntakeTypes
      <4>2. Importing(k) \in SUBSET Clerks /\ Imports(k) \in SUBSET TaskIds /\ IsFiniteSet(TaskIds)
        BY FS_Interval, IntakeAssumption DEF Importing, Imports, TaskIds
      <4>3. IsFiniteSet(Importing(k)) /\ IsFiniteSet(Imports(k))
        BY <3>2, <4>2, FS_Subset
      <4>4. /\ Cardinality(Importing(k)') <= Cardinality(Importing(k))
            /\ Cardinality(Importing(k)') \in Nat /\ Cardinality(Importing(k)) \in Nat
        BY <4>1, <4>3, FewerThan
      <4>5. Cardinality(Imports(k)) \in Nat /\ Cardinality(Clerks \cap scene.actors) \in Nat
        BY <3>3, <4>3, FS_CardinalityType
      <4>6. Cardinality(Imports(k)) + Cardinality(Importing(k)) <= Cardinality(Clerks \cap scene.actors)
        BY DEF ImportInv
      <4> QED
        BY <1>2, <3>1, <4>4, <4>5, <4>6
    <3> QED
      BY <3>4, <3>5
  <2> QED
    BY <2>1, <2>2 DEF ImportInv
<1> QED
  BY <1>8, <1>9

\* The insert makes one task more of a clerk less that is to create one.
LEMMA InsertStep ==
  ASSUME IntakeTypes, ImportInv, NEW c \in Clerks, InsertImported(c)
  PROVE  IntakeTypes' /\ ImportInv'
<1>1. clerk[c] \in Jobs /\ clerk[c].pc = "create" /\ clerk[c].task = 0 /\ UNCHANGED <<scene, issue>>
  BY DEF InsertImported, IntakeTypes
<1>2. PICK i : i = clerk[c].issue
  OBVIOUS
<1>3. PICK new : new = CreateTaskWithPolicy("none", i, FALSE, FALSE, "none")
  OBVIOUS
<1>4. i \in Issues \cup {"none"} /\ CreateTask(new) /\ Linked
  BY <1>1, <1>2, <1>3 DEF InsertImported, Jobs, ImportInv
<1>5. new \in Tasks /\ new.status = "pending" /\ new.ref = i
  <2>1. "none" \in Proposals \cup {"none"} /\ FALSE \in BOOLEAN /\ "none" \in {"none", "own", "given"}
    OBVIOUS
  <2> QED
    BY <1>3, <1>4, <2>1, NewTaskIs
<1>6. /\ task' \in [TaskIds -> Tasks] /\ Linked'
      /\ \E n \in TaskIds : n = Min(TaskIds \ Present) /\ task' = [task EXCEPT ![n] = new]
  BY <1>4, <1>5, CreateIs
<1>7. PICK n \in TaskIds : n = Min(TaskIds \ Present) /\ task' = [task EXCEPT ![n] = new]
  BY <1>6
<1>8. clerk' = [clerk EXCEPT ![c].task = n] /\ n # 0
  BY <1>7 DEF InsertImported, TaskIds
<1>9. IntakeTypes' /\ Hired'
  BY <1>1, <1>6, <1>8 DEF IntakeTypes, Jobs, ImportInv, Hired
<1>10. ASSUME NEW k \in Issues
       PROVE  Cardinality(Imports(k)') + Cardinality(Importing(k)')
                <= Cardinality(Clerks \cap scene'.actors)
  <2>1. Importing(k) \in SUBSET Clerks /\ Imports(k) \in SUBSET TaskIds /\ IsFiniteSet(TaskIds)
        /\ IsFiniteSet(Clerks)
    BY FS_Interval, IntakeAssumption, HarnessAssumption DEF Importing, Imports, TaskIds
  <2>2. IsFiniteSet(Importing(k)) /\ IsFiniteSet(Imports(k))
    BY <2>1, FS_Subset
  <2>3. Cardinality(Importing(k)) \in Nat /\ Cardinality(Imports(k)) \in Nat
    BY <2>2, FS_CardinalityType
  <2>4. Cardinality(Imports(k)) + Cardinality(Importing(k)) <= Cardinality(Clerks \cap scene.actors)
    BY DEF ImportInv
  <2>5. Importing(k)' = Importing(k) \ {c}
    BY <1>8 DEF Importing, IntakeTypes, Jobs
  <2>6. CASE k = i
    <3>1. c \in Importing(k)
      BY <1>1, <1>2, <2>6 DEF Importing
    <3>2. Imports(k)' \in SUBSET (Imports(k) \cup {n})
      BY <1>7, <1>5 DEF Imports, IntakeTypes
    <3>3. /\ IsFiniteSet(Imports(k) \cup {n})
          /\ Cardinality(Imports(k) \cup {n}) <= Cardinality(Imports(k)) + 1
          /\ Cardinality(Imports(k) \cup {n}) \in Nat
      BY <2>2, AddOne
    <3>4. Cardinality(Imports(k)') <= Cardinality(Imports(k) \cup {n})
          /\ Cardinality(Imports(k)') \in Nat
      BY <3>2, <3>3, FewerThan
    <3>5. Cardinality(Importing(k)') = Cardinality(Importing(k)) - 1
      BY <2>2, <2>5, <3>1, FS_RemoveElement
    <3>6. Cardinality(Clerks \cap scene.actors) \in Nat
      BY <2>1, FS_Subset, FS_CardinalityType, Clerks \cap scene.actors \in SUBSET Clerks
    <3> QED
      BY <1>1, <2>3, <2>4, <3>3, <3>4, <3>5, <3>6
  <2>7. CASE k # i
    <3>1. Imports(k)' \in SUBSET Imports(k)
      BY <1>5, <1>7, <2>7 DEF Imports, IntakeTypes
    <3>2. Cardinality(Imports(k)') <= Cardinality(Imports(k)) /\ Cardinality(Imports(k)') \in Nat
      BY <2>2, <3>1, FewerThan
    <3>3. /\ Cardinality(Importing(k)') <= Cardinality(Importing(k))
          /\ Cardinality(Importing(k)') \in Nat
      BY <2>2, <2>5, FewerThan, Importing(k)' \in SUBSET Importing(k)
    <3>4. Cardinality(Clerks \cap scene.actors) \in Nat
      BY <2>1, FS_Subset, FS_CardinalityType, Clerks \cap scene.actors \in SUBSET Clerks
    <3> QED
      BY <1>1, <2>3, <2>4, <3>2, <3>3, <3>4
  <2> QED
    BY <2>6, <2>7
<1> QED
  BY <1>6, <1>9, <1>10 DEF ImportInv

\* What is written of a task that exists, or of none, imports nothing.
LEMMA MetaIs ==
  ASSUME IntakeTypes, Linked, NEW t, NEW m \in {"open", "closed"},
         task' = [task EXCEPT ![t].meta = m]
  PROVE  task' \in [TaskIds -> Tasks] /\ NoImport
<1>1. task' \in [TaskIds -> Tasks] /\ TasksKept
  <2>1. \A u \in TaskIds : task'[u] = IF u = t THEN [task[u] EXCEPT !.meta = m] ELSE task[u]
    BY DEF IntakeTypes
  <2>2. \A x \in Tasks : /\ [x EXCEPT !.meta = m] \in Tasks /\ [x EXCEPT !.meta = m].ref = x.ref
                        /\ [x EXCEPT !.meta = m].child = x.child
                        /\ [x EXCEPT !.meta = m].status = x.status
    BY DEF Tasks, TaskStatus
  <2>3. task' = [u \in TaskIds |-> task'[u]]
    BY DEF IntakeTypes
  <2> QED
    BY <2>1, <2>2, <2>3 DEF IntakeTypes, TasksKept
<1> QED
  BY <1>1, KeptNoImport

\* An update of a status keeps the task's issue.
LEMMA StatusIs ==
  ASSUME IntakeTypes, Linked, NEW t, NEW s \in TaskStatus, task' = [task EXCEPT ![t].status = s]
  PROVE  task' \in [TaskIds -> Tasks] /\ NoImport
<1>1. task' \in [TaskIds -> Tasks] /\ TasksKept
  <2>1. \A u \in TaskIds : task'[u] = IF u = t THEN [task[u] EXCEPT !.status = s] ELSE task[u]
    BY DEF IntakeTypes
  <2>2. \A x \in Tasks : /\ [x EXCEPT !.status = s] \in Tasks /\ [x EXCEPT !.status = s].ref = x.ref
                        /\ [x EXCEPT !.status = s].child = x.child
                        /\ [x EXCEPT !.status = s].status # "absent"
    BY DEF Tasks, TaskStatus
  <2>3. task' = [u \in TaskIds |-> task'[u]]
    BY DEF IntakeTypes
  <2> QED
    BY <2>1, <2>2, <2>3 DEF IntakeTypes, TasksKept
<1> QED
  BY <1>1, KeptNoImport

\* A task table that is left alone stays one, and gains no import.
LEMMA SameTasks ==
  ASSUME IntakeTypes, Linked, UNCHANGED task
  PROVE  task' \in [TaskIds -> Tasks] /\ NoImport
BY SameNoImport DEF IntakeTypes

\* What a clerk does about a task that is there imports nothing.
LEMMA ReportStep ==
  ASSUME IntakeTypes, ImportInv, NEW c \in Clerks,
         \/ SyncOpenIssue(c) \/ ReportTask(c) \/ AddComment(c) \/ CloseReported(c)
         \/ RecordReport(c) \/ SyncIssueState(c) \/ ClerkFails(c)
         \/ \E how \in {"metadata", "state"} : FetchIssue(c, how)
  PROVE  IntakeTypes' /\ ImportInv'
<1>1. Linked /\ clerk[c] \in Jobs /\ AtDesk \in Jobs /\ AtDesk.pc = "idle"
      /\ issue \in [Issues -> [state : {"open", "closed"}, comments : Nat]]
  BY DEF ImportInv, IntakeTypes, AtDesk, Jobs
<1>2. scene' \in SceneRecords /\ scene'.actors = scene.actors
  BY SpendIs, SameScene DEF IntakeTypes, SyncOpenIssue, ReportTask, AddComment, CloseReported,
     RecordReport, SyncIssueState, ClerkFails, FetchIssue
<1>3. CASE SyncOpenIssue(c)
  <2>1. task' = [task EXCEPT ![clerk[c].task].meta = "open"] \/ UNCHANGED task
    BY <1>3 DEF SyncOpenIssue
  <2>2. task' \in [TaskIds -> Tasks] /\ NoImport
    BY <1>1, <2>1, MetaIs, SameTasks
  <2>3. clerk' = [clerk EXCEPT ![c] = AtDesk] /\ UNCHANGED issue
    BY <1>3 DEF SyncOpenIssue
  <2> QED
    BY <1>1, <1>2, <2>2, <2>3, JobIs
<1>4. CASE ReportTask(c)
  <2>1. task' \in [TaskIds -> Tasks] /\ NoImport /\ UNCHANGED issue
    BY <1>1, <1>4, SameTasks DEF ReportTask
  <2>2. CASE UNCHANGED clerk
    BY <1>1, <1>2, <2>1, <2>2, SameClerks, FewerImports DEF IntakeTypes
  <2>3. CASE clerk' # clerk
    <3>1. PICK t \in Present :
            /\ task[t].ref \in Issues
            /\ clerk' = [clerk EXCEPT ![c] = [AtDesk EXCEPT !.pc = "comment", !.task = t,
                                                !.issue = task[t].ref, !.status = task[t].status]]
      BY <1>4, <2>3 DEF ReportTask
    <3>2. PICK j : j = [AtDesk EXCEPT !.pc = "comment", !.task = t, !.issue = task[t].ref,
                                      !.status = task[t].status]
      OBVIOUS
    <3>3. t \in TaskIds /\ task[t] \in Tasks
      BY DEF Present, IntakeTypes
    <3>4. j \in Jobs /\ j.pc = "comment" /\ clerk' = [clerk EXCEPT ![c] = j]
      BY <3>1, <3>2, <3>3 DEF AtDesk, Jobs, Tasks
    <3> QED
      BY <1>1, <1>2, <2>1, <3>4, JobIs
  <2> QED
    BY <2>2, <2>3
<1>5. CASE AddComment(c) \/ CloseReported(c)
  <2>1. task' \in [TaskIds -> Tasks] /\ NoImport
    BY <1>1, <1>5, SameTasks DEF AddComment, CloseReported
  <2>2. issue' \in [Issues -> [state : {"open", "closed"}, comments : Nat]]
    BY <1>1, <1>5 DEF AddComment, CloseReported
  <2>3. \E k \in Jobs : k.pc \in {"close", "record"} /\ clerk' = [clerk EXCEPT ![c] = k]
    <3>1. [clerk[c] EXCEPT !.pc = "close"] \in Jobs /\ [clerk[c] EXCEPT !.pc = "record"] \in Jobs
          /\ [clerk[c] EXCEPT !.pc = "close"].pc = "close"
          /\ [clerk[c] EXCEPT !.pc = "record"].pc = "record"
      BY <1>1 DEF Jobs
    <3>2. \/ clerk' = [clerk EXCEPT ![c] = [clerk[c] EXCEPT !.pc = "close"]]
          \/ clerk' = [clerk EXCEPT ![c] = [clerk[c] EXCEPT !.pc = "record"]]
      BY <1>5 DEF AddComment, CloseReported, Clerk
    <3> QED
      BY <3>1, <3>2
  <2> QED
    BY <1>2, <2>1, <2>2, <2>3, JobIs
<1>6. CASE RecordReport(c) \/ SyncIssueState(c) \/ ClerkFails(c)
  <2>1. task' \in [TaskIds -> Tasks] /\ NoImport
    BY <1>1, <1>6, SameTasks DEF RecordReport, SyncIssueState, ClerkFails
  <2>2. issue' \in [Issues -> [state : {"open", "closed"}, comments : Nat]]
    BY <1>1, <1>6, DesiredIs DEF RecordReport, SyncIssueState, ClerkFails
  <2>3. clerk' = [clerk EXCEPT ![c] = AtDesk]
    BY <1>6 DEF RecordReport, SyncIssueState, ClerkFails
  <2> QED
    BY <1>1, <1>2, <2>1, <2>2, <2>3, JobIs
<1>7. ASSUME NEW how \in {"metadata", "state"}, FetchIssue(c, how)
      PROVE  IntakeTypes' /\ ImportInv'
  <2>1. PICK t \in Present :
          /\ task[t].ref \in Issues
          /\ task' = [task EXCEPT ![t].meta = issue[task[t].ref].state]
          /\ \/ UNCHANGED clerk
             \/ clerk' = [clerk EXCEPT ![c] = [AtDesk EXCEPT !.pc = "turn", !.issue = task[t].ref,
                                                             !.status = task[t].status]]
    BY <1>7 DEF FetchIssue
  <2>2. t \in TaskIds /\ task[t] \in Tasks /\ UNCHANGED issue
    BY <1>7 DEF Present, IntakeTypes, FetchIssue
  <2>3. task' \in [TaskIds -> Tasks] /\ NoImport
    BY <1>1, <2>1, <2>2, MetaIs
  <2>4. CASE UNCHANGED clerk
    BY <1>1, <1>2, <2>2, <2>3, <2>4, SameClerks, FewerImports DEF IntakeTypes
  <2>5. CASE clerk' = [clerk EXCEPT ![c] = [AtDesk EXCEPT !.pc = "turn", !.issue = task[t].ref,
                                                          !.status = task[t].status]]
    <3>1. PICK j : j = [AtDesk EXCEPT !.pc = "turn", !.issue = task[t].ref, !.status = task[t].status]
      OBVIOUS
    <3>2. j \in Jobs /\ j.pc = "turn" /\ clerk' = [clerk EXCEPT ![c] = j]
      BY <2>1, <2>2, <2>5, <3>1 DEF AtDesk, Jobs, Tasks
    <3> QED
      BY <1>1, <1>2, <2>2, <2>3, <3>2, JobIs
  <2> QED
    BY <2>1, <2>4, <2>5
<1> QED
  BY <1>3, <1>4, <1>5, <1>6, <1>7

\* No step of a clerk breaks the bound.
LEMMA ClerkSteps ==
  ASSUME IntakeTypes, ImportInv, NEW c \in Clerks, ClerkStep(c)
  PROVE  IntakeTypes' /\ ImportInv'
BY ImportStep, InsertStep, ReportStep DEF ClerkStep

\* What every other process does to the tasks.
LEMMA OtherStep ==
  ASSUME IntakeTypes, ImportInv, task' \in [TaskIds -> Tasks], NoImport, UNCHANGED <<issue, clerk>>,
         scene' \in SceneRecords, scene'.actors = scene.actors
  PROVE  IntakeTypes' /\ ImportInv'
<1>1. IntakeTypes'
  BY DEF IntakeTypes
<1>2. Hired' /\ \A i \in Issues : Importing(i)' \subseteq Importing(i)
  BY SameClerks
<1> QED
  BY <1>1, <1>2, FewerImports

\* A task nobody has filed has no issue.
LEMMA PlainTaskIs ==
  ASSUME NEW joins \in BOOLEAN, NEW plan \in {"none", "own", "given"}
  PROVE  /\ CreateTaskWithPolicy("none", "none", FALSE, joins, plan) \in Tasks
         /\ CreateTaskWithPolicy("none", "none", FALSE, joins, plan).status = "pending"
         /\ CreateTaskWithPolicy("none", "none", FALSE, joins, plan).ref = "none"
<1>1. EnsurePlanLinkage(joins, plan) \in {"none", "own", "given"}
  BY DEF EnsurePlanLinkage
<1>2. ApplyTaskAmendment("none") \in BOOLEAN
  BY DEF ApplyTaskAmendment
<1> HIDE DEF EnsurePlanLinkage, ApplyTaskAmendment
<1> QED
  BY <1>1, <1>2 DEF CreateTaskWithPolicy, NoTask, Tasks, TaskStatus

\* add-task and a follow-on look for no issue: the one has none, the other has a parent.
LEMMA AddTaskStep ==
  ASSUME IntakeTypes, ImportInv, AddTask PROVE IntakeTypes' /\ ImportInv'
<1>1. PICK new \in Tasks : /\ CreateTask(new) /\ new.status = "pending"
                           /\ new.child \/ new.ref = "none"
  <2>1. CASE \E joins \in BOOLEAN, plan \in {"none", "given"} :
               CreateTask(CreateTaskWithPolicy("none", "none", FALSE, joins, plan))
    <3>1. PICK joins \in BOOLEAN, plan \in {"none", "given"} :
            CreateTask(CreateTaskWithPolicy("none", "none", FALSE, joins, plan))
      BY <2>1
    <3>2. /\ "none" \in Proposals \cup {"none"} /\ "none" \in Issues \cup {"none"}
          /\ FALSE \in BOOLEAN /\ joins \in BOOLEAN /\ plan \in {"none", "own", "given"}
      OBVIOUS
    <3>3. /\ CreateTaskWithPolicy("none", "none", FALSE, joins, plan) \in Tasks
          /\ CreateTaskWithPolicy("none", "none", FALSE, joins, plan).status = "pending"
          /\ CreateTaskWithPolicy("none", "none", FALSE, joins, plan).ref = "none"
      BY <3>2, PlainTaskIs
    <3> QED
      BY <3>1, <3>3
  <2>2. CASE \E t \in Present :
               CreateTask(CreateTaskWithPolicy(task[t].title, task[t].ref, TRUE,
                                               task[t].plan # "none", "none"))
    <3>1. PICK t \in Present :
            CreateTask(CreateTaskWithPolicy(task[t].title, task[t].ref, TRUE,
                                            task[t].plan # "none", "none"))
      BY <2>2
    <3>2. PICK title, ref, joins :
            title = task[t].title /\ ref = task[t].ref /\ joins = (task[t].plan # "none")
      OBVIOUS
    <3>3. title \in Proposals \cup {"none"} /\ ref \in Issues \cup {"none"}
      BY <3>2 DEF IntakeTypes, Tasks, Present
    <3>4. PICK hasParent, plan : hasParent = TRUE /\ plan = "none"
      OBVIOUS
    <3>5. joins \in BOOLEAN /\ hasParent \in BOOLEAN /\ plan \in {"none", "own", "given"}
      BY <3>2, <3>4
    <3>6. /\ CreateTaskWithPolicy(title, ref, hasParent, joins, plan) \in Tasks
          /\ CreateTaskWithPolicy(title, ref, hasParent, joins, plan).status = "pending"
          /\ CreateTaskWithPolicy(title, ref, hasParent, joins, plan).child = hasParent
      BY <3>3, <3>5, NewTaskIs
    <3>7. CreateTask(CreateTaskWithPolicy(title, ref, hasParent, joins, plan))
      BY <3>1, <3>2, <3>4
    <3> QED
      BY <3>4, <3>6, <3>7
  <2> QED
    BY <2>1, <2>2 DEF AddTask
<1>2. task' \in [TaskIds -> Tasks] /\ NoImport
  BY <1>1, CreateIs DEF ImportInv
<1>3. UNCHANGED <<issue, clerk>> /\ scene' \in SceneRecords /\ scene'.actors = scene.actors
  BY SpendIs DEF AddTask, IntakeTypes
<1> QED
  BY <1>2, <1>3, OtherStep

-----------------------------------------------------------------------------
(* The queue and the branches. *)

\* Recovery returns tasks to the queue, and creates none.
LEMMA RecoverIs ==
  ASSUME IntakeTypes, Linked, RecoverStaleState
  PROVE  task' \in [TaskIds -> Tasks] /\ NoImport
<1>1. ASSUME NEW t \in TaskIds
      PROVE  task'[t] \in Tasks /\ task'[t].ref = task[t].ref /\ task'[t].child = task[t].child
             /\ (task'[t].status = "absent" => task[t].status = "absent")
  <2>1. task[t] \in Tasks
    BY DEF IntakeTypes
  <2>2. task'[t] = task[t] \/ task'[t] = [task[t] EXCEPT !.status = "pending"]
    BY DEF RecoverStaleState
  <2> QED
    BY <2>1, <2>2 DEF Tasks, TaskStatus
<1>2. task' = [t \in TaskIds |-> task'[t]]
  BY DEF RecoverStaleState
<1>3. task' \in [TaskIds -> Tasks] /\ TasksKept
  BY <1>1, <1>2 DEF TasksKept
<1> QED
  BY <1>3, KeptNoImport

\* update_task_status writes a status or, where the transition is not allowed, nothing.
LEMMA UpdateIs ==
  ASSUME IntakeTypes, Linked, NEW t, NEW s \in TaskStatus, UpdateTaskStatus(t, s)
  PROVE  task' \in [TaskIds -> Tasks] /\ NoImport
BY StatusIs, SameTasks DEF UpdateTaskStatus

\* The validation and the branches leave drainers and processes alone.
LEMMA DecisionStep ==
  ASSUME IntakeTypes, ImportInv, DrainTypes, Validate \/ QueuedForDecision \/ Branching
  PROVE  IntakeTypes' /\ ImportInv' /\ DrainTypes'
<1>1. UNCHANGED <<issue, clerk, drain>> /\ Linked
  BY DEF Validate, QueuedForDecision, Branching, CreateBranches, BranchRun, BranchRunEnds,
         SelectWinner, DisposeLoser, PromoteWinner, BrancherFails, intake, ImportInv
<1>2. scene' \in SceneRecords /\ scene'.actors = scene.actors
  BY SpendIs, SameScene DEF IntakeTypes, Validate, QueuedForDecision, Branching, CreateBranches,
     BranchRun, BranchRunEnds, SelectWinner, DisposeLoser, PromoteWinner, BrancherFails
<1>3. UNCHANGED task \/ \E t : \E s \in TaskStatus : UpdateTaskStatus(t, s)
  <2>1. CreateBranches => \E t : UpdateTaskStatus(t, "active")
    BY DEF CreateBranches
  <2>2. SelectWinner => UNCHANGED task \/ UpdateTaskStatus(brancher.task, "failed")
    BY DEF SelectWinner
  <2>3. PromoteWinner => UpdateTaskStatus(brancher.task, "completed")
    BY DEF PromoteWinner
  <2>4. Validate \/ QueuedForDecision \/ BranchRun \/ BranchRunEnds \/ DisposeLoser \/ BrancherFails
          => UNCHANGED task
    BY DEF Validate, QueuedForDecision, BranchRun, BranchRunEnds, DisposeLoser, BrancherFails, intake
  <2> QED
    BY <2>1, <2>2, <2>3, <2>4 DEF Branching, TaskStatus
<1>4. task' \in [TaskIds -> Tasks] /\ NoImport
  BY <1>1, <1>3, UpdateIs, SameTasks
<1> QED
  BY <1>1, <1>2, <1>4, OtherStep DEF DrainTypes

\* A drainer that decides does so by the policy, and applies what it decided.
LEMMA DrainStep ==
  ASSUME IntakeTypes, ImportInv, DrainTypes, NEW p \in Pids, ProcessOne(p)
  PROVE  IntakeTypes' /\ ImportInv' /\ DrainTypes'
<1>1. UNCHANGED <<scene, issue, clerk>> /\ Linked /\ drain[p] \in Drains
  BY DEF ProcessOne, DequeueDecision, MarkProcessing, RecordDecision, CloseRun, GuardStatus,
         ApplyStatus, CompleteDecision, intake, ImportInv, DrainTypes
<1>2. UNCHANGED task \/ \E t : \E s \in TaskStatus : UpdateTaskStatus(t, s)
  <2>1. ApplyStatus(p) => \E t : UpdateTaskStatus(t, TaskStatusFor(drain[p].action))
                          /\ drain[p].action \in DecisionAction
    BY <1>1 DEF ApplyStatus, DrainTypes, Drains
  <2>2. \A a \in DecisionAction : TaskStatusFor(a) \in TaskStatus
    BY DEF DecisionAction, TaskStatusFor, TaskStatus
  <2>3. DequeueDecision(p) \/ MarkProcessing(p) \/ RecordDecision(p) \/ CloseRun(p) \/ GuardStatus(p)
          \/ CompleteDecision(p) => UNCHANGED task
    BY DEF DequeueDecision, MarkProcessing, RecordDecision, CloseRun, GuardStatus, CompleteDecision,
           intake
  <2> QED
    BY <2>1, <2>2, <2>3 DEF ProcessOne
<1>3. IntakeTypes' /\ ImportInv'
  BY <1>1, <1>2, UpdateIs, SameTasks, OtherStep DEF IntakeTypes
<1>4. \E d \in Drains : /\ drain' = [drain EXCEPT ![p] = d]
                        /\ d.pc \in {"run", "read", "apply"} => d.action # "none"
  <2>1. CASE DequeueDecision(p)
    <3>1. Min(Pending) \in RunIds
      <4>1. Pending \in SUBSET Nat /\ Pending # {} /\ Pending \subseteq RunIds
        BY <2>1 DEF DequeueDecision, Pending, RunIds
      <4> QED
        BY <4>1, MinIs
    <3>2. PICK r : r = Min(Pending)
      OBVIOUS
    <3>3. drain' = [drain EXCEPT ![p] = [drain[p] EXCEPT !.pc = "mark", !.item = r]]
      BY <2>1, <3>2 DEF DequeueDecision
    <3>4. [drain[p] EXCEPT !.pc = "mark", !.item = r] \in Drains
          /\ [drain[p] EXCEPT !.pc = "mark", !.item = r].pc = "mark"
      BY <1>1, <3>1, <3>2 DEF Drains
    <3> QED
      BY <3>3, <3>4
  <2>2. CASE RecordDecision(p)
    <3>1. PICK a \in DecisionAction :
            drain' = [drain EXCEPT ![p] = [drain[p] EXCEPT !.pc = "run", !.action = a]]
      <4>1. \A x, n : Decide(x, n, MaxAttempts, MaxBranches) \in DecisionAction
        BY DEF Decide, DecisionAction
      <4> QED
        BY <2>2, <4>1 DEF RecordDecision
    <3>2. [drain[p] EXCEPT !.pc = "run", !.action = a] \in Drains
          /\ [drain[p] EXCEPT !.pc = "run", !.action = a].action = a /\ a # "none"
      BY <1>1 DEF Drains, DecisionAction
    <3> QED
      BY <3>1, <3>2
  <2>3. CASE CompleteDecision(p)
    <3>1. drain' = [drain EXCEPT ![p] = [NoDrain EXCEPT !.count = drain[p].count + 1]]
      BY <2>3 DEF CompleteDecision
    <3>2. [NoDrain EXCEPT !.count = drain[p].count + 1] \in Drains
          /\ [NoDrain EXCEPT !.count = drain[p].count + 1].pc = "select"
      BY <1>1 DEF Drains, NoDrain
    <3> QED
      BY <3>1, <3>2
  <2>4. CASE MarkProcessing(p) \/ CloseRun(p) \/ GuardStatus(p) \/ ApplyStatus(p)
    <3>1. PICK pc \in {"decide", "read", "complete", "apply", "failed"} :
            /\ drain' = [drain EXCEPT ![p] = [drain[p] EXCEPT !.pc = pc]]
            /\ pc \in {"read", "apply"} => drain[p].pc \in {"run", "read"}
      <4>1. MarkProcessing(p) => drain' = [drain EXCEPT ![p] = [drain[p] EXCEPT !.pc = "decide"]]
        BY DEF MarkProcessing, Drain
      <4>2. CloseRun(p) => drain' = [drain EXCEPT ![p] = [drain[p] EXCEPT !.pc = "read"]]
                           /\ drain[p].pc = "run"
        BY DEF CloseRun, Drain
      <4>3. GuardStatus(p) => /\ drain[p].pc = "read"
                              /\ \/ drain' = [drain EXCEPT ![p] = [drain[p] EXCEPT !.pc = "complete"]]
                                 \/ drain' = [drain EXCEPT ![p] = [drain[p] EXCEPT !.pc = "apply"]]
        BY DEF GuardStatus, Drain
      <4>4. ApplyStatus(p) => \/ drain' = [drain EXCEPT ![p] = [drain[p] EXCEPT !.pc = "complete"]]
                              \/ drain' = [drain EXCEPT ![p] = [drain[p] EXCEPT !.pc = "failed"]]
        BY DEF ApplyStatus, Drain
      <4> QED
        BY <2>4, <4>1, <4>2, <4>3, <4>4
    <3>2. [drain[p] EXCEPT !.pc = pc] \in Drains /\ [drain[p] EXCEPT !.pc = pc].pc = pc
          /\ [drain[p] EXCEPT !.pc = pc].action = drain[p].action
      BY <1>1 DEF Drains
    <3>3. drain[p].pc \in {"run", "read", "apply"} => drain[p].action # "none"
      BY DEF DrainTypes
    <3> QED
      BY <3>1, <3>2, <3>3
  <2> QED
    BY <2>1, <2>2, <2>3, <2>4 DEF ProcessOne
<1>5. DrainTypes'
  BY <1>4 DEF DrainTypes
<1> QED
  BY <1>3, <1>5

-----------------------------------------------------------------------------
(* The loop of a supervisor. *)

\* A step of a loop: the process stays in it, or comes to its end.
Turning(p) ==
  /\ sv[p].pc \in Serving
  /\ \E new \in Loops : new.pc \in Serving /\ sv' = [sv EXCEPT ![p] = new]

\* A supervisor is starting, serving or gone.
LEMMA PointsAre ==
  /\ {"head", "heartbeat", "drain", "next", "gate", "task", "idle", "upkeep", "sleep", "exit",
      "leave"} = Serving
  /\ "off" \notin Serving \cup Booting /\ Serving \cap Booting = {}
BY DEF Serving, Booting, LoopSteps

\* The loop goes on at another point.
LEMMA GoTurns ==
  ASSUME ProcessTypes, NEW p \in Pids, NEW pc \in Serving, sv[p].pc \in Serving, Go(p, pc)
  PROVE  Turning(p)
<1>1. sv[p] \in Loops
  BY DEF ProcessTypes
<1>2. [sv[p] EXCEPT !.pc = pc] \in Loops /\ [sv[p] EXCEPT !.pc = pc].pc = pc
  BY <1>1 DEF Loops
<1> QED
  BY <1>2 DEF Turning, Go, Loop

\* The loop goes on with other fields.
LEMMA LoopTurns ==
  ASSUME NEW p \in Pids, NEW new \in Loops, sv[p].pc \in Serving, new.pc \in Serving, Loop(p, new)
  PROVE  Turning(p)
BY DEF Turning, Loop

\* The head of the loop looks for a stop request, then for heartbeats.
LEMMA HeadTurns ==
  ASSUME ProcessTypes, IntakeTypes, Linked, NEW p \in Pids, LoopHead(p)
  PROVE  Turning(p) /\ task' \in [TaskIds -> Tasks] /\ NoImport
<1>1. sv[p] \in Loops /\ sv[p].pc \in Serving /\ {"exit", "drain", "heartbeat"} \subseteq Serving
  BY PointsAre DEF ProcessTypes, LoopHead
<1>2. \/ Go(p, "exit") \/ Go(p, "drain")
      \/ Loop(p, [sv[p] EXCEPT !.pc = "heartbeat", !.beats = DueHeartbeats(p)])
  BY DEF LoopHead
<1>3. PICK beats : beats = DueHeartbeats(p)
  OBVIOUS
<1>4. beats \in SUBSET Projects
  BY <1>1, <1>3 DEF Loops, DueHeartbeats
<1>5. [sv[p] EXCEPT !.pc = "heartbeat", !.beats = beats] \in Loops
      /\ [sv[p] EXCEPT !.pc = "heartbeat", !.beats = beats].pc = "heartbeat"
  BY <1>1, <1>4 DEF Loops
<1>6. Turning(p)
  BY <1>1, <1>2, <1>3, <1>5, GoTurns, LoopTurns
<1>7. RecoverStaleState \/ UNCHANGED task
  BY DEF LoopHead
<1> QED
  BY <1>6, <1>7, RecoverIs, SameTasks

\* A heartbeat fails and is counted, or proposes tasks.
LEMMA HeartbeatTurns ==
  ASSUME ProcessTypes, IntakeTypes, NEW p \in Pids, Heartbeat(p)
  PROVE  Turning(p)
<1>1. sv[p] \in Loops /\ sv[p].pc = "heartbeat" /\ sv[p].beats # {} /\ sv[p].pc \in Serving
  BY PointsAre DEF ProcessTypes, Heartbeat
<1>2. PICK q : q = CHOOSE x \in sv[p].beats : TRUE
  OBVIOUS
<1>3. q \in Projects
  BY <1>1, <1>2 DEF Loops
<1>4. \/ HeartbeatFails(p, q)
      \/ \E answer \in SUBSET scene.proposals :
           Loop(p, [sv[p] EXCEPT !.beats = @ \ {q}, !.due = @ \ {q}, !.fails[q] = 0,
                                 !.todo = MaterializeProposedTasks(answer)])
  BY <1>2 DEF Heartbeat
<1>5. CASE HeartbeatFails(p, q)
  <2>1. PICK fails, disabled :
          /\ fails = [sv[p].fails EXCEPT ![q] = @ + 1]
          /\ disabled = (IF sv[p].fails[q] + 1 >= Escalation THEN sv[p].disabled \cup {q}
                         ELSE sv[p].disabled)
    OBVIOUS
  <2>2. fails \in [Projects -> Nat] /\ disabled \in SUBSET Projects
    BY <1>1, <1>3, <2>1 DEF Loops
  <2>3. PICK beats, due : beats = sv[p].beats \ {q} /\ due = sv[p].due \ {q}
    OBVIOUS
  <2>4. beats \in SUBSET Projects /\ due \in SUBSET Projects
    BY <1>1, <2>3 DEF Loops
  <2>5. PICK new : new = [sv[p] EXCEPT !.beats = beats, !.due = due, !.fails = fails,
                                       !.disabled = disabled]
    OBVIOUS
  <2>6. new \in Loops /\ new.pc = "heartbeat"
    BY <1>1, <2>2, <2>4, <2>5 DEF Loops
  <2>7. Loop(p, new)
    BY <1>1, <1>5, <2>1, <2>3, <2>5 DEF HeartbeatFails, Loop, Loops
  <2> QED
    BY <1>1, <2>6, <2>7, LoopTurns
<1>6. ASSUME NEW answer \in SUBSET scene.proposals,
             Loop(p, [sv[p] EXCEPT !.beats = @ \ {q}, !.due = @ \ {q}, !.fails[q] = 0,
                                   !.todo = MaterializeProposedTasks(answer)])
      PROVE  Turning(p)
  <2>1. PICK fails, todo, beats, due :
          /\ fails = [sv[p].fails EXCEPT ![q] = 0] /\ todo = MaterializeProposedTasks(answer)
          /\ beats = sv[p].beats \ {q} /\ due = sv[p].due \ {q}
    OBVIOUS
  <2>2. fails \in [Projects -> Nat] /\ beats \in SUBSET Projects /\ due \in SUBSET Projects
    BY <1>1, <1>3, <2>1 DEF Loops
  <2>3. todo \in SUBSET Proposals
    BY <2>1 DEF MaterializeProposedTasks, IntakeTypes, SceneRecords
  <2>4. PICK new : new = [sv[p] EXCEPT !.beats = beats, !.due = due, !.fails = fails,
                                       !.todo = todo]
    OBVIOUS
  <2>5. new \in Loops /\ new.pc = "heartbeat"
    BY <1>1, <2>2, <2>3, <2>4 DEF Loops
  <2>6. Loop(p, new)
    BY <1>1, <1>6, <2>1, <2>4 DEF Loop, Loops
  <2> QED
    BY <1>1, <2>5, <2>6, LoopTurns
<1> QED
  BY <1>4, <1>5, <1>6

\* A proposal becomes a task without an issue.
LEMMA MaterializeTurns ==
  ASSUME ProcessTypes, IntakeTypes, Linked, NEW p \in Pids, Materialize(p)
  PROVE  Turning(p) /\ task' \in [TaskIds -> Tasks] /\ NoImport
<1>1. sv[p] \in Loops /\ sv[p].pc = "heartbeat" /\ sv[p].pc \in Serving
  BY PointsAre DEF ProcessTypes, Materialize
<1>2. PICK title \in sv[p].todo :
        /\ \/ CreateTask(CreateTaskWithPolicy(title, "none", FALSE, FALSE, "none"))
           \/ UNCHANGED task
        /\ Loop(p, [sv[p] EXCEPT !.todo = @ \ {title}])
  BY DEF Materialize
<1>3. title \in Proposals
  BY <1>1 DEF Loops
<1>4. Turning(p)
  <2>1. PICK todo : todo = sv[p].todo \ {title}
    OBVIOUS
  <2>2. [sv[p] EXCEPT !.todo = todo] \in Loops /\ [sv[p] EXCEPT !.todo = todo].pc = "heartbeat"
    BY <1>1, <2>1 DEF Loops
  <2>3. Loop(p, [sv[p] EXCEPT !.todo = todo])
    BY <1>2, <2>1
  <2> QED
    BY <1>1, <2>2, <2>3, LoopTurns
<1>5. CASE UNCHANGED task
  BY <1>4, <1>5, SameTasks
<1>6. CASE CreateTask(CreateTaskWithPolicy(title, "none", FALSE, FALSE, "none"))
  <2>1. PICK new : new = CreateTaskWithPolicy(title, "none", FALSE, FALSE, "none")
    OBVIOUS
  <2>2. ApplyTaskAmendment(title) \in BOOLEAN
    BY DEF ApplyTaskAmendment
  <2>3. new \in Tasks /\ new.status = "pending" /\ new.ref = "none" /\ CreateTask(new)
    BY <1>3, <1>6, <2>1, <2>2 DEF CreateTaskWithPolicy, EnsurePlanLinkage, NoTask, Tasks, TaskStatus
  <2> QED
    BY <1>4, <2>3, CreateIs
<1> QED
  BY <1>2, <1>5, <1>6

\* What the availability gate answers is what it can answer.
LEMMA ProbeIs ==
  ASSUME NEW g \in Gates, llm \in {"up", "down"} PROVE Probe(g) \in Gates
<1>1. PICK b \in BOOLEAN : b = (llm = "down")
  OBVIOUS
<1> QED
  BY <1>1 DEF Probe, Gates

\* A task is leased to the supervisor that runs it.
LEMMA LeaseIs ==
  ASSUME IntakeTypes, Linked, NEW t, NEW lease \in Pids \cup {0}, NEW status \in TaskStatus,
         task' = [task EXCEPT ![t].lease = lease, ![t].status = status]
  PROVE  task' \in [TaskIds -> Tasks] /\ NoImport
<1>1. task' \in [TaskIds -> Tasks] /\ TasksKept
  <2>1. \A u \in TaskIds : task'[u] = IF u = t THEN [task[u] EXCEPT !.lease = lease, !.status = status]
                                              ELSE task[u]
    BY DEF IntakeTypes, Tasks
  <2>2. \A x \in Tasks :
          LET y == [x EXCEPT !.lease = lease, !.status = status]
          IN  y \in Tasks /\ y.ref = x.ref /\ y.child = x.child /\ y.status # "absent"
    BY DEF Tasks, TaskStatus
  <2>3. task' = [u \in TaskIds |-> task'[u]]
    BY DEF IntakeTypes
  <2> QED
    BY <2>1, <2>2, <2>3 DEF IntakeTypes, TasksKept
<1> QED
  BY <1>1, KeptNoImport

\* The queue hands out a task, or is empty, or the gate is closed.
LEMMA ProcessTurns ==
  ASSUME ProcessTypes, IntakeTypes, Linked, NEW p \in Pids, ProcessNextTask(p)
  PROVE  Turning(p) /\ task' \in [TaskIds -> Tasks] /\ NoImport
<1>1. sv[p] \in Loops /\ sv[p].pc = "next" /\ sv[p].pc \in Serving
  BY PointsAre DEF ProcessTypes, ProcessNextTask
<1>2. PICK g : g = Probe(sv[p].gate)
  OBVIOUS
<1>3. g \in Gates
  BY <1>1, <1>2, ProbeIs DEF Loops, ProcessTypes
<1>4. \/ UNCHANGED task /\ Loop(p, [sv[p] EXCEPT !.gate = g, !.pc = "gate"])
      \/ UNCHANGED task /\ Loop(p, [sv[p] EXCEPT !.gate = g, !.pc = "idle"])
      \/ \E t \in Eligible(p) :
           /\ task' = [task EXCEPT ![t].lease = p, ![t].status = "active"]
           /\ Loop(p, [sv[p] EXCEPT !.gate = g, !.pc = "task", !.cur = t])
  BY <1>2 DEF ProcessNextTask
<1>5. CASE UNCHANGED task /\ \E pc \in {"gate", "idle"} : Loop(p, [sv[p] EXCEPT !.gate = g, !.pc = pc])
  <2>1. PICK pc \in {"gate", "idle"} : Loop(p, [sv[p] EXCEPT !.gate = g, !.pc = pc])
    BY <1>5
  <2>2. pc \in Serving
    BY PointsAre
  <2>3. [sv[p] EXCEPT !.gate = g, !.pc = pc] \in Loops /\ [sv[p] EXCEPT !.gate = g, !.pc = pc].pc = pc
    BY <1>1, <1>3, <2>2 DEF Loops
  <2> QED
    BY <1>1, <1>5, <2>1, <2>2, <2>3, LoopTurns, SameTasks
<1>6. ASSUME NEW t \in Eligible(p), task' = [task EXCEPT ![t].lease = p, ![t].status = "active"],
             Loop(p, [sv[p] EXCEPT !.gate = g, !.pc = "task", !.cur = t])
      PROVE  Turning(p) /\ task' \in [TaskIds -> Tasks] /\ NoImport
  <2>1. t \in TaskIds
    BY DEF Eligible, With
  <2>2. task' \in [TaskIds -> Tasks] /\ NoImport
    BY <1>6, LeaseIs DEF TaskStatus
  <2>3. "task" \in Serving
    BY PointsAre
  <2>4. [sv[p] EXCEPT !.gate = g, !.pc = "task", !.cur = t] \in Loops
        /\ [sv[p] EXCEPT !.gate = g, !.pc = "task", !.cur = t].pc = "task"
    BY <1>1, <1>3, <2>1, <2>3 DEF Loops
  <2> QED
    BY <1>1, <1>6, <2>2, <2>3, <2>4, LoopTurns
<1> QED
  BY <1>4, <1>5, <1>6

\* A task that was run is settled and no longer leased to its supervisor.
LEMMA RunTurns ==
  ASSUME ProcessTypes, IntakeTypes, Linked, NEW p \in Pids, RunTask(p)
  PROVE  Turning(p) /\ task' \in [TaskIds -> Tasks] /\ NoImport
<1>1. sv[p] \in Loops /\ sv[p].pc = "task" /\ sv[p].pc \in Serving
  BY PointsAre DEF ProcessTypes, RunTask
<1>2. PICK t : t = sv[p].cur
  OBVIOUS
<1>3. t \in TaskIds \cup {0} /\ Loop(p, Processed(p, t))
  BY <1>1, <1>2 DEF Loops, RunTask
<1>4. Turning(p)
  <2>1. PICK tried, done : tried = sv[p].tried \cup {t} /\ done = (sv[p].done % Every) + 1
    OBVIOUS
  <2>2. done \in Nat
    BY <1>1, <2>1, SupervisorAssumption DEF Loops
  <2>3. tried \in SUBSET (TaskIds \cup {0})
    BY <1>1, <1>3, <2>1 DEF Loops
  <2>4. PICK new : new = [sv[p] EXCEPT !.pc = "head", !.cur = 0, !.tried = tried, !.done = done]
    OBVIOUS
  <2>5. "head" \in Serving
    BY PointsAre
  <2>6. new \in Loops /\ new.pc = "head"
    BY <1>1, <2>2, <2>3, <2>4, <2>5 DEF Loops
  <2>7. Loop(p, new)
    BY <1>1, <1>3, <2>1, <2>4 DEF Processed, Loop, Loops
  <2> QED
    BY <1>1, <2>5, <2>6, <2>7, LoopTurns
<1>5. task' \in [TaskIds -> Tasks] /\ NoImport
  <2>1. PICK status \in {"completed", "failed", "pending"} :
          task' = [task EXCEPT ![t].lease = IF @ = p THEN 0 ELSE @,
                     ![t].status = IF MayTransition(@, status) THEN status ELSE @]
    <3>1. \E status \in {"completed", "failed", "pending"} :
            task' = [task EXCEPT ![sv[p].cur].lease = IF @ = p THEN 0 ELSE @,
                       ![sv[p].cur].status = IF MayTransition(@, status) THEN status ELSE @]
      BY Zenon DEF RunTask
    <3> QED
      BY <1>2, <3>1
  <2>2. ASSUME NEW u \in TaskIds
        PROVE  task'[u] \in Tasks /\ task'[u].ref = task[u].ref /\ task'[u].child = task[u].child
               /\ (task'[u].status = "absent" => task[u].status = "absent")
    <3>1. task[u] \in Tasks
      BY DEF IntakeTypes
    <3>2. PICK lease, st : /\ lease = (IF task[u].lease = p THEN 0 ELSE task[u].lease)
                           /\ st = (IF MayTransition(task[u].status, status) THEN status
                                    ELSE task[u].status)
      OBVIOUS
    <3>3. lease \in Pids \cup {0} /\ st \in TaskStatus \cup {"absent"}
          /\ (st = "absent" => task[u].status = "absent")
      BY <3>1, <3>2 DEF Tasks, TaskStatus
    <3>4. task'[u] = task[u] \/ task'[u] = [task[u] EXCEPT !.lease = lease, !.status = st]
      <4>1. CASE u = t
        <5>1. task'[u] = [task[u] EXCEPT
                            !.lease = IF @ = p THEN 0 ELSE @,
                            !.status = IF MayTransition(@, status) THEN status ELSE @]
          BY <2>1, <3>1, <4>1 DEF IntakeTypes, Tasks
        <5> QED
          BY <3>2, <5>1
      <4>2. CASE u # t
        BY <2>1, <4>2 DEF IntakeTypes
      <4> QED
        BY <4>1, <4>2
    <3> QED
      BY <3>1, <3>3, <3>4 DEF Tasks
  <2>3. task' = [u \in TaskIds |-> task'[u]]
    BY <2>1 DEF IntakeTypes
  <2>4. task' \in [TaskIds -> Tasks] /\ TasksKept
    BY <2>2, <2>3 DEF TasksKept
  <2> QED
    BY <2>4, KeptNoImport
<1> QED
  BY <1>4, <1>5

\* The other steps of the loop move on, and change at most the upkeep that is left, recover
\* lost tasks or forget which tasks were tried.
LEMMA OtherTurns ==
  ASSUME ProcessTypes, IntakeTypes, Linked, NEW p \in Pids,
         \/ HeartbeatsDone(p) \/ Drained(p) \/ GateBlocked(p) \/ RetryCycle(p) \/ Maintain(p)
         \/ IdleCycle(p) \/ GiveUp(p) \/ Wake(p)
  PROVE  Turning(p) /\ task' \in [TaskIds -> Tasks] /\ NoImport
<1>1. sv[p] \in Loops /\ sv[p].pc \in Serving
      /\ {"head", "next", "upkeep", "exit", "sleep"} \subseteq Serving
  BY PointsAre DEF ProcessTypes, HeartbeatsDone, Drained, GateBlocked, RetryCycle, Maintain,
     IdleCycle, GiveUp, Wake
<1>2. Turning(p)
  <2>1. HeartbeatsDone(p) \/ GateBlocked(p) \/ Wake(p) => Go(p, "head")
    BY DEF HeartbeatsDone, GateBlocked, Wake
  <2>2. Drained(p) => Go(p, "next")
    BY DEF Drained
  <2>3. GiveUp(p) => Go(p, "exit")
    BY DEF GiveUp
  <2>4. Maintain(p) => Go(p, "head") \/ Go(p, "upkeep")
    BY DEF Maintain, ResumeObjectiveBacklog
  <2>5. IdleCycle(p) => Go(p, "head") \/ Go(p, "exit") \/ Go(p, "sleep")
    BY DEF IdleCycle
  <2>6. CASE RetryCycle(p)
    <3>1. PICK tried : tried = {} /\ Loop(p, [sv[p] EXCEPT !.pc = "head", !.tried = tried])
      BY <2>6 DEF RetryCycle
    <3>2. [sv[p] EXCEPT !.pc = "head", !.tried = tried] \in Loops
          /\ [sv[p] EXCEPT !.pc = "head", !.tried = tried].pc = "head"
      BY <1>1, <3>1 DEF Loops
    <3> QED
      BY <1>1, <3>1, <3>2, LoopTurns
  <2> QED
    BY <1>1, <2>1, <2>2, <2>3, <2>4, <2>5, <2>6, GoTurns
<1>3. UNCHANGED task \/ RecoverStaleState
  BY DEF HeartbeatsDone, Drained, GateBlocked, RetryCycle, Maintain, IdleCycle, GiveUp, Wake, intake
<1> QED
  BY <1>2, <1>3, RecoverIs, SameTasks

\* A step of the loop that is not one of its drainer, and leaves the files alone.
LEMMA LoopEffects ==
  ASSUME Types, Linked, NEW p \in Pids, LoopStep(p) \/ GiveUp(p), ~DrainQueue(p)
  PROVE  /\ Turning(p) /\ task' \in [TaskIds -> Tasks] /\ NoImport
         /\ UNCHANGED <<issue, clerk, file, llm, nudge, stack, launcher>>
         /\ scene' \in SceneRecords /\ scene'.actors = scene.actors
         /\ UNCHANGED drain \/ drain' = [drain EXCEPT ![p] = NoDrain]
<1>1. ProcessTypes /\ IntakeTypes
  BY DEF Types
<1>2. Turning(p) /\ task' \in [TaskIds -> Tasks] /\ NoImport
  <2>1. Heartbeat(p) => UNCHANGED task
    BY DEF Heartbeat, intake
  <2> QED
    BY <1>1, <2>1, HeadTurns, HeartbeatTurns, MaterializeTurns, ProcessTurns, RunTurns, OtherTurns,
       SameTasks DEF LoopStep
<1>3. UNCHANGED <<issue, clerk, file, llm, nudge, stack, launcher>>
  BY DEF LoopStep, GiveUp, LoopHead, Heartbeat, Materialize, HeartbeatsDone, Drained,
         ProcessNextTask, GateBlocked, RunTask, RetryCycle, Maintain, IdleCycle, Wake, intake,
         around, sidecar
<1>4. UNCHANGED drain \/ drain' = [drain EXCEPT ![p] = NoDrain]
  BY DEF LoopStep, GiveUp, LoopHead, Heartbeat, Materialize, HeartbeatsDone, Drained,
         ProcessNextTask, GateBlocked, RunTask, RetryCycle, Maintain, IdleCycle, Wake, decisions
<1>5. UNCHANGED scene \/ Spend("upkeep") \/ Spend("giveups")
  BY DEF LoopStep, GiveUp, LoopHead, Heartbeat, Materialize, HeartbeatsDone, Drained,
         ProcessNextTask, GateBlocked, RunTask, RetryCycle, Maintain, IdleCycle, Wake,
         ResumeObjectiveBacklog
<1>6. scene' \in SceneRecords /\ scene'.actors = scene.actors
  BY <1>1, <1>5, SpendIs, SameScene DEF IntakeTypes
<1> QED
  BY <1>2, <1>3, <1>4, <1>6

-----------------------------------------------------------------------------
(* The supervisors and the nudge. *)

\* A supervisor has a record as long as it serves, and none before; nudge-project never boots.
Recorded ==
  /\ sv[Nudger].pc \notin Booting
  /\ \A p \in Sups : /\ sv[p].pc \in Serving => p \in file.records
                     /\ p \in file.records => sv[p].pc \notin Booting

\* A supervisor that nudge-project asked to stop is not started again under its pid, and once
\* it has been waited for it is gone.
Matched ==
  \A p \in nudge.matched : /\ sv[p].pc \notin Booting
                           /\ nudge.pc \in {"beat", "process", "restart"} => sv[p].pc = "off"

\* A process goes on booting, goes on serving, or ends.
Lasting ==
  \A p \in Pids : \/ sv'[p].pc \in {sv[p].pc, "off"}
                  \/ {sv[p].pc, sv'[p].pc} \subseteq Serving
                  \/ {sv[p].pc, sv'[p].pc} \subseteq Booting

\* Then records stay true, whether those of dead processes are dropped or not.
LEMMA LastingKept ==
  ASSUME ProcessTypes, Recorded, Matched, UNCHANGED nudge, Lasting,
         file'.records \in {file.records, LiveRecords}
  PROVE  Recorded' /\ Matched'
<1>1. ASSUME NEW p \in Sups
      PROVE  (sv'[p].pc \in Serving => p \in file'.records)
             /\ (p \in file'.records => sv'[p].pc \notin Booting)
  <2>1. p \in Pids
    BY PidsAre
  <2> QED
    BY <2>1, PointsAre DEF Recorded, Lasting, LiveRecords, Alive
<1>2. sv'[Nudger].pc \notin Booting
  BY PidsAre, PointsAre DEF Recorded, Lasting
<1>3. ASSUME NEW p \in nudge.matched
      PROVE  sv'[p].pc \notin Booting
             /\ (nudge.pc \in {"beat", "process", "restart"} => sv'[p].pc = "off")
  <2>1. p \in Pids
    BY PidsAre DEF ProcessTypes
  <2> QED
    BY <2>1, PointsAre DEF Matched, Lasting
<1> QED
  BY <1>1, <1>2, <1>3 DEF Recorded, Matched

\* A turn of the loop neither starts nor resurrects a process.
LEMMA TurningLasts ==
  ASSUME ProcessTypes, NEW p \in Pids, Turning(p)
  PROVE  Lasting /\ sv' \in [Pids -> Loops]
BY DEF Turning, Lasting, ProcessTypes

\* Nor does a step that leaves the supervisors alone.
LEMMA SameLasts ==
  ASSUME ProcessTypes, UNCHANGED sv PROVE Lasting /\ sv' \in [Pids -> Loops]
BY DEF Lasting, ProcessTypes

\* One process comes to be as new says.
LEMMA BecomesLasts ==
  ASSUME ProcessTypes, NEW p \in Pids, NEW new \in Loops, sv' = [sv EXCEPT ![p] = new],
         \/ new.pc \in {sv[p].pc, "off"} \/ {sv[p].pc, new.pc} \subseteq Serving
         \/ {sv[p].pc, new.pc} \subseteq Booting
  PROVE  Lasting /\ sv' \in [Pids -> Loops]
BY DEF Lasting, ProcessTypes

\* A process that is gone has no loop.
LEMMA NoLoopIs == NoLoop \in Loops /\ NoLoop.pc = "off"
BY DEF NoLoop, Loops, NoGate, Gates

\* A drainer goes on, or its process ends and forgets what it was doing.
LEMMA DrainsKept ==
  ASSUME DrainTypes, drain' = [p \in Pids |-> drain'[p]],
         \A p \in Pids : drain'[p] \in {drain[p], NoDrain}
  PROVE  DrainTypes'
<1>1. NoDrain \in Drains /\ NoDrain.pc = "select"
  BY DEF NoDrain, Drains
<1> QED
  BY <1>1 DEF DrainTypes

\* A drainer nobody touches goes on as it was.
LEMMA DrainSame == ASSUME DrainTypes, UNCHANGED drain PROVE DrainTypes'
BY DEF DrainTypes

\* The drainer of a process that ends, or has drained its share, forgets its item.
LEMMA DrainEnds ==
  ASSUME DrainTypes, NEW p \in Pids,
         UNCHANGED drain \/ drain' = [drain EXCEPT ![p] = NoDrain]
  PROVE  DrainTypes'
<1>1. drain' = [q \in Pids |-> drain'[q]] /\ \A q \in Pids : drain'[q] \in {drain[q], NoDrain}
  BY DEF DrainTypes
<1> QED
  BY <1>1, DrainsKept

\* What the proofs are about.
NudgeInv == DrainTypes /\ ProcessTypes /\ Recorded /\ Matched

\* A step of the loop, or of its drainer, keeps it.
LEMMA LoopKeeps ==
  ASSUME Types, ImportInv, NudgeInv, NEW p \in Pids, LoopStep(p) \/ GiveUp(p)
  PROVE  IntakeTypes' /\ ImportInv' /\ NudgeInv'
<1>1. IntakeTypes /\ DrainTypes /\ ProcessTypes /\ Linked
  BY DEF Types, ImportInv
<1>2. CASE DrainQueue(p)
  <2>1. ProcessOne(p) /\ UNCHANGED <<sv, file, llm, nudge, stack, launcher>>
    BY <1>2 DEF DrainQueue, around, sidecar
  <2>2. IntakeTypes' /\ ImportInv' /\ DrainTypes'
    BY <1>1, <2>1, DrainStep
  <2>3. ProcessTypes' /\ Recorded' /\ Matched'
    BY <1>1, <2>1 DEF ProcessTypes, NudgeInv, Recorded, Matched
  <2> QED
    BY <2>2, <2>3 DEF NudgeInv
<1>3. CASE ~DrainQueue(p)
  <2>1. /\ Turning(p) /\ task' \in [TaskIds -> Tasks] /\ NoImport
        /\ UNCHANGED <<issue, clerk, file, llm, nudge, stack, launcher>>
        /\ scene' \in SceneRecords /\ scene'.actors = scene.actors
        /\ UNCHANGED drain \/ drain' = [drain EXCEPT ![p] = NoDrain]
    BY <1>1, <1>3, LoopEffects
  <2>2. IntakeTypes' /\ ImportInv'
    BY <1>1, <2>1, OtherStep
  <2>3. Lasting /\ sv' \in [Pids -> Loops] /\ DrainTypes'
    BY <1>1, <2>1, TurningLasts, DrainEnds
  <2>4. Recorded' /\ Matched'
    BY <1>1, <2>1, <2>3, LastingKept DEF NudgeInv
  <2>5. ProcessTypes'
    BY <1>1, <2>1, <2>3 DEF ProcessTypes
  <2> QED
    BY <2>2, <2>3, <2>4, <2>5 DEF NudgeInv
<1> QED
  BY <1>2, <1>3

\* A lease that has run out is gone.
LEMMA FreeIs ==
  ASSUME IntakeTypes, Linked, NEW t, task' = [task EXCEPT ![t].lease = 0]
  PROVE  task' \in [TaskIds -> Tasks] /\ NoImport
<1>1. \A u \in TaskIds : task'[u] = IF u = t THEN [task[u] EXCEPT !.lease = 0] ELSE task[u]
  BY DEF IntakeTypes
<1>2. \A x \in Tasks : /\ [x EXCEPT !.lease = 0] \in Tasks /\ [x EXCEPT !.lease = 0].ref = x.ref
                      /\ [x EXCEPT !.lease = 0].child = x.child
                      /\ [x EXCEPT !.lease = 0].status = x.status
  BY DEF Tasks
<1>3. task' = [u \in TaskIds |-> task'[u]]
  BY DEF IntakeTypes
<1>4. task' \in [TaskIds -> Tasks] /\ TasksKept
  BY <1>1, <1>2, <1>3 DEF IntakeTypes, TasksKept
<1> QED
  BY <1>4, KeptNoImport

\* What the other steps have in common: they import nothing.
LEMMA IntakeKept ==
  ASSUME IntakeTypes, ImportInv, UNCHANGED <<issue, clerk>>,
         UNCHANGED task \/ RecoverStaleState \/ \E t : task' = [task EXCEPT ![t].lease = 0],
         UNCHANGED scene \/ Spend("commands") \/ Spend("faults") \/ Spend("outages")
           \/ Spend("errands")
  PROVE  IntakeTypes' /\ ImportInv'
<1>1. Linked
  BY DEF ImportInv
<1>2. task' \in [TaskIds -> Tasks] /\ NoImport
  <2> QED
    BY <1>1, RecoverIs, SameTasks, FreeIs
<1>3. scene' \in SceneRecords /\ scene'.actors = scene.actors
  BY SpendIs, SameScene DEF IntakeTypes
<1> QED
  BY <1>2, <1>3, OtherStep

\* What the other steps do to the processes, when no nudge and no start is part of them.
LEMMA ProcessesKept ==
  ASSUME NudgeInv, DrainTypes', Lasting, sv' \in [Pids -> Loops], UNCHANGED nudge,
         file' \in Files, file'.records \in {file.records, LiveRecords}, llm' \in {"up", "down"},
         UNCHANGED stack, UNCHANGED launcher
  PROVE  NudgeInv'
<1>1. Recorded' /\ Matched'
  BY LastingKept DEF NudgeInv
<1> QED
  BY <1>1 DEF NudgeInv, ProcessTypes

\* Time passes and backends come and go.
LEMMA TimeKeeps ==
  ASSUME Types, ImportInv, NudgeInv,
         \/ \E p \in Pids : GateAges(p) \/ \E q \in Projects : HeartbeatDue(p, q)
         \/ \E t \in TaskIds : LeaseExpires(t)
         \/ BackendsFail \/ BackendsRecover
  PROVE  IntakeTypes' /\ ImportInv' /\ NudgeInv'
<1>1. IntakeTypes /\ ProcessTypes /\ DrainTypes
  BY DEF Types
<1>2. IntakeTypes' /\ ImportInv'
  <2>1. UNCHANGED <<issue, clerk>> /\ (UNCHANGED scene \/ Spend("outages"))
    BY DEF GateAges, HeartbeatDue, LeaseExpires, BackendsFail, BackendsRecover, intake
  <2>2. UNCHANGED task \/ \E t : task' = [task EXCEPT ![t].lease = 0]
    BY DEF GateAges, HeartbeatDue, LeaseExpires, BackendsFail, BackendsRecover, intake
  <2> QED
    BY <1>1, <2>1, <2>2, IntakeKept
<1>3. UNCHANGED <<drain, file, nudge, stack, launcher>> /\ llm' \in {"up", "down"}
  BY <1>1 DEF GateAges, HeartbeatDue, LeaseExpires, BackendsFail, BackendsRecover, decisions,
     around, procs, sidecar, ProcessTypes
<1>4. Lasting /\ sv' \in [Pids -> Loops]
  <2>1. ASSUME NEW p \in Pids, GateAges(p) PROVE Lasting /\ sv' \in [Pids -> Loops]
    <3>1. sv[p] \in Loops /\ sv[p].gate \in Gates
      BY <1>1 DEF ProcessTypes, Loops
    <3>2. PICK stale, over : stale = [sv[p].gate EXCEPT !.fresh = FALSE]
                             /\ over = [sv[p].gate EXCEPT !.backoff = FALSE]
      OBVIOUS
    <3>3. stale \in Gates /\ over \in Gates
      BY <3>1, <3>2 DEF Gates
    <3>4. PICK g \in Gates : sv' = [sv EXCEPT ![p] = [sv[p] EXCEPT !.gate = g]]
      BY <2>1, <3>1, <3>2, <3>3 DEF GateAges, Loop, Loops
    <3>5. [sv[p] EXCEPT !.gate = g] \in Loops /\ [sv[p] EXCEPT !.gate = g].pc = sv[p].pc
      BY <3>1 DEF Loops
    <3> QED
      BY <1>1, <3>4, <3>5, BecomesLasts
  <2>2. ASSUME NEW p \in Pids, NEW q \in Projects, HeartbeatDue(p, q)
        PROVE  Lasting /\ sv' \in [Pids -> Loops]
    <3>1. sv[p] \in Loops
      BY <1>1 DEF ProcessTypes
    <3>2. PICK due : due = sv[p].due \cup {q}
      OBVIOUS
    <3>3. [sv[p] EXCEPT !.due = due] \in Loops /\ [sv[p] EXCEPT !.due = due].pc = sv[p].pc
      BY <3>1, <3>2 DEF Loops
    <3>4. sv' = [sv EXCEPT ![p] = [sv[p] EXCEPT !.due = due]]
      BY <2>2, <3>2 DEF HeartbeatDue, Loop
    <3> QED
      BY <1>1, <3>3, <3>4, BecomesLasts
  <2>3. (\E t \in TaskIds : LeaseExpires(t)) \/ BackendsFail \/ BackendsRecover => UNCHANGED sv
    BY DEF LeaseExpires, BackendsFail, BackendsRecover, procs
  <2> QED
    BY <1>1, <2>1, <2>2, <2>3, SameLasts
<1>5. DrainTypes' /\ file' \in Files
  BY <1>1, <1>3, DrainSame DEF ProcessTypes
<1> QED
  BY <1>2, <1>3, <1>4, <1>5, ProcessesKept

-----------------------------------------------------------------------------
(* run-harness around the loop, and the commands that end it. *)

\* The preflight of a start drops the records of the dead, and what else they left.
LEMMA PreflightIs ==
  ASSUME ProcessTypes, StartupPreflight
  PROVE  file' \in Files /\ file'.records = LiveRecords
<1>1. file \in Files /\ LiveRecords \in SUBSET Sups
  BY DEF ProcessTypes, LiveRecords, Files
<1>2. PICK records, stop, runtime, launch :
        /\ records = LiveRecords
        /\ stop = (file.stop /\ LiveRecords # {})
        /\ runtime = (IF ChildAlive(file.runtime) \/ LauncherAlive(file.runtime)
                      THEN file.runtime ELSE 0)
        /\ launch = (IF LaunchIsActive(file.launch) THEN file.launch ELSE NoLaunch)
  OBVIOUS
<1>3. stop \in BOOLEAN
  BY <1>2
<1>4. runtime \in Nat /\ launch \in [by : Nat, pid : Nat, old : BOOLEAN]
  BY <1>1, <1>2 DEF Files, NoLaunch
<1>5. file' = [file EXCEPT !.records = records, !.stop = stop, !.runtime = runtime, !.launch = launch]
  BY <1>1, <1>2 DEF StartupPreflight, Files
<1>6. records \in SUBSET Sups
  BY <1>1, <1>2
<1>7. file' = [stop |-> stop, records |-> records, desired |-> file.desired, runtime |-> runtime,
               launch |-> launch, wanted |-> file.wanted]
  BY <1>1, <1>5 DEF Files
<1>8. file.desired \in BOOLEAN /\ file.wanted \in BOOLEAN
  BY <1>1 DEF Files
<1> QED
  BY <1>2, <1>3, <1>4, <1>6, <1>7, <1>8 DEF Files

\* One signal asks the loop to stop, the next breaks it off.
LEMMA SignalledLasts ==
  ASSUME ProcessTypes, DrainTypes, NEW p, RequestStop(p)
  PROVE  /\ Lasting /\ sv' \in [Pids -> Loops] /\ DrainTypes'
         /\ file' \in Files /\ file'.records = file.records
<1>1. p \in Sups /\ p \in Pids /\ sv[p] \in Loops /\ file \in Files
  BY PidsAre DEF RequestStop, ProcessTypes
<1>2. sv' = [sv EXCEPT ![p] = Signalled(p)]
  BY DEF RequestStop
<1>3. \/ Signalled(p) = [sv[p] EXCEPT !.signals = 1]
      \/ InLoop(p) /\ Signalled(p) = [sv[p] EXCEPT !.signals = 2, !.pc = "exit", !.cur = 0]
      \/ Signalled(p) = NoLoop
  BY DEF Signalled
<1>4. [sv[p] EXCEPT !.signals = 1] \in Loops /\ [sv[p] EXCEPT !.signals = 1].pc = sv[p].pc
  BY <1>1 DEF Loops
<1>5. "exit" \in Serving /\ (InLoop(p) => sv[p].pc \in Serving)
  BY DEF Serving, InLoop
<1>6. [sv[p] EXCEPT !.signals = 2, !.pc = "exit", !.cur = 0] \in Loops
      /\ [sv[p] EXCEPT !.signals = 2, !.pc = "exit", !.cur = 0].pc = "exit"
  BY <1>1, <1>5 DEF Loops
<1>7. Lasting /\ sv' \in [Pids -> Loops]
  <2>1. CASE Signalled(p) = [sv[p] EXCEPT !.signals = 1]
    BY <1>1, <1>2, <1>4, <2>1, BecomesLasts
  <2>2. CASE InLoop(p) /\ Signalled(p) = [sv[p] EXCEPT !.signals = 2, !.pc = "exit", !.cur = 0]
    BY <1>1, <1>2, <1>5, <1>6, <2>2, BecomesLasts
  <2>3. CASE Signalled(p) = NoLoop
    BY <1>1, <1>2, <2>3, NoLoopIs, BecomesLasts
  <2> QED
    BY <1>3, <2>1, <2>2, <2>3
<1>8. UNCHANGED drain \/ drain' = [drain EXCEPT ![p] = NoDrain]
  <2>1. \/ drain' = [drain EXCEPT ![p] = drain[p]]
        \/ drain' = [drain EXCEPT ![p] = NoDrain]
    BY DEF RequestStop
  <2> QED
    BY <1>1, <2>1 DEF DrainTypes
<1>9. file' \in Files /\ file'.records = file.records
  <2>1. UNCHANGED file \/ file' = [file EXCEPT !.stop = TRUE]
    BY DEF RequestStop
  <2> QED
    BY <1>1, <2>1 DEF Files
<1> QED
  BY <1>1, <1>7, <1>8, <1>9, DrainEnds

\* A new supervisor has a pid that no record and no command remembers.
LEMMA StartIs ==
  ASSUME IntakeTypes, ProcessTypes, Recorded, Matched, NEW p \in Sups, Fresh(p),
         NEW watch \in BOOLEAN, sv' = [sv EXCEPT ![p] = Launch(p, watch)],
         file'.records = file.records, nudge'.matched = nudge.matched, nudge'.pc = nudge.pc
  PROVE  Recorded' /\ Matched' /\ sv' \in [Pids -> Loops]
<1>1. FreshPids \in SUBSET Nat /\ p \in Pids /\ p # Nudger
  BY PidsAre DEF FreshPids
<1>2. p \in FreshPids
  BY <1>1, MinIs DEF Fresh
<1>3. p \notin file.records \cup nudge.matched
  BY <1>2 DEF FreshPids
<1>4. Launch(p, watch) \in Loops /\ Launch(p, watch).pc = "preflight"
  <2>1. PICK due : due = scene.beats
    OBVIOUS
  <2>2. due \in SUBSET Projects
    BY <2>1 DEF IntakeTypes, SceneRecords
  <2>3. "preflight" \in Booting
    BY DEF Booting
  <2>4. [NoLoop EXCEPT !.pc = "preflight", !.watch = watch, !.due = due] \in Loops
        /\ [NoLoop EXCEPT !.pc = "preflight", !.watch = watch, !.due = due].pc = "preflight"
    BY <2>2, <2>3, NoLoopIs DEF Loops
  <2> QED
    BY <2>1, <2>4 DEF Launch
<1>5. PICK new \in Loops : new.pc = "preflight" /\ sv' = [sv EXCEPT ![p] = new]
  BY <1>4
<1>6. sv' \in [Pids -> Loops] /\ \A q \in Pids : sv'[q] = IF q = p THEN new ELSE sv[q]
  BY <1>5 DEF ProcessTypes
<1>7. "preflight" \notin Serving
  BY DEF Serving, LoopSteps
<1>8. Recorded'
  BY <1>1, <1>3, <1>5, <1>6, <1>7, PidsAre DEF Recorded
<1>9. Matched'
  <2>1. nudge.matched \subseteq Pids
    BY PidsAre DEF ProcessTypes
  <2> QED
    BY <1>3, <1>6, <2>1 DEF Matched
<1> QED
  BY <1>6, <1>8, <1>9

\* run-harness starts a supervisor under a fresh pid; it serves only after its preflight.
LEMMA StartHarnessKeeps ==
  ASSUME Types, ImportInv, NudgeInv, NEW p \in Sups, NEW watch \in BOOLEAN, StartHarness(p, watch)
  PROVE  IntakeTypes' /\ ImportInv' /\ NudgeInv'
<1>1. IntakeTypes /\ ProcessTypes /\ DrainTypes /\ Recorded /\ Matched
  BY DEF Types, NudgeInv
<1>2. /\ Fresh(p) /\ sv' = [sv EXCEPT ![p] = Launch(p, watch)] /\ Spend("commands")
      /\ UNCHANGED <<task, issue, clerk, drain, file, llm, nudge, stack, launcher>>
  BY DEF StartHarness, intake, decisions, sidecar
<1>3. IntakeTypes' /\ ImportInv'
  BY <1>1, <1>2, IntakeKept
<1>4. Recorded' /\ Matched' /\ sv' \in [Pids -> Loops]
  BY <1>1, <1>2, StartIs
<1>5. DrainTypes' /\ ProcessTypes'
  BY <1>1, <1>2, <1>4, DrainSame DEF ProcessTypes
<1> QED
  BY <1>3, <1>4, <1>5 DEF NudgeInv

\* A supervisor that starts cleans up, turns the plane on, and leaves its record last.
LEMMA BootKeeps ==
  ASSUME Types, ImportInv, NudgeInv, NEW p \in Pids, Preflight(p) \/ TurnOn(p) \/ WriteRecord(p)
  PROVE  IntakeTypes' /\ ImportInv' /\ NudgeInv'
<1>1. IntakeTypes /\ ProcessTypes /\ DrainTypes /\ Recorded /\ Matched /\ sv[p] \in Loops
      /\ file \in Files
  BY DEF Types, NudgeInv, ProcessTypes
<1>2. UNCHANGED <<scene, issue, clerk, drain, llm, nudge, stack, launcher>>
      /\ (UNCHANGED task \/ RecoverStaleState)
  BY DEF Preflight, TurnOn, WriteRecord, StartupPreflight, intake, decisions, sidecar
<1>3. IntakeTypes' /\ ImportInv' /\ DrainTypes'
  BY <1>1, <1>2, IntakeKept, DrainSame
<1>4. \A pc \in {"turn_on", "record", "head"} :
        [sv[p] EXCEPT !.pc = pc] \in Loops /\ [sv[p] EXCEPT !.pc = pc].pc = pc
  BY <1>1, PointsAre DEF Loops, Booting
<1>5. CASE Preflight(p) \/ TurnOn(p)
  <2>1. PICK pc \in {"turn_on", "record"} : sv' = [sv EXCEPT ![p] = [sv[p] EXCEPT !.pc = pc]]
    BY <1>5 DEF Preflight, TurnOn, Step
  <2>2. {sv[p].pc, pc} \subseteq Booting
    BY <1>5 DEF Preflight, TurnOn, Booting
  <2>3. Lasting /\ sv' \in [Pids -> Loops]
    BY <1>1, <1>4, <2>1, <2>2, BecomesLasts
  <2>4. file' \in Files /\ file'.records \in {file.records, LiveRecords}
    <3>1. CASE Preflight(p)
      BY <1>1, <3>1, PreflightIs DEF Preflight
    <3>2. CASE TurnOn(p)
      BY <1>1, <3>2 DEF TurnOn, Files
    <3> QED
      BY <1>5, <3>1, <3>2
  <2>5. llm' \in {"up", "down"}
    BY <1>1, <1>2 DEF ProcessTypes
  <2>6. NudgeInv'
    BY <1>2, <1>3, <2>3, <2>4, <2>5, ProcessesKept
  <2> QED
    BY <1>3, <2>6
<1>6. CASE WriteRecord(p)
  <2>1. sv[p].pc = "record" /\ sv' = [sv EXCEPT ![p] = [sv[p] EXCEPT !.pc = "head"]]
    BY <1>6 DEF WriteRecord, Step
  <2>2. p \in Sups
    BY <1>1, <2>1 DEF Recorded, Booting, Pids
  <2>3. file' \in Files /\ file'.records = file.records \cup {p}
    BY <1>1, <1>6, <2>2 DEF WriteRecord, Files
  <2>4. sv' \in [Pids -> Loops] /\ sv'[p].pc = "head" /\ \A q \in Pids \ {p} : sv'[q] = sv[q]
    BY <1>1, <1>4, <2>1 DEF ProcessTypes
  <2>5. "head" \notin Booting /\ "record" \in Booting
    BY DEF Booting
  <2>6. Recorded'
    BY <1>1, <2>2, <2>3, <2>4, <2>5, PidsAre DEF Recorded
  <2>7. Matched'
    <3>1. nudge.matched \subseteq Pids /\ p \notin nudge.matched
      BY <1>1, <2>1, <2>5, PidsAre DEF Matched, ProcessTypes
    <3> QED
      BY <1>1, <1>2, <2>4, <3>1 DEF Matched
  <2>8. ProcessTypes'
    BY <1>1, <1>2, <2>3, <2>4 DEF ProcessTypes
  <2> QED
    BY <1>3, <2>6, <2>7, <2>8 DEF NudgeInv
<1> QED
  BY <1>5, <1>6

\* A supervisor that ends removes its record, and last of all is gone.
LEMMA ExitKeeps ==
  ASSUME Types, ImportInv, NudgeInv, NEW p \in Pids, ExitPlane(p) \/ ExitRecord(p)
  PROVE  IntakeTypes' /\ ImportInv' /\ NudgeInv'
<1>1. IntakeTypes /\ ProcessTypes /\ DrainTypes /\ Recorded /\ Matched /\ sv[p] \in Loops
      /\ file \in Files
  BY DEF Types, NudgeInv, ProcessTypes
<1>2. UNCHANGED <<scene, task, issue, clerk, drain, llm, nudge, stack, launcher>>
  BY DEF ExitPlane, ExitRecord, intake, decisions, sidecar
<1>3. IntakeTypes' /\ ImportInv' /\ DrainTypes'
  BY <1>1, <1>2, IntakeKept, DrainSame
<1>4. CASE ExitPlane(p)
  <2>1. sv[p].pc = "exit" /\ sv' = [sv EXCEPT ![p] = [sv[p] EXCEPT !.pc = "leave"]] /\ UNCHANGED file
    BY <1>4 DEF ExitPlane, Step
  <2>2. [sv[p] EXCEPT !.pc = "leave"] \in Loops /\ [sv[p] EXCEPT !.pc = "leave"].pc = "leave"
    BY <1>1, PointsAre DEF Loops
  <2>3. Lasting /\ sv' \in [Pids -> Loops]
    BY <1>1, <2>1, <2>2, PointsAre, BecomesLasts
  <2>4. llm' \in {"up", "down"}
    BY <1>1, <1>2 DEF ProcessTypes
  <2>5. NudgeInv'
    BY <1>1, <1>2, <1>3, <2>1, <2>3, <2>4, ProcessesKept
  <2> QED
    BY <1>3, <2>5
<1>5. CASE ExitRecord(p)
  <2>1. sv' = [sv EXCEPT ![p] = NoLoop]
    BY <1>5 DEF ExitRecord
  <2>2. sv' \in [Pids -> Loops] /\ sv'[p].pc = "off" /\ \A q \in Pids \ {p} : sv'[q] = sv[q]
    BY <1>1, <2>1, NoLoopIs DEF ProcessTypes
  <2>3. file' \in Files /\ file'.records \in {file.records \ {p}, LiveRecords \ {p}}
    <3>1. LiveRecords \in SUBSET Sups
      BY <1>1 DEF LiveRecords, Files
    <3>2. PICK left, stop : left = LiveRecords \ {p} /\ stop = (left # {})
      OBVIOUS
    <3>3. \/ file' = [file EXCEPT !.records = left, !.stop = stop]
          \/ file' = [file EXCEPT !.records = @ \ {p}]
      BY <1>5, <3>2 DEF ExitRecord
    <3>4. left \in SUBSET Sups /\ stop \in BOOLEAN
      BY <3>1, <3>2
    <3> QED
      BY <1>1, <3>2, <3>3, <3>4 DEF Files
  <2>4. Recorded'
    BY <1>1, <2>2, <2>3, PidsAre, PointsAre DEF Recorded, LiveRecords, Alive
  <2>5. Matched'
    <3>1. nudge.matched \subseteq Pids
      BY <1>1, PidsAre DEF ProcessTypes
    <3> QED
      BY <1>1, <1>2, <2>2, <3>1, PointsAre DEF Matched
  <2>6. ProcessTypes'
    BY <1>1, <1>2, <2>2, <2>3 DEF ProcessTypes
  <2> QED
    BY <1>3, <2>4, <2>5, <2>6 DEF NudgeInv
<1> QED
  BY <1>4, <1>5

\* The operator interrupts, stops or kills supervisors, or one dies.
LEMMA EndKeeps ==
  ASSUME Types, ImportInv, NudgeInv,
         \/ \E p \in Sups : Interrupt(p) \/ Dies(p)
         \/ StopSupervisors \/ KillSupervisors
  PROVE  IntakeTypes' /\ ImportInv' /\ NudgeInv'
<1>1. IntakeTypes /\ ProcessTypes /\ DrainTypes /\ file \in Files /\ LiveRecords \in SUBSET Sups
      /\ llm \in {"up", "down"}
  BY DEF Types, ProcessTypes, LiveRecords, Files
<1>2. UNCHANGED <<task, issue, clerk, llm, nudge, stack, launcher>>
      /\ (Spend("commands") \/ Spend("faults"))
  BY DEF Interrupt, Dies, StopSupervisors, KillSupervisors, intake, sidecar
<1>3. IntakeTypes' /\ ImportInv'
  BY <1>1, <1>2, IntakeKept
<1>4. ASSUME NEW p \in Sups, Interrupt(p) PROVE NudgeInv'
  <2>1. RequestStop(p)
    BY <1>4 DEF Interrupt
  <2> QED
    BY <1>1, <1>2, <2>1, SignalledLasts, ProcessesKept
<1>5. ASSUME NEW p \in Sups, Dies(p) PROVE NudgeInv'
  <2>1. sv' = [sv EXCEPT ![p] = NoLoop] /\ drain' = [drain EXCEPT ![p] = NoDrain] /\ UNCHANGED file
    BY <1>5 DEF Dies
  <2>2. p \in Pids
    BY PidsAre
  <2>3. Lasting /\ sv' \in [Pids -> Loops] /\ DrainTypes'
    BY <1>1, <2>1, <2>2, NoLoopIs, BecomesLasts, DrainEnds
  <2> QED
    BY <1>1, <1>2, <2>1, <2>3, ProcessesKept
<1>6. ASSUME StopSupervisors PROVE NudgeInv'
  <2>1. UNCHANGED <<sv, drain>> /\ file' = [file EXCEPT !.stop = TRUE, !.records = LiveRecords]
    BY <1>6 DEF StopSupervisors, decisions
  <2>2. file' \in Files /\ file'.records = LiveRecords
    BY <1>1, <2>1 DEF Files
  <2>3. Lasting /\ sv' \in [Pids -> Loops] /\ DrainTypes'
    BY <1>1, <2>1, SameLasts, DrainSame
  <2> QED
    BY <1>1, <1>2, <2>2, <2>3, ProcessesKept
<1>7. ASSUME KillSupervisors PROVE NudgeInv'
  <2>1. /\ sv' = [p \in Pids |-> IF p \in LiveRecords THEN NoLoop ELSE sv[p]]
        /\ drain' = [p \in Pids |-> IF p \in LiveRecords THEN NoDrain ELSE drain[p]]
        /\ file' = [file EXCEPT !.records = LiveRecords]
    BY <1>7 DEF KillSupervisors
  <2>2. file' \in Files /\ file'.records = LiveRecords
    BY <1>1, <2>1 DEF Files
  <2>3. Lasting /\ sv' \in [Pids -> Loops]
    BY <1>1, <2>1, NoLoopIs DEF Lasting, ProcessTypes
  <2>4. DrainTypes'
    BY <1>1, <2>1, DrainsKept
  <2> QED
    BY <1>1, <1>2, <2>2, <2>3, <2>4, ProcessesKept
<1> QED
  BY <1>3, <1>4, <1>5, <1>6, <1>7

\* nudge-project asks those on record to stop, waits until none of them is left, works, and
\* starts as many again.
LEMMA NudgeKeeps ==
  ASSUME Types, ImportInv, NudgeInv, Nudging
  PROVE  IntakeTypes' /\ ImportInv' /\ NudgeInv'
<1>1. IntakeTypes /\ ProcessTypes /\ DrainTypes /\ Recorded /\ Matched
      /\ file \in Files /\ LiveRecords \in SUBSET Sups
      /\ nudge \in [pc : {"idle", "wait", "beat", "process", "restart"}, matched : SUBSET Sups,
                    again : SUBSET Sups]
  BY DEF Types, ProcessTypes, LiveRecords, Files, NudgeInv
<1>2. UNCHANGED <<task, issue, clerk, drain, llm, stack, launcher>>
      /\ (UNCHANGED scene \/ Spend("errands"))
  BY DEF Nudging, NudgeStart, NudgeWait, NudgeTimesOut, NudgeHeartbeat, NudgeProcessed,
         NudgeRestart, intake, decisions, sidecar
<1>3. IntakeTypes' /\ ImportInv' /\ DrainTypes'
  BY <1>1, <1>2, IntakeKept, DrainSame
<1>4. SUFFICES Recorded' /\ Matched' /\ sv' \in [Pids -> Loops] /\ file' \in Files
               /\ nudge' \in [pc : {"idle", "wait", "beat", "process", "restart"},
                              matched : SUBSET Sups, again : SUBSET Sups]
  BY <1>1, <1>2, <1>3 DEF NudgeInv, ProcessTypes
<1>5. CASE NudgeStart
  <2>1. UNCHANGED sv
    BY <1>5 DEF NudgeStart
  <2>2. file' \in Files /\ file'.records = LiveRecords
    <3>1. PICK stop : stop = (file.stop \/ LiveRecords # {})
      OBVIOUS
    <3>2. file' = [file EXCEPT !.records = LiveRecords, !.stop = stop]
      BY <1>1, <1>5, <3>1 DEF NudgeStart, Files
    <3>3. stop \in BOOLEAN
      BY <3>1
    <3> QED
      BY <1>1, <3>2, <3>3 DEF Files
  <2>3. nudge' = [pc |-> IF LiveRecords = {} THEN "beat" ELSE "wait", matched |-> LiveRecords,
                  again |-> LiveRecords]
    BY <1>5 DEF NudgeStart
  <2>4. Recorded'
    BY <1>1, <2>1, <2>2, PointsAre, PidsAre DEF Recorded, LiveRecords, Alive
  <2>5. Matched'
    BY <1>1, <2>1, <2>3 DEF Matched, Recorded, LiveRecords, Files
  <2> QED
    BY <1>1, <2>1, <2>2, <2>3, <2>4, <2>5 DEF ProcessTypes
<1>6. CASE NudgeWait
  <2>1. UNCHANGED sv /\ LiveRecords = {} /\ nudge' = [nudge EXCEPT !.pc = "beat"]
        /\ file' = [file EXCEPT !.records = {}]
    BY <1>6 DEF NudgeWait
  <2>2. file' \in Files /\ file'.records = {}
    BY <1>1, <2>1 DEF Files
  <2>3. \A p \in Sups : sv[p].pc \notin Serving
    BY <1>1, <2>1, PointsAre DEF Recorded, LiveRecords, Alive
  <2>4. \A p \in Sups : sv[p].pc \in {"off"} \cup Booting \cup Serving
    BY <1>1, PidsAre DEF ProcessTypes, Loops
  <2>5. Recorded'
    BY <1>1, <2>1, <2>2, <2>3 DEF Recorded
  <2>6. Matched'
    BY <1>1, <2>1, <2>3, <2>4 DEF Matched
  <2> QED
    BY <1>1, <2>1, <2>2, <2>5, <2>6 DEF ProcessTypes
<1>7. CASE nudge' = NoNudge /\ UNCHANGED <<sv, file>>
  BY <1>1, <1>7 DEF NoNudge, Recorded, Matched, ProcessTypes
<1>8. CASE NudgeHeartbeat /\ ~(nudge' = NoNudge /\ UNCHANGED <<sv, file>>)
  <2>1. PICK answer \in SUBSET scene.proposals :
          LET todo == MaterializeProposedTasks(answer) IN
          /\ nudge' = [nudge EXCEPT !.pc = IF todo = {} THEN "restart" ELSE "process"]
          /\ sv' = IF todo = {} THEN sv
                   ELSE [sv EXCEPT ![Nudger] = [NoLoop EXCEPT !.pc = "heartbeat", !.todo = todo]]
    BY <1>8 DEF NudgeHeartbeat
  <2>2. UNCHANGED file /\ nudge.pc = "beat"
    BY <1>8 DEF NudgeHeartbeat
  <2>3. PICK todo : todo = MaterializeProposedTasks(answer)
    OBVIOUS
  <2>4. todo \in SUBSET Proposals
    BY <1>1, <2>3 DEF MaterializeProposedTasks, IntakeTypes, SceneRecords
  <2>5. PICK new : new = [NoLoop EXCEPT !.pc = "heartbeat", !.todo = todo]
    OBVIOUS
  <2>6. new \in Loops /\ new.pc = "heartbeat"
    BY <2>4, <2>5, PointsAre, NoLoopIs DEF Loops
  <2>7. UNCHANGED sv \/ sv' = [sv EXCEPT ![Nudger] = new]
    BY <2>1, <2>3, <2>5
  <2>8. sv' \in [Pids -> Loops] /\ (sv'[Nudger].pc \in {sv[Nudger].pc, "heartbeat"})
        /\ \A p \in Sups : sv'[p] = sv[p]
    BY <1>1, <2>6, <2>7, PidsAre DEF ProcessTypes
  <2>9. \E pc \in {"restart", "process"} : nudge' = [nudge EXCEPT !.pc = pc]
    BY <2>1
  <2>10. Recorded' /\ Matched'
    BY <1>1, <2>2, <2>8, <2>9 DEF Recorded, Matched, Booting
  <2> QED
    BY <1>1, <2>2, <2>8, <2>9, <2>10
<1>9. CASE NudgeProcessed
  <2>1. /\ nudge.pc = "process" /\ sv' = [sv EXCEPT ![Nudger] = NoLoop]
        /\ nudge' = [nudge EXCEPT !.pc = "restart"] /\ UNCHANGED file
    BY <1>9 DEF NudgeProcessed
  <2>2. sv' \in [Pids -> Loops] /\ sv'[Nudger].pc = "off" /\ \A p \in Sups : sv'[p] = sv[p]
    BY <1>1, <2>1, NoLoopIs, PidsAre DEF ProcessTypes
  <2>3. Recorded' /\ Matched'
    BY <1>1, <2>1, <2>2, PointsAre DEF Recorded, Matched
  <2> QED
    BY <1>1, <2>1, <2>2, <2>3
<1>10. CASE NudgeRestart /\ ~(nudge' = NoNudge /\ UNCHANGED <<sv, file>>)
  <2>1. PICK p \in Sups : Fresh(p) /\ sv' = [sv EXCEPT ![p] = Launch(p, TRUE)]
                          /\ nudge' = [nudge EXCEPT !.again = @ \ {Min(@)}]
    BY <1>10 DEF NudgeRestart
  <2>2. UNCHANGED file /\ nudge'.matched = nudge.matched /\ nudge'.pc = nudge.pc
        /\ nudge' \in [pc : {"idle", "wait", "beat", "process", "restart"}, matched : SUBSET Sups,
                       again : SUBSET Sups]
    BY <1>1, <1>10, <2>1 DEF NudgeRestart
  <2>3. Recorded' /\ Matched' /\ sv' \in [Pids -> Loops]
    BY <1>1, <2>1, <2>2, StartIs
  <2> QED
    BY <1>1, <2>2, <2>3
<1>11. CASE NudgeTimesOut
  BY <1>7, <1>11 DEF NudgeTimesOut
<1> QED
  BY <1>5, <1>6, <1>7, <1>8, <1>9, <1>10, <1>11 DEF Nudging

\* A restart of the stack: it signals and reaps those on record, and starts a supervisor anew.
LEMMA RestartKeeps ==
  ASSUME Types, ImportInv, NudgeInv, Restarting
  PROVE  IntakeTypes' /\ ImportInv' /\ NudgeInv'
<1> DEFINE Stacks == [pc : {"idle", "term", "wait"}, kill : SUBSET Sups]
<1>1. IntakeTypes /\ ProcessTypes /\ DrainTypes /\ Recorded /\ Matched
      /\ file \in Files /\ stack \in Stacks
  BY DEF Types, ProcessTypes, NudgeInv
<1>2. UNCHANGED <<task, issue, clerk, llm, nudge, launcher>>
      /\ (UNCHANGED scene \/ Spend("errands"))
  BY DEF Restarting, RestartStack, Terminate, Reap, Relaunch, intake, sidecar
<1>3. IntakeTypes' /\ ImportInv'
  BY <1>1, <1>2, IntakeKept
<1>4. SUFFICES Recorded' /\ Matched' /\ sv' \in [Pids -> Loops] /\ DrainTypes' /\ file' \in Files
               /\ stack' \in Stacks
  BY <1>1, <1>2, <1>3 DEF NudgeInv, ProcessTypes
<1>5. ASSUME NEW force \in BOOLEAN, RestartStack(force)
      PROVE  Recorded' /\ Matched' /\ sv' \in [Pids -> Loops] /\ DrainTypes' /\ file' \in Files
             /\ stack' \in Stacks
  <2>1. UNCHANGED <<sv, drain, file>>
        /\ \E kill \in {file.records, {}} : stack' = [pc |-> "term", kill |-> kill]
    BY <1>5 DEF RestartStack, decisions
  <2>2. stack' \in Stacks
    BY <1>1, <2>1 DEF Files
  <2>3. Lasting /\ sv' \in [Pids -> Loops] /\ DrainTypes'
    BY <1>1, <2>1, SameLasts, DrainSame
  <2> QED
    BY <1>1, <1>2, <2>1, <2>2, <2>3, LastingKept
<1>6. CASE Terminate
  <2>1. \/ \E p : RequestStop(p) /\ stack' = [stack EXCEPT !.pc = "wait"]
        \/ UNCHANGED <<sv, drain, file>> /\ \E p : stack' = [stack EXCEPT !.kill = @ \ {p}]
    BY <1>6 DEF Terminate
  <2>2. stack' \in Stacks
    BY <1>1, <2>1
  <2>3. /\ Lasting /\ sv' \in [Pids -> Loops] /\ DrainTypes'
        /\ file' \in Files /\ file'.records = file.records
    BY <1>1, <2>1, SignalledLasts, SameLasts, DrainSame
  <2> QED
    BY <1>1, <1>2, <2>2, <2>3, LastingKept
<1>7. CASE Reap
  <2>1. PICK p : p = Min(stack.kill)
    OBVIOUS
  <2>2. /\ sv' = [sv EXCEPT ![p] = NoLoop] /\ drain' = [drain EXCEPT ![p] = NoDrain]
        /\ UNCHANGED file /\ stack' = [pc |-> "term", kill |-> stack.kill \ {p}]
    BY <1>7, <2>1 DEF Reap
  <2>3. Lasting /\ sv' \in [Pids -> Loops] /\ DrainTypes'
    <3>1. CASE p \in Pids
      BY <1>1, <2>2, <3>1, NoLoopIs, BecomesLasts, DrainEnds
    <3>2. CASE p \notin Pids
      <4>1. UNCHANGED <<sv, drain>>
        BY <1>1, <2>2, <3>2 DEF ProcessTypes, DrainTypes
      <4> QED
        BY <1>1, <4>1, SameLasts, DrainSame
    <3> QED
      BY <3>1, <3>2
  <2>4. stack' \in Stacks
    BY <1>1, <2>2
  <2> QED
    BY <1>1, <1>2, <2>2, <2>3, <2>4, LastingKept
<1>8. CASE Relaunch
  <2>1. UNCHANGED drain /\ stack' = NoStack
    BY <1>8 DEF Relaunch, decisions
  <2>2. DrainTypes' /\ stack' \in Stacks
    BY <1>1, <2>1, DrainSame DEF NoStack
  <2>3. CASE UNCHANGED <<file, sv>>
    <3>1. Lasting /\ sv' \in [Pids -> Loops]
      BY <1>1, <2>3, SameLasts
    <3> QED
      BY <1>1, <1>2, <2>2, <2>3, <3>1, LastingKept
  <2>4. CASE \E p \in Sups : /\ Fresh(p) /\ file' = [file EXCEPT !.stop = FALSE]
                             /\ sv' = [sv EXCEPT ![p] = Launch(p, TRUE)]
    <3>1. file' \in Files /\ file'.records = file.records
      BY <1>1, <2>4 DEF Files
    <3>2. Recorded' /\ Matched' /\ sv' \in [Pids -> Loops]
      BY <1>1, <1>2, <2>4, <3>1, StartIs
    <3> QED
      BY <2>2, <3>1, <3>2
  <2> QED
    BY <1>8, <2>3, <2>4 DEF Relaunch
<1> QED
  BY <1>5, <1>6, <1>7, <1>8 DEF Restarting

-----------------------------------------------------------------------------
(* The sidecar. *)

LauncherTypes ==
  [Launchers -> [pc : {"off", "adopt", "runtime", "launch", "acquire", "again", "spawn", "write"},
                 kill : SUBSET Children, child : Nat]]

\* sa-watch-start leaves a launcher at one of its points, and with pids it has seen.
LEMMA LauncherIs ==
  ASSUME ProcessTypes, NEW l \in Launchers, LauncherStep(l) \/ StartSaWatch(l)
  PROVE  launcher' \in LauncherTypes
<1>1. launcher \in LauncherTypes /\ NoLauncher \in [pc : {"off"}, kill : SUBSET Children, child : Nat]
  BY DEF ProcessTypes, LauncherTypes, NoLauncher
<1>2. CASE StartSaWatch(l)
  <2>1. Running \in SUBSET Children
    BY DEF Running
  <2>2. PICK kill : kill = Running \ {Max(Running)}
    OBVIOUS
  <2>3. \/ launcher' = [launcher EXCEPT ![l] = [NoLauncher EXCEPT !.pc = "runtime"]]
        \/ launcher' = [launcher EXCEPT ![l] = [NoLauncher EXCEPT !.pc = "adopt", !.kill = kill]]
    BY <1>2, <2>2 DEF StartSaWatch
  <2>4. kill \in SUBSET Children
    BY <2>1, <2>2
  <2>5. PICK new : /\ new \in {[NoLauncher EXCEPT !.pc = "runtime"],
                               [NoLauncher EXCEPT !.pc = "adopt", !.kill = kill]}
                   /\ launcher' = [launcher EXCEPT ![l] = new]
    BY <2>3
  <2>6. new \in [pc : {"runtime", "adopt"}, kill : SUBSET Children, child : Nat]
    BY <1>1, <2>4, <2>5
  <2> QED
    BY <1>1, <2>5, <2>6 DEF LauncherTypes
<1>3. CASE Spawn(l)
  <2>1. FreshChildren \in SUBSET Nat /\ FreshChildren # {}
    BY <1>3, PidsAre DEF FreshChildren, Spawn
  <2>2. PICK c : c = Min(FreshChildren)
    OBVIOUS
  <2>3. c \in Nat
    BY <2>1, <2>2, MinIs
  <2>4. launcher' = [launcher EXCEPT ![l].pc = "write", ![l].child = c]
    BY <1>3, <2>2 DEF Spawn
  <2> QED
    BY <1>1, <2>3, <2>4 DEF LauncherTypes
<1>4. CASE TerminateExtra(l)
  <2>1. UNCHANGED launcher \/ \E c : launcher' = [launcher EXCEPT ![l].kill = @ \ {c}]
    BY <1>4 DEF TerminateExtra
  <2> QED
    BY <1>1, <2>1 DEF LauncherTypes
<1>5. CASE Adopt(l) \/ ReadRuntime(l) \/ ReadLaunch(l) \/ Acquire(l) \/ WriteLaunch(l)
  <2>1. \/ launcher' = [launcher EXCEPT ![l] = NoLauncher]
        \/ \E pc \in {"launch", "acquire", "again", "spawn"} : launcher' = [launcher EXCEPT ![l].pc = pc]
    BY <1>5 DEF Adopt, ReadRuntime, ReadLaunch, Acquire, WriteLaunch, Launcher, Exit
  <2> QED
    BY <1>1, <2>1 DEF LauncherTypes
<1> QED
  BY <1>2, <1>3, <1>4, <1>5 DEF LauncherStep

\* What sa-watch-start writes to the runtime and launch files is a pid of its own or its child's.
LEMMA LauncherFiles ==
  ASSUME ProcessTypes, NEW l \in Launchers, LauncherStep(l) \/ StartSaWatch(l)
  PROVE  file' \in Files /\ file'.records = file.records
<1>1. file \in Files /\ launcher \in LauncherTypes /\ l \in Nat
      /\ NoLaunch \in [by : Nat, pid : Nat, old : BOOLEAN]
  BY PidsAre DEF ProcessTypes, LauncherTypes, NoLaunch
<1>2. CASE Adopt(l)
  BY <1>1, <1>2 DEF Adopt, Files
<1>3. CASE Acquire(l)
  <2>1. PICK mine : mine = [NoLaunch EXCEPT !.by = l]
    OBVIOUS
  <2>2. mine \in [by : Nat, pid : Nat, old : BOOLEAN]
    BY <1>1, <2>1
  <2>3. UNCHANGED file \/ \E x \in {mine, NoLaunch} : file' = [file EXCEPT !.launch = x]
    BY <1>3, <2>1 DEF Acquire
  <2> QED
    BY <1>1, <2>2, <2>3 DEF Files
<1>4. CASE Spawn(l)
  BY <1>1, <1>4 DEF Spawn, Files
<1>5. CASE WriteLaunch(l)
  <2>1. PICK x : x = [by |-> l, pid |-> launcher[l].child, old |-> file.launch.old]
    OBVIOUS
  <2>2. x \in [by : Nat, pid : Nat, old : BOOLEAN]
    BY <1>1, <2>1 DEF LauncherTypes, Files
  <2>3. file' = [file EXCEPT !.launch = x]
    BY <1>1, <1>5, <2>1 DEF WriteLaunch, Files
  <2> QED
    BY <1>1, <2>2, <2>3 DEF Files
<1>6. CASE StartSaWatch(l) \/ TerminateExtra(l) \/ ReadRuntime(l) \/ ReadLaunch(l)
  BY <1>1, <1>6 DEF StartSaWatch, TerminateExtra, ReadRuntime, ReadLaunch
<1> QED
  BY <1>2, <1>3, <1>4, <1>5, <1>6 DEF LauncherStep

\* The sidecar's processes leave the supervisors, the nudge and the stop request alone, except
\* that the loop's own preflight drops the records of the dead.
LEMMA SidecarKeeps ==
  ASSUME Types, ImportInv, NudgeInv, SidecarNext
  PROVE  IntakeTypes' /\ ImportInv' /\ NudgeInv'
<1>1. IntakeTypes /\ ProcessTypes /\ DrainTypes /\ Recorded /\ Matched
      /\ file \in Files /\ launcher \in LauncherTypes
      /\ NoLaunch \in [by : Nat, pid : Nat, old : BOOLEAN]
  BY DEF Types, ProcessTypes, NudgeInv, LauncherTypes, NoLaunch
<1>2. /\ UNCHANGED <<issue, clerk, drain, sv, llm, nudge, stack>>
      /\ UNCHANGED task \/ RecoverStaleState
      /\ UNCHANGED scene \/ Spend("commands") \/ Spend("faults")
  <2>1. ASSUME NEW l \in Launchers, StartSaWatch(l) \/ LauncherStep(l)
        PROVE  UNCHANGED <<scene, rest>>
    BY <2>1 DEF StartSaWatch, LauncherStep, TerminateExtra, Adopt, ReadRuntime, ReadLaunch, Acquire,
       Spawn, WriteLaunch
  <2>2. ASSUME NEW l \in Launchers, LauncherDies(l) PROVE Spend("faults") /\ UNCHANGED rest
    BY <2>2 DEF LauncherDies
  <2>3. ASSUME NEW c \in Children, ChildDies(c) PROVE Spend("faults") /\ UNCHANGED rest
    BY <2>3 DEF ChildDies
  <2>4. ASSUME NEW c \in Children, Announce(c) \/ Round(c) PROVE UNCHANGED <<scene, rest>>
    BY <2>4 DEF Announce, Round
  <2>5. ASSUME NEW c \in Children, Boot(c)
        PROVE  UNCHANGED <<scene, issue, clerk, drain, sv, llm, nudge, stack>> /\ RecoverStaleState
    BY <2>5 DEF Boot, StartupPreflight
  <2>6. LaunchAges \/ StopperStep => UNCHANGED <<scene, rest>>
    BY DEF LaunchAges, StopperStep, TerminateNamed, ClearStates
  <2>7. StopSaWatch => Spend("commands") /\ UNCHANGED rest
    BY DEF StopSaWatch
  <2> QED
    BY <2>1, <2>2, <2>3, <2>4, <2>5, <2>6, <2>7 DEF SidecarNext, ChildStep, rest, intake, decisions
<1>3. launcher' \in LauncherTypes
  <2>1. ASSUME NEW x, Exit(x) PROVE launcher' \in LauncherTypes
    BY <1>1, <2>1 DEF Exit, NoLauncher, LauncherTypes
  <2>2. ASSUME NEW l \in Launchers, StartSaWatch(l) \/ LauncherStep(l) \/ LauncherDies(l)
        PROVE  launcher' \in LauncherTypes
    BY <1>1, <2>1, <2>2, LauncherIs DEF LauncherDies
  <2>3. UNCHANGED launcher \/ \E x : Exit(x) \/ \E l \in Launchers : StartSaWatch(l) \/ LauncherStep(l) \/ LauncherDies(l)
    BY DEF SidecarNext, ChildStep, Boot, Announce, Round, ChildDies, LaunchAges, StopSaWatch, StopperStep,
       TerminateNamed, ClearStates, sidecar
  <2> QED
    BY <1>1, <2>1, <2>2, <2>3
<1>4. file' \in Files /\ file'.records \in {file.records, LiveRecords}
  <2>1. ASSUME NEW l \in Launchers, StartSaWatch(l) \/ LauncherStep(l)
        PROVE  file' \in Files /\ file'.records = file.records
    BY <1>1, <2>1, LauncherFiles
  <2>2. ASSUME NEW c \in Children, ChildStep(c)
        PROVE  file' \in Files /\ file'.records \in {file.records, LiveRecords}
    <3>1. CASE Boot(c)
      BY <1>1, <3>1, PreflightIs DEF Boot
    <3>2. CASE Announce(c)
      BY <1>1, <3>2, PidsAre DEF Announce, Files
    <3>3. CASE Round(c)
      BY <1>1, <3>3, PidsAre DEF Round, Files
    <3> QED
      BY <2>2, <3>1, <3>2, <3>3 DEF ChildStep
  <2>3. LaunchAges => file' \in Files /\ file'.records = file.records
    <3>1. \A x \in [by : Nat, pid : Nat, old : BOOLEAN] :
            [x EXCEPT !.old = TRUE] \in [by : Nat, pid : Nat, old : BOOLEAN]
      OBVIOUS
    <3>2. PICK x : x = [file.launch EXCEPT !.old = TRUE]
      OBVIOUS
    <3>3. x \in [by : Nat, pid : Nat, old : BOOLEAN]
      BY <1>1, <3>1, <3>2 DEF Files
    <3>4. LaunchAges => file' = [file EXCEPT !.launch = x]
      BY <1>1, <3>2 DEF LaunchAges, Files
    <3> QED
      BY <1>1, <3>3, <3>4 DEF Files
  <2>4. ClearStates => file' \in Files /\ file'.records = file.records
    <3>1. PICK none : none = NoLaunch
      OBVIOUS
    <3>2. ClearStates => file' = [file EXCEPT !.runtime = 0, !.launch = none, !.wanted = FALSE]
      BY <3>1 DEF ClearStates
    <3>3. none \in [by : Nat, pid : Nat, old : BOOLEAN]
      BY <1>1, <3>1
    <3>4. ASSUME ClearStates PROVE file' \in Files /\ file'.records = file.records
      <4>1. file' = [stop |-> file.stop, records |-> file.records, desired |-> file.desired,
                     runtime |-> 0, launch |-> none, wanted |-> FALSE]
        BY <1>1, <3>2, <3>4 DEF Files
      <4> QED
        BY <1>1, <3>3, <4>1 DEF Files
    <3> QED
      BY <3>4
  <2>5. ASSUME \/ \E l \in Launchers : LauncherDies(l)
               \/ \E c \in Children : ChildDies(c)
               \/ StopSaWatch \/ TerminateNamed
        PROVE  UNCHANGED file
    BY <2>5 DEF LauncherDies, ChildDies, StopSaWatch, TerminateNamed
  <2> QED
    BY <1>1, <2>1, <2>2, <2>3, <2>4, <2>5 DEF SidecarNext, StopperStep
<1>5. IntakeTypes' /\ ImportInv' /\ DrainTypes'
  BY <1>1, <1>2, IntakeKept, DrainSame
<1>6. Recorded' /\ Matched' /\ sv' \in [Pids -> Loops]
  BY <1>1, <1>2, <1>4, SameLasts, LastingKept
<1> QED
  BY <1>1, <1>2, <1>3, <1>4, <1>5, <1>6 DEF NudgeInv, ProcessTypes, LauncherTypes

-----------------------------------------------------------------------------
(* The theorems. *)

HarnessInv == IntakeTypes /\ ImportInv /\ NudgeInv

\* A scene begins with the supervisors it names at the head of their loops and on record, with
\* its tasks, and with nobody importing.
LEMMA HarnessInit == ASSUME Init PROVE HarnessInv
<1>1. scene \in SceneRecords /\ (scene.ref # "none" => Len(scene.tasks) <= Cardinality(Clerks \cap scene.actors))
  BY HarnessAssumption DEF Init
<1>2. IntakeTypes
  <2>1. \A s \in TaskStatus \cup {"absent"}, r \in Issues \cup {"none"} :
          [NoTask EXCEPT !.status = s, !.ref = r] \in Tasks /\ NoTask \in Tasks
    BY DEF NoTask, Tasks
  <2>2. scene.tasks \in Seq(TaskStatus) /\ scene.ref \in Issues \cup {"none"}
    BY <1>1 DEF SceneRecords
  <2>3. \A t \in DOMAIN scene.tasks : scene.tasks[t] \in TaskStatus
    BY <2>2
  <2>4. task \in [TaskIds -> Tasks]
    BY <2>1, <2>2, <2>3 DEF Init
  <2>5. AtDesk \in Jobs
    BY DEF AtDesk, Jobs
  <2> QED
    BY <1>1, <2>4, <2>5 DEF Init, IntakeTypes
<1>3. Linked /\ Hired
  <2>1. \A s, r : [NoTask EXCEPT !.status = s, !.ref = r].status = s
                  /\ NoTask.ref = "none"
    BY DEF NoTask
  <2>2. \A t \in DOMAIN scene.tasks : scene.tasks[t] # "absent"
    <3>1. scene.tasks \in Seq(TaskStatus)
      BY <1>1 DEF SceneRecords
    <3>2. "absent" \notin TaskStatus
      BY DEF TaskStatus
    <3> QED
      BY <3>1, <3>2
  <2>3. Linked
    <3>1. ASSUME NEW t \in TaskIds, task[t].status = "absent" PROVE task[t].ref = "none"
      <4>1. task[t] = IF t \in DOMAIN scene.tasks
                      THEN [NoTask EXCEPT !.status = scene.tasks[t], !.ref = scene.ref] ELSE NoTask
        BY DEF Init
      <4> QED
        BY <2>1, <2>2, <3>1, <4>1
    <3> QED
      BY <3>1 DEF Linked
  <2>4. Hired
    BY DEF Init, Hired, AtDesk
  <2> QED
    BY <2>3, <2>4
<1>4. ASSUME NEW i \in Issues
      PROVE  Cardinality(Imports(i)) + Cardinality(Importing(i)) <= Cardinality(Clerks \cap scene.actors)
  <2>1. Importing(i) = {} /\ Cardinality(Importing(i)) = 0
    BY FS_EmptySet DEF Init, Importing, AtDesk
  <2>2. IsFiniteSet(Clerks) /\ Clerks \cap scene.actors \in SUBSET Clerks
    BY HarnessAssumption
  <2>3. Cardinality(Clerks \cap scene.actors) \in Nat
    BY <2>2, FewerThan
  <2>4. CASE scene.ref # i
    <3>1. Imports(i) = {}
      BY <2>4, NotNone DEF Init, Imports, NoTask
    <3> QED
      BY <2>1, <2>3, <3>1, FS_EmptySet
  <2>5. CASE scene.ref = i
    <3>1. Len(scene.tasks) \in Nat /\ DOMAIN scene.tasks = 1..Len(scene.tasks)
      BY <1>1 DEF SceneRecords
    <3>2. Imports(i) \in SUBSET (1..Len(scene.tasks))
      BY <3>1, NotNone DEF Init, Imports, NoTask
    <3>3. IsFiniteSet(1..Len(scene.tasks)) /\ Cardinality(1..Len(scene.tasks)) = Len(scene.tasks)
      <4>1. PICK n \in Nat : n = Len(scene.tasks)
        BY <3>1
      <4>2. IsFiniteSet(1..n) /\ Cardinality(1..n) = IF 1 > n THEN 0 ELSE n - 1 + 1
        BY FS_Interval
      <4>3. n - 1 + 1 = n /\ (1 > n => n = 0)
        OBVIOUS
      <4>4. Cardinality(1..n) = n
        BY <4>2, <4>3
      <4> QED
        BY <4>1, <4>2, <4>4
    <3>4. Cardinality(Imports(i)) <= Len(scene.tasks) /\ Cardinality(Imports(i)) \in Nat
      BY <3>2, <3>3, FewerThan
    <3>5. Len(scene.tasks) <= Cardinality(Clerks \cap scene.actors)
      BY <1>1, <2>5, NotNone
    <3> QED
      BY <2>1, <2>3, <3>1, <3>4, <3>5
  <2> QED
    BY <2>4, <2>5
<1>5. ImportInv
  BY <1>3, <1>4 DEF ImportInv
<1>6. DrainTypes
  BY DEF Init, DrainTypes, Drains, NoDrain
<1>7. scene.sups \in SUBSET Sups
  BY <1>1 DEF SceneRecords
<1>8. \A p \in Pids : /\ sv[p] \in Loops
                      /\ sv[p].pc = IF p \in scene.sups THEN "head" ELSE "off"
  <2>1. scene.beats \in SUBSET Projects
    BY <1>1 DEF SceneRecords
  <2>2. PICK due : due = scene.beats
    OBVIOUS
  <2>3. PICK new : new = [[NoLoop EXCEPT !.pc = "preflight", !.watch = TRUE, !.due = due] EXCEPT !.pc = "head"]
    OBVIOUS
  <2>4. new \in Loops /\ new.pc = "head"
    BY <2>1, <2>2, <2>3, NoLoopIs, PointsAre DEF Loops
  <2>5. \A p \in Pids : sv[p] = IF p \in scene.sups THEN new ELSE NoLoop
    BY <2>2, <2>3 DEF Init, Launch
  <2> QED
    BY <2>4, <2>5, NoLoopIs
<1>9. ProcessTypes
  <2>1. sv \in [Pids -> Loops]
    <3>1. sv = [p \in Pids |-> sv[p]]
      BY DEF Init
    <3> QED
      BY <1>8, <3>1
  <2>2. file \in Files
    BY <1>7 DEF Init, Files, NoLaunch
  <2>3. nudge \in [pc : {"idle", "wait", "beat", "process", "restart"}, matched : SUBSET Sups,
                   again : SUBSET Sups]
        /\ stack \in [pc : {"idle", "term", "wait"}, kill : SUBSET Sups] /\ llm \in {"up", "down"}
    BY DEF Init, NoNudge, NoStack
  <2>4. launcher \in LauncherTypes
    BY DEF Init, NoLauncher, LauncherTypes
  <2> QED
    BY <2>1, <2>2, <2>3, <2>4 DEF ProcessTypes, LauncherTypes
<1>10. Recorded /\ Matched
  <2>1. file.records = scene.sups /\ nudge.matched = {}
    BY DEF Init, NoNudge
  <2>2. "head" \in Serving /\ "head" \notin Booting /\ "off" \notin Serving \cup Booting
    BY PointsAre
  <2> QED
    BY <1>7, <1>8, <2>1, <2>2, PidsAre DEF Recorded, Matched
<1> QED
  BY <1>2, <1>5, <1>6, <1>9, <1>10 DEF HarnessInv, NudgeInv

\* Every step of the harness keeps the invariant.
LEMMA HarnessStep == ASSUME HarnessInv, [Next]_vars PROVE HarnessInv'
<1>1. Types /\ ImportInv /\ NudgeInv /\ IntakeTypes /\ DrainTypes /\ ProcessTypes
  BY DEF HarnessInv, Types, NudgeInv
<1>2. CASE SupervisorNext
  <2>1. ASSUME NEW p \in Pids, LoopStep(p) \/ GiveUp(p) PROVE HarnessInv'
    BY <1>1, <2>1, LoopKeeps DEF HarnessInv
  <2>2. ASSUME NEW p \in Sups, BootAndExit(p) PROVE HarnessInv'
    BY <1>1, <2>2, PidsAre, BootKeeps, ExitKeeps DEF HarnessInv, BootAndExit
  <2>3. ASSUME NEW p \in Sups, Dies(p) \/ Interrupt(p) PROVE HarnessInv'
    BY <1>1, <2>3, EndKeeps DEF HarnessInv
  <2>4. ASSUME NEW p \in Sups, NEW watch \in BOOLEAN, StartHarness(p, watch) PROVE HarnessInv'
    BY <1>1, <2>4, StartHarnessKeeps DEF HarnessInv
  <2>5. ASSUME \/ \E p \in Pids : GateAges(p) \/ \E q \in Projects : HeartbeatDue(p, q)
               \/ \E t \in TaskIds : LeaseExpires(t)
               \/ BackendsFail \/ BackendsRecover
        PROVE  HarnessInv'
    BY <1>1, <2>5, TimeKeeps DEF HarnessInv
  <2>6. ASSUME StopSupervisors \/ KillSupervisors PROVE HarnessInv'
    BY <1>1, <2>6, EndKeeps DEF HarnessInv
  <2>7. ASSUME Nudging \/ Restarting PROVE HarnessInv'
    BY <1>1, <2>7, NudgeKeeps, RestartKeeps DEF HarnessInv
  <2> QED
    BY <1>2, <2>1, <2>2, <2>3, <2>4, <2>5, <2>6, <2>7 DEF SupervisorNext
<1>3. CASE SidecarNext
  BY <1>1, <1>3, SidecarKeeps DEF HarnessInv
<1>4. CASE IntakeNext
  <2>1. CASE (AddTask \/ \E c \in Clerks : ClerkStep(c)) /\ UNCHANGED <<decisions, procs>>
    <3>1. IntakeTypes' /\ ImportInv'
      BY <1>1, <2>1, AddTaskStep, ClerkSteps
    <3>2. UNCHANGED <<drain, sv, file, llm, nudge, stack, launcher>>
      BY <2>1 DEF decisions, procs, sidecar
    <3> QED
      BY <1>1, <3>1, <3>2 DEF HarnessInv, NudgeInv, DrainTypes, ProcessTypes, Recorded, Matched
  <2>2. CASE (Validate \/ QueuedForDecision \/ Branching) /\ UNCHANGED procs
    <3>1. IntakeTypes' /\ ImportInv' /\ DrainTypes'
      BY <1>1, <2>2, DecisionStep
    <3>2. UNCHANGED <<sv, file, llm, nudge, stack, launcher>>
      BY <2>2 DEF procs, sidecar
    <3> QED
      BY <1>1, <3>1, <3>2 DEF HarnessInv, NudgeInv, ProcessTypes, Recorded, Matched
  <2> QED
    BY <1>4, <2>1, <2>2 DEF IntakeNext
<1>5. CASE UNCHANGED vars
  <2>1. UNCHANGED <<scene, task, issue, clerk, drain, sv, file, llm, nudge, stack, launcher>>
    BY <1>5 DEF vars, intake, decisions, procs, sidecar
  <2>2. IntakeTypes' /\ ImportInv'
    BY <1>1, <2>1, IntakeKept
  <2> QED
    BY <1>1, <2>1, <2>2 DEF HarnessInv, NudgeInv, DrainTypes, ProcessTypes, Recorded, Matched
<1> QED
  BY <1>2, <1>3, <1>4, <1>5 DEF Next

\* The processes of the harness, their files and the tasks stay what they are said to be: no
\* command leaves a supervisor at no point of its program, or a task with half a record.
THEOREM HarnessTypes == Spec => [](IntakeTypes /\ DrainTypes /\ ProcessTypes)
<1>1. HarnessInv => IntakeTypes /\ DrainTypes /\ ProcessTypes
  BY DEF HarnessInv, NudgeInv
<1> QED
  BY <1>1, HarnessInit, HarnessStep, PTL DEF Spec

\* However many processes import an issue at once, whatever becomes of its tasks, and whoever
\* reports, retries or adds to them: each process makes at most one task of the issue
\* (services/task_service.py, create_task).
THEOREM ImportsAreBounded == Spec => []ImportBound
<1>1. HarnessInv => ImportBound
  <2>1. SUFFICES ASSUME HarnessInv, NEW i \in Issues
                 PROVE  Cardinality({t \in Present : task[t].ref = i /\ ~task[t].child})
                          <= Cardinality(Clerks \cap scene.actors)
    BY DEF ImportBound
  <2>2. IsFiniteSet(TaskIds) /\ IsFiniteSet(Clerks)
    BY FS_Interval, IntakeAssumption, HarnessAssumption DEF TaskIds
  <2>3. Imports(i) \in SUBSET TaskIds /\ Importing(i) \in SUBSET Clerks
        /\ Clerks \cap scene.actors \in SUBSET Clerks
    BY DEF Imports, Importing
  <2>4. IsFiniteSet(Imports(i)) /\ Cardinality(Imports(i)) \in Nat
        /\ Cardinality(Importing(i)) \in Nat /\ Cardinality(Clerks \cap scene.actors) \in Nat
    BY <2>2, <2>3, FewerThan
  <2>5. {t \in Present : task[t].ref = i /\ ~task[t].child} \in SUBSET Imports(i)
    BY DEF Present, Imports
  <2>6. Cardinality({t \in Present : task[t].ref = i /\ ~task[t].child}) <= Cardinality(Imports(i))
        /\ Cardinality({t \in Present : task[t].ref = i /\ ~task[t].child}) \in Nat
    BY <2>4, <2>5, FewerThan
  <2>7. Cardinality(Imports(i)) + Cardinality(Importing(i)) <= Cardinality(Clerks \cap scene.actors)
    BY <2>1 DEF HarnessInv, ImportInv
  <2> QED
    BY <2>4, <2>6, <2>7
<1> QED
  BY <1>1, HarnessInit, HarnessStep, PTL DEF Spec

\* When nudge-project works on the project, and as long as it starts supervisors again, those it
\* asked to stop are gone: no kill, relaunch or start in between brings one of them back, and
\* none of them served without a record (commands/core.py, nudge-project).
THEOREM NudgeIsPatient == Spec => []NudgeWaits
<1>1. HarnessInv => NudgeWaits
  BY DEF HarnessInv, NudgeInv, Matched, NudgeWaits, InLoop, LoopSteps
<1> QED
  BY <1>1, HarnessInit, HarnessStep, PTL DEF Spec
=============================================================================
