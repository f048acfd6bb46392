-------------------------- MODULE StuckWatchProofs --------------------------
(***************************************************************************)
(* That a retry tree stays within its bound, however many disposers race   *)
(* past the check of its cap, beside the workers, the recovery agent and   *)
(* its repairs.                                                            *)
(***************************************************************************)
EXTENDS StuckWatch, FiniteSetTheorems, TLAPS

-----------------------------------------------------------------------------
(* The root of a task. *)

\* The least of some naturals is one of them: create_task takes the first free id.
LEMMA MinIs ==
  ASSUME NEW S \in SUBSET Nat, S # {} PROVE Min(S) \in S /\ \A m \in S : Min(S) <= m
<1> DEFINE Below(n) == 0..n
           F == {Below(n) : n \in S}
           R == StrictSubsetOrdering(Nat)
<1>1. F \subseteq FiniteSubsetsOf(Nat) /\ F # {}
  <2>1. \A n \in Nat : 0..n \in SUBSET Nat /\ IsFiniteSet(0..n)
    BY FS_Interval
  <2> QED
    BY <2>1 DEF FiniteSubsetsOf
<1>2. IsWellFoundedOn(R, FiniteSubsetsOf(Nat))
  BY FS_StrictSubsetOrderingWellFounded
<1>3. \E x \in F : \A y \in F : ~(<<y, x>> \in R)
  <2> HIDE DEF F, R
  <2> QED
    BY <1>1, <1>2, WFMin
<1>4. PICK n \in S : \A m \in S : ~(<<0..m, 0..n>> \in R)
  BY <1>3
<1>5. \A m \in S : n <= m
  <2>1. SUFFICES ASSUME NEW m \in S, m < n PROVE FALSE
    OBVIOUS
  <2>2. 0..m \subseteq 0..n /\ 0..m # 0..n /\ {0..m, 0..n} \subseteq SUBSET Nat
    <3>1. n \in 0..n /\ n \notin 0..m
      BY <2>1
    <3> QED
      BY <2>1, <3>1
  <2>3. <<0..m, 0..n>> \in R
    BY <2>2 DEF StrictSubsetOrdering
  <2> QED
    BY <1>4, <2>3
<1> QED
  BY <1>5 DEF Min

\* The bounds of the model are numbers, and somebody disposes of failed tasks.
LEMMA NumbersAre ==
  /\ MaxTask \in Nat /\ Cap \in Nat /\ MaxFindings \in Nat
  /\ TaskIds = 1..MaxTask /\ TaskIds \subseteq Nat \ {0} /\ IsFiniteSet(TaskIds)
<1>1. MaxTask \in Nat /\ Cap \in Nat /\ MaxFindings \in Nat
  BY TreeAssumption
<1> QED
  BY <1>1, FS_Interval DEF TaskIds

\* A task is created after the one it grows from.
Grown(ts) == \A u \in TaskIds : ts[u].parent # 0 => ts[u].parent \in TaskIds /\ ts[u].parent < u

\* f leads every task up to its root.
Up(ts, f) == f = [u \in TaskIds |-> IF ts[u].parent = 0 THEN u ELSE f[ts[u].parent]]
RootIn(ts, t) == (CHOOSE f : Up(ts, f))[t]

\* From every task parents lead up to a root, ...
LEMMA RootsExist == ASSUME NEW ts, Grown(ts) PROVE \E f : Up(ts, f)
<1> DEFINE Good(n) == {f \in [1..n -> TaskIds] : \A u \in 1..n :
                         f[u] = IF ts[u].parent = 0 THEN u ELSE f[ts[u].parent]}
           B == {n \in 0..MaxTask : Good(n) = {}}
<1>1. B = {}
  <2>1. SUFFICES ASSUME B # {} PROVE FALSE
    OBVIOUS
  <2>2. B \in SUBSET Nat /\ MaxTask \in Nat
    <3>1. 0..MaxTask \subseteq Nat
      BY NumbersAre
    <3> QED
      BY <3>1, NumbersAre
  <2>3. PICK n \in B : \A m \in B : n <= m
    <3> HIDE DEF B
    <3> QED
      BY <2>1, <2>2, MinIs
  <2>6. n \in 0..MaxTask /\ Good(n) = {} /\ \A m \in 0..MaxTask : Good(m) = {} => n <= m
    BY <2>3
  <2>4. CASE n = 0
    <3>1. 1..n = {}
      BY <2>4
    <3>2. [u \in 1..n |-> 1] \in [1..n -> TaskIds] /\ \A u \in 1..n : FALSE
      BY <3>1
    <3>3. [u \in 1..n |-> 1] \in Good(n)
      BY <3>2
    <3> QED
      BY <2>6, <3>3
  <2>5. CASE n # 0
    <3>1. n - 1 \in 0..MaxTask /\ ~(n <= n - 1) /\ n \in Nat
      BY <2>2, <2>5, <2>6
    <3>2. PICK f : f \in Good(n - 1)
      <4>1. Good(n - 1) # {}
        BY <2>6, <3>1
      <4> HIDE DEF Good
      <4> QED
        BY <4>1
    <3>3. PICK g : g = [u \in 1..n |-> IF u < n THEN f[u]
                                       ELSE IF ts[u].parent = 0 THEN u ELSE f[ts[u].parent]]
      OBVIOUS
    <3>4. \A u \in 1..n : u \in TaskIds /\ (u < n => u \in 1..(n - 1)) /\ (u = n \/ u < n)
      BY <2>2, <2>6, <3>1 DEF TaskIds
    <3>5. \A u \in 1..n : ts[u].parent # 0 =>
            ts[u].parent \in 1..(n - 1) /\ ts[u].parent \in 1..n /\ ts[u].parent < u /\ ts[u].parent < n
      <4>1. SUFFICES ASSUME NEW u \in 1..n, ts[u].parent # 0
                     PROVE  ts[u].parent \in 1..(n - 1) /\ ts[u].parent \in 1..n
                            /\ ts[u].parent < u /\ ts[u].parent < n
        OBVIOUS
      <4>2. PICK p : p = ts[u].parent
        OBVIOUS
      <4>3. p \in TaskIds /\ p < u
        BY <3>4, <4>1, <4>2 DEF Grown
      <4>4. p \in 1..(n - 1) /\ p \in 1..n /\ p < n
        BY <2>2, <3>1, <4>3 DEF TaskIds
      <4> QED
        BY <4>2, <4>3, <4>4
    <3>6. f \in [1..(n - 1) -> TaskIds]
          /\ \A u \in 1..(n - 1) : f[u] = IF ts[u].parent = 0 THEN u ELSE f[ts[u].parent]
      BY <3>2
    <3>7. g \in [1..n -> TaskIds]
      BY <3>3, <3>4, <3>5, <3>6
    <3>8. \A u \in 1..n : g[u] = IF ts[u].parent = 0 THEN u ELSE g[ts[u].parent]
      <4>1. SUFFICES ASSUME NEW u \in 1..n
                     PROVE  g[u] = IF ts[u].parent = 0 THEN u ELSE g[ts[u].parent]
        OBVIOUS
      <4>2. ts[u].parent # 0 => g[ts[u].parent] = f[ts[u].parent]
        BY <3>3, <3>5
      <4>3. CASE u < n
        BY <3>3, <3>4, <3>6, <4>2, <4>3
      <4>4. CASE u = n
        BY <3>1, <3>3, <4>2, <4>4
      <4> QED
        BY <3>4, <4>3, <4>4
    <3>9. g \in Good(n)
      BY <3>7, <3>8
    <3> QED
      BY <2>6, <3>9
  <2> QED
    BY <2>4, <2>5
<1>2. PICK f : f \in Good(MaxTask)
  <2>1. MaxTask \in 0..MaxTask
    BY NumbersAre
  <2>2. Good(MaxTask) # {}
    BY <1>1, <2>1
  <2> HIDE DEF Good
  <2> QED
    BY <2>2
<1>3. f \in [TaskIds -> TaskIds]
      /\ \A u \in TaskIds : f[u] = IF ts[u].parent = 0 THEN u ELSE f[ts[u].parent]
  BY <1>2 DEF TaskIds
<1>4. f = [u \in TaskIds |-> f[u]]
  BY <1>3
<1> QED
  BY <1>3, <1>4 DEF Up

\* ... and to one only.
LEMMA RootsAgree == ASSUME NEW ts, Grown(ts), NEW f, Up(ts, f), NEW g, Up(ts, g) PROVE f = g
<1> DEFINE B == {u \in TaskIds : f[u] # g[u]}
<1>1. /\ f = [u \in TaskIds |-> f[u]] /\ g = [u \in TaskIds |-> g[u]]
      /\ \A u \in TaskIds : f[u] = IF ts[u].parent = 0 THEN u ELSE f[ts[u].parent]
      /\ \A u \in TaskIds : g[u] = IF ts[u].parent = 0 THEN u ELSE g[ts[u].parent]
  BY DEF Up
<1>2. SUFFICES ASSUME B # {} PROVE FALSE
  BY <1>1
<1>3. PICK u \in B : \A m \in B : u <= m
  <2>1. B \in SUBSET Nat
    BY DEF TaskIds
  <2> HIDE DEF B
  <2> QED
    BY <1>2, <2>1, MinIs
<1>4. CASE ts[u].parent = 0
  BY <1>1, <1>3, <1>4
<1>5. CASE ts[u].parent # 0
  <2>1. ts[u].parent \in TaskIds /\ ts[u].parent < u /\ u \in Nat /\ ts[u].parent \in Nat
    BY <1>3, <1>5 DEF Grown, TaskIds
  <2>2. ts[u].parent \notin B
    BY <1>3, <2>1
  <2> QED
    BY <1>1, <1>3, <1>5, <2>1, <2>2
<1> QED
  BY <1>4, <1>5

\* The root of a task is where any such way up leads.
LEMMA RootInIs ==
  ASSUME NEW ts, Grown(ts), NEW f, Up(ts, f), NEW t PROVE RootIn(ts, t) = f[t]
<1>1. Up(ts, CHOOSE g : Up(ts, g))
  BY RootsExist
<1> QED
  BY <1>1, RootsAgree DEF RootIn

\* _retry_root follows the parents.
LEMMA RootIs == \A t : Root(t) = RootIn(task, t) /\ Root(t)' = RootIn(task', t)
BY DEF Root, RootIn, Up

-----------------------------------------------------------------------------
(* The invariant. *)

Rows ==
  [status : {"none", "pending", "active", "completed", "failed"}, parent : TaskIds \cup {0},
   kind : {"work", "legacy", "split", "manual", "repair"}, run : {"none", "working", "ended"},
   cat : Categories \cup {""},
   disp : {"none", "retry_as_is", "split", "manual", "waive_obsolete"}, ignored : BOOLEAN]
Jobs ==
  [pc : {"idle", "check", "create", "finish", "apply"}, task : TaskIds \cup {0},
   how : {"none", "retry_as_is", "split", "manual", "waive_obsolete", "promotion"},
   left : 0..MaxFindings]

\* Tasks are created in the order of their ids, and a disposer or a repair is about a task that
\* was created.
Rooted ==
  /\ task \in [TaskIds -> Rows]
  /\ Grown(task)
  /\ \A t \in Created(task), u \in TaskIds : u < t => u \in Created(task)
  /\ \A t \in TaskIds : task[t].status = "none" => task[t].parent = 0
Assigned ==
  /\ disposer \in [Disposers -> Jobs]
  /\ \A d \in Disposers :
       /\ disposer[d].pc # "idle" => disposer[d].task \in Created(task)
       /\ disposer[d].pc = "create" => disposer[d].left > 0
Repaired ==
  /\ repair = [pc |-> repair.pc, task |-> repair.task, before |-> repair.before,
               outcome |-> repair.outcome]
  /\ repair.pc # "idle" => repair.task \in Created(task)

\* The tasks split from a root, and those that disposers have still to create for it, in the
\* order they will be created.
Splits(r) == {t \in Descendants(r) : task[t].kind = "split"}
Promised(r) ==
  {x \in Disposers \X (1..MaxFindings) :
     /\ disposer[x[1]].pc = "create" /\ x[2] <= disposer[x[1]].left
     /\ Root(disposer[x[1]].task) = r}

TreeBound == Cap + (Cardinality(Disposers) - 1) * MaxFindings
Bounded == \A r \in TaskIds : Cardinality(Splits(r)) + Cardinality(Promised(r)) <= TreeBound

TreeInv == Rooted /\ Assigned /\ Repaired /\ Bounded

-----------------------------------------------------------------------------
(* What a step does to the trees. *)

\* The rows change, but none is created and none goes to another tree.
RowsKept ==
  /\ task' \in [TaskIds -> Rows]
  /\ \A t \in TaskIds : /\ task'[t].parent = task[t].parent /\ task'[t].kind = task[t].kind
                        /\ task'[t].status = "none" <=> task[t].status = "none"

\* The task n grows from p, or from none, while other rows may change as before.
Grows(n, p, kind) ==
  /\ n \in TaskIds \ Created(task) /\ \A u \in TaskIds : u < n => u \in Created(task)
  /\ task' \in [TaskIds -> Rows]
  /\ \A t \in TaskIds \ {n} :
       /\ task'[t].parent = task[t].parent /\ task'[t].kind = task[t].kind
       /\ task'[t].status = "none" <=> task[t].status = "none"
  /\ task'[n].parent = p /\ task'[n].kind = kind /\ task'[n].status # "none"

\* Then everything stays in its tree, ...
LEMMA KeptTrees ==
  ASSUME Rooted, RowsKept
  PROVE  /\ Rooted' /\ Created(task)' = Created(task)
         /\ \A t : Root(t)' = Root(t)
         /\ \A r : Splits(r)' = Splits(r)
<1>1. Created(task)' = Created(task)
  BY DEF Created, RowsKept
<1>2. Rooted'
  BY <1>1 DEF Rooted, RowsKept, Grown
<1>3. PICK f : Up(task, f)
  BY RootsExist DEF Rooted
<1>4. Up(task', f)
  BY <1>3 DEF Up, RowsKept
<1>5. \A t : Root(t)' = Root(t)
  BY <1>2, <1>3, <1>4, RootIs, RootInIs DEF Rooted
<1>6. \A r : Splits(r)' = Splits(r)
  BY <1>1, <1>5 DEF Splits, Descendants, Created, RowsKept
<1> QED
  BY <1>1, <1>2, <1>5, <1>6

\* ... or the new task is in the tree of the one it grows from.
LEMMA GrownTrees ==
  ASSUME Rooted, NEW n, NEW p \in Created(task) \cup {0}, NEW kind, Grows(n, p, kind)
  PROVE  /\ Rooted' /\ Created(task)' = Created(task) \cup {n}
         /\ \A t \in Created(task) : Root(t)' = Root(t)
         /\ \A r : Splits(r)' \subseteq Splits(r)
              \cup IF kind = "split" /\ p # 0 /\ Root(p) = r THEN {n} ELSE {}
<1>1. Created(task)' = Created(task) \cup {n}
  BY DEF Created, Grows
<1>2. n \in TaskIds /\ TaskIds \subseteq Nat \ {0} /\ n \in Nat
  BY NumbersAre DEF Grows
<1>3. p # 0 => p \in TaskIds /\ p < n /\ p \in Created(task)
  <2>1. ASSUME p # 0 PROVE p < n
    <3>1. p \in Created(task) /\ n \notin Created(task) /\ p \in TaskIds /\ p # n
      BY <2>1 DEF Grows, Created
    <3>2. ~(n < p)
      BY <1>2, <3>1 DEF Rooted
    <3> QED
      BY <1>2, <3>1, <3>2
  <2> QED
    BY <2>1 DEF Created
<1>4. Grown(task')
  BY <1>3 DEF Rooted, Grown, Grows
<1>5. Rooted'
  <2>1. \A t \in Created(task)', u \in TaskIds : u < t => u \in Created(task)'
    BY <1>1 DEF Rooted, Grows
  <2>2. \A t \in TaskIds : task'[t].status = "none" => task'[t].parent = 0
    BY DEF Rooted, Grows
  <2> QED
    BY <1>4, <2>1, <2>2 DEF Rooted, Grows
<1>6. PICK f : Up(task, f)
  BY RootsExist DEF Rooted
<1>7. f = [u \in TaskIds |-> f[u]]
      /\ \A u \in TaskIds : f[u] = IF task[u].parent = 0 THEN u ELSE f[task[u].parent]
  BY <1>6 DEF Up
<1>8. PICK g : g = [u \in TaskIds |-> IF u = n THEN IF p = 0 THEN n ELSE f[p] ELSE f[u]]
  OBVIOUS
<1>9. \A u \in TaskIds : g[u] = IF task'[u].parent = 0 THEN u ELSE g[task'[u].parent]
  <2>1. SUFFICES ASSUME NEW u \in TaskIds
                 PROVE  g[u] = IF task'[u].parent = 0 THEN u ELSE g[task'[u].parent]
    OBVIOUS
  <2>2. CASE u = n
    <3>1. task'[u].parent = p
      BY <2>2 DEF Grows
    <3>2. p # 0 => g[p] = f[p]
      BY <1>2, <1>3, <1>8
    <3> QED
      BY <1>8, <2>2, <3>1, <3>2
  <2>3. CASE u # n
    <3>1. task'[u].parent = task[u].parent
      BY <2>3 DEF Grows
    <3>2. task[u].parent # 0 => task[u].parent \in TaskIds /\ task[u].parent # n
      <4>1. ASSUME task[u].parent # 0, task[u].parent = n PROVE FALSE
        <5>1. n < u /\ u \in Created(task)
          BY <4>1 DEF Rooted, Grown, Created
        <5>2. n \in Created(task)
          BY <1>2, <5>1 DEF Rooted
        <5> QED
          BY <5>2 DEF Grows
      <4> QED
        BY <4>1 DEF Rooted, Grown
    <3> QED
      BY <1>7, <1>8, <2>3, <3>1, <3>2
  <2> QED
    BY <2>2, <2>3
<1>10. Up(task', g)
  BY <1>8, <1>9 DEF Up
<1>11. \A t : Root(t) = f[t] /\ Root(t)' = g[t]
  BY <1>4, <1>6, <1>10, RootIs, RootInIs DEF Rooted
<1>12. \A t \in Created(task) : t \in TaskIds /\ t # n
  BY DEF Created, Grows
<1>13. \A t \in Created(task) : Root(t)' = Root(t)
  BY <1>8, <1>11, <1>12
<1>14. ASSUME NEW r, NEW t \in Splits(r)', t \notin Splits(r)
       PROVE  t = n /\ kind = "split" /\ p # 0 /\ Root(p) = r
  <2>1. t \in Created(task) \cup {n} /\ t # r /\ Root(t)' = r /\ task'[t].kind = "split"
    BY <1>1, <1>14 DEF Splits, Descendants
  <2>2. t = n
    <3>1. SUFFICES ASSUME t \in Created(task), t # n PROVE FALSE
      BY <2>1
    <3>2. Root(t) = r /\ task[t].kind = "split"
      BY <1>12, <1>13, <2>1, <3>1 DEF Grows
    <3> QED
      BY <1>14, <2>1, <3>1, <3>2 DEF Splits, Descendants
  <2>3. kind = "split" /\ g[n] = r /\ n # r
    BY <1>11, <2>1, <2>2 DEF Grows
  <2> QED
    BY <1>2, <1>8, <1>11, <2>2, <2>3
<1> QED
  BY <1>1, <1>5, <1>13, <1>14

-----------------------------------------------------------------------------
(* How many tasks are split from a root. *)

\* The disposers and the tasks of a tree are counted by naturals, ...
LEMMA SizesAre == \A S : IsFiniteSet(S) => Cardinality(S) \in Nat
BY FS_CardinalityType

\* (a split of k findings makes k tasks, one after the other, ...)
LEMMA CountsAre == \A k \in Nat : IsFiniteSet(1..k) /\ Cardinality(1..k) = k
<1>1. SUFFICES ASSUME NEW k \in Nat PROVE IsFiniteSet(1..k) /\ Cardinality(1..k) = k
  OBVIOUS
<1>2. 1 \in Int /\ k \in Int
  OBVIOUS
<1>3. IsFiniteSet(1..k) /\ Cardinality(1..k) = IF 1 > k THEN 0 ELSE k - 1 + 1
  BY <1>2, FS_Interval
<1> QED
  BY <1>3

\* (... and n disposers as many as n times k)
LEMMA ProductsAre ==
  \A S, T : IsFiniteSet(S) /\ IsFiniteSet(T) =>
    IsFiniteSet(S \X T) /\ Cardinality(S \X T) = Cardinality(S) * Cardinality(T)
<1>1. SUFFICES ASSUME NEW S, NEW T, IsFiniteSet(S), IsFiniteSet(T)
               PROVE  IsFiniteSet(S \X T) /\ Cardinality(S \X T) = Cardinality(S) * Cardinality(T)
  BY Zenon
<1> QED
  BY <1>1, FS_Product, Zenon

\* There is a disposer, and not endlessly many.
LEMMA DisposersAre ==
  IsFiniteSet(Disposers) /\ Cardinality(Disposers) \in Nat /\ Cardinality(Disposers) - 1 \in Nat
<1>1. IsFiniteSet(Disposers) /\ Disposers # {}
  BY TreeAssumption, Zenon
<1>2. Cardinality(Disposers) \in Nat /\ Cardinality(Disposers) # 0
  BY <1>1, SizesAre, FS_EmptySet
<1> QED
  BY <1>1, <1>2

\* ... and fewer of them have a smaller count.
LEMMA SmallerSets ==
  \A S, T : IsFiniteSet(S) /\ T \in SUBSET S =>
              /\ IsFiniteSet(T) /\ Cardinality(T) <= Cardinality(S)
              /\ Cardinality(T) \in Nat /\ Cardinality(S) \in Nat
<1>1. SUFFICES ASSUME NEW S, NEW T, IsFiniteSet(S), T \in SUBSET S
               PROVE  /\ IsFiniteSet(T) /\ Cardinality(T) <= Cardinality(S)
                      /\ Cardinality(T) \in Nat /\ Cardinality(S) \in Nat
  OBVIOUS
<1>2. IsFiniteSet(T) /\ Cardinality(T) <= Cardinality(S)
  BY <1>1, FS_Subset
<1> QED
  BY <1>1, <1>2, SizesAre

\* A tree has finitely many tasks, and finitely many are promised to it.
LEMMA TreesAreFinite ==
  /\ TreeBound \in Nat
  /\ \A r : /\ IsFiniteSet(Descendants(r)) /\ Cardinality(Descendants(r)) \in Nat
            /\ IsFiniteSet(Splits(r)) /\ Cardinality(Splits(r)) \in Nat
            /\ IsFiniteSet(Promised(r)) /\ Cardinality(Promised(r)) \in Nat
            /\ Cardinality(Splits(r)) <= Cardinality(Descendants(r))
<1>1. MaxFindings \in Nat /\ Cap \in Nat /\ IsFiniteSet(1..MaxFindings) /\ IsFiniteSet(Disposers)
  BY NumbersAre, DisposersAre, CountsAre
<1>2. Cardinality(Disposers) - 1 \in Nat
  BY DisposersAre
<1>3. (Cardinality(Disposers) - 1) * MaxFindings \in Nat
  BY <1>1, <1>2
<1>4. IsFiniteSet(Disposers \X (1..MaxFindings))
  BY <1>1, ProductsAre
<1>5. ASSUME NEW r
      PROVE  /\ Descendants(r) \in SUBSET TaskIds /\ Splits(r) \in SUBSET Descendants(r)
             /\ Promised(r) \in SUBSET (Disposers \X (1..MaxFindings))
  BY DEF Descendants, Created, Splits, Promised
<1>6. ASSUME NEW r
      PROVE  /\ IsFiniteSet(Descendants(r)) /\ IsFiniteSet(Splits(r)) /\ IsFiniteSet(Promised(r))
             /\ Cardinality(Splits(r)) <= Cardinality(Descendants(r))
  <2>1. IsFiniteSet(Descendants(r))
    BY <1>5, NumbersAre, SmallerSets
  <2>2. IsFiniteSet(Splits(r)) /\ Cardinality(Splits(r)) <= Cardinality(Descendants(r))
    BY <1>5, <2>1, SmallerSets
  <2>3. IsFiniteSet(Promised(r))
    BY <1>4, <1>5, SmallerSets
  <2> QED
    BY <2>1, <2>2, <2>3
<1>7. TreeBound \in Nat
  BY <1>1, <1>3 DEF TreeBound
<1> QED
  BY <1>6, <1>7, SizesAre

\* What neither splits nor promises to leaves a tree within its bound.
LEMMA BoundKept ==
  ASSUME Bounded,
         \A r \in TaskIds : Splits(r)' \subseteq Splits(r) /\ Promised(r)' \subseteq Promised(r)
  PROVE  Bounded'
<1>1. SUFFICES ASSUME NEW r \in TaskIds
               PROVE  Cardinality(Splits(r)') + Cardinality(Promised(r)') <= TreeBound
  BY DEF Bounded, TreeBound
<1>2. PICK S, P, T, Q : S = Splits(r) /\ P = Promised(r) /\ T = Splits(r)' /\ Q = Promised(r)'
  OBVIOUS
<1>3. /\ IsFiniteSet(S) /\ IsFiniteSet(P) /\ Cardinality(S) \in Nat /\ Cardinality(P) \in Nat
      /\ TreeBound \in Nat /\ Cardinality(S) + Cardinality(P) <= TreeBound
  BY <1>2, TreesAreFinite DEF Bounded
<1>4. T \in SUBSET S /\ Q \in SUBSET P
  BY <1>2
<1>5. /\ Cardinality(T) <= Cardinality(S) /\ Cardinality(Q) <= Cardinality(P)
      /\ Cardinality(T) \in Nat /\ Cardinality(Q) \in Nat
  BY <1>3, <1>4, SmallerSets, SizesAre
<1> QED
  BY <1>2, <1>3, <1>5

\* A disposer that passes the check of the cap promises its findings to the tree: they, and
\* one split of each of the others, are within the bound (_remediation_block_reason).
LEMMA PromisesFit ==
  ASSUME Bounded, NEW d \in Disposers, NEW n \in 1..MaxFindings, NEW r0,
         Cardinality(Descendants(r0)) + n <= Cap,
         \A r \in TaskIds : Splits(r)' \subseteq Splits(r),
         \A r \in TaskIds \ {r0} : Promised(r)' \subseteq Promised(r),
         Promised(r0)' \subseteq ((Disposers \ {d}) \X (1..MaxFindings)) \cup ({d} \X (1..n))
  PROVE  Bounded'
<1>1. SUFFICES ASSUME NEW r \in TaskIds
               PROVE  Cardinality(Splits(r)') + Cardinality(Promised(r)') <= TreeBound
  BY DEF Bounded, TreeBound
<1>2. PICK S, P, T, Q : S = Splits(r) /\ P = Promised(r) /\ T = Splits(r)' /\ Q = Promised(r)'
  OBVIOUS
<1>3. /\ IsFiniteSet(S) /\ IsFiniteSet(P) /\ Cardinality(S) \in Nat /\ Cardinality(P) \in Nat
      /\ TreeBound \in Nat /\ Cardinality(S) + Cardinality(P) <= TreeBound
  BY <1>2, TreesAreFinite DEF Bounded
<1>4. T \in SUBSET S
  BY <1>2
<1>5. Cardinality(T) <= Cardinality(S) /\ Cardinality(T) \in Nat
  BY <1>3, <1>4, SmallerSets, SizesAre
<1>6. CASE r # r0
  <2>1. Q \in SUBSET P
    BY <1>2, <1>6
  <2>2. Cardinality(Q) <= Cardinality(P) /\ Cardinality(Q) \in Nat
    BY <1>3, <2>1, SmallerSets, SizesAre
  <2> QED
    BY <1>2, <1>3, <1>5, <2>2
<1>7. CASE r = r0
  <2> DEFINE O == (Disposers \ {d}) \X (1..MaxFindings)
             M == {d} \X (1..n)
  <2>1. /\ n \in Nat /\ MaxFindings \in Nat /\ Cap \in Nat /\ IsFiniteSet(Disposers)
        /\ Cardinality(Disposers) \in Nat
    BY NumbersAre, DisposersAre
  <2>2. /\ IsFiniteSet(1..n) /\ Cardinality(1..n) = n
        /\ IsFiniteSet(1..MaxFindings) /\ Cardinality(1..MaxFindings) = MaxFindings
    BY <2>1, CountsAre
  <2>3. IsFiniteSet(Disposers \ {d}) /\ Cardinality(Disposers \ {d}) = Cardinality(Disposers) - 1
    BY <2>1, FS_RemoveElement
  <2>4. IsFiniteSet(O) /\ Cardinality(O) = (Cardinality(Disposers) - 1) * MaxFindings
    <3>1. IsFiniteSet(O) /\ Cardinality(O) = Cardinality(Disposers \ {d}) * Cardinality(1..MaxFindings)
      BY <2>2, <2>3, ProductsAre
    <3> QED
      BY <2>2, <2>3, <3>1
  <2>5. IsFiniteSet(M) /\ Cardinality(M) = n
    <3>1. IsFiniteSet({d}) /\ Cardinality({d}) = 1
      BY FS_Singleton
    <3>2. IsFiniteSet(M) /\ Cardinality(M) = Cardinality({d}) * Cardinality(1..n)
      BY <2>2, <3>1, ProductsAre
    <3> QED
      BY <2>1, <2>2, <3>1, <3>2
  <2>6. IsFiniteSet(O \cup M) /\ Cardinality(O \cup M) <= Cardinality(O) + Cardinality(M)
    <3> HIDE DEF O, M
    <3>1. /\ IsFiniteSet(O \cup M)
          /\ Cardinality(O \cup M) = Cardinality(O) + Cardinality(M) - Cardinality(O \cap M)
      BY <2>4, <2>5, FS_Union
    <3>2. Cardinality(O \cap M) \in Nat
      <4>1. O \cap M \in SUBSET O
        OBVIOUS
      <4> QED
        BY <2>4, <4>1, SmallerSets, SizesAre
    <3>3. Cardinality(O) \in Nat /\ Cardinality(M) \in Nat
      BY <2>4, <2>5, SizesAre
    <3> QED
      BY <3>1, <3>2, <3>3
  <2>7. Cardinality(Q) <= Cardinality(O) + Cardinality(M) /\ Cardinality(Q) \in Nat
    <3>1. Q \in SUBSET (O \cup M)
      BY <1>2, <1>7
    <3> HIDE DEF O, M
    <3>2. Cardinality(Q) <= Cardinality(O \cup M) /\ IsFiniteSet(Q)
      BY <2>6, <3>1, SmallerSets
    <3>3. /\ Cardinality(Q) \in Nat /\ Cardinality(O) \in Nat /\ Cardinality(M) \in Nat
          /\ Cardinality(O \cup M) \in Nat
      BY <2>4, <2>5, <2>6, <3>2, SizesAre
    <3> QED
      BY <2>6, <3>2, <3>3
  <2>8. Cardinality(S) + n <= Cap
    BY <1>2, <1>3, <1>7, <2>1, TreesAreFinite
  <2> HIDE DEF O, M
  <2>9. PICK k : k = Cardinality(O)
    OBVIOUS
  <2>10. k \in Nat /\ TreeBound = Cap + k
    BY <2>4, <2>9, SizesAre DEF TreeBound
  <2> QED
    BY <1>2, <1>3, <1>5, <2>1, <2>5, <2>7, <2>8, <2>9, <2>10
<1> QED
  BY <1>6, <1>7

\* A task that is split makes good on a promise (create_task in
\* create_tasks_from_review_findings).
LEMMA PromiseKept ==
  ASSUME Bounded, NEW n, NEW r0, NEW x \in Promised(r0),
         \A r \in TaskIds : Splits(r)' \subseteq Splits(r) \cup IF r = r0 THEN {n} ELSE {},
         \A r \in TaskIds : Promised(r)' \subseteq Promised(r) \ IF r = r0 THEN {x} ELSE {}
  PROVE  Bounded'
<1>1. SUFFICES ASSUME NEW r \in TaskIds
               PROVE  Cardinality(Splits(r)') + Cardinality(Promised(r)') <= TreeBound
  BY DEF Bounded, TreeBound
<1>2. PICK S, P, T, Q : S = Splits(r) /\ P = Promised(r) /\ T = Splits(r)' /\ Q = Promised(r)'
  OBVIOUS
<1>3. /\ IsFiniteSet(S) /\ IsFiniteSet(P) /\ Cardinality(S) \in Nat /\ Cardinality(P) \in Nat
      /\ TreeBound \in Nat /\ Cardinality(S) + Cardinality(P) <= TreeBound
  BY <1>2, TreesAreFinite DEF Bounded
<1>4. CASE r # r0
  <2>1. T \in SUBSET S /\ Q \in SUBSET P
    BY <1>2, <1>4
  <2>2. /\ Cardinality(T) <= Cardinality(S) /\ Cardinality(Q) <= Cardinality(P)
        /\ Cardinality(T) \in Nat /\ Cardinality(Q) \in Nat
    BY <1>3, <2>1, SmallerSets, SizesAre
  <2> QED
    BY <1>2, <1>3, <2>2
<1>5. CASE r = r0
  <2>1. T \in SUBSET (S \cup {n}) /\ Q \in SUBSET (P \ {x}) /\ x \in P
    BY <1>2, <1>5
  <2>2. /\ IsFiniteSet(S \cup {n}) /\ Cardinality(S \cup {n}) <= Cardinality(S) + 1
        /\ IsFiniteSet(P \ {x}) /\ Cardinality(P \ {x}) = Cardinality(P) - 1
    BY <1>3, <2>1, FS_AddElement, FS_RemoveElement
  <2>3. /\ Cardinality(T) <= Cardinality(S \cup {n}) /\ Cardinality(Q) <= Cardinality(P \ {x})
        /\ Cardinality(T) \in Nat /\ Cardinality(Q) \in Nat /\ Cardinality(S \cup {n}) \in Nat
    BY <2>1, <2>2, SmallerSets, SizesAre
  <2> QED
    BY <1>2, <1>3, <2>2, <2>3
<1> QED
  BY <1>4, <1>5

-----------------------------------------------------------------------------
(* Steps that keep the invariant. *)

\* A task has another status, run or disposition (update_task_status and its like).
LEMMA RowChanges ==
  ASSUME Rooted, NEW t \in Created(task), NEW row \in Rows,
         row.parent = task[t].parent, row.kind = task[t].kind, row.status # "none",
         task' = [task EXCEPT ![t] = row]
  PROVE  RowsKept
<1>1. t \in TaskIds /\ task \in [TaskIds -> Rows] /\ task[t].status # "none"
  BY DEF Created, Rooted
<1>2. task' \in [TaskIds -> Rows]
  BY <1>1
<1>3. ASSUME NEW u \in TaskIds
      PROVE  /\ task'[u].parent = task[u].parent /\ task'[u].kind = task[u].kind
             /\ task'[u].status = "none" <=> task[u].status = "none"
  BY <1>1
<1> QED
  BY <1>2, <1>3 DEF RowsKept

\* update_task_status, and the objective's phase after it.
LEMMA StatusChanges ==
  ASSUME Rooted, NEW t \in Created(task),
         NEW s \in {"pending", "active", "completed", "failed"}, SetTask(t, s)
  PROVE  RowsKept
<1>1. t \in TaskIds /\ task[t] \in Rows /\ task \in [TaskIds -> Rows]
  BY DEF Created, Rooted
<1>2. PICK row : row = [task[t] EXCEPT !.status = s]
  OBVIOUS
<1>3. row \in Rows /\ row.parent = task[t].parent /\ row.kind = task[t].kind /\ row.status # "none"
  BY <1>1, <1>2 DEF Rows
<1>4. task' = [task EXCEPT ![t] = row]
  BY <1>1, <1>2 DEF SetTask
<1> QED
  BY <1>3, <1>4, RowChanges

\* create_task gives a task the first id that is free.
LEMMA FreshIs ==
  ASSUME Rooted, MayCreate
  PROVE  Fresh \in TaskIds \ Created(task) /\ \A u \in TaskIds : u < Fresh => u \in Created(task)
<1>1. PICK S : S = TaskIds \ Created(task)
  OBVIOUS
<1>2. S \in SUBSET Nat /\ S # {} /\ TaskIds \subseteq Nat
  BY <1>1, NumbersAre DEF MayCreate, Created
<1>3. Min(S) \in S /\ \A m \in S : Min(S) <= m
  BY <1>2, MinIs
<1>4. Fresh = Min(S)
  BY <1>1 DEF Fresh
<1>5. ASSUME NEW u \in TaskIds, u < Fresh, u \notin Created(task) PROVE FALSE
  <2>1. u \in S /\ Min(S) <= u /\ Min(S) \in Nat /\ u \in Nat
    BY <1>1, <1>2, <1>3, <1>5
  <2> QED
    BY <1>4, <1>5, <2>1
<1> QED
  BY <1>1, <1>3, <1>4, <1>5

\* A row of create_task is a task.
LEMMA NewRows ==
  ASSUME NEW p \in TaskIds \cup {0}, NEW kind \in {"work", "legacy", "split", "manual", "repair"}
  PROVE  /\ NewTask(p, kind) \in Rows /\ NewTask(p, kind).parent = p
         /\ NewTask(p, kind).kind = kind /\ NewTask(p, kind).status = "pending"
BY DEF NewTask, NoTask, Rows

\* A task grows in the first row that is free, from rows that are as they were or that
\* carry another disposition.
LEMMA FreshGrows ==
  ASSUME Rooted, MayCreate, NEW ts \in [TaskIds -> Rows], NEW row \in Rows, row.status # "none",
         \A u \in TaskIds : /\ ts[u].parent = task[u].parent /\ ts[u].kind = task[u].kind
                            /\ ts[u].status = "none" <=> task[u].status = "none",
         task' = [ts EXCEPT ![Fresh] = row]
  PROVE  Grows(Fresh, row.parent, row.kind)
<1>1. Fresh \in TaskIds \ Created(task) /\ \A u \in TaskIds : u < Fresh => u \in Created(task)
  BY FreshIs
<1>2. PICK n : n = Fresh
  OBVIOUS
<1>3. n \in TaskIds /\ task' = [ts EXCEPT ![n] = row]
  BY <1>1, <1>2
<1>4. task' \in [TaskIds -> Rows] /\ task'[n] = row
  BY <1>3
<1>5. ASSUME NEW t \in TaskIds \ {n}
      PROVE  /\ task'[t].parent = task[t].parent /\ task'[t].kind = task[t].kind
             /\ task'[t].status = "none" <=> task[t].status = "none"
  BY <1>3
<1> QED
  BY <1>1, <1>2, <1>4, <1>5 DEF Grows

\* The disposers that have something to do in the next state have it about a task, and none
\* promises what it had not.
NoPromise ==
  /\ disposer' \in [Disposers -> Jobs]
  /\ \A e \in Disposers :
       \/ disposer'[e] = disposer[e]
       \/ /\ disposer'[e].pc # "create"
          /\ disposer'[e].pc # "idle" => disposer'[e].task \in Created(task)

\* Then fewer tasks are promised, ...
LEMMA PromisesShrink ==
  ASSUME Assigned, NoPromise, \A t \in Created(task) : Root(t)' = Root(t)
  PROVE  \A r : Promised(r)' \subseteq Promised(r)
<1>1. SUFFICES ASSUME NEW r, NEW x \in Promised(r)' PROVE x \in Promised(r)
  OBVIOUS
<1>2. /\ x \in Disposers \X (1..MaxFindings) /\ disposer'[x[1]].pc = "create"
      /\ x[2] <= disposer'[x[1]].left /\ Root(disposer[x[1]].task)' = r
  BY <1>1 DEF Promised
<1>3. x[1] \in Disposers /\ disposer'[x[1]] = disposer[x[1]]
  BY <1>2 DEF NoPromise
<1>4. disposer[x[1]].task \in Created(task)
  BY <1>2, <1>3 DEF Assigned
<1>5. Root(disposer[x[1]].task) = r
  BY <1>2, <1>3, <1>4
<1> QED
  BY <1>2, <1>3, <1>5 DEF Promised

\* ... and those that are stay about tasks that were created.
LEMMA AssignmentsKept ==
  ASSUME Assigned, NoPromise, Created(task) \subseteq Created(task)' PROVE Assigned'
<1>1. ASSUME NEW d \in Disposers
      PROVE  /\ disposer'[d].pc # "idle" => disposer'[d].task \in Created(task)
             /\ disposer'[d].pc = "create" => disposer'[d].left > 0
  BY DEF Assigned, NoPromise
<1>2. ASSUME NEW d \in Disposers
      PROVE  /\ disposer'[d].pc # "idle" => disposer'[d].task \in Created(task)'
             /\ disposer'[d].pc = "create" => disposer'[d].left > 0
  BY <1>1
<1>3. disposer' \in [Disposers -> Jobs]
  BY DEF NoPromise
<1> QED
  BY <1>2, <1>3 DEF Assigned

\* The repair that is under way is about its task still.
LEMMA RepairKept ==
  ASSUME Repaired, repair' = repair, Created(task) \subseteq Created(task)' PROVE Repaired'
<1>1. repair.pc # "idle" => repair.task \in Created(task)'
  BY DEF Repaired
<1> QED
  BY <1>1 DEF Repaired

\* A step that creates no task and promises none keeps the invariant, ...
LEMMA StepKept ==
  ASSUME TreeInv, RowsKept, NoPromise, repair' = repair \/ Repaired' PROVE TreeInv'
<1>1. /\ Rooted' /\ Created(task)' = Created(task) /\ \A t : Root(t)' = Root(t)
      /\ \A r : Splits(r)' = Splits(r)
  BY KeptTrees DEF TreeInv
<1>2. Assigned' /\ Repaired'
  BY <1>1, AssignmentsKept, RepairKept DEF TreeInv
<1>3. Bounded'
  <2>1. \A r : Promised(r)' \subseteq Promised(r)
    BY <1>1, PromisesShrink DEF TreeInv
  <2> QED
    BY <1>1, <2>1, BoundKept DEF TreeInv
<1> QED
  BY <1>1, <1>2, <1>3 DEF TreeInv

\* ... and so does one that creates a task that is not split off: a manual one, a repair.
LEMMA StepGrown ==
  ASSUME TreeInv, NEW n, NEW p \in Created(task) \cup {0}, NEW kind, kind # "split",
         Grows(n, p, kind), NoPromise, repair' = repair \/ Repaired'
  PROVE  TreeInv'
<1>1. /\ Rooted' /\ Created(task) \subseteq Created(task)'
      /\ \A t \in Created(task) : Root(t)' = Root(t)
      /\ \A r : Splits(r)' \subseteq Splits(r)
  BY GrownTrees DEF TreeInv
<1>2. Assigned' /\ Repaired'
  BY <1>1, AssignmentsKept, RepairKept DEF TreeInv
<1>3. Bounded'
  <2>1. \A r : Promised(r)' \subseteq Promised(r)
    BY <1>1, PromisesShrink DEF TreeInv
  <2> QED
    BY <1>1, <2>1, BoundKept DEF TreeInv
<1> QED
  BY <1>1, <1>2, <1>3 DEF TreeInv

\* Whatever leaves the tasks, the disposers and the repair alone keeps the invariant.
LEMMA TreeUnchanged ==
  ASSUME TreeInv, UNCHANGED <<task, disposer>>, repair' = repair \/ Repaired' PROVE TreeInv'
<1>1. RowsKept
  BY DEF TreeInv, Rooted, RowsKept
<1>2. NoPromise
  BY DEF TreeInv, Assigned, NoPromise
<1> QED
  BY <1>1, <1>2, StepKept

\* A disposer that moves on to anything but the creation of tasks promises none.
LEMMA GoesOn ==
  ASSUME Assigned, NEW d \in Disposers, NEW job \in Jobs, Goto(d, job), job.pc # "create",
         job.pc # "idle" => job.task \in Created(task)
  PROVE  NoPromise
<1>1. disposer \in [Disposers -> Jobs] /\ disposer' = [disposer EXCEPT ![d] = job]
  BY DEF Assigned, Goto
<1>2. disposer' \in [Disposers -> Jobs]
  BY <1>1
<1>3. ASSUME NEW e \in Disposers PROVE disposer'[e] = disposer[e] \/ disposer'[e] = job
  BY <1>1
<1> QED
  BY <1>2, <1>3 DEF NoPromise

\* A disposer at rest.
LEMMA RestsInJobs == Resting \in Jobs /\ Resting.pc = "idle"
BY NumbersAre DEF Resting, Jobs

-----------------------------------------------------------------------------
(* The disposers. *)

\* A task with a status was created.
LEMMA WithCreated == \A s : s # "none" => With(task, s) \subseteq Created(task)
BY DEF With, Created

\* apply_failed_task_disposition up to its writes: nothing is promised yet.
LEMMA DisposeInv ==
  ASSUME TreeInv, repair' = repair, NEW d \in Disposers, Dispose(d) PROVE TreeInv'
<1>1. task' = task
  BY DEF Dispose
<1>2. RowsKept
  BY <1>1 DEF TreeInv, Rooted, RowsKept
<1>3. PICK t \in With(task, "failed"), n \in 0..MaxFindings :
        \E how \in {"retry_as_is", "split", "manual", "waive_obsolete"} :
          Rest(d) \/ Goto(d, [pc |-> IF how = "split" THEN "check" ELSE "apply",
                              task |-> t, how |-> how, left |-> n])
  BY DEF Dispose
<1>4. t \in Created(task) /\ t \in TaskIds
  BY WithCreated DEF Created
<1>5. NoPromise
  <2>1. CASE Rest(d)
    BY <2>1, GoesOn, RestsInJobs DEF Rest, TreeInv
  <2>2. CASE ~Rest(d)
    <3>1. PICK how \in {"retry_as_is", "split", "manual", "waive_obsolete"} :
            Goto(d, [pc |-> IF how = "split" THEN "check" ELSE "apply",
                     task |-> t, how |-> how, left |-> n])
      BY <1>3, <2>2
    <3>2. PICK job : job = [pc |-> IF how = "split" THEN "check" ELSE "apply",
                            task |-> t, how |-> how, left |-> n]
      OBVIOUS
    <3>3. job \in Jobs /\ job.pc # "create" /\ job.task = t
      BY <1>4, <3>2 DEF Jobs
    <3> QED
      BY <1>4, <3>1, <3>2, <3>3, GoesOn DEF TreeInv
  <2> QED
    BY <2>1, <2>2
<1> QED
  BY <1>2, <1>5, StepKept

\* promotion_service, before create_tasks_from_review_findings.
LEMMA RemediateInv ==
  ASSUME TreeInv, repair' = repair, NEW d \in Disposers, Remediate(d) PROVE TreeInv'
<1>1. RowsKept
  BY DEF Remediate, TreeInv, Rooted, RowsKept
<1>2. PICK t \in With(task, "completed"), n \in 1..MaxFindings :
        Goto(d, [pc |-> "check", task |-> t, how |-> "promotion", left |-> n])
  BY DEF Remediate
<1>3. t \in Created(task) /\ t \in TaskIds
  BY WithCreated DEF Created
<1>4. PICK job : job = [pc |-> "check", task |-> t, how |-> "promotion", left |-> n]
  OBVIOUS
<1>5. job \in Jobs /\ job.pc # "create" /\ job.task = t
  BY <1>3, <1>4, NumbersAre DEF Jobs
<1>6. NoPromise
  BY <1>2, <1>3, <1>4, <1>5, GoesOn DEF TreeInv
<1> QED
  BY <1>1, <1>6, StepKept

\* The check of the cap promises as many tasks as it has found room for.
LEMMA CheckInv ==
  ASSUME TreeInv, repair' = repair, NEW d \in Disposers, Check(d) PROVE TreeInv'
<1>1. RowsKept
  BY DEF Check, TreeInv, Rooted, RowsKept
<1>2. /\ disposer[d] \in Jobs /\ disposer \in [Disposers -> Jobs]
      /\ disposer[d].pc = "check" /\ disposer[d].task \in Created(task)
  BY DEF TreeInv, Assigned, Check
<1>3. PICK t, n : t = disposer[d].task /\ n = disposer[d].left
  OBVIOUS
<1>4. n \in 0..MaxFindings /\ n \in Nat /\ t \in Created(task)
  BY <1>2, <1>3, NumbersAre DEF Jobs
<1>5. PICK done : done = [disposer[d] EXCEPT !.pc = "finish"]
  OBVIOUS
<1>6. done \in Jobs /\ done.pc = "finish" /\ done.task = t
  BY <1>2, <1>3, <1>5 DEF Jobs
<1>7. CASE Goto(d, done)
  <2>1. NoPromise
    BY <1>4, <1>6, <1>7, GoesOn DEF TreeInv
  <2> QED
    BY <1>1, <2>1, StepKept
<1>8. CASE ~Goto(d, done)
  <2>1. ~BlockReason(t, n) /\ n # 0 /\ Goto(d, [disposer[d] EXCEPT !.pc = "create"])
    BY <1>3, <1>5, <1>8 DEF Check
  <2>2. PICK job : job = [disposer[d] EXCEPT !.pc = "create"]
    OBVIOUS
  <2>3. job \in Jobs /\ job.pc = "create" /\ job.task = t /\ job.left = n
    BY <1>2, <1>3, <2>2 DEF Jobs
  <2>4. disposer' = [disposer EXCEPT ![d] = job]
    BY <2>1, <2>2 DEF Goto
  <2>5. /\ Rooted' /\ Created(task)' = Created(task) /\ \A u : Root(u)' = Root(u)
        /\ \A r : Splits(r)' = Splits(r)
    BY <1>1, KeptTrees DEF TreeInv
  <2>6. /\ disposer' \in [Disposers -> Jobs] /\ disposer'[d] = job
        /\ \A e \in Disposers \ {d} : disposer'[e] = disposer[e]
    BY <1>2, <2>3, <2>4
  <2>7. Assigned'
    <3>1. ASSUME NEW e \in Disposers
          PROVE  /\ disposer'[e].pc # "idle" => disposer'[e].task \in Created(task)'
                 /\ disposer'[e].pc = "create" => disposer'[e].left > 0
      <4>1. CASE e = d
        BY <1>4, <2>1, <2>3, <2>5, <2>6, <4>1
      <4>2. CASE e # d
        BY <2>5, <2>6, <4>2 DEF TreeInv, Assigned
      <4> QED
        BY <4>1, <4>2
    <3> QED
      BY <2>6, <3>1 DEF Assigned
  <2>8. Repaired'
    BY <2>5, RepairKept DEF TreeInv
  <2>9. PICK r0 : r0 = Root(t)
    OBVIOUS
  <2>10. Cardinality(Descendants(r0)) + n <= Cap
    <3>1. ~(Cardinality(Descendants(r0)) + n > Cap)
      BY <2>1, <2>9 DEF BlockReason
    <3>2. Cardinality(Descendants(r0)) \in Nat /\ Cap \in Nat
      BY TreesAreFinite, NumbersAre
    <3> QED
      BY <1>4, <3>1, <3>2
  <2>11. ASSUME NEW r, NEW x \in Promised(r)'
         PROVE  \/ x \in Promised(r) /\ x[1] # d
                \/ r = r0 /\ x[1] = d /\ x[2] <= n
    <3>1. /\ x \in Disposers \X (1..MaxFindings) /\ disposer'[x[1]].pc = "create"
          /\ x[2] <= disposer'[x[1]].left /\ Root(disposer[x[1]].task)' = r
      BY <2>11 DEF Promised
    <3>2. Root(disposer'[x[1]].task) = r
      <4>1. Root(disposer[x[1]].task)' = RootIn(task', disposer'[x[1]].task)
        BY RootIs
      <4>2. task' = task
        BY DEF Check
      <4> QED
        BY <3>1, <4>1, <4>2, RootIs
    <3>3. CASE x[1] = d
      BY <2>3, <2>6, <2>9, <3>1, <3>2, <3>3
    <3>4. CASE x[1] # d
      <4>1. disposer'[x[1]] = disposer[x[1]]
        BY <2>6, <3>1, <3>4
      <4> QED
        BY <3>1, <3>2, <3>4, <4>1 DEF Promised
    <3> QED
      BY <3>3, <3>4
  <2>12. Bounded'
    <3>1. n \in 1..MaxFindings
      BY <1>4, <2>1
    <3>2. \A r \in TaskIds \ {r0} : Promised(r)' \subseteq Promised(r)
      BY <2>11
    <3>3. Promised(r0)' \subseteq ((Disposers \ {d}) \X (1..MaxFindings)) \cup ({d} \X (1..n))
      <4>1. SUFFICES ASSUME NEW x \in Promised(r0)'
                     PROVE  x \in ((Disposers \ {d}) \X (1..MaxFindings)) \cup ({d} \X (1..n))
        OBVIOUS
      <4>2. x \in Disposers \X (1..MaxFindings)
        BY DEF Promised
      <4>3. x = <<x[1], x[2]>> /\ x[1] \in Disposers /\ x[2] \in 1..MaxFindings /\ x[2] \in Nat
        BY <4>2, NumbersAre
      <4>4. CASE x[1] = d
        <5>1. x[2] <= n
          BY <2>11, <4>4
        <5>2. x[2] \in 1..n
          BY <1>4, <4>3, <5>1
        <5> QED
          BY <4>3, <4>4, <5>2
      <4>5. CASE x[1] # d
        BY <4>3, <4>5
      <4> QED
        BY <4>4, <4>5
    <3> QED
      BY <2>5, <2>10, <3>1, <3>2, <3>3, PromisesFit DEF TreeInv
  <2> QED
    BY <2>5, <2>7, <2>8, <2>12 DEF TreeInv
<1> QED
  BY <1>7, <1>8

\* Every task that is created was promised.
LEMMA CreateRemedyInv ==
  ASSUME TreeInv, repair' = repair, NEW d \in Disposers, CreateRemedy(d) PROVE TreeInv'
<1>1. /\ disposer[d] \in Jobs /\ disposer \in [Disposers -> Jobs] /\ disposer[d].pc = "create"
      /\ disposer[d].task \in Created(task) /\ disposer[d].left > 0
  BY DEF TreeInv, Assigned, CreateRemedy
<1>2. PICK t, n : t = disposer[d].task /\ n = disposer[d].left
  OBVIOUS
<1>3. /\ n \in 1..MaxFindings /\ n \in Nat /\ n > 0 /\ t \in Created(task)
      /\ t \in TaskIds \cup {0} /\ MaxFindings \in Nat
  BY <1>1, <1>2, NumbersAre DEF Jobs
<1>4. t \in TaskIds /\ t # 0
  BY <1>3, NumbersAre DEF Created
<1>5. PICK job : job = IF n > 1 THEN [disposer[d] EXCEPT !.left = n - 1]
                       ELSE [disposer[d] EXCEPT !.pc = "finish", !.left = 0]
  OBVIOUS
<1>6. disposer' = [disposer EXCEPT ![d] = job]
  <2>1. CASE n > 1
    BY <1>2, <1>5, <2>1 DEF CreateRemedy, Goto
  <2>2. CASE ~(n > 1)
    BY <1>2, <1>5, <2>2 DEF CreateRemedy, Goto
  <2> QED
    BY <2>1, <2>2
<1>7. /\ job \in Jobs /\ job.task = t
      /\ job.pc = "create" => n > 1 /\ job.left = n - 1
      /\ job.pc \in {"create", "finish"}
  <2>1. CASE n > 1
    <3>1. n - 1 \in 0..MaxFindings
      BY <1>3
    <3> QED
      BY <1>1, <1>2, <1>5, <2>1, <3>1 DEF Jobs
  <2>2. CASE ~(n > 1)
    <3>1. 0 \in 0..MaxFindings
      BY <1>3
    <3> QED
      BY <1>1, <1>2, <1>5, <2>2, <3>1 DEF Jobs
  <2> QED
    BY <2>1, <2>2
<1>8. /\ disposer' \in [Disposers -> Jobs] /\ disposer'[d] = job
      /\ \A e \in Disposers \ {d} : disposer'[e] = disposer[e]
  BY <1>1, <1>6, <1>7
<1>9. Grows(Fresh, t, "split")
  <2>1. PICK row : row = NewTask(t, "split")
    OBVIOUS
  <2>2. row \in Rows /\ row.parent = t /\ row.kind = "split" /\ row.status # "none"
    BY <1>3, <2>1, NewRows
  <2>3. task' = [task EXCEPT ![Fresh] = row] /\ MayCreate
    BY <1>2, <2>1 DEF CreateRemedy
  <2>4. task \in [TaskIds -> Rows] /\ Rooted
    BY DEF TreeInv, Rooted
  <2> QED
    BY <2>2, <2>3, <2>4, FreshGrows
<1>10. PICK r0 : r0 = Root(t)
  OBVIOUS
<1>11. /\ Rooted' /\ Created(task) \subseteq Created(task)'
       /\ \A u \in Created(task) : Root(u)' = Root(u)
       /\ \A r : Splits(r)' \subseteq Splits(r) \cup IF r = r0 THEN {Fresh} ELSE {}
  BY <1>3, <1>4, <1>9, <1>10, GrownTrees DEF TreeInv
<1>12. Assigned'
  <2>1. ASSUME NEW e \in Disposers
        PROVE  /\ disposer'[e].pc # "idle" => disposer'[e].task \in Created(task)'
               /\ disposer'[e].pc = "create" => disposer'[e].left > 0
    <3>1. CASE e = d
      BY <1>3, <1>7, <1>8, <1>11, <3>1
    <3>2. CASE e # d
      BY <1>8, <1>11, <3>2 DEF TreeInv, Assigned
    <3> QED
      BY <3>1, <3>2
  <2> QED
    BY <1>8, <2>1 DEF Assigned
<1>13. Repaired'
  BY <1>11, RepairKept DEF TreeInv
<1>14. PICK x : x = <<d, n>>
  OBVIOUS
<1>15. x \in Promised(r0)
  BY <1>1, <1>2, <1>3, <1>10, <1>14 DEF Promised
<1>16. ASSUME NEW r, NEW y \in Promised(r)' PROVE y \in Promised(r) /\ (r = r0 => y # x)
  <2>1. /\ y \in Disposers \X (1..MaxFindings) /\ disposer'[y[1]].pc = "create"
        /\ y[2] <= disposer'[y[1]].left /\ Root(disposer[y[1]].task)' = r
    BY <1>16 DEF Promised
  <2>2. disposer'[y[1]].task = disposer[y[1]].task /\ disposer[y[1]].task \in Created(task)
    <3>1. CASE y[1] = d
      BY <1>2, <1>3, <1>7, <1>8, <3>1
    <3>2. CASE y[1] # d
      BY <1>8, <2>1, <3>2 DEF TreeInv, Assigned
    <3> QED
      BY <3>1, <3>2
  <2>3. Root(disposer[y[1]].task) = r
    BY <1>11, <2>1, <2>2
  <2>4. CASE y[1] = d
    <3>1. y[2] <= n - 1 /\ y[2] \in Nat
      BY <1>3, <1>7, <1>8, <2>1, <2>4
    <3>2. y[2] <= n /\ y[2] # n
      BY <1>3, <3>1
    <3> QED
      BY <1>1, <1>2, <1>14, <2>1, <2>3, <2>4, <3>2 DEF Promised
  <2>5. CASE y[1] # d
    <3>1. disposer'[y[1]] = disposer[y[1]]
      BY <1>8, <2>1, <2>5
    <3> QED
      BY <1>14, <2>1, <2>3, <2>5, <3>1 DEF Promised
  <2> QED
    BY <2>4, <2>5
<1>17. Bounded'
  <2>1. \A r \in TaskIds : Promised(r)' \subseteq Promised(r) \ IF r = r0 THEN {x} ELSE {}
    BY <1>16
  <2> QED
    BY <1>11, <1>15, <2>1, PromiseKept DEF TreeInv
<1> QED
  BY <1>11, <1>12, <1>13, <1>17 DEF TreeInv

\* The task that was split is marked so.
LEMMA FinishInv ==
  ASSUME TreeInv, repair' = repair, NEW d \in Disposers, Finish(d) PROVE TreeInv'
<1>1. disposer[d].task \in Created(task)
  BY DEF TreeInv, Assigned, Finish
<1>2. PICK t : t = disposer[d].task
  OBVIOUS
<1>3. t \in TaskIds /\ task[t] \in Rows /\ task \in [TaskIds -> Rows] /\ task[t].status # "none"
  BY <1>1, <1>2 DEF TreeInv, Rooted, Created
<1>4. RowsKept
  <2>1. CASE task' = task
    BY <2>1 DEF TreeInv, Rooted, RowsKept
  <2>2. CASE task' # task
    <3>1. PICK row : row = [task[t] EXCEPT !.disp = "split"]
      OBVIOUS
    <3>2. row \in Rows /\ row.parent = task[t].parent /\ row.kind = task[t].kind /\ row.status # "none"
      BY <1>3, <3>1 DEF Rows
    <3>3. task' = [task EXCEPT ![t] = row]
      BY <1>2, <1>3, <2>2, <3>1 DEF Finish
    <3> QED
      BY <1>1, <1>2, <3>2, <3>3, RowChanges DEF TreeInv
  <2> QED
    BY <2>1, <2>2
<1>5. NoPromise
  BY GoesOn, RestsInJobs DEF Finish, Rest, TreeInv
<1> QED
  BY <1>4, <1>5, StepKept

\* The other dispositions, of which the operator's task grows from the failed one.
LEMMA ApplyDispositionInv ==
  ASSUME TreeInv, repair' = repair, NEW d \in Disposers, ApplyDisposition(d) PROVE TreeInv'
<1>1. PICK t, how : t = disposer[d].task /\ how = disposer[d].how
  OBVIOUS
<1>2. PICK ts : ts = [task EXCEPT ![t].disp = how]
  OBVIOUS
<1>3. /\ Goto(d, Resting)
      /\ \/ /\ how = "retry_as_is" /\ task' = [ts EXCEPT ![t].status = "pending"]
         \/ /\ how = "retry_as_is" /\ task' = ts
         \/ /\ how = "manual" /\ MayCreate /\ task' = [ts EXCEPT ![Fresh] = NewTask(t, "manual")]
         \/ /\ how = "waive_obsolete" /\ task' = ts
  BY <1>1, <1>2 DEF ApplyDisposition, Rest
<1>4. /\ t \in Created(task) /\ t \in TaskIds /\ task[t] \in Rows /\ task \in [TaskIds -> Rows]
      /\ task[t].status # "none"
  BY <1>1 DEF TreeInv, Assigned, Rooted, Created, ApplyDisposition
<1>5. NoPromise
  BY <1>3, GoesOn, RestsInJobs DEF TreeInv
<1>6. how \in {"retry_as_is", "manual", "waive_obsolete"}
  BY <1>3
<1>7. PICK row : row = [task[t] EXCEPT !.disp = how]
  OBVIOUS
<1>8. row \in Rows /\ row.parent = task[t].parent /\ row.kind = task[t].kind /\ row.status # "none"
  BY <1>4, <1>6, <1>7 DEF Rows
<1>9. ts = [task EXCEPT ![t] = row]
  BY <1>2, <1>4, <1>7
<1>10. CASE task' = ts
  <2>1. RowsKept
    BY <1>4, <1>8, <1>9, <1>10, RowChanges DEF TreeInv
  <2> QED
    BY <1>5, <2>1, StepKept
<1>11. CASE task' = [ts EXCEPT ![t].status = "pending"]
  <2>1. PICK again : again = [row EXCEPT !.status = "pending"]
    OBVIOUS
  <2>2. /\ again \in Rows /\ again.parent = task[t].parent /\ again.kind = task[t].kind
        /\ again.status # "none"
    BY <1>8, <2>1 DEF Rows
  <2>3. task' = [task EXCEPT ![t] = again]
    BY <1>4, <1>9, <1>11, <2>1
  <2>4. RowsKept
    BY <1>4, <2>2, <2>3, RowChanges DEF TreeInv
  <2> QED
    BY <1>5, <2>4, StepKept
<1>12. CASE MayCreate /\ task' = [ts EXCEPT ![Fresh] = NewTask(t, "manual")]
  <2>1. PICK new : new = NewTask(t, "manual")
    OBVIOUS
  <2>2. new \in Rows /\ new.parent = t /\ new.kind = "manual" /\ new.status # "none"
    BY <1>4, <2>1, NewRows
  <2>3. ts \in [TaskIds -> Rows]
    BY <1>4, <1>8, <1>9
  <2>4. \A u \in TaskIds : /\ ts[u].parent = task[u].parent /\ ts[u].kind = task[u].kind
                           /\ ts[u].status = "none" <=> task[u].status = "none"
    BY <1>4, <1>8, <1>9
  <2>5. Grows(Fresh, t, "manual")
    BY <1>12, <2>1, <2>2, <2>3, <2>4, FreshGrows DEF TreeInv
  <2> QED
    BY <1>4, <1>5, <2>5, StepGrown
<1> QED
  BY <1>3, <1>10, <1>11, <1>12

-----------------------------------------------------------------------------
(* The workers, the watch, its agent and the repairs. *)

\* Disposers that do nothing promise nothing.
LEMMA DisposersRest == ASSUME Assigned, disposer' = disposer PROVE NoPromise
BY DEF Assigned, NoPromise

\* The status of a task changes beside the disposers.
LEMMA StatusStep ==
  ASSUME TreeInv, NEW t \in Created(task),
         NEW s \in {"pending", "active", "completed", "failed"}, SetTask(t, s),
         disposer' = disposer, repair' = repair \/ Repaired'
  PROVE  TreeInv'
<1>1. RowsKept
  BY StatusChanges DEF TreeInv
<1>2. NoPromise
  BY DisposersRest DEF TreeInv
<1> QED
  BY <1>1, <1>2, StepKept

\* A row changes beside the disposers.
LEMMA RowStep ==
  ASSUME TreeInv, NEW t \in Created(task), NEW row \in Rows,
         row.parent = task[t].parent, row.kind = task[t].kind, row.status # "none",
         task' = [task EXCEPT ![t] = row], disposer' = disposer, repair' = repair
  PROVE  TreeInv'
<1>1. RowsKept
  BY RowChanges DEF TreeInv
<1>2. NoPromise
  BY DisposersRest DEF TreeInv
<1> QED
  BY <1>1, <1>2, StepKept

\* Claims, requeues, runs and their ends move no task to another tree.
LEMMA WorkerInv ==
  ASSUME TreeInv, NEW t \in TaskIds,
         Claim(t) \/ StartRun(t) \/ EndRun(t) \/ Settle(t) \/ Requeue(t)
  PROVE  TreeInv'
<1>1. /\ t \in Created(task) /\ task[t] \in Rows /\ task \in [TaskIds -> Rows]
      /\ disposer' = disposer /\ repair' = repair
  BY DEF Claim, StartRun, EndRun, Settle, Requeue, Created, TreeInv, Rooted
<1>2. CASE Claim(t)
  BY <1>1, <1>2, StatusStep DEF Claim
<1>3. CASE Requeue(t)
  BY <1>1, <1>3, StatusStep DEF Requeue
<1>4. CASE StartRun(t) \/ EndRun(t)
  <2>1. PICK run \in {"working", "ended"} : task' = [task EXCEPT ![t].run = run]
    BY <1>4 DEF StartRun, EndRun
  <2>2. PICK row : row = [task[t] EXCEPT !.run = run]
    OBVIOUS
  <2>3. row \in Rows /\ row.parent = task[t].parent /\ row.kind = task[t].kind /\ row.status # "none"
    BY <1>1, <2>2 DEF Rows, Created
  <2>4. task' = [task EXCEPT ![t] = row]
    BY <1>1, <2>1, <2>2
  <2> QED
    BY <1>1, <2>3, <2>4, RowStep
<1>5. CASE Settle(t)
  <2>1. CASE SetTask(t, "completed")
    BY <1>1, <2>1, StatusStep
  <2>2. CASE ~SetTask(t, "completed")
    <3>1. PICK c \in Categories : task' = [task EXCEPT ![t].status = "failed", ![t].cat = c]
      BY <1>5, <2>2 DEF Settle
    <3>2. PICK row : row = [task[t] EXCEPT !.status = "failed", !.cat = c]
      OBVIOUS
    <3>3. row \in Rows /\ row.parent = task[t].parent /\ row.kind = task[t].kind /\ row.status # "none"
      BY <1>1, <3>2 DEF Rows
    <3>4. task' = [task EXCEPT ![t] = row]
      BY <1>1, <3>1, <3>2
    <3> QED
      BY <1>1, <3>3, <3>4, RowStep
  <2> QED
    BY <2>1, <2>2
<1> QED
  BY <1>2, <1>3, <1>4, <1>5

\* Nor does the agent, which requeues tasks at most.
LEMMA RecoverInv == ASSUME TreeInv, Recover PROVE TreeInv'
<1>1. disposer' = disposer /\ repair' = repair /\ AgentActs
  BY DEF Recover
<1>2. CASE task' = task
  BY <1>1, <1>2, TreeUnchanged
<1>3. CASE task' # task
  <2>1. PICK t \in With(task, "active") \cup With(task, "failed") : SetTask(t, "pending")
    BY <1>1, <1>3 DEF AgentActs
  <2>2. t \in Created(task)
    BY WithCreated
  <2> QED
    BY <1>1, <2>1, <2>2, StatusStep
<1> QED
  BY <1>2, <1>3

\* A repair starts with a task of its own, that is the root of a tree of its own
\* (_persist_repair_start).
LEMMA RepairStartInv == ASSUME TreeInv, RepairStart PROVE TreeInv'
<1>1. PICK row : row = NewRepairTask
  OBVIOUS
<1>2. row \in Rows /\ row.parent = 0 /\ row.kind = "repair" /\ row.status # "none"
  BY <1>1 DEF NewRepairTask, NewTask, NoTask, Rows
<1>3. /\ task' = [task EXCEPT ![Fresh] = row] /\ MayCreate /\ disposer' = disposer
      /\ repair' = [pc |-> "pause", task |-> Fresh, before |-> Progress, outcome |-> "none"]
  BY <1>1 DEF RepairStart
<1>4. Grows(Fresh, 0, "repair")
  <2>1. task \in [TaskIds -> Rows] /\ Rooted
    BY DEF TreeInv, Rooted
  <2> QED
    BY <1>2, <1>3, <2>1, FreshGrows
<1>5. Repaired'
  <2>1. Created(task)' = Created(task) \cup {Fresh}
    BY <1>4, GrownTrees DEF TreeInv
  <2> QED
    BY <1>3, <2>1 DEF Repaired
<1>6. NoPromise
  BY <1>3, DisposersRest DEF TreeInv
<1> QED
  BY <1>4, <1>5, <1>6, StepGrown

\* What follows is about that task.
LEMMA RepairGoesOn ==
  ASSUME TreeInv, repair.pc # "idle", Created(task)' = Created(task), NEW pc, NEW outcome,
         repair' = [repair EXCEPT !.pc = pc, !.outcome = outcome]
  PROVE  Repaired'
<1>1. PICK t, b : repair' = [pc |-> pc, task |-> t, before |-> b, outcome |-> outcome] /\ t = repair.task
  BY DEF TreeInv, Repaired
<1>2. t \in Created(task)'
  BY <1>1 DEF TreeInv, Repaired
<1> QED
  BY <1>1, <1>2 DEF Repaired

\* The lane is paused, ...
LEMMA RepairPauseInv == ASSUME TreeInv, RepairPause PROVE TreeInv'
<1>1. repair.pc = "pause" /\ task' = task /\ disposer' = disposer
  BY DEF RepairPause, tree
<1>2. repair' = [repair EXCEPT !.pc = "run", !.outcome = repair.outcome]
  BY DEF RepairPause, TreeInv, Repaired
<1>3. Created(task)' = Created(task)
  BY <1>1 DEF Created
<1>4. Repaired'
  BY <1>1, <1>2, <1>3, RepairGoesOn
<1> QED
  BY <1>1, <1>4, TreeUnchanged

\* ... the runner repairs or hands its task to the workers, ...
LEMMA RepairRunInv == ASSUME TreeInv, RepairRun PROVE TreeInv'
<1>1. repair.pc = "run" /\ disposer' = disposer
  BY DEF RepairRun
<1>2. PICK out : /\ repair' = [repair EXCEPT !.pc = "finish", !.outcome = out]
                 /\ task' = task \/ SetTask(repair.task, "pending")
  BY DEF RepairRun
<1>3. repair.task \in Created(task)
  BY <1>1 DEF TreeInv, Repaired
<1>4. Created(task)' = Created(task)
  <2>1. CASE task' = task
    BY <2>1 DEF Created
  <2>2. CASE SetTask(repair.task, "pending")
    <3>1. RowsKept
      BY <1>3, <2>2, StatusChanges DEF TreeInv
    <3> QED
      BY <3>1, KeptTrees DEF TreeInv
  <2> QED
    BY <1>2, <2>1, <2>2
<1>5. Repaired'
  BY <1>1, <1>2, <1>4, RepairGoesOn
<1>6. CASE task' = task
  BY <1>1, <1>5, <1>6, TreeUnchanged
<1>7. CASE SetTask(repair.task, "pending")
  BY <1>1, <1>3, <1>5, <1>7, StatusStep
<1> QED
  BY <1>2, <1>6, <1>7

\* ... and the repair's task is settled.
LEMMA RepairFinishInv == ASSUME TreeInv, RepairFinish PROVE TreeInv'
<1>1. /\ repair.pc = "finish" /\ disposer' = disposer /\ repair' = NoRepair
      /\ task' = task \/ SetTask(repair.task, FinalStatus)
  BY DEF RepairFinish
<1>2. Repaired'
  BY <1>1 DEF Repaired, NoRepair
<1>3. repair.task \in Created(task)
  BY <1>1 DEF TreeInv, Repaired
<1>4. task[repair.task].status \in {"pending", "active", "completed", "failed"}
  BY <1>3 DEF TreeInv, Rooted, Rows, Created
<1>5. FinalStatus \in {"pending", "active", "completed", "failed"}
  BY <1>4 DEF FinalStatus
<1>6. CASE task' = task
  BY <1>1, <1>2, <1>6, TreeUnchanged
<1>7. CASE SetTask(repair.task, FinalStatus)
  BY <1>1, <1>2, <1>3, <1>5, <1>7, StatusStep
<1> QED
  BY <1>1, <1>6, <1>7

\* Tasks of the superseded flow are set aside where they are (_repair_workflow_state).
LEMMA RepairWorkflowInv == ASSUME TreeInv, RepairWorkflow PROVE TreeInv'
<1>1. disposer' = disposer /\ repair' = repair
  BY DEF RepairWorkflow
<1>2. PICK legacy : legacy = {t \in Created(task) : task[t].kind = "legacy"}
  OBVIOUS
<1>3. task' = [t \in TaskIds |-> IF t \notin legacy THEN task[t]
                ELSE [task[t] EXCEPT !.ignored = TRUE,
                        !.disp = IF task[t].status = "failed" THEN "waive_obsolete" ELSE @]]
  BY <1>2 DEF RepairWorkflow
<1>4. \A t \in TaskIds : task[t] \in Rows
  BY DEF TreeInv, Rooted
<1>5. ASSUME NEW t \in TaskIds
      PROVE  /\ task'[t] \in Rows
             /\ task'[t].parent = task[t].parent /\ task'[t].kind = task[t].kind
             /\ task'[t].status = "none" <=> task[t].status = "none"
  <2>1. CASE t \notin legacy
    BY <1>3, <1>4, <2>1
  <2>2. CASE t \in legacy
    <3>1. PICK disp : disp = IF task[t].status = "failed" THEN "waive_obsolete" ELSE task[t].disp
      OBVIOUS
    <3>2. task'[t] = [task[t] EXCEPT !.ignored = TRUE, !.disp = disp]
      BY <1>3, <2>2, <3>1
    <3>3. task[t] \in Rows
      BY <1>4
    <3> QED
      BY <3>1, <3>2, <3>3 DEF Rows
  <2> QED
    BY <2>1, <2>2
<1>6. task' \in [TaskIds -> Rows]
  BY <1>3, <1>5
<1>7. RowsKept
  BY <1>5, <1>6 DEF RowsKept
<1>8. NoPromise
  BY <1>1, DisposersRest DEF TreeInv
<1> QED
  BY <1>1, <1>7, <1>8, StepKept

-----------------------------------------------------------------------------
(* The theorem. *)

\* A scene starts with tasks that are roots, and nobody disposes of them yet.
LEMMA TreeInit == Init => TreeInv
<1>1. SUFFICES ASSUME Init PROVE TreeInv
  OBVIOUS
<1>2. PICK s : s = scene.tasks /\ s \in Seq(Roots)
  BY <1>1, SceneAssumption DEF Init
<1>3. Len(s) \in Nat /\ DOMAIN s = 1..Len(s) /\ \A i \in DOMAIN s : s[i] \in Roots
  BY <1>2
<1>4. task = [t \in TaskIds |-> IF t \in DOMAIN s THEN s[t] ELSE NoTask]
  BY <1>1, <1>2 DEF Init
<1>5. NoTask \in Rows /\ NoTask.status = "none" /\ NoTask.parent = 0 /\ NoTask.kind = "work"
  BY DEF NoTask, Rows
<1>6. \A row \in Roots : row \in Rows /\ row.status # "none" /\ row.parent = 0 /\ row.kind # "split"
  BY DEF Roots, Rows
<1>7. ASSUME NEW t \in TaskIds
      PROVE  /\ task[t] \in Rows /\ task[t].parent = 0 /\ task[t].kind # "split"
             /\ t \in Nat \ {0}
             /\ task[t].status # "none" <=> t <= Len(s)
  <2>1. t \in Nat \ {0}
    BY NumbersAre
  <2>2. CASE t \in DOMAIN s
    BY <1>3, <1>4, <1>6, <2>1, <2>2
  <2>3. CASE t \notin DOMAIN s
    <3>1. ~(t <= Len(s))
      BY <1>3, <2>1, <2>3
    <3> QED
      BY <1>4, <1>5, <2>1, <2>3, <3>1
  <2> QED
    BY <2>2, <2>3
<1>8. Rooted
  <2>1. task \in [TaskIds -> Rows]
    BY <1>4, <1>7
  <2>2. Grown(task)
    BY <1>7 DEF Grown
  <2>3. ASSUME NEW t \in Created(task), NEW u \in TaskIds, u < t PROVE u \in Created(task)
    <3>1. t \in TaskIds /\ task[t].status # "none"
      BY DEF Created
    <3>2. t <= Len(s) /\ t \in Nat /\ u \in Nat
      BY <1>7, <3>1
    <3>3. u <= Len(s)
      BY <1>3, <2>3, <3>2
    <3> QED
      BY <1>7, <3>3 DEF Created
  <2> QED
    BY <1>7, <2>1, <2>2, <2>3 DEF Rooted
<1>9. disposer = [d \in Disposers |-> Resting]
  BY <1>1 DEF Init
<1>10. Assigned
  BY <1>9, RestsInJobs DEF Assigned
<1>11. Repaired
  BY <1>1 DEF Init, Repaired, NoRepair
<1>12. Bounded
  <2>1. SUFFICES ASSUME NEW r \in TaskIds
                 PROVE  Cardinality(Splits(r)) + Cardinality(Promised(r)) <= TreeBound
    BY DEF Bounded
  <2>2. Splits(r) = {}
    BY <1>7 DEF Splits, Descendants, Created
  <2>3. Promised(r) = {}
    BY <1>9, RestsInJobs DEF Promised
  <2> QED
    BY <2>2, <2>3, TreesAreFinite, FS_EmptySet
<1> QED
  BY <1>8, <1>10, <1>11, <1>12 DEF TreeInv

\* Each step keeps the trees within their bound.
LEMMA TreeNext == TreeInv /\ [Next]_vars => TreeInv'
<1>1. SUFFICES ASSUME TreeInv, [Next]_vars PROVE TreeInv'
  OBVIOUS
<1>2. ASSUME NEW t \in TaskIds,
             Claim(t) \/ StartRun(t) \/ EndRun(t) \/ Settle(t) \/ Requeue(t)
      PROVE  TreeInv'
  BY <1>1, <1>2, WorkerInv
<1>3. CASE UNCHANGED <<task, disposer, repair>>
  BY <1>1, <1>3, TreeUnchanged
<1>4. ASSUME NEW t \in TaskIds,
             \/ LeaseExpires(t) \/ Decide(t) \/ Arrive(t)
             \/ \E kind \in {"heartbeat", "plan"} : Write(t, kind)
      PROVE  TreeInv'
  BY <1>3, <1>4 DEF LeaseExpires, Decide, Arrive, Write, tree
<1>5. ASSUME NEW w \in Workers, SupervisorStarts(w) PROVE TreeInv'
  BY <1>3, <1>5 DEF SupervisorStarts, tree
<1>6. CASE SupervisorDies \/ GenerationAges \/ TimePasses \/ CooldownEnds \/ LoopRestarts
  BY <1>3, <1>6 DEF SupervisorDies, GenerationAges, TimePasses, Age, CooldownEnds, LoopRestarts, tree
<1>7. CASE TickStep
  <2>1. CASE Recover
    BY <1>1, <2>1, RecoverInv
  <2>2. CASE ReadTasks \/ Evaluate \/ RecordSnapshots \/ CoolingDown \/ Restart
    BY <1>3, <2>2 DEF ReadTasks, Evaluate, RecordSnapshots, CoolingDown, Restart, tree
  <2> QED
    BY <1>7, <2>1, <2>2 DEF TickStep
<1>8. CASE RepairStep
  BY <1>1, <1>8, RepairStartInv, RepairPauseInv, RepairRunInv, RepairFinishInv, RepairWorkflowInv
  DEF RepairStep
<1>9. CASE Disposition
  <2>1. PICK d \in Disposers : DisposerStep(d)
    BY <1>9 DEF Disposition
  <2>2. repair' = repair
    BY <1>9 DEF Disposition, watching
  <2> QED
    BY <1>1, <2>1, <2>2, DisposeInv, RemediateInv, CheckInv, CreateRemedyInv, FinishInv,
       ApplyDispositionInv
    DEF DisposerStep
<1>10. CASE UNCHANGED vars
  BY <1>3, <1>10 DEF vars, tree, watching
<1> QED
  BY <1>1, <1>2, <1>4, <1>5, <1>6, <1>7, <1>8, <1>9, <1>10 DEF Next

\* However many disposers race past the check of the cap, beside workers, the agent and its
\* repairs, the tasks split from a root exceed the cap by at most one split of each of the
\* other disposers (_remediation_block_reason, create_tasks_from_review_findings).
THEOREM TreesAreBounded == Spec => []RetryTreeBound
<1>1. TreeInv => RetryTreeBound
  <2>1. SUFFICES ASSUME TreeInv, NEW r \in TaskIds
                 PROVE  Cardinality(Splits(r)) <= Cap + (Cardinality(Disposers) - 1) * MaxFindings
    BY DEF RetryTreeBound, Splits
  <2>2. /\ Cardinality(Splits(r)) + Cardinality(Promised(r)) <= TreeBound
        /\ Cardinality(Splits(r)) \in Nat /\ Cardinality(Promised(r)) \in Nat /\ TreeBound \in Nat
    BY <2>1, TreesAreFinite DEF TreeInv, Bounded
  <2>3. Cardinality(Splits(r)) <= TreeBound
    BY <2>2
  <2> QED
    BY <2>3 DEF TreeBound
<1> QED
  BY <1>1, TreeInit, TreeNext, PTL DEF Spec
=============================================================================
