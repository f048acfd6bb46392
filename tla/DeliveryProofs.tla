--------------------------- MODULE DeliveryProofs ---------------------------
(***************************************************************************)
(* Theorems about Delivery, for any runs, workspaces, affirmers, projects  *)
(* and faults.                                                             *)
(***************************************************************************)
EXTENDS Delivery, SequenceTheorems, TLAPS

-----------------------------------------------------------------------------
(* The values the variables take.                                          *)

Words ==
  {"idle", "asked", "find", "file", "refuse", "check", "commit", "prepush", "push", "open",
   "verify", "post", "rollback", "record", "tests", "write", "none", "task", "follow-on",
   "skipped", "blocked", "applied", "pushed", "change", "undo", "conflict", "merged",
   "closed", "pending", "rejected", "approved"}

Worktrees == [base : Nat, dirty : BOOLEAN, own : Seq(Commits), checked : BOOLEAN]
Records == [task : Words, run : Runs, status : Words, applyback : Words, watch : Words]
Jobs == [pc : Words, run : Runs, promo : Nat, out : Words, seen : Words]

Types ==
  /\ project \in Projects
  /\ main \in Seq(Commits) /\ Len(main) >= 1 /\ main[1] = Outside
  /\ local \in Seq(Commits)
  /\ ws \in [Runs \cup {"objective"} -> Worktrees]
  /\ promos \in Seq(Records)
  /\ review \in [Runs -> Words]
  /\ fixes \in [Runs -> [applied : BOOLEAN, repair : Words]]
  /\ job \in [Actors -> {Idle} \cup Jobs]
  /\ faults \in Nat /\ project.faults \in Nat /\ faults <= project.faults

-----------------------------------------------------------------------------
(* Workspaces, and who holds them.                                         *)

\* The processes that commit, and the steps between the commit and the end of a push.
Workers == Affirmers \cup {"objective", "repair"}
Holding == {"prepush", "push", "open", "verify", "post", "rollback"}

PlaceOf(a, j) == IF a = "objective" THEN "objective" ELSE j.run

\* The first n commits carry a run's change.
CarriedBy(m, n, r) ==
  \E k \in 1..n : /\ m[k].run = r /\ m[k].op = "change"
                  /\ \A i \in k + 1..n : m[i].run # r

\* What is committed in the workspace of a job and not yet on main.
Waiting(a, j) ==
  IF j.pc \in {"prepush", "push", "open"}
  THEN <<Commit(IF a = "objective" THEN j.out ELSE "change", j.run, a)>>
  ELSE IF j.pc = "rollback" THEN <<Commit("rollback", j.run, a)>> ELSE <<>>

\* What a process that holds a workspace finds there.
Holds(a, j, w) ==
  a \in Workers /\ j.pc \in Holding =>
    ~w[PlaceOf(a, j)].dirty /\ w[PlaceOf(a, j)].own = Waiting(a, j)

\* What it has checked there: a repair before it looks for changes, the others, where
\* there is a Makefile, before they push.
HasChecked(a, j, w) ==
  \/ a \in Workers /\ j.pc \in Holding \ {"prepush"} /\ j.run \in project.makefile
  \/ a = "repair" /\ j.pc \in Holding \cup {"check", "commit"}
  => w[PlaceOf(a, j)].checked

\* What it has brought to main.
HasLanded(a, j, m) ==
  \/ a \in Affirmers \cup {"repair"} /\ j.pc \in {"verify", "post"}
  \/ a = "repair" /\ j.pc = "record" /\ j.out = "pushed"
  => On(m, "change", j.run, Role(a))

\* An objective's worktree brings a change that its base does not have.
BringsNews(j, m, w) ==
  j.pc \in {"check", "commit"} =>
    /\ j.out \in {"change", "undo"}
    /\ w["objective"].dirty /\ j.out = "change" =>
         ~CarriedBy(m, w["objective"].base, j.run)

Sound(a, j, m, w) ==
  /\ Holds(a, j, w) /\ HasChecked(a, j, w) /\ HasLanded(a, j, m)
  /\ a = "objective" => BringsNews(j, m, w)

\* No workspace has two holders.
Apart ==
  \A a, b \in Workers : a # b /\ job[a].pc \in Holding /\ job[b].pc \in Holding =>
    Place(a) # Place(b)

\* A workspace is committed to once: until then it is as it was cloned.  What it has
\* committed is not on main.
Fresh(x, m, v) ==
  /\ v.base \in 1..Len(m)
  /\ v.own = <<>> \/ \E c \in Commits : v.own = <<c>>
  /\ v.dirty => v.own = <<>>
  /\ x # "objective" /\ v.dirty => v.base = 1
  /\ x # "objective" /\ v.own # <<>> =>
       v.own[1].run = x /\ (v.own[1].op = "change" => v.base = 1)
  /\ x = "objective" /\ v.own # <<>> /\ v.own[1].op = "change" =>
       ~CarriedBy(m, v.base, v.own[1].run)
  /\ v.own # <<>> => v.own[1].by # "gate" /\ (v.own[1].by = "repair" => v.checked)

Workplaces == \A x \in Runs \cup {"objective"} : Fresh(x, main, ws[x])

Worked ==
  /\ Types
  /\ \A a \in Actors : Sound(a, job[a], main, ws)
  /\ Apart /\ Workplaces

-----------------------------------------------------------------------------
(* The properties, strengthened.                                           *)

MainChecked == \A k \in DOMAIN main : Checkable(main[k]) => main[k].checked
LocalChecked ==
  faults = project.faults => \A k \in DOMAIN local :
    Checkable(local[k]) => local[k].checked \/ (job["gate"] # Idle /\ k = Len(local))
ReviewsChecked ==
  \A r \in Runs : review[r] # "none" /\ r \in project.makefile => ws[r].checked

AllChecked == MainChecked /\ LocalChecked /\ ReviewsChecked

\* The change of a run is on main by an affirmer, and no affirmer can take it back.
Settled(r) ==
  /\ On(main, "change", r, "affirmer") /\ ~On(main, "rollback", r, "affirmer")
  /\ ~ws[r].dirty
  /\ \A a \in Affirmers : job[a].pc \in Holding => job[a].run # r

\* The promotion a job is about is one of its run.
Linked ==
  \A a \in Affirmers : \/ job[a].promo = 0
                       \/ /\ job[a].promo \in DOMAIN promos
                          /\ promos[job[a].promo].run = job[a].run

\* A project that promotes directly opens no reviews.
NoReviews ==
  /\ \A r \in Runs : review[r] = "none"
  /\ job["watcher"].pc # "write"
  /\ \A a \in Workers : job[a].pc # "open"

NotYetBack ==
  \A r \in Runs :
    ws[r].dirty \/ (\E a \in Affirmers : job[a].pc \in Holding /\ job[a].run = r)
      => ~On(main, "rollback", r, "affirmer")

AllSettled ==
  /\ \A i \in DOMAIN promos : promos[i].applyback = "applied" => Settled(promos[i].run)
  /\ \A a \in Affirmers :
       job[a].pc = "record" /\ job[a].out = "applied" => Settled(job[a].run)

AllApplied ==
  /\ Linked
  /\ project.mode = "direct_main" => NoReviews /\ NotYetBack /\ AllSettled
  /\ \A r \in Runs : fixes[r].repair = "pushed" => On(main, "change", r, "repair")

-----------------------------------------------------------------------------
(* Histories.                                                              *)

\* A history that goes on from another.
Extends(m, n) == Len(m) <= Len(n) /\ \A k \in 1..Len(m) : n[k] = m[k]

\* main only ever grows, by a commit at a time.
LEMMA AppendExtends ==
  ASSUME NEW m \in Seq(Commits), NEW c \in Commits
  PROVE  /\ Append(m, c) \in Seq(Commits) /\ Len(Append(m, c)) = Len(m) + 1
         /\ Append(m, c)[Len(m) + 1] = c /\ Extends(m, Append(m, c))
BY DEF Extends

\* What the first commits carry does not change.
LEMMA CarriedStays ==
  ASSUME NEW m \in Seq(Commits), NEW n, Extends(m, n), NEW b \in 0..Len(m), NEW r
  PROVE  CarriedBy(n, b, r) <=> CarriedBy(m, b, r)
<1>1. \A k \in 1..b : n[k] = m[k] /\ k \in 1..Len(m)
  BY DEF Extends
<1>2. \A k \in 1..b : \A i \in k + 1..b : i \in 1..b
  OBVIOUS
<1> QED
  BY <1>1, <1>2 DEF CarriedBy

\* What is on main stays on it.
LEMMA OnStays ==
  ASSUME NEW m \in Seq(Commits), NEW n \in Seq(Commits), Extends(m, n),
         NEW op, NEW r, NEW by, On(m, op, r, by)
  PROVE  On(n, op, r, by)
<1>1. PICK k \in 1..Len(m) : m[k].op = op /\ m[k].run = r /\ m[k].by = by
  BY DEF On
<1>2. k \in 1..Len(n) /\ n[k] = m[k]
  BY <1>1 DEF Extends
<1> QED
  BY <1>1, <1>2 DEF On

\* Carries, of a history and of its first commits.
LEMMA CarriesIs ==
  ASSUME NEW m \in Seq(Commits), NEW r
  PROVE  /\ Carries(m, r) <=> CarriedBy(m, Len(m), r)
         /\ \A b \in 1..Len(m) : Carries(SubSeq(m, 1, b), r) <=> CarriedBy(m, b, r)
<1>1. Carries(m, r) <=> CarriedBy(m, Len(m), r)
  BY DEF Carries, CarriedBy
<1>2. ASSUME NEW b \in 1..Len(m)
      PROVE  Carries(SubSeq(m, 1, b), r) <=> CarriedBy(m, b, r)
  <2>1. PICK s : s = SubSeq(m, 1, b)
    OBVIOUS
  <2>2. s \in Seq(Commits) /\ Len(s) = b /\ \A k \in 1..b : s[k] = m[k]
    BY <2>1
  <2>3. Extends(s, m)
    BY <2>2 DEF Extends
  <2>4. Carries(s, r) <=> CarriedBy(s, b, r)
    BY <2>2 DEF Carries, CarriedBy
  <2>5. CarriedBy(m, b, r) <=> CarriedBy(s, b, r)
    BY <2>2, <2>3, CarriedStays
  <2> QED
    BY <2>1, <2>4, <2>5
<1> QED
  BY <1>1, <1>2

\* A history that brings no change twice without having taken it out.
Singly(m) ==
  \A j, k \in 1..Len(m) :
    j < k /\ m[j].run = m[k].run /\ m[j].op = "change" /\ m[k].op = "change"
      => \E i \in j + 1..k - 1 : m[i].run = m[j].run

\* A new change on a main that does not carry it is no second one.
LEMMA AppendNews ==
  ASSUME NEW m \in Seq(Commits), NEW c \in Commits, NEW n, n = Append(m, c),
         c.op = "change" => ~CarriedBy(m, Len(m), c.run),
         Singly(m)
  PROVE  Singly(n)
<1>1. /\ Len(n) = Len(m) + 1 /\ n[Len(m) + 1] = c /\ Len(m) \in Nat
      /\ \A k \in 1..Len(m) : n[k] = m[k]
  OBVIOUS
<1> SUFFICES ASSUME NEW j \in 1..Len(n), NEW k \in 1..Len(n), j < k, n[j].run = n[k].run,
                    n[j].op = "change", n[k].op = "change"
             PROVE  \E i \in j + 1..k - 1 : n[i].run = n[j].run
  BY DEF Singly
<1>2. CASE k \in 1..Len(m)
  <2>1. j \in 1..Len(m) /\ \A i \in j + 1..k - 1 : i \in 1..Len(m)
    BY <1>1, <1>2
  <2> QED
    BY <1>1, <1>2, <2>1 DEF Singly
<1>3. CASE k = Len(m) + 1
  <2>1. j \in 1..Len(m) /\ n[j] = m[j]
    BY <1>1, <1>3
  <2>2. m[j].run = c.run /\ m[j].op = "change" /\ ~CarriedBy(m, Len(m), c.run)
    BY <1>1, <1>3, <2>1
  <2>3. PICK i \in j + 1..Len(m) : m[i].run = c.run
    BY <2>1, <2>2 DEF CarriedBy
  <2>4. i \in j + 1..k - 1 /\ n[i] = m[i]
    BY <1>1, <1>3, <2>1, <2>3
  <2> QED
    BY <2>1, <2>2, <2>3, <2>4
<1> QED
  BY <1>1, <1>2, <1>3

-----------------------------------------------------------------------------
(* What a step makes of the job of its process.                            *)

Going(a, pc) == [job[a] EXCEPT !.pc = pc]
Concluding(a, pc, out) == [job[a] EXCEPT !.pc = pc, !.out = out]

\* A process at work goes on to the next step with what it knows.
LEMMA JobIs ==
  ASSUME Types, NEW a \in Actors, job[a].pc # "idle", NEW pc \in Words, NEW out \in Words
  PROVE  /\ job[a] \in Jobs /\ job[a] # Idle
         /\ Going(a, pc) \in Jobs /\ Going(a, pc).pc = pc /\ Going(a, pc).run = job[a].run
         /\ Going(a, pc).out = job[a].out /\ Going(a, pc).promo = job[a].promo
         /\ Concluding(a, pc, out) \in Jobs
         /\ Concluding(a, pc, out).pc = pc /\ Concluding(a, pc, out).run = job[a].run
         /\ Concluding(a, pc, out).out = out /\ Concluding(a, pc, out).promo = job[a].promo
<1>1. job[a] \in Jobs /\ job[a] # Idle
  BY DEF Types, Idle
<1> QED
  BY <1>1 DEF Going, Concluding, Jobs

\* Goto, Conclude and Done write that.
LEMMA JobBecomes ==
  ASSUME Types, NEW a \in Actors, NEW pc \in Words, NEW out \in Words
  PROVE  /\ Goto(a, pc) => job' = [job EXCEPT ![a] = Going(a, pc)]
         /\ Conclude(a, pc, out) => job' = [job EXCEPT ![a] = Concluding(a, pc, out)]
         /\ Done(a) => job' = [job EXCEPT ![a] = Idle]
BY DEF Goto, Conclude, Done, Going, Concluding, Types

\* A failed command or check leaves a process at rest or about to record a failure.
LEMMA ErrorIs ==
  ASSUME Types, NEW a \in Actors, job[a].pc # "idle", CommandError(a) \/ RuntimeError(a)
  PROVE  \E j \in {Idle} \cup Jobs :
           /\ job' = [job EXCEPT ![a] = j]
           /\ j = Idle \/ /\ j.pc = "record" /\ j.out \in {"skipped", "blocked"}
                          /\ j.run = job[a].run /\ j.promo = job[a].promo
<1>1. \/ Done(a) \/ Conclude(a, "record", "skipped") \/ Conclude(a, "record", "blocked")
  BY DEF CommandError, RuntimeError
<1>2. ASSUME NEW out \in {"skipped", "blocked"}, Conclude(a, "record", out)
      PROVE  \E j \in Jobs : /\ job' = [job EXCEPT ![a] = j]
                             /\ j.pc = "record" /\ j.out \in {"skipped", "blocked"}
                             /\ j.run = job[a].run /\ j.promo = job[a].promo
  <2>1. "record" \in Words /\ out \in Words
    BY DEF Words
  <2> QED
    BY <1>2, <2>1, JobIs, JobBecomes
<1>3. Done(a) => job' = [job EXCEPT ![a] = Idle]
  BY DEF Done
<1> QED
  BY <1>1, <1>2, <1>3

\* The workspace a process works in is one.
LEMMA PlaceIs ==
  ASSUME Types, NEW a \in Actors, job[a].pc # "idle"
  PROVE  /\ Place(a) = PlaceOf(a, job[a]) /\ Place(a) \in Runs \cup {"objective"}
         /\ job[a].run \in Runs
         /\ (Place(a) = "objective") <=> (a = "objective")
<1>1. job[a] \in Jobs
  BY DEF Types, Idle
<1> QED
  BY <1>1, DeliveryAssumption DEF Place, PlaceOf, Jobs

\* What a push brings to main: what the workspace has committed, checked if it was.
LEMMA PushedIs ==
  ASSUME Types, Workplaces, NEW x \in Runs \cup {"objective"}
  PROVE  \/ ws[x].own = <<>> /\ main \o Checked(x) = main
         \/ \E c, d \in Commits :
              /\ ws[x].own = <<c>> /\ d = [c EXCEPT !.checked = ws[x].checked]
              /\ main \o Checked(x) = Append(main, d)
<1>1. ws[x] \in Worktrees /\ Fresh(x, main, ws[x]) /\ main \in Seq(Commits)
  BY DEF Types, Workplaces
<1>2. CASE ws[x].own = <<>>
  <2>1. Checked(x) = <<>>
    BY <1>2 DEF Checked
  <2> QED
    BY <1>1, <1>2, <2>1
<1>3. ASSUME NEW c \in Commits, ws[x].own = <<c>>
      PROVE  \E d \in Commits : /\ d = [c EXCEPT !.checked = ws[x].checked]
                                /\ main \o Checked(x) = Append(main, d)
  <2>1. PICK d : d = [c EXCEPT !.checked = ws[x].checked]
    OBVIOUS
  <2>2. d \in Commits
    BY <1>1, <2>1 DEF Commits, Worktrees
  <2>3. Checked(x) = <<d>>
    BY <1>3, <2>1 DEF Checked
  <2> QED
    BY <1>1, <2>1, <2>2, <2>3
<1> QED
  BY <1>1, <1>2, <1>3 DEF Fresh

-----------------------------------------------------------------------------
(* A step writes one job and at most one workspace, and main may grow.     *)

\* A job rests on what it found as long as its workspace stays, or it does not hold it,
\* and what is checked there stays checked.
LEMMA SoundStays ==
  ASSUME NEW b \in Actors, NEW j, NEW m \in Seq(Commits), NEW n \in Seq(Commits),
         Extends(m, n), NEW w, NEW v, Sound(b, j, m, w),
         b = "objective" \/ (b \in Workers /\ j.pc \in Holding) =>
           /\ v[PlaceOf(b, j)].own = w[PlaceOf(b, j)].own
           /\ v[PlaceOf(b, j)].dirty = w[PlaceOf(b, j)].dirty
           /\ v[PlaceOf(b, j)].base = w[PlaceOf(b, j)].base,
         b \in Workers /\ j.pc # "idle" /\ w[PlaceOf(b, j)].checked => v[PlaceOf(b, j)].checked,
         w["objective"].base \in 0..Len(m)
  PROVE  Sound(b, j, n, v)
<1>1. Holds(b, j, v)
  BY DEF Sound, Holds
<1>2. HasChecked(b, j, v)
  BY DEF Sound, HasChecked, Holding, Workers
<1>3. HasLanded(b, j, n)
  BY OnStays DEF Sound, HasLanded
<1>4. ASSUME b = "objective" PROVE BringsNews(j, n, v)
  <2>1. v["objective"].dirty = w["objective"].dirty /\ v["objective"].base = w["objective"].base
    BY <1>4 DEF PlaceOf
  <2>2. CarriedBy(n, w["objective"].base, j.run) <=> CarriedBy(m, w["objective"].base, j.run)
    BY CarriedStays
  <2> QED
    BY <1>4, <2>1, <2>2 DEF Sound, BringsNews
<1> QED
  BY <1>1, <1>2, <1>3, <1>4 DEF Sound

\* So does what a workspace has committed.
LEMMA FreshStays ==
  ASSUME NEW x, NEW m \in Seq(Commits), NEW n \in Seq(Commits), Extends(m, n),
         NEW v, Fresh(x, m, v)
  PROVE  Fresh(x, n, v)
<1>1. v.base \in 0..Len(m) /\ v.base \in 1..Len(n)
  BY DEF Fresh, Extends
<1>2. CarriedBy(n, v.base, v.own[1].run) <=> CarriedBy(m, v.base, v.own[1].run)
  BY <1>1, CarriedStays
<1> QED
  BY <1>1, <1>2 DEF Fresh

\* No other process holds the workspace.
Alone(a, x) == \A b \in Workers \ {a} : job[b].pc \in Holding => Place(b) # x

\* A holder is alone.
LEMMA HolderAlone ==
  ASSUME Worked, NEW a \in Workers, job[a].pc \in Holding PROVE Alone(a, Place(a))
BY DEF Worked, Apart, Alone

\* Nobody holds a workspace with something to commit.
LEMMA DirtyAlone ==
  ASSUME Worked, NEW a, NEW x, ws[x].dirty PROVE Alone(a, x)
<1> SUFFICES ASSUME NEW b \in Workers, job[b].pc \in Holding PROVE Place(b) # x
  BY DEF Alone
<1>1. b \in Actors /\ job[b].pc # "idle"
  BY DEF Workers, Actors, Others, Holding
<1>2. Sound(b, job[b], main, ws) /\ Place(b) = PlaceOf(b, job[b])
  BY <1>1, PlaceIs DEF Worked
<1> QED
  BY <1>2 DEF Sound, Holds

\* The frame of every step: a's job becomes j, the workspace x becomes v, which somebody
\* else holds only if it stays, and a alone if it holds it now.
LEMMA WorkedStep ==
  ASSUME Worked, Types', project' = project, NEW a \in Actors, NEW j,
         NEW x \in Runs \cup {"objective"}, NEW v,
         job' = [job EXCEPT ![a] = j], ws' = [ws EXCEPT ![x] = v], Extends(main, main'),
         Sound(a, j, main', ws'), Fresh(x, main', v),
         \/ Alone(a, x) /\ (x = "objective" => a = "objective")
         \/ v.own = ws[x].own /\ v.dirty = ws[x].dirty /\ v.base = ws[x].base,
         ws[x].checked /\ ~(a = "objective" /\ x = "objective") => v.checked,
         a \in Workers /\ j.pc \in Holding => PlaceOf(a, j) = x /\ Alone(a, x)
  PROVE  Worked'
<1>1. /\ main \in Seq(Commits) /\ main' \in Seq(Commits) /\ Types
      /\ DOMAIN job = Actors /\ DOMAIN ws = Runs \cup {"objective"}
  BY DEF Worked, Types
<1>2. \A b \in Actors : job'[b] = IF b = a THEN j ELSE job[b]
  BY <1>1
<1>3. \A y \in Runs \cup {"objective"} : ws'[y] = IF y = x THEN v ELSE ws[y]
  BY <1>1
<1>4. ASSUME NEW b \in Actors, b # a PROVE Sound(b, job[b], main', ws')
  <2>1. Sound(b, job[b], main, ws)
    BY DEF Worked
  <2>2. ws["objective"].base \in 0..Len(main)
    BY DEF Worked, Workplaces, Fresh
  <2>3. job[b].pc # "idle" => /\ PlaceOf(b, job[b]) \in Runs \cup {"objective"}
                              /\ PlaceOf(b, job[b]) = Place(b)
                              /\ (Place(b) = "objective") <=> (b = "objective")
    BY <1>1, PlaceIs
  <2>4. ASSUME b = "objective" \/ (b \in Workers /\ job[b].pc \in Holding)
        PROVE  /\ ws'[PlaceOf(b, job[b])].own = ws[PlaceOf(b, job[b])].own
               /\ ws'[PlaceOf(b, job[b])].dirty = ws[PlaceOf(b, job[b])].dirty
               /\ ws'[PlaceOf(b, job[b])].base = ws[PlaceOf(b, job[b])].base
    <3>1. CASE b = "objective"
      <4>1. PlaceOf(b, job[b]) = "objective"
        BY <3>1 DEF PlaceOf
      <4> QED
        BY <1>3, <1>4, <3>1, <4>1
    <3>2. CASE b \in Workers /\ job[b].pc \in Holding
      <4>1. job[b].pc # "idle"
        BY <3>2 DEF Holding
      <4>2. Place(b) = x => ~Alone(a, x)
        BY <1>4, <3>2 DEF Alone
      <4> QED
        BY <1>3, <2>3, <4>1, <4>2
    <3> QED
      BY <2>4, <3>1, <3>2
  <2>5. b \in Workers /\ job[b].pc # "idle" /\ ws[PlaceOf(b, job[b])].checked
          => ws'[PlaceOf(b, job[b])].checked
    BY <1>3, <1>4, <2>3
  <2> QED
    BY <1>1, <2>1, <2>2, <2>4, <2>5, SoundStays
<1>5. ASSUME NEW b \in Actors PROVE Sound(b, job[b], main, ws)'
  <2>1. Sound(b, job'[b], main', ws')
    BY <1>2, <1>4
  <2>2. HasChecked(b, job'[b], ws') <=> HasChecked(b, job[b], ws)'
    BY DEF HasChecked
  <2> QED
    BY <2>1, <2>2 DEF Sound
<1>6. Apart'
  <2> SUFFICES ASSUME NEW b \in Workers, NEW c \in Workers, b # c,
                      job'[b].pc \in Holding, job'[c].pc \in Holding
               PROVE  Place(b)' # Place(c)'
    BY DEF Apart
  <2>1. Workers \subseteq Actors
    BY DEF Workers, Actors, Others
  <2>2. CASE b # a /\ c # a
    BY <1>2, <2>1, <2>2 DEF Worked, Apart, Place
  <2>3. ASSUME NEW d \in Workers, d # a, job'[d].pc \in Holding, a \in Workers,
               job'[a].pc \in Holding
        PROVE  Place(d)' # Place(a)'
    <3>1. Place(a)' = x /\ Alone(a, x)
      BY <1>2, <2>1, <2>3 DEF Place, PlaceOf
    <3>2. Place(d)' = Place(d) /\ job[d].pc \in Holding
      BY <1>2, <2>1, <2>3 DEF Place
    <3> QED
      BY <2>3, <3>1, <3>2 DEF Alone
  <2> QED
    BY <2>2, <2>3
<1>7. Workplaces'
  <2> SUFFICES ASSUME NEW y \in Runs \cup {"objective"} PROVE Fresh(y, main', ws'[y])
    BY DEF Workplaces
  <2>1. Fresh(y, main, ws[y])
    BY DEF Worked, Workplaces
  <2>2. Fresh(y, main', ws[y])
    BY <1>1, <2>1, FreshStays
  <2> QED
    BY <1>3, <2>2
<1> QED
  BY <1>5, <1>6, <1>7 DEF Worked

-----------------------------------------------------------------------------
(* The variables keep their values.                                        *)

\* What a step writes is of the kind that is there.
LEMMA TypesStep ==
  ASSUME Types, project' = project, NEW a \in Actors, NEW j \in {Idle} \cup Jobs,
         job' = [job EXCEPT ![a] = j],
         main' = main \/ \E c \in Commits : main' = Append(main, c),
         local' \in Seq(Commits), ws' \in [Runs \cup {"objective"} -> Worktrees],
         promos' \in Seq(Records), review' \in [Runs -> Words],
         fixes' \in [Runs -> [applied : BOOLEAN, repair : Words]],
         faults' = faults \/ (faults > 0 /\ faults' = faults - 1)
  PROVE  Types'
<1>1. main' \in Seq(Commits) /\ Len(main') >= 1 /\ main'[1] = Outside
  <2>1. main \in Seq(Commits) /\ Len(main) >= 1 /\ main[1] = Outside
    BY DEF Types
  <2>2. ASSUME NEW c \in Commits, main' = Append(main, c)
        PROVE  main' \in Seq(Commits) /\ Len(main') >= 1 /\ main'[1] = main[1]
    BY <2>1, <2>2
  <2> QED
    BY <2>1, <2>2
<1>2. faults' \in Nat /\ project'.faults \in Nat /\ faults' <= project'.faults
  BY DEF Types
<1>3. job' \in [Actors -> {Idle} \cup Jobs]
  BY DEF Types
<1> QED
  BY <1>1, <1>2, <1>3 DEF Types

\* A step that writes nothing but the job, and may be a fault.
LEMMA JobTypes ==
  ASSUME Types, NEW a \in Actors, NEW j \in {Idle} \cup Jobs, job' = [job EXCEPT ![a] = j],
         UNCHANGED <<project, main, local, ws, promos, review, fixes>>,
         faults' = faults \/ (faults > 0 /\ faults' = faults - 1)
  PROVE  Types'
BY TypesStep DEF Types

\* A promotion as it is created, and as it is updated.
LEMMA PromotionIs ==
  ASSUME NEW task \in Words, NEW r \in Runs, NEW st \in Words
  PROVE  /\ Promotion(task, r, st) \in Records
         /\ Promotion(task, r, st).run = r /\ Promotion(task, r, st).applyback = "none"
<1>1. "none" \in Words
  BY DEF Words
<1> QED
  BY <1>1 DEF Promotion, Records

\* One promotion is written, if it is there.
LEMMA PromoUpdate ==
  ASSUME NEW s \in Seq(Records), NEW i, NEW rec, i \in 1..Len(s) => rec \in Records
  PROVE  /\ [s EXCEPT ![i] = rec] \in Seq(Records)
         /\ Len([s EXCEPT ![i] = rec]) = Len(s)
         /\ \A k \in 1..Len(s) : [s EXCEPT ![i] = rec][k] = IF k = i THEN rec ELSE s[k]
<1>1. CASE i \in 1..Len(s)
  BY <1>1, ExceptSeq
<1>2. CASE i \notin 1..Len(s)
  <2>1. DOMAIN s = 1..Len(s)
    OBVIOUS
  <2>2. [s EXCEPT ![i] = rec] = s
    BY <1>2, <2>1
  <2> QED
    BY <1>2, <2>2
<1> QED
  BY <1>1, <1>2

\* A process that starts knows the run it is about.
LEMMA StartIs ==
  ASSUME NEW r \in Runs, NEW pc \in Words, NEW n \in Nat, NEW out \in Words
  PROVE  /\ [Idle EXCEPT !.pc = pc, !.run = r, !.out = out] \in Jobs
         /\ [Idle EXCEPT !.pc = pc, !.run = r, !.promo = n] \in Jobs
         /\ [Idle EXCEPT !.pc = pc, !.run = r] \in Jobs
<1>1. "none" \in Words
  BY DEF Words
<1> QED
  BY <1>1 DEF Idle, Jobs

-----------------------------------------------------------------------------
(* What every step keeps to, of process a, whose job becomes j.            *)

\* A workspace is held from a commit on; a promotion is affirmed as it was read; and it
\* is found applied, in a project that promotes directly, once the last check passed.
JobTurn(a, j) ==
  /\ job' = [job EXCEPT ![a] = j]
  /\ a \in Workers /\ j.pc \in Holding =>
       PlaceOf(a, j) = Place(a) /\ (job[a].pc \in Holding \/ ws[Place(a)].dirty)
  /\ a \in Affirmers => \/ j.promo = 0
                        \/ j.promo = job[a].promo /\ j.run = job[a].run
                        \/ j.promo \in DOMAIN promos /\ promos[j.promo].run = j.run
  /\ project.mode = "direct_main" /\ NoReviews =>
       /\ review' = review
       /\ a \in Workers => j.pc # "open"
       /\ a = "watcher" => j.pc # "write"
       /\ a \in Affirmers /\ j.pc = "record" /\ j.out = "applied" =>
            job[a].pc = "post" /\ job[a].run = j.run

\* What comes to main is checked if it can be, brings no change twice, and takes one back
\* only at the end of an apply.
MainTurn(a, j) ==
  main' = main \/ \E c \in Commits :
    /\ main' = Append(main, c)
    /\ Checkable(c) => c.checked
    /\ c.op = "change" => ~CarriedBy(main, Len(main), c.run)
    /\ project.mode = "direct_main" /\ NoReviews /\ c.op = "rollback" /\ c.by = "affirmer" =>
         a \in Affirmers /\ job[a].pc = "rollback" /\ job[a].run = c.run /\ j = Idle

\* A record says applied, pushed or open when the process that writes it got there.
PromoTurn(a) ==
  /\ Len(promos) <= Len(promos')
  /\ \A i \in DOMAIN promos : promos'[i].run = promos[i].run
  /\ \A i \in DOMAIN promos' : promos'[i].applyback = "applied" =>
       /\ i \in DOMAIN promos
       /\ \/ promos[i].applyback = "applied" \/ job["watcher"].pc = "write"
          \/ /\ a \in Affirmers /\ job[a].pc = "record" /\ job[a].out = "applied"
             /\ i = job[a].promo

StoreTurn(a) ==
  /\ \A r \in Runs : fixes'[r].repair = "pushed" =>
       \/ fixes[r].repair = "pushed"
       \/ job["repair"].pc = "record" /\ job["repair"].out = "pushed" /\ job["repair"].run = r
  /\ \A r \in Runs : review'[r] # "none" =>
       review[r] # "none" \/ (a \in Affirmers /\ job[a].pc = "open" /\ job[a].run = r)
  /\ \A r \in Runs : /\ ws'[r].dirty => ws[r].dirty
                     /\ ws[r].checked => ws'[r].checked

Turn(a, j) ==
  /\ Worked' /\ project' = project
  /\ JobTurn(a, j) /\ MainTurn(a, j) /\ PromoTurn(a) /\ StoreTurn(a)

\* A job that rests on nothing: not yet at work, or done without success.
Plain(a, j) ==
  /\ j \in {Idle} \cup Jobs
  /\ a \in Workers => j.pc \notin Holding
  /\ a = "repair" => j.pc \notin {"check", "commit"} /\ ~(j.pc = "record" /\ j.out = "pushed")
  /\ a = "objective" => j.pc \notin {"check", "commit"}
  /\ a \in Affirmers => \/ j.promo = 0
                        \/ j.promo = job[a].promo /\ j.run = job[a].run
                        \/ j.promo \in DOMAIN promos /\ promos[j.promo].run = j.run
  /\ project.mode = "direct_main" /\ NoReviews =>
       /\ a = "watcher" => j.pc # "write"
       /\ a \in Affirmers => ~(j.pc = "record" /\ j.out = "applied")

\* The kinds of actors.
LEMMA ActorsAre ==
  /\ Workers \subseteq Actors /\ Affirmers \subseteq Workers
  /\ {"objective", "repair", "gate", "watcher"} \subseteq Actors
  /\ {"objective", "repair", "gate", "watcher"} \cap Affirmers = {}
  /\ "gate" \notin Workers /\ "watcher" \notin Workers
BY DeliveryAssumption DEF Workers, Actors, Others

\* A step that leaves the workspaces alone, to a job that rests on what there is.
LEMMA StaysWorked ==
  ASSUME Worked, Types', project' = project, NEW a \in Actors, NEW j, job' = [job EXCEPT ![a] = j],
         ws' = ws, Extends(main, main'), Sound(a, j, main', ws'),
         a \in Workers /\ j.pc \in Holding => job[a].pc \in Holding /\ j.run = job[a].run
  PROVE  Worked'
<1>1. \A x \in Runs \cup {"objective"} :
        ws' = [ws EXCEPT ![x] = ws[x]] /\ Fresh(x, main', ws[x])
  <2>1. main \in Seq(Commits) /\ main' \in Seq(Commits) /\ ws \in [Runs \cup {"objective"} -> Worktrees]
    BY DEF Worked, Types
  <2>2. \A x \in Runs \cup {"objective"} : ws' = [ws EXCEPT ![x] = ws[x]]
    BY <2>1
  <2> QED
    BY <2>1, <2>2, FreshStays DEF Worked, Workplaces
<1>2. PICK x \in Runs \cup {"objective"} :
        a \in Workers /\ j.pc \in Holding => PlaceOf(a, j) = x /\ Alone(a, x)
  <2>1. CASE a \in Workers /\ j.pc \in Holding
    <3>1. job[a].pc \in Holding /\ job[a].pc # "idle" /\ j.run = job[a].run
      BY <2>1 DEF Holding
    <3>2. PlaceOf(a, j) = Place(a) /\ Place(a) \in Runs \cup {"objective"}
      BY <3>1, PlaceIs DEF Worked, PlaceOf, Place
    <3> QED
      BY <2>1, <3>1, <3>2, HolderAlone
  <2>2. CASE ~(a \in Workers /\ j.pc \in Holding)
    BY <2>2
  <2> QED
    BY <2>1, <2>2
<1> QED
  BY <1>1, <1>2, WorkedStep

\* A step to a plain job that leaves the repositories and reviews alone.
LEMMA PlainTurn ==
  ASSUME Worked, Types', NEW a \in Actors, NEW j, Plain(a, j), job' = [job EXCEPT ![a] = j],
         UNCHANGED <<project, main, ws>>,
         project.mode = "direct_main" /\ NoReviews => review' = review
  PROVE  Worked' /\ JobTurn(a, j) /\ MainTurn(a, j)
<1>1. Sound(a, j, main', ws')
  BY ActorsAre DEF Plain, Sound, Holds, HasChecked, HasLanded, BringsNews, Holding, Workers
<1>2. Extends(main, main')
  BY DEF Extends, Worked, Types
<1>3. a \in Workers => j.pc \notin Holding
  BY DEF Plain
<1>4. Worked'
  BY <1>1, <1>2, <1>3, StaysWorked
<1>5. JobTurn(a, j)
  BY <1>3 DEF Plain, JobTurn, Holding
<1> QED
  BY <1>4, <1>5 DEF MainTurn

\* Promotions that are not written are kept.
LEMMA SamePromos == ASSUME Types, promos' = promos, NEW a PROVE PromoTurn(a)
BY DEF Types, PromoTurn

\* So are the other records.
LEMMA SameStore == ASSUME UNCHANGED <<fixes, review, ws>>, NEW a PROVE StoreTurn(a)
BY DEF StoreTurn

-----------------------------------------------------------------------------
(* The steps of the promotion review.                                      *)

\* A step to a plain job that writes nothing else, a fault or not.
LEMMA QuietTurn ==
  ASSUME Worked, NEW a \in Actors, NEW j, Plain(a, j), job' = [job EXCEPT ![a] = j],
         UNCHANGED <<project, main, local, ws, promos, review, fixes>>,
         faults' = faults \/ (faults > 0 /\ faults' = faults - 1)
  PROVE  Turn(a, j)
<1>1. Types /\ j \in {Idle} \cup Jobs
  BY DEF Worked, Plain
<1>2. Types'
  BY <1>1, JobTypes
<1> QED
  BY <1>1, <1>2, PlainTurn, SamePromos, SameStore DEF Turn

\* A failed command or check, whoever meets it.
LEMMA ErrorTurn ==
  ASSUME Worked, NEW a \in Actors, job[a].pc # "idle", CommandError(a) \/ RuntimeError(a),
         UNCHANGED <<project, main, local, ws, promos, review, fixes>>,
         faults' = faults \/ (faults > 0 /\ faults' = faults - 1)
  PROVE  \E j : Turn(a, j)
<1>1. PICK j \in {Idle} \cup Jobs :
        /\ job' = [job EXCEPT ![a] = j]
        /\ j = Idle \/ /\ j.pc = "record" /\ j.out \in {"skipped", "blocked"}
                       /\ j.run = job[a].run /\ j.promo = job[a].promo
  BY ErrorIs DEF Worked
<1>2. Plain(a, j)
  BY <1>1 DEF Plain, Idle, Holding
<1> QED
  BY <1>1, <1>2, QuietTurn

\* A process that dies rests.
LEMMA CrashTurn == ASSUME Worked, NEW a \in Actors, Crash(a) PROVE Turn(a, Idle)
<1>1. Plain(a, Idle)
  BY DEF Plain, Idle, Holding
<1> QED
  BY <1>1, QuietTurn DEF Crash, Done, repo, store

\* review_task and rereview_task: a promotion is recorded, or a follow-on looked for.
LEMMA ReviewTurn ==
  ASSUME Worked, NEW a \in Affirmers, Review(a) \/ Rereview(a) PROVE \E j : Turn(a, j)
<1>1. PICK task \in {"task", "follow-on"}, r \in Runs : Free(a) /\ Judged(a, task, r)
  BY DeliveryAssumption DEF Review, Rereview, TaskOf
<1>2. a \in Actors /\ Types /\ task \in Words
  BY ActorsAre, <1>1 DEF Worked, Words
<1>3. CASE promos' = Append(promos, Promotion(task, r, "pending")) /\ job' = job
  <2>1. "pending" \in Words /\ "none" \in Words
    BY DEF Words
  <2>2. PICK rec \in Records : rec = Promotion(task, r, "pending") /\ rec.applyback = "none"
    BY <1>2, <2>1, PromotionIs
  <2>3. promos \in Seq(Records) /\ promos' = Append(promos, rec)
    BY <1>2, <1>3, <2>2 DEF Types
  <2>4. promos' \in Seq(Records) /\ PromoTurn(a)
    BY <2>2, <2>3 DEF PromoTurn
  <2>5. job' = [job EXCEPT ![a] = Idle] /\ Idle \in {Idle} \cup Jobs
    BY <1>1, <1>2, <1>3 DEF Free, Types
  <2>6. UNCHANGED <<project, main, local, ws, review, fixes, faults>>
    BY <1>1 DEF Judged, repo
  <2>7. Types'
    BY <1>2, <2>4, <2>5, <2>6, TypesStep DEF Types
  <2>8. Plain(a, Idle)
    BY DEF Plain, Idle, Holding
  <2> QED
    BY <1>2, <2>4, <2>5, <2>6, <2>7, <2>8, PlainTurn, SameStore DEF Turn
<1>4. CASE /\ job' = [job EXCEPT ![a] = [Idle EXCEPT !.pc = "find", !.run = r, !.out = task]]
           /\ promos' = promos
  <2>1. PICK j : j = [Idle EXCEPT !.pc = "find", !.run = r, !.out = task]
    OBVIOUS
  <2>2. j \in Jobs
    <3>1. "find" \in Words
      BY DEF Words
    <3> QED
      BY <1>2, <2>1, <3>1, StartIs
  <2>3. Plain(a, j)
    BY <2>1, <2>2, ActorsAre DEF Plain, Idle, Holding
  <2> QED
    BY <1>1, <1>2, <1>4, <2>1, <2>3, QuietTurn DEF Judged, repo
<1> QED
  BY <1>1, <1>3, <1>4 DEF Judged

\* find_follow_on_task, create_follow_on_task and the answers to an affirmation lead to a
\* step before the commit.
LEMMA AskTurn ==
  ASSUME Worked, NEW a \in Affirmers \cup {"watcher"},
         Find(a) \/ FileFollowOn(a) \/ (a \in Affirmers /\ Answer(a))
  PROVE  \E j : Turn(a, j)
<1>1. a \in Actors /\ Types /\ job[a].pc # "idle"
  BY ActorsAre DEF Worked, Find, FileFollowOn, Answer
<1>2. UNCHANGED <<project, main, local, ws, promos, review, fixes>> /\ faults' = faults
  BY DEF Find, FileFollowOn, Answer, repo, store
<1>3. \/ Goto(a, "find") \/ Goto(a, "file") \/ Goto(a, "refuse") \/ Done(a)
      \/ a \in Affirmers /\ Goto(a, "check")
      \/ a \in Affirmers /\ Conclude(a, "record", "skipped")
  BY DEF Find, FileFollowOn, Answer
<1>4. ASSUME NEW pc \in {"find", "file", "refuse", "check"}, Goto(a, pc),
             a \in Affirmers \/ pc # "check"
      PROVE  Turn(a, Going(a, pc))
  <2>1. pc \in Words
    BY DEF Words
  <2>2. Going(a, pc) \in Jobs /\ Going(a, pc).pc = pc /\ Going(a, pc).run = job[a].run
        /\ Going(a, pc).promo = job[a].promo /\ job' = [job EXCEPT ![a] = Going(a, pc)]
    BY <1>1, <1>4, <2>1, JobIs, JobBecomes
  <2>3. Plain(a, Going(a, pc))
    BY <1>4, <2>2, ActorsAre DEF Plain, Holding
  <2> QED
    BY <1>1, <1>2, <2>2, <2>3, QuietTurn
<1>5. Done(a) => Turn(a, Idle)
  <2>1. Plain(a, Idle)
    BY DEF Plain, Idle, Holding
  <2> QED
    BY <1>1, <1>2, <2>1, QuietTurn DEF Done
<1>6. a \in Affirmers /\ Conclude(a, "record", "skipped") => \E j : Turn(a, j)
  BY <1>1, <1>2, ErrorTurn DEF CommandError
<1> QED
  BY <1>3, <1>4, <1>5, <1>6

\* affirm_review reads a promotion.
LEMMA AffirmTurn == ASSUME Worked, NEW a \in Affirmers, Affirm(a) PROVE \E j : Turn(a, j)
<1>1. PICK i \in DOMAIN promos :
        job' = [job EXCEPT ![a] = [Idle EXCEPT !.pc = "asked", !.run = promos[i].run,
                                               !.promo = i]]
  BY DEF Affirm
<1>2. a \in Actors /\ Types
  BY ActorsAre DEF Worked
<1>3. promos[i] \in Records /\ i \in Nat
  BY <1>2 DEF Types
<1>4. promos[i].run \in Runs
  BY <1>3 DEF Records
<1>5. PICK j : j = [Idle EXCEPT !.pc = "asked", !.run = promos[i].run, !.promo = i]
  OBVIOUS
<1>6. j \in Jobs
  <2>1. "asked" \in Words
    BY DEF Words
  <2> QED
    BY <1>3, <1>4, <1>5, <2>1, StartIs
<1>7. j.pc = "asked" /\ j.run = promos[i].run /\ j.promo = i
  BY <1>5 DEF Idle
<1>8. Plain(a, j)
  BY <1>6, <1>7, ActorsAre DEF Plain, Holding
<1>9. UNCHANGED <<project, main, local, ws, promos, review, fixes>> /\ faults' = faults
  BY DEF Affirm, repo, store
<1> QED
  BY <1>1, <1>2, <1>5, <1>8, <1>9, QuietTurn

-----------------------------------------------------------------------------
(* The steps that write a record, or the operator's clone.                 *)

\* A step to a plain job that leaves the repository and the reviews alone.
LEMMA WriteTurn ==
  ASSUME Worked, NEW a \in Actors, NEW j, Plain(a, j), job' = [job EXCEPT ![a] = j],
         UNCHANGED <<project, main, ws, review, faults>>, local' \in Seq(Commits),
         promos' \in Seq(Records), PromoTurn(a),
         fixes' \in [Runs -> [applied : BOOLEAN, repair : Words]], StoreTurn(a)
  PROVE  Turn(a, j)
<1>1. Types /\ j \in {Idle} \cup Jobs
  BY DEF Worked, Plain
<1>2. Types'
  BY <1>1, TypesStep DEF Types
<1> QED
  BY <1>2, PlainTurn DEF Turn

\* An update of a promotion keeps its run.
LEMMA PromosWritten ==
  ASSUME Types, NEW a, NEW i, NEW rec, promos' = [promos EXCEPT ![i] = rec],
         i \in DOMAIN promos => rec \in Records /\ rec.run = promos[i].run,
         i \in DOMAIN promos /\ rec.applyback = "applied" =>
           \/ job["watcher"].pc = "write"
           \/ /\ a \in Affirmers /\ job[a].pc = "record" /\ job[a].out = "applied"
              /\ i = job[a].promo
  PROVE  promos' \in Seq(Records) /\ PromoTurn(a)
<1>1. promos \in Seq(Records) /\ DOMAIN promos = 1..Len(promos) /\ Len(promos) \in Nat
  BY DEF Types
<1>2. /\ promos' \in Seq(Records) /\ Len(promos') = Len(promos)
      /\ \A k \in 1..Len(promos) : promos'[k] = IF k = i THEN rec ELSE promos[k]
  BY <1>1, PromoUpdate
<1>3. DOMAIN promos' = 1..Len(promos)
  BY <1>2
<1> QED
  BY <1>1, <1>2, <1>3 DEF PromoTurn

\* A plain end of a job.
LEMMA DonePlain == ASSUME NEW a PROVE Plain(a, Idle)
BY DEF Plain, Idle, Holding

\* The rejection is recorded.
LEMMA RefuseTurn == ASSUME Worked, NEW a \in Affirmers, Refuse(a) PROVE Turn(a, Idle)
<1>1. a \in Actors /\ Types /\ job[a] \in Jobs
  BY ActorsAre, JobIs DEF Worked, Refuse, Types, Idle
<1>2. "rejected" \in Words /\ job[a].out \in Words /\ job[a].run \in Runs
  BY <1>1 DEF Words, Jobs
<1>3. promos' \in Seq(Records) /\ PromoTurn(a)
  <2>1. CASE job[a].promo = 0
    <3>1. PICK rec \in Records :
            rec = Promotion(job[a].out, job[a].run, "rejected") /\ rec.applyback = "none"
      BY <1>2, PromotionIs
    <3>2. promos \in Seq(Records) /\ promos' = Append(promos, rec)
      BY <1>1, <2>1, <3>1 DEF Types, Refuse
    <3> QED
      BY <3>1, <3>2 DEF PromoTurn
  <2>2. CASE job[a].promo # 0
    <3>1. PICK i, rec :
            i = job[a].promo /\ rec = Promotion(promos[i].task, promos[i].run, "rejected")
      OBVIOUS
    <3>2. promos' = [promos EXCEPT ![i] = rec]
      BY <2>2, <3>1 DEF Refuse
    <3>3. ASSUME i \in DOMAIN promos
          PROVE  rec \in Records /\ rec.run = promos[i].run /\ rec.applyback = "none"
      <4>1. promos[i] \in Records
        BY <1>1, <3>3 DEF Types
      <4>2. promos[i].task \in Words /\ promos[i].run \in Runs
        BY <4>1 DEF Records
      <4> QED
        BY <1>2, <3>1, <4>2, PromotionIs
    <3> QED
      BY <1>1, <3>2, <3>3, PromosWritten
  <2> QED
    BY <2>1, <2>2
<1>4. /\ UNCHANGED <<project, main, local, ws, review, fixes, faults>>
      /\ job' = [job EXCEPT ![a] = Idle]
  BY DEF Refuse, repo, Done
<1> QED
  BY <1>1, <1>3, <1>4, DonePlain, SameStore, WriteTurn DEF Types

\* update_promotion records what the apply found.
LEMMA RecordTurn ==
  ASSUME Worked, NEW a \in Affirmers, RecordPromotion(a) PROVE Turn(a, Idle)
<1>1. a \in Actors /\ Types /\ job[a] \in Jobs
  BY ActorsAre, JobIs DEF Worked, RecordPromotion, Types, Idle
<1>2. "approved" \in Words /\ "none" \in Words /\ job[a].out \in Words
  BY <1>1 DEF Words, Jobs
<1>3. PICK i, rec :
        /\ i = job[a].promo
        /\ rec = [Promotion(promos[i].task, promos[i].run, "approved")
                    EXCEPT !.applyback = job[a].out]
  OBVIOUS
<1>4. promos' = [promos EXCEPT ![i] = rec]
  BY <1>3 DEF RecordPromotion
<1>5. ASSUME i \in DOMAIN promos
      PROVE  rec \in Records /\ rec.run = promos[i].run /\ rec.applyback = job[a].out
  <2>1. promos[i] \in Records
    BY <1>1, <1>5 DEF Types
  <2>2. promos[i].task \in Words /\ promos[i].run \in Runs
    BY <2>1 DEF Records
  <2>3. PICK made \in Records : /\ made = Promotion(promos[i].task, promos[i].run, "approved")
                                /\ made.run = promos[i].run
    BY <1>2, <2>2, PromotionIs
  <2>4. rec = [made EXCEPT !.applyback = job[a].out]
    BY <1>3, <2>3
  <2> QED
    BY <1>2, <2>3, <2>4 DEF Records
<1>6. promos' \in Seq(Records) /\ PromoTurn(a)
  <2>1. i \in DOMAIN promos /\ rec.applyback = "applied" =>
          /\ a \in Affirmers /\ job[a].pc = "record" /\ job[a].out = "applied"
          /\ i = job[a].promo
    BY <1>3, <1>5 DEF RecordPromotion
  <2> QED
    BY <1>1, <1>4, <1>5, <2>1, PromosWritten
<1>7. /\ UNCHANGED <<project, main, local, ws, review, fixes, faults>>
      /\ job' = [job EXCEPT ![a] = Idle]
  BY DEF RecordPromotion, repo, Done
<1> QED
  BY <1>1, <1>6, <1>7, DonePlain, SameStore, WriteTurn DEF Types

\* check_due_reviews reads an applied promotion of an open review.
LEMMA WatchTurn == ASSUME Worked, Watch PROVE \E j : Turn("watcher", j)
<1>1. PICK i \in DOMAIN promos :
        /\ review[promos[i].run] # "none"
        /\ job' = [job EXCEPT !["watcher"] =
                     [pc |-> "write", run |-> promos[i].run, promo |-> i,
                      out |-> review[promos[i].run], seen |-> promos[i].watch]]
  BY DEF Watch
<1>2. "watcher" \in Actors /\ "watcher" \notin Workers /\ Types /\ "watcher" \notin Affirmers
  BY ActorsAre DEF Worked
<1>3. promos[i] \in Records /\ i \in Nat
  BY <1>2 DEF Types
<1>4. promos[i].run \in Runs /\ promos[i].watch \in Words
  BY <1>3 DEF Records
<1>5. review[promos[i].run] \in Words /\ "write" \in Words
  BY <1>2, <1>4 DEF Types, Words
<1>6. PICK j : j = [pc |-> "write", run |-> promos[i].run, promo |-> i,
                    out |-> review[promos[i].run], seen |-> promos[i].watch]
  OBVIOUS
<1>7. j \in Jobs
  BY <1>3, <1>4, <1>5, <1>6 DEF Jobs
<1>8. ~NoReviews
  BY <1>1, <1>4 DEF NoReviews
<1>9. Plain("watcher", j)
  BY <1>2, <1>7, <1>8 DEF Plain
<1>10. UNCHANGED <<project, main, local, ws, promos, review, fixes>> /\ faults' = faults
  BY DEF Watch, repo, store
<1> QED
  BY <1>1, <1>2, <1>6, <1>9, <1>10, QuietTurn

\* The promotion is written with the state of its review.
LEMMA WatchWriteTurn == ASSUME Worked, WatchWrite PROVE \E j : Turn("watcher", j)
<1>1. "watcher" \in Actors /\ "watcher" \notin Workers /\ Types /\ "watcher" \notin Affirmers
  BY ActorsAre DEF Worked
<1>2. job["watcher"].pc = "write" /\ job["watcher"] \in Jobs
  BY <1>1, JobIs DEF WatchWrite, Types, Idle
<1>3. job["watcher"].out \in Words /\ "approved" \in Words /\ "none" \in Words
      /\ "applied" \in Words /\ "find" \in Words
  BY <1>2 DEF Jobs, Words
<1>4. PICK i, rec :
        /\ i = job["watcher"].promo
        /\ rec = [Promotion(promos[i].task, promos[i].run, "approved")
                    EXCEPT !.applyback = "applied", !.watch = job["watcher"].out]
  OBVIOUS
<1>5. promos' = [promos EXCEPT ![i] = rec]
  BY <1>4 DEF WatchWrite
<1>6. ASSUME i \in DOMAIN promos PROVE rec \in Records /\ rec.run = promos[i].run
  <2>1. promos[i] \in Records
    BY <1>1, <1>6 DEF Types
  <2>2. promos[i].task \in Words /\ promos[i].run \in Runs
    BY <2>1 DEF Records
  <2>3. PICK made \in Records : /\ made = Promotion(promos[i].task, promos[i].run, "approved")
                                /\ made.run = promos[i].run
    BY <1>3, <2>2, PromotionIs
  <2>4. PICK back, state : back = "applied" /\ state = job["watcher"].out
    OBVIOUS
  <2>5. rec = [made EXCEPT !.applyback = back, !.watch = state]
    BY <1>4, <2>3, <2>4
  <2> QED
    BY <1>3, <2>3, <2>4, <2>5 DEF Records
<1>7. promos' \in Seq(Records) /\ PromoTurn("watcher")
  BY <1>1, <1>2, <1>5, <1>6, PromosWritten
<1>8. PICK j \in {Idle} \cup Jobs : job' = [job EXCEPT !["watcher"] = j] /\ j.pc # "write"
  <2>1. Done("watcher") => job' = [job EXCEPT !["watcher"] = Idle]
    BY DEF Done
  <2>2. Goto("watcher", "find") =>
          /\ job' = [job EXCEPT !["watcher"] = Going("watcher", "find")]
          /\ Going("watcher", "find") \in Jobs /\ Going("watcher", "find").pc = "find"
    <3>1. PICK a, pc : a = "watcher" /\ pc = "find"
      OBVIOUS
    <3>2. Going(a, pc) \in Jobs /\ Going(a, pc).pc = pc
      BY <1>1, <1>2, <1>3, <3>1, JobIs
    <3>3. Goto(a, pc) => job' = [job EXCEPT ![a] = Going(a, pc)]
      BY <1>1, <1>3, <3>1, JobBecomes
    <3> QED
      BY <3>1, <3>2, <3>3
  <2>3. Goto("watcher", "find") \/ Done("watcher")
    BY DEF WatchWrite
  <2> QED
    <3>1. CASE Done("watcher")
      <4>1. PICK j : j = Idle
        OBVIOUS
      <4> QED
        BY <2>1, <3>1, <4>1 DEF Idle
    <3>2. CASE Goto("watcher", "find")
      BY <2>2, <3>2
    <3> QED
      BY <2>3, <3>1, <3>2
<1>9. Plain("watcher", j)
  BY <1>1, <1>8 DEF Plain
<1>10. UNCHANGED <<project, main, local, ws, review, fixes, faults>>
  BY DEF WatchWrite, repo
<1> QED
  BY <1>1, <1>7, <1>8, <1>9, <1>10, SameStore, WriteTurn DEF Types

\* What an objective promotion or a repair did is kept with the task.
LEMMA RecordFixTurn ==
  ASSUME Worked, RecordObjective \/ RecordFix
  PROVE  \E a \in {"objective", "repair"} : Turn(a, Idle)
<1>1. ASSUME NEW a \in {"objective", "repair"}, NEW r \in Runs, NEW rec,
             job[a].pc = "record", r = job[a].run,
             rec \in [applied : BOOLEAN, repair : Words],
             rec.repair = "pushed" =>
               fixes[r].repair = "pushed" \/ (a = "repair" /\ job[a].out = "pushed"),
             fixes' = [fixes EXCEPT ![r] = rec], Done(a),
             UNCHANGED <<project, repo, promos, filed, rebase, review, faults>>
      PROVE  Turn(a, Idle)
  <2>1. a \in Actors /\ Types
    BY ActorsAre DEF Worked
  <2>2. /\ fixes' \in [Runs -> [applied : BOOLEAN, repair : Words]]
        /\ \A s \in Runs : fixes'[s] = IF s = r THEN rec ELSE fixes[s]
    BY <1>1, <2>1 DEF Types
  <2>3. StoreTurn(a)
    BY <1>1, <2>2 DEF StoreTurn, repo
  <2>4. /\ UNCHANGED <<main, ws, local>> /\ job' = [job EXCEPT ![a] = Idle]
    BY <1>1 DEF repo, Done
  <2> QED
    BY <1>1, <2>1, <2>2, <2>3, <2>4, DonePlain, SamePromos, WriteTurn DEF Types
<1>2. Types /\ {"objective", "repair"} \subseteq Actors
  BY ActorsAre DEF Worked
<1>3. ASSUME NEW a \in {"objective", "repair"}, job[a].pc = "record"
      PROVE  /\ job[a].run \in Runs /\ job[a].out \in Words
             /\ fixes[job[a].run] \in [applied : BOOLEAN, repair : Words]
  <2>1. job[a] \in Jobs
    BY <1>2, <1>3 DEF Types, Idle
  <2> QED
    BY <1>2, <2>1 DEF Types, Jobs
<1>4. RecordObjective => Turn("objective", Idle)
  <2> SUFFICES ASSUME RecordObjective PROVE Turn("objective", Idle)
    OBVIOUS
  <2>1. PICK a, r, rec : /\ a = "objective" /\ r = job[a].run
                         /\ rec = [fixes[r] EXCEPT !.applied = TRUE]
    OBVIOUS
  <2>2. /\ r \in Runs /\ rec \in [applied : BOOLEAN, repair : Words]
        /\ rec.repair = fixes[r].repair
    BY <1>3, <2>1 DEF RecordObjective
  <2>3. fixes' = [fixes EXCEPT ![r] = rec]
    BY <2>1 DEF RecordObjective
  <2> QED
    BY <1>1, <2>1, <2>2, <2>3 DEF RecordObjective
<1>5. RecordFix => Turn("repair", Idle)
  <2> SUFFICES ASSUME RecordFix PROVE Turn("repair", Idle)
    OBVIOUS
  <2>1. PICK a, r, rec : /\ a = "repair" /\ r = job[a].run
                         /\ rec = [fixes[r] EXCEPT !.repair = job[a].out]
    OBVIOUS
  <2>2. /\ r \in Runs /\ rec \in [applied : BOOLEAN, repair : Words]
        /\ rec.repair = job[a].out
    BY <1>3, <2>1 DEF RecordFix
  <2>3. fixes' = [fixes EXCEPT ![r] = rec]
    BY <2>1 DEF RecordFix
  <2> QED
    BY <1>1, <2>1, <2>2, <2>3 DEF RecordFix
<1> QED
  BY <1>4, <1>5

\* The merge gate merges into the operator's clone and tests the merge there; a pull
\* brings it up to main.
LEMMA CloneTurn ==
  ASSUME Worked, AutoMerge \/ TestMerge \/ Pull PROVE \E j : Turn("gate", j)
<1>1. /\ "gate" \in Actors /\ "gate" \notin Workers /\ "gate" \notin Affirmers /\ Types
      /\ main \in Seq(Commits) /\ local \in Seq(Commits)
  BY ActorsAre DEF Worked, Types
<1>2. UNCHANGED <<project, main, ws, review, faults>> /\ promos' = promos /\ fixes' = fixes
  BY DEF AutoMerge, TestMerge, Pull, store
<1>3. local' \in Seq(Commits)
  <2>1. ASSUME AutoMerge PROVE local' \in Seq(Commits)
    <3>1. PICK r \in Runs : local' = local \/ local' = Append(local, Commit("change", r, "gate"))
      BY <2>1 DEF AutoMerge
    <3>2. Commit("change", r, "gate") \in Commits
      BY <1>1 DEF Commit, Commits, Role
    <3> QED
      BY <1>1, <3>1, <3>2
  <2>2. ASSUME TestMerge PROVE local' \in Seq(Commits)
    <3>1. Tested \in Seq(Commits)
      <4>1. \A k \in 1..Len(local) : [local[k] EXCEPT !.checked = @ \/ k = Len(local)] \in Commits
        <5>1. \A k \in 1..Len(local) : local[k] \in Commits
          BY <1>1
        <5> QED
          BY <5>1 DEF Commits
      <4>2. DOMAIN local = 1..Len(local) /\ Len(local) \in Nat
        BY <1>1
      <4> QED
        BY <4>1, <4>2 DEF Tested
    <3>2. SubSeq(local, 1, Len(local) - 1) \in Seq(Commits)
      BY <1>1
    <3> QED
      BY <2>2, <3>1, <3>2 DEF TestMerge
  <2>3. Pull => local' \in Seq(Commits)
    BY <1>1 DEF Pull
  <2> QED
    BY <2>1, <2>2, <2>3
<1>4. PICK j \in {Idle} \cup Jobs : job' = [job EXCEPT !["gate"] = j]
  <2>1. ASSUME AutoMerge PROVE \E j \in {Idle} \cup Jobs : job' = [job EXCEPT !["gate"] = j]
    <3>1. PICK r \in Runs :
            job' = [job EXCEPT !["gate"] = [Idle EXCEPT !.pc = "tests", !.run = r]]
      BY <2>1 DEF AutoMerge
    <3>2. PICK j : j = [Idle EXCEPT !.pc = "tests", !.run = r]
      OBVIOUS
    <3>3. j \in Jobs
      BY <3>2 DEF Idle, Jobs, Words
    <3> QED
      BY <3>1, <3>2, <3>3
  <2>2. TestMerge => job' = [job EXCEPT !["gate"] = Idle]
    BY DEF TestMerge, Done
  <2>3. Pull => job' = [job EXCEPT !["gate"] = job["gate"]] /\ job["gate"] \in {Idle} \cup Jobs
    BY <1>1 DEF Pull, Types
  <2> QED
    BY <2>1, <2>2, <2>3
<1>5. Plain("gate", j)
  BY <1>1, <1>4 DEF Plain
<1> QED
  BY <1>1, <1>2, <1>3, <1>4, <1>5, SamePromos, SameStore, WriteTurn DEF Types

-----------------------------------------------------------------------------
(* The steps of the world.                                                 *)

\* Nobody does anything.
LEMMA StandsStill ==
  ASSUME Worked, job' = job
  PROVE  /\ "gate" \in Actors /\ job["gate"] \in {Idle} \cup Jobs
         /\ job' = [job EXCEPT !["gate"] = job["gate"]]
         /\ \A m, w : Sound("gate", job["gate"], m, w)
<1>1. "gate" \in Actors /\ "gate" \notin Workers /\ "gate" \notin Affirmers
  BY ActorsAre
<1> QED
  BY <1>1 DEF Worked, Types, Sound, Holds, HasChecked, HasLanded

\* Others push to main, and a review is merged, whose workspace was checked.
LEMMA WorldTurn ==
  ASSUME Worked, ReviewsChecked, OutsidePush \/ ReviewMoves
  PROVE  Turn("gate", job["gate"])
<1>1. /\ Types /\ main \in Seq(Commits) /\ "gate" \notin Workers /\ "gate" \notin Affirmers
      /\ UNCHANGED <<project, local, ws, promos, fixes, job>>
  BY ActorsAre DEF Worked, Types, OutsidePush, ReviewMoves, store
<1>2. \/ main' = main
      \/ \E c \in Commits :
           /\ main' = Append(main, c)
           /\ Checkable(c) => c.checked
           /\ c.op = "change" => ~CarriedBy(main, Len(main), c.run)
           /\ c.op = "rollback" => ~NoReviews
  <2>1. ASSUME OutsidePush
        PROVE  \E c \in Commits :
                 main' = Append(main, c) /\ c.run = "none" /\ c.op = "outside"
    <3>1. Outside \in Commits /\ Outside.run = "none" /\ Outside.op = "outside"
      BY DEF Outside, Commit, Commits, Role
    <3> QED
      BY <2>1, <3>1 DEF OutsidePush
  <2>2. ASSUME NEW r \in Runs, review[r] # "none", ~Carries(main, r), main' = main \o Checked(r)
        PROVE  \/ main' = main
               \/ \E c \in Commits : /\ main' = Append(main, c) /\ ~NoReviews
                                     /\ Checkable(c) => c.checked
                                     /\ ~CarriedBy(main, Len(main), c.run)
    <3>1. (r \in project.makefile => ws[r].checked) /\ ~NoReviews
      BY <2>2 DEF ReviewsChecked, NoReviews
    <3>2. CASE main \o Checked(r) = main
      BY <2>2, <3>2
    <3>3. ASSUME NEW c \in Commits, NEW d \in Commits, ws[r].own = <<c>>,
                 d = [c EXCEPT !.checked = ws[r].checked], main \o Checked(r) = Append(main, d)
          PROVE  (Checkable(d) => d.checked) /\ d.run = r
      <4>1. d.checked = ws[r].checked /\ d.run = c.run /\ d.by = c.by
        BY <3>3 DEF Commits
      <4>2. c = ws[r].own[1] /\ ws[r].own # <<>> /\ r # "objective"
        BY <3>3, DeliveryAssumption
      <4>3. c.run = r /\ c.by # "gate" /\ (c.by = "repair" => ws[r].checked)
        BY <4>2 DEF Worked, Workplaces, Fresh
      <4> QED
        BY <3>1, <4>1, <4>3 DEF Checkable
    <3>4. ~CarriedBy(main, Len(main), r)
      BY <1>1, <2>2, CarriesIs
    <3>5. \/ main \o Checked(r) = main
          \/ \E c, d \in Commits :
               /\ ws[r].own = <<c>> /\ d = [c EXCEPT !.checked = ws[r].checked]
               /\ main \o Checked(r) = Append(main, d)
      BY <1>1, PushedIs DEF Worked
    <3> QED
      BY <2>2, <3>1, <3>2, <3>3, <3>4, <3>5
  <2>3. ReviewMoves => \/ main' = main
                       \/ \E r \in Runs : /\ review[r] # "none" /\ ~Carries(main, r)
                                          /\ main' = main \o Checked(r)
    BY DEF ReviewMoves
  <2> QED
    BY <2>1, <2>2, <2>3 DEF Checkable
<1>3. Extends(main, main')
  BY <1>1, <1>2, AppendExtends DEF Extends
<1>4. /\ review' \in [Runs -> Words] /\ (NoReviews => review' = review)
      /\ \A r \in Runs : review'[r] # "none" => review[r] # "none"
      /\ faults' = faults \/ (faults > 0 /\ faults' = faults - 1)
  <2>1. OutsidePush => review' = review
    BY DEF OutsidePush
  <2>2. ASSUME ReviewMoves
        PROVE  \E r \in Runs : \E state \in {"open", "conflict", "merged", "closed"} :
                 review[r] # "none" /\ review' = [review EXCEPT ![r] = state]
    BY <2>2 DEF ReviewMoves
  <2>3. {"open", "conflict", "merged", "closed"} \subseteq Words
    BY DEF Words
  <2>4. faults' = faults \/ (faults > 0 /\ faults' = faults - 1)
    BY DEF OutsidePush, ReviewMoves
  <2>5. review \in [Runs -> Words]
    BY <1>1 DEF Types
  <2>6. ASSUME NEW r \in Runs, NEW state \in {"open", "conflict", "merged", "closed"},
               review[r] # "none", review' = [review EXCEPT ![r] = state]
        PROVE  /\ review' \in [Runs -> Words] /\ ~NoReviews
               /\ \A s \in Runs : review'[s] # "none" => review[s] # "none"
    BY <2>3, <2>5, <2>6 DEF NoReviews
  <2> QED
    BY <2>1, <2>2, <2>4, <2>5, <2>6, <1>1 DEF OutsidePush, ReviewMoves
<1>5. Types'
  BY <1>1, <1>2, <1>4, StandsStill, TypesStep DEF Types
<1>6. Worked'
  BY <1>1, <1>3, <1>5, StandsStill, StaysWorked
<1>7. JobTurn("gate", job["gate"])
  <2>1. job' = [job EXCEPT !["gate"] = job["gate"]]
    BY <1>1, StandsStill
  <2> QED
    BY <1>1, <1>4, <2>1 DEF JobTurn
<1>8. MainTurn("gate", job["gate"])
  BY <1>2 DEF MainTurn
<1>9. StoreTurn("gate")
  BY <1>1, <1>4 DEF StoreTurn
<1> QED
  BY <1>1, <1>6, <1>7, <1>8, <1>9, SamePromos DEF Turn

-----------------------------------------------------------------------------
(* The steps of an apply.                                                  *)

\* What a process at work has and finds.
LEMMA AtWork ==
  ASSUME Worked, NEW a \in Workers, job[a].pc # "idle"
  PROVE  /\ a \in Actors /\ Types /\ job[a] \in Jobs /\ job[a].run \in Runs
         /\ Place(a) = PlaceOf(a, job[a]) /\ Place(a) \in Runs \cup {"objective"}
         /\ (Place(a) = "objective") <=> (a = "objective")
         /\ Place(a) # "objective" => Place(a) = job[a].run
         /\ Sound(a, job[a], main, ws)
         /\ ws[Place(a)] \in Worktrees /\ Fresh(Place(a), main, ws[Place(a)])
<1>1. a \in Actors /\ Types
  BY ActorsAre DEF Worked
<1>2. /\ job[a] \in Jobs /\ job[a].run \in Runs
      /\ Place(a) = PlaceOf(a, job[a]) /\ Place(a) \in Runs \cup {"objective"}
      /\ (Place(a) = "objective") <=> (a = "objective")
  BY <1>1, PlaceIs DEF Types, Idle
<1>3. Place(a) # "objective" => Place(a) = job[a].run
  BY <1>2 DEF PlaceOf
<1>4. Sound(a, job[a], main, ws)
  BY <1>1 DEF Worked
<1>5. ws[Place(a)] \in Worktrees /\ Fresh(Place(a), main, ws[Place(a)])
  BY <1>1, <1>2 DEF Worked, Types, Workplaces
<1> QED
  BY <1>1, <1>2, <1>3, <1>4, <1>5

\* A step that goes on with what there is.
LEMMA StayTurn ==
  ASSUME Worked, NEW a \in Workers, job[a].pc # "idle", NEW j \in Jobs,
         job' = [job EXCEPT ![a] = j],
         j.run = job[a].run, j.promo = job[a].promo, Sound(a, j, main, ws),
         UNCHANGED <<project, main, local, ws, promos, review, fixes, faults>>,
         j.pc \in Holding => job[a].pc \in Holding,
         project.mode = "direct_main" /\ NoReviews =>
           /\ j.pc # "open"
           /\ a \in Affirmers /\ j.pc = "record" /\ j.out = "applied" => job[a].pc = "post"
  PROVE  Turn(a, j)
<1>1. a \in Actors /\ Types /\ "watcher" \notin Workers
  BY AtWork, ActorsAre
<1>2. Types'
  BY <1>1, JobTypes
<1>3. Extends(main, main')
  BY <1>1 DEF Extends, Types
<1>4. Worked'
  BY <1>1, <1>2, <1>3, StaysWorked
<1>5. PlaceOf(a, j) = Place(a)
  BY <1>1, AtWork DEF PlaceOf, Place
<1>6. JobTurn(a, j)
  BY <1>1, <1>5 DEF JobTurn
<1> QED
  BY <1>1, <1>4, <1>6, SamePromos, SameStore DEF Turn, MainTurn

\* git status finds something to commit, or not.
LEMMA HasChangesTurn ==
  ASSUME Worked, NEW a \in Workers, HasChanges(a) PROVE \E j : Turn(a, j)
<1>1. job[a].pc = "check" /\ a \in Actors /\ Types /\ Sound(a, job[a], main, ws)
  BY AtWork DEF HasChanges
<1>2. UNCHANGED <<project, main, local, ws, promos, review, fixes, faults>>
  BY DEF HasChanges, repo, store
<1>3. CASE RuntimeError(a)
  BY <1>1, <1>2, <1>3, ErrorTurn
<1>4. CASE Goto(a, "commit")
  <2>1. PICK pc, j : pc = "commit" /\ j = Going(a, pc)
    OBVIOUS
  <2>2. pc \in Words
    BY <2>1 DEF Words
  <2>3. /\ j \in Jobs /\ j.pc = pc /\ j.run = job[a].run /\ j.out = job[a].out
        /\ j.promo = job[a].promo /\ job' = [job EXCEPT ![a] = j]
    BY <1>1, <1>4, <2>1, <2>2, JobIs, JobBecomes
  <2>4. Sound(a, j, main, ws)
    BY <1>1, <2>1, <2>3 DEF Sound, Holds, HasChecked, HasLanded, BringsNews, Holding, PlaceOf
  <2> QED
    BY <1>1, <1>2, <2>1, <2>3, <2>4, StayTurn DEF Holding
<1> QED
  BY <1>3, <1>4 DEF HasChanges

\* A step that writes the workspace of a process, on which it is alone.
LEMMA PlaceTurn ==
  ASSUME Worked, NEW a \in Workers, job[a].pc # "idle", NEW j \in Jobs, NEW v \in Worktrees,
         job' = [job EXCEPT ![a] = j], ws' = [ws EXCEPT ![Place(a)] = v],
         j.run = job[a].run, j.promo = job[a].promo, Sound(a, j, main, ws'),
         UNCHANGED <<project, main, local, promos, review, fixes, faults>>,
         Alone(a, Place(a)), Fresh(Place(a), main, v),
         v.dirty => ws[Place(a)].dirty, ws[Place(a)].checked => v.checked,
         j.pc \in Holding => job[a].pc \in Holding \/ ws[Place(a)].dirty,
         j.pc # "open" /\ j.pc # "record"
  PROVE  Turn(a, j)
<1>1. /\ a \in Actors /\ Types /\ "watcher" \notin Workers
      /\ Place(a) \in Runs \cup {"objective"}
      /\ (Place(a) = "objective") <=> (a = "objective")
  BY AtWork, ActorsAre
<1>2. ws' \in [Runs \cup {"objective"} -> Worktrees]
  BY <1>1 DEF Types
<1>3. Types'
  BY <1>1, <1>2, TypesStep DEF Types
<1>4. Extends(main, main')
  BY <1>1 DEF Extends, Types
<1>5. PlaceOf(a, j) = Place(a)
  BY <1>1, AtWork DEF PlaceOf, Place
<1>6. Worked'
  <2>1. PICK x \in Runs \cup {"objective"} : x = Place(a)
    BY <1>1
  <2> QED
    BY <1>1, <1>3, <1>4, <1>5, <2>1, WorkedStep
<1>7. JobTurn(a, j)
  BY <1>1, <1>5 DEF JobTurn
<1>8. StoreTurn(a)
  <2>1. \A r \in Runs : ws'[r] = IF r = Place(a) THEN v ELSE ws[r]
    BY <1>1 DEF Types
  <2> QED
    BY <2>1 DEF StoreTurn
<1> QED
  BY <1>1, <1>6, <1>7, <1>8, SamePromos DEF Turn, MainTurn

\* git commit takes what there is, once.
LEMMA CommitTurn ==
  ASSUME Worked, NEW a \in Workers, CommitWork(a) PROVE \E j : Turn(a, j)
<1>1. /\ job[a].pc = "commit" /\ a \in Actors /\ Types /\ Sound(a, job[a], main, ws)
      /\ job[a].run \in Runs /\ Place(a) = PlaceOf(a, job[a])
      /\ (Place(a) = "objective") <=> (a = "objective")
      /\ Place(a) # "objective" => Place(a) = job[a].run
      /\ ws[Place(a)] \in Worktrees /\ Fresh(Place(a), main, ws[Place(a)])
  BY AtWork DEF CommitWork
<1>2. UNCHANGED <<project, main, local, promos, review, fixes, faults>>
  BY DEF CommitWork, store
<1>3. CASE ~ws[Place(a)].dirty
  BY <1>1, <1>2, <1>3, ErrorTurn DEF CommitWork
<1>4. CASE ws[Place(a)].dirty
  <2>1. PICK op, c : /\ op = (IF a = "objective" THEN job[a].out ELSE "change")
                     /\ c = Commit(op, job[a].run, a)
    OBVIOUS
  <2>2. /\ op \in {"change", "undo"}
        /\ a = "objective" /\ op = "change" =>
             ~CarriedBy(main, ws[Place(a)].base, job[a].run)
    BY <1>1, <1>4, <2>1 DEF Sound, BringsNews
  <2>3. c \in Commits /\ c.run = job[a].run /\ c.op = op
    BY <1>1, <2>1, <2>2 DEF Commit, Commits, Role, Workers
  <2>4. PICK v : v = [ws[Place(a)] EXCEPT !.dirty = FALSE, !.own = Append(@, c)]
    OBVIOUS
  <2>5. /\ v \in Worktrees /\ v.own = <<c>> /\ ~v.dirty
        /\ v.base = ws[Place(a)].base /\ v.checked = ws[Place(a)].checked
    <3>1. ws[Place(a)].own = <<>>
      BY <1>1, <1>4 DEF Fresh
    <3>2. PICK own : own = Append(ws[Place(a)].own, c)
      OBVIOUS
    <3>3. own = <<c>> /\ own \in Seq(Commits)
      BY <2>3, <3>1, <3>2
    <3>4. v = [ws[Place(a)] EXCEPT !.dirty = FALSE, !.own = own]
      BY <1>1, <2>4, <3>2 DEF Worktrees
    <3> QED
      BY <1>1, <3>3, <3>4 DEF Worktrees
  <2>6. ws' = [ws EXCEPT ![Place(a)] = v]
    BY <1>4, <2>1, <2>4 DEF CommitWork
  <2>7. PICK pc, j : pc = (IF a = "repair" THEN "push" ELSE "prepush") /\ j = Going(a, pc)
    OBVIOUS
  <2>8. pc \in Words /\ pc \in {"push", "prepush"} /\ Goto(a, pc)
    BY <1>4, <2>7 DEF Words, CommitWork
  <2>9. /\ j \in Jobs /\ j.pc = pc /\ j.run = job[a].run /\ j.out = job[a].out
        /\ j.promo = job[a].promo /\ job' = [job EXCEPT ![a] = j]
    BY <1>1, <2>7, <2>8, JobIs, JobBecomes
  <2>10. PlaceOf(a, j) = Place(a) /\ ws'[Place(a)] = v
    <3>1. Place(a) \in Runs \cup {"objective"} /\ DOMAIN ws = Runs \cup {"objective"}
      BY <1>1, AtWork DEF Types
    <3> QED
      BY <1>1, <2>6, <2>9, <3>1 DEF PlaceOf
  <2>11. Sound(a, j, main, ws')
    <3>1. Waiting(a, j) = <<c>>
      BY <2>1, <2>8, <2>9 DEF Waiting
    <3>2. Holds(a, j, ws')
      BY <2>5, <2>10, <3>1 DEF Holds
    <3>3. a = "repair" => ws[Place(a)].checked
      BY <1>1 DEF Sound, HasChecked
    <3>4. HasChecked(a, j, ws')
      BY <2>5, <2>7, <2>9, <2>10, <3>3 DEF HasChecked
    <3>5. HasLanded(a, j, main) /\ BringsNews(j, main, ws')
      BY <2>8, <2>9 DEF HasLanded, BringsNews
    <3> QED
      BY <3>2, <3>4, <3>5 DEF Sound
  <2>12. Fresh(Place(a), main, v)
    <3>1. v.own[1] = c /\ v.own # <<>>
      BY <2>5
    <3>2. c.by # "gate" /\ (c.by = "repair" => a = "repair")
      BY <2>1, ActorsAre DEF Commit, Role
    <3>3. a = "repair" => v.checked
      BY <1>1, <2>5 DEF Sound, HasChecked
    <3> QED
      BY <1>1, <1>4, <2>2, <2>3, <2>5, <3>1, <3>2, <3>3 DEF Fresh
  <2>13. Alone(a, Place(a))
    BY <1>4, DirtyAlone
  <2> QED
    BY <1>1, <1>2, <1>4, <2>5, <2>6, <2>8, <2>9, <2>11, <2>12, <2>13, PlaceTurn
<1> QED
  BY <1>3, <1>4

\* The checks before the push are recorded on the workspace, or fail, or there are none.
LEMMA PrePushTurn ==
  ASSUME Worked, NEW a \in Workers, PrePush(a) PROVE \E j : Turn(a, j)
<1>1. /\ job[a].pc = "prepush" /\ a \in Actors /\ Types /\ Sound(a, job[a], main, ws)
      /\ Place(a) = PlaceOf(a, job[a]) /\ Place(a) \in Runs \cup {"objective"}
      /\ ws[Place(a)] \in Worktrees /\ Fresh(Place(a), main, ws[Place(a)])
  BY AtWork DEF PrePush
<1>2. UNCHANGED <<project, main, local, promos, review, fixes, faults>>
  BY DEF PrePush, store
<1>3. CASE RuntimeError(a) /\ ws' = ws
  BY <1>1, <1>2, <1>3, ErrorTurn
<1>4. CASE ~HasCommands(a) /\ ws' = ws /\ Goto(a, "push")
  <2>1. PICK pc, j : pc = "push" /\ j = Going(a, pc)
    OBVIOUS
  <2>2. pc \in Words
    BY <2>1 DEF Words
  <2>3. /\ j \in Jobs /\ j.pc = pc /\ j.run = job[a].run /\ j.out = job[a].out
        /\ j.promo = job[a].promo /\ job' = [job EXCEPT ![a] = j]
    BY <1>1, <1>4, <2>1, <2>2, JobIs, JobBecomes
  <2>4. PlaceOf(a, j) = PlaceOf(a, job[a]) /\ Waiting(a, j) = Waiting(a, job[a])
    BY <1>1, <2>1, <2>3 DEF PlaceOf, Waiting
  <2>5. Sound(a, j, main, ws)
    BY <1>1, <1>4, <2>1, <2>3, <2>4
    DEF Sound, Holds, HasChecked, HasLanded, BringsNews, Holding, HasCommands
  <2> QED
    BY <1>1, <1>2, <1>4, <2>1, <2>3, <2>5, StayTurn DEF Holding
<1>5. CASE ws' = [ws EXCEPT ![Place(a)].checked = TRUE] /\ Goto(a, "push")
  <2>1. PICK v : v = [ws[Place(a)] EXCEPT !.checked = TRUE]
    OBVIOUS
  <2>2. /\ v \in Worktrees /\ v.own = ws[Place(a)].own /\ v.dirty = ws[Place(a)].dirty
        /\ v.base = ws[Place(a)].base /\ v.checked
    BY <1>1, <2>1 DEF Worktrees
  <2>3. ws' = [ws EXCEPT ![Place(a)] = v]
    BY <1>5, <2>1
  <2>4. PICK pc, j : pc = "push" /\ j = Going(a, pc)
    OBVIOUS
  <2>5. pc \in Words
    BY <2>4 DEF Words
  <2>6. /\ j \in Jobs /\ j.pc = pc /\ j.run = job[a].run /\ j.out = job[a].out
        /\ j.promo = job[a].promo /\ job' = [job EXCEPT ![a] = j]
    BY <1>1, <1>5, <2>4, <2>5, JobIs, JobBecomes
  <2>7. PlaceOf(a, j) = Place(a) /\ ws'[Place(a)] = v
    BY <1>1, <2>3, <2>6 DEF PlaceOf, Types
  <2>8. Sound(a, j, main, ws')
    <3>1. Waiting(a, j) = Waiting(a, job[a])
      BY <1>1, <2>4, <2>6 DEF Waiting
    <3>2. ~v.dirty /\ v.own = Waiting(a, j)
      BY <1>1, <2>2, <3>1 DEF Sound, Holds, Holding
    <3>3. Holds(a, j, ws') /\ HasChecked(a, j, ws')
      BY <2>2, <2>7, <3>2 DEF Holds, HasChecked
    <3>4. HasLanded(a, j, main) /\ BringsNews(j, main, ws')
      BY <2>4, <2>6 DEF HasLanded, BringsNews
    <3> QED
      BY <3>3, <3>4 DEF Sound
  <2>9. Fresh(Place(a), main, v)
    BY <1>1, <2>2 DEF Fresh
  <2>10. Alone(a, Place(a)) /\ job[a].pc \in Holding
    BY <1>1, HolderAlone DEF Holding
  <2> QED
    BY <1>1, <1>2, <2>2, <2>3, <2>4, <2>6, <2>8, <2>9, <2>10, PlaceTurn
<1> QED
  BY <1>3, <1>4, <1>5 DEF PrePush

\* The first commit on main is somebody else's, so that a workspace still at it brings
\* the first change of its run.
LEMMA FirstIsNews ==
  ASSUME Types, Len(main) = 1, NEW r PROVE ~CarriedBy(main, Len(main), r)
<1>1. main[1] = Outside /\ Outside.op = "outside"
  BY DEF Types, Outside, Commit
<1> QED
  BY <1>1 DEF CarriedBy

\* A push, of the commit or of its revert: what it brings is checked, and no second
\* change of the run.
LEMMA PushedTurn ==
  ASSUME Worked, NEW a \in Workers, job[a].pc \in {"push", "rollback"},
         FastForward(Place(a)), PushMain(Place(a)),
         NEW j \in {Idle} \cup Jobs, job' = [job EXCEPT ![a] = j],
         j = Idle \/ /\ job[a].pc = "push" /\ j.pc = "verify"
                     /\ j.run = job[a].run /\ j.promo = job[a].promo,
         job[a].pc = "rollback" => j = Idle,
         UNCHANGED <<project, local, promos, review, fixes, faults>>
  PROVE  Turn(a, j)
<1>1. /\ a \in Actors /\ Types /\ Sound(a, job[a], main, ws)
      /\ job[a] \in Jobs /\ job[a].run \in Runs
      /\ Place(a) = PlaceOf(a, job[a]) /\ Place(a) \in Runs \cup {"objective"}
      /\ (Place(a) = "objective") <=> (a = "objective")
      /\ Place(a) # "objective" => Place(a) = job[a].run
      /\ ws[Place(a)] \in Worktrees /\ Fresh(Place(a), main, ws[Place(a)])
  BY AtWork
<1>2. /\ main \in Seq(Commits) /\ Len(main) \in Nat
      /\ ws \in [Runs \cup {"objective"} -> Worktrees]
  BY <1>1 DEF Types
<1>3. PICK op, c : /\ op = (IF job[a].pc = "rollback" THEN "rollback"
                           ELSE IF a = "objective" THEN job[a].out ELSE "change")
                   /\ c = Commit(op, job[a].run, a)
  OBVIOUS
<1>4. /\ ~ws[Place(a)].dirty /\ ws[Place(a)].own = <<c>>
      /\ job[a].run \in project.makefile \/ a = "repair" => ws[Place(a)].checked
  BY <1>1, <1>3 DEF Sound, Holds, HasChecked, Holding, Waiting
<1>5. c.op = op /\ c.run = job[a].run /\ c.by = Role(a)
  BY <1>3 DEF Commit
<1>6. PICK d \in Commits : /\ d.op = op /\ d.run = job[a].run /\ d.by = Role(a)
                           /\ d.checked = ws[Place(a)].checked /\ main' = Append(main, d)
  <2>1. \A x : <<x>> # <<>> /\ <<x>>[1] = x
    OBVIOUS
  <2>2. \/ ws[Place(a)].own = <<>>
        \/ \E b, d \in Commits :
             /\ ws[Place(a)].own = <<b>> /\ d = [b EXCEPT !.checked = ws[Place(a)].checked]
             /\ main \o Checked(Place(a)) = Append(main, d)
    BY <1>1, PushedIs DEF Worked
  <2>3. PICK b, d \in Commits :
          /\ <<c>> = <<b>> /\ d = [b EXCEPT !.checked = ws[Place(a)].checked]
          /\ main \o Checked(Place(a)) = Append(main, d)
    BY <1>1, <1>4, <2>1, <2>2 DEF Worktrees
  <2>4. b = c
    BY <2>1, <2>3
  <2>5. /\ d.op = op /\ d.run = job[a].run /\ d.by = Role(a)
        /\ d.checked = ws[Place(a)].checked
    BY <1>5, <2>3, <2>4 DEF Commits
  <2> QED
    BY <2>3, <2>5 DEF PushMain
<1>7. d.op = "change" => ~CarriedBy(main, Len(main), d.run)
  <2>1. ws[Place(a)].base = Len(main)
    BY DEF FastForward
  <2>2. ws[Place(a)].own[1] = c /\ ws[Place(a)].own # <<>>
    BY <1>4
  <2>3. CASE a = "objective"
    BY <1>1, <1>5, <1>6, <2>1, <2>2, <2>3 DEF Fresh
  <2>4. CASE a # "objective"
    <3>1. d.op = "change" => Len(main) = 1
      BY <1>1, <1>5, <1>6, <2>1, <2>2, <2>4 DEF Fresh
    <3> QED
      BY <1>1, <3>1, FirstIsNews
  <2> QED
    BY <2>3, <2>4
<1>8. PICK v : v = [ws[Place(a)] EXCEPT !.base = Len(main'), !.own = <<>>]
  OBVIOUS
<1>9. main' \in Seq(Commits) /\ Len(main') = Len(main) + 1 /\ Extends(main, main')
      /\ main'[Len(main) + 1] = d
  BY <1>2, <1>6, AppendExtends
<1>10. /\ v \in Worktrees /\ v.own = <<>> /\ ~v.dirty /\ v.base = Len(main')
       /\ v.checked = ws[Place(a)].checked
  <2>1. <<>> \in Seq(Commits) /\ Len(main') \in Nat
    BY <1>2, <1>9
  <2> QED
    BY <1>1, <1>4, <1>8, <2>1 DEF Worktrees
<1>11. ws' = [ws EXCEPT ![Place(a)] = v]
  BY <1>8 DEF PushMain
<1>12. /\ ws' \in [Runs \cup {"objective"} -> Worktrees]
       /\ \A x \in Runs \cup {"objective"} : ws'[x] = IF x = Place(a) THEN v ELSE ws[x]
  BY <1>1, <1>2, <1>10, <1>11
<1>13. Types'
  BY <1>1, <1>6, <1>12, TypesStep DEF Types
<1>14. Sound(a, j, main', ws')
  <2>1. CASE j = Idle
    BY <2>1 DEF Idle, Sound, Holds, HasChecked, HasLanded, BringsNews, Holding
  <2>2. CASE j # Idle
    <3>1. PlaceOf(a, j) = Place(a)
      BY <1>1, <2>2 DEF PlaceOf
    <3>2. Waiting(a, j) = <<>>
      BY <2>2 DEF Waiting
    <3>3. Holds(a, j, ws') /\ HasChecked(a, j, ws') /\ BringsNews(j, main', ws')
      BY <1>1, <1>4, <1>10, <1>12, <2>2, <3>1, <3>2 DEF Holds, HasChecked, BringsNews
    <3>4. HasLanded(a, j, main')
      <4>1. a # "objective" => op = "change"
        BY <1>3, <2>2
      <4>2. a \in Affirmers \cup {"repair"} => a # "objective"
        BY ActorsAre
      <4>3. Len(main) + 1 \in DOMAIN main'
        BY <1>2, <1>9
      <4> QED
        BY <1>6, <1>9, <2>2, <4>1, <4>2, <4>3 DEF HasLanded, On
    <3> QED
      BY <3>3, <3>4 DEF Sound
  <2> QED
    BY <2>1, <2>2
<1>15. Fresh(Place(a), main', v)
  <2>1. v.base \in 1..Len(main')
    BY <1>2, <1>9, <1>10
  <2> QED
    BY <1>10, <2>1 DEF Fresh
<1>16. Alone(a, Place(a)) /\ job[a].pc \in Holding
  BY HolderAlone DEF Holding
<1>17. j # Idle => PlaceOf(a, j) = Place(a)
  BY <1>1 DEF PlaceOf
<1>18. Idle.pc \notin Holding /\ Idle.pc = "idle" /\ Idle.promo = 0
  BY DEF Idle, Holding
<1>19. Worked'
  <2>1. PICK x \in Runs \cup {"objective"} : x = Place(a)
    BY <1>1
  <2> QED
    BY <1>1, <1>9, <1>10, <1>11, <1>13, <1>14, <1>15, <1>16, <1>17, <1>18, <2>1, WorkedStep
<1>20. JobTurn(a, j)
  BY <1>1, <1>16, <1>17, <1>18, ActorsAre DEF JobTurn
<1>21. MainTurn(a, j)
  <2>1. d.op = "rollback" /\ d.by = "affirmer" => a \in Affirmers /\ job[a].pc = "rollback"
    <3>1. Role(a) = "affirmer" => a \in Affirmers
      BY DEF Role, Workers
    <3>2. a \in Affirmers => a # "objective"
      BY ActorsAre
    <3> QED
      BY <1>3, <1>6, <3>1, <3>2
  <2>2. Checkable(d) => d.checked
    <3>1. Role(a) # "gate" /\ (Role(a) = "repair" => a = "repair")
      BY ActorsAre DEF Role
    <3> QED
      BY <1>4, <1>6, <3>1 DEF Checkable
  <2> QED
    BY <1>6, <1>7, <2>1, <2>2 DEF MainTurn
<1>22. StoreTurn(a)
  BY <1>10, <1>12 DEF StoreTurn
<1> QED
  BY <1>1, <1>19, <1>20, <1>21, <1>22, SamePromos DEF Turn

\* A push to main, a push to a branch, or a failure.
LEMMA PushTurn == ASSUME Worked, NEW a \in Workers, Push(a) PROVE \E j : Turn(a, j)
<1>1. /\ job[a].pc = "push" /\ a \in Actors /\ Types /\ Sound(a, job[a], main, ws)
      /\ job[a].pc \in Holding
  BY AtWork DEF Push, Holding
<1>2. UNCHANGED <<project, local, promos, review, fixes>>
  BY DEF Push, store
<1>3. ASSUME CommandError(a), UNCHANGED <<main, ws>>,
             faults' = faults \/ (faults > 0 /\ faults' = faults - 1)
      PROVE  \E j : Turn(a, j)
  BY <1>1, <1>2, <1>3, ErrorTurn
<1>4. ASSUME FastForward(Place(a)), PushMain(Place(a)), Goto(a, "verify"), faults' = faults
      PROVE  \E j : Turn(a, j)
  <2>1. PICK pc, j : pc = "verify" /\ j = Going(a, pc)
    OBVIOUS
  <2>2. pc \in Words
    BY <2>1 DEF Words
  <2>3. /\ j \in Jobs /\ j.pc = pc /\ j.run = job[a].run /\ j.promo = job[a].promo
        /\ job' = [job EXCEPT ![a] = j]
    BY <1>1, <1>4, <2>1, <2>2, JobIs, JobBecomes
  <2> QED
    BY <1>1, <1>2, <1>4, <2>1, <2>3, PushedTurn
<1>5. ASSUME project.mode # "direct_main", a # "repair", UNCHANGED <<main, ws, faults>>,
             Goto(a, "open") \/ Conclude(a, "record", "applied")
      PROVE  \E j : Turn(a, j)
  <2>1. CASE Goto(a, "open")
    <3>1. PICK pc, j : pc = "open" /\ j = Going(a, pc)
      OBVIOUS
    <3>2. pc \in Words
      BY <3>1 DEF Words
    <3>3. /\ j \in Jobs /\ j.pc = pc /\ j.run = job[a].run /\ j.out = job[a].out
          /\ j.promo = job[a].promo /\ job' = [job EXCEPT ![a] = j]
      BY <1>1, <2>1, <3>1, <3>2, JobIs, JobBecomes
    <3>4. PlaceOf(a, j) = PlaceOf(a, job[a]) /\ Waiting(a, j) = Waiting(a, job[a])
      BY <1>1, <3>1, <3>3 DEF PlaceOf, Waiting
    <3>5. Sound(a, j, main, ws)
      BY <1>1, <3>1, <3>3, <3>4 DEF Sound, Holds, HasChecked, HasLanded, BringsNews, Holding
    <3> QED
      BY <1>1, <1>2, <1>5, <3>3, <3>5, StayTurn
  <2>2. CASE Conclude(a, "record", "applied")
    <3>1. PICK pc, out, j : pc = "record" /\ out = "applied" /\ j = Concluding(a, pc, out)
      OBVIOUS
    <3>2. pc \in Words /\ out \in Words
      BY <3>1 DEF Words
    <3>3. /\ j \in Jobs /\ j.pc = pc /\ j.out = out /\ j.run = job[a].run
          /\ j.promo = job[a].promo /\ job' = [job EXCEPT ![a] = j]
      BY <1>1, <2>2, <3>1, <3>2, JobIs, JobBecomes
    <3>4. Plain(a, j)
      BY <1>5, <3>1, <3>3, ActorsAre DEF Plain, Holding
    <3> QED
      BY <1>1, <1>2, <1>5, <3>3, <3>4, QuietTurn
  <2> QED
    BY <1>5, <2>1, <2>2
<1> QED
  BY <1>3, <1>4, <1>5 DEF Push

\* _open_review opens one where nothing is promoted directly, or fails.
LEMMA OpenTurn == ASSUME Worked, NEW a \in Workers, OpenReview(a) PROVE \E j : Turn(a, j)
<1>1. job[a].pc = "open" /\ a \in Actors /\ Types /\ job[a].run \in Runs /\ ~NoReviews
  BY AtWork DEF OpenReview, NoReviews
<1>2. UNCHANGED <<project, main, local, ws, promos, fixes>>
  BY DEF OpenReview, repo, store
<1>3. CASE RuntimeError(a) /\ faults > 0 /\ faults' = faults - 1 /\ review' = review
  BY <1>1, <1>2, <1>3, ErrorTurn
<1>4. CASE /\ review' = IF a \in Affirmers THEN [review EXCEPT ![job[a].run] = "open"] ELSE review
           /\ Conclude(a, "record", "applied") /\ faults' = faults
  <2>1. PICK pc, out, j : pc = "record" /\ out = "applied" /\ j = Concluding(a, pc, out)
    OBVIOUS
  <2>2. pc \in Words /\ out \in Words /\ "open" \in Words
    BY <2>1 DEF Words
  <2>3. /\ j \in Jobs /\ j.pc = pc /\ j.out = out /\ j.run = job[a].run
        /\ j.promo = job[a].promo /\ job' = [job EXCEPT ![a] = j]
    BY <1>1, <1>4, <2>1, <2>2, JobIs, JobBecomes
  <2>4. Plain(a, j)
    BY <1>1, <2>1, <2>3, ActorsAre DEF Plain, Holding
  <2>5. /\ review' \in [Runs -> Words]
        /\ \A r \in Runs : review'[r] # "none" =>
             review[r] # "none" \/ (a \in Affirmers /\ job[a].run = r)
    BY <1>1, <1>4, <2>2 DEF Types
  <2>6. Types'
    BY <1>1, <1>2, <1>4, <2>3, <2>5, TypesStep DEF Types
  <2>7. StoreTurn(a)
    BY <1>1, <1>2, <2>5 DEF StoreTurn
  <2> QED
    BY <1>1, <1>2, <2>3, <2>4, <2>6, <2>7, PlainTurn, SamePromos DEF Turn
<1> QED
  BY <1>3, <1>4 DEF OpenReview

\* _verify_remote_sha, and for a repair the end.
LEMMA VerifyTurn == ASSUME Worked, NEW a \in Workers, Verify(a) PROVE \E j : Turn(a, j)
<1>1. /\ job[a].pc = "verify" /\ a \in Actors /\ Types /\ Sound(a, job[a], main, ws)
      /\ job[a].pc \in Holding
  BY AtWork DEF Verify, Holding
<1>2. UNCHANGED <<project, main, local, ws, promos, review, fixes, faults>>
  BY DEF Verify, repo, store
<1>3. CASE RuntimeError(a)
  BY <1>1, <1>2, <1>3, ErrorTurn
<1>4. CASE a = "repair" /\ Conclude(a, "record", "pushed")
  <2>1. PICK pc, out, j : pc = "record" /\ out = "pushed" /\ j = Concluding(a, pc, out)
    OBVIOUS
  <2>2. pc \in Words /\ out \in Words
    BY <2>1 DEF Words
  <2>3. /\ j \in Jobs /\ j.pc = pc /\ j.out = out /\ j.run = job[a].run
        /\ j.promo = job[a].promo /\ job' = [job EXCEPT ![a] = j]
    BY <1>1, <1>4, <2>1, <2>2, JobIs, JobBecomes
  <2>4. Sound(a, j, main, ws)
    BY <1>1, <1>4, <2>1, <2>3 DEF Sound, Holds, HasChecked, HasLanded, Holding
  <2> QED
    BY <1>1, <1>2, <2>1, <2>3, <2>4, StayTurn
<1>5. CASE a # "repair" /\ Goto(a, "post")
  <2>1. PICK pc, j : pc = "post" /\ j = Going(a, pc)
    OBVIOUS
  <2>2. pc \in Words
    BY <2>1 DEF Words
  <2>3. /\ j \in Jobs /\ j.pc = pc /\ j.run = job[a].run /\ j.out = job[a].out
        /\ j.promo = job[a].promo /\ job' = [job EXCEPT ![a] = j]
    BY <1>1, <1>5, <2>1, <2>2, JobIs, JobBecomes
  <2>4. PlaceOf(a, j) = PlaceOf(a, job[a]) /\ Waiting(a, j) = Waiting(a, job[a])
    BY <1>1, <2>1, <2>3 DEF PlaceOf, Waiting
  <2>5. Sound(a, j, main, ws)
    BY <1>1, <2>1, <2>3, <2>4 DEF Sound, Holds, HasChecked, HasLanded, BringsNews, Holding
  <2> QED
    BY <1>1, <1>2, <2>1, <2>3, <2>5, StayTurn
<1> QED
  BY <1>3, <1>4, <1>5 DEF Verify

\* The post-push checks pass, or the commit is reverted in the workspace.
LEMMA PostPushTurn == ASSUME Worked, NEW a \in Workers, PostPush(a) PROVE \E j : Turn(a, j)
<1>1. /\ job[a].pc = "post" /\ a \in Actors /\ Types /\ Sound(a, job[a], main, ws)
      /\ job[a].pc \in Holding /\ job[a].run \in Runs
      /\ Place(a) = PlaceOf(a, job[a]) /\ Place(a) \in Runs \cup {"objective"}
      /\ (Place(a) = "objective") <=> (a = "objective")
      /\ Place(a) # "objective" => Place(a) = job[a].run
      /\ ws[Place(a)] \in Worktrees /\ Fresh(Place(a), main, ws[Place(a)])
  BY AtWork DEF PostPush, Holding
<1>2. UNCHANGED <<project, main, local, promos, review, fixes, faults>>
  BY DEF PostPush, store
<1>3. CASE Conclude(a, "record", "applied") /\ ws' = ws
  <2>1. PICK pc, out, j : pc = "record" /\ out = "applied" /\ j = Concluding(a, pc, out)
    OBVIOUS
  <2>2. pc \in Words /\ out \in Words
    BY <2>1 DEF Words
  <2>3. /\ j \in Jobs /\ j.pc = pc /\ j.out = out /\ j.run = job[a].run
        /\ j.promo = job[a].promo /\ job' = [job EXCEPT ![a] = j]
    BY <1>1, <1>3, <2>1, <2>2, JobIs, JobBecomes
  <2>4. Sound(a, j, main, ws)
    BY <2>1, <2>3 DEF Sound, Holds, HasChecked, HasLanded, BringsNews, Holding
  <2> QED
    BY <1>1, <1>2, <1>3, <2>1, <2>3, <2>4, StayTurn
<1>4. CASE /\ ws' = [ws EXCEPT ![Place(a)].own = Append(@, Commit("rollback", job[a].run, a))]
           /\ Goto(a, "rollback")
  <2>1. PICK c : c = Commit("rollback", job[a].run, a)
    OBVIOUS
  <2>2. c \in Commits /\ c.run = job[a].run /\ c.op = "rollback"
    BY <1>1, <2>1 DEF Commit, Commits, Role, Workers
  <2>3. PICK own : own = Append(ws[Place(a)].own, c)
    OBVIOUS
  <2>4. own = <<c>> /\ own \in Seq(Commits) /\ own[1] = c
    <3>1. ws[Place(a)].own = <<>>
      BY <1>1 DEF Sound, Holds, Waiting
    <3> QED
      BY <2>2, <2>3, <3>1
  <2>5. PICK v : v = [ws[Place(a)] EXCEPT !.own = own]
    OBVIOUS
  <2>6. /\ v \in Worktrees /\ v.own = <<c>> /\ v.dirty = ws[Place(a)].dirty
        /\ v.base = ws[Place(a)].base /\ v.checked = ws[Place(a)].checked
    BY <1>1, <2>4, <2>5 DEF Worktrees
  <2>7. ws' = [ws EXCEPT ![Place(a)] = v]
    BY <1>4, <2>1, <2>3, <2>5
  <2>8. PICK pc, j : pc = "rollback" /\ j = Going(a, pc)
    OBVIOUS
  <2>9. pc \in Words
    BY <2>8 DEF Words
  <2>10. /\ j \in Jobs /\ j.pc = pc /\ j.run = job[a].run /\ j.out = job[a].out
         /\ j.promo = job[a].promo /\ job' = [job EXCEPT ![a] = j]
    BY <1>1, <1>4, <2>8, <2>9, JobIs, JobBecomes
  <2>11. PlaceOf(a, j) = Place(a) /\ ws'[Place(a)] = v
    BY <1>1, <2>7, <2>10 DEF PlaceOf, Types
  <2>12. Sound(a, j, main, ws')
    <3>1. Waiting(a, j) = <<c>>
      BY <2>1, <2>8, <2>10 DEF Waiting
    <3>2. ~v.dirty
      BY <1>1, <2>6 DEF Sound, Holds
    <3>3. HasChecked(a, j, ws')
      BY <1>1, <2>6, <2>8, <2>10, <2>11 DEF Sound, HasChecked, Holding
    <3>4. Holds(a, j, ws')
      BY <2>6, <2>11, <3>1, <3>2 DEF Holds
    <3>5. HasLanded(a, j, main) /\ BringsNews(j, main, ws')
      BY <2>8, <2>10 DEF HasLanded, BringsNews
    <3> QED
      BY <3>3, <3>4, <3>5 DEF Sound
  <2>13. Fresh(Place(a), main, v)
    <3>1. v.own # <<>> /\ v.own[1] = c /\ ~v.dirty
      BY <1>1, <2>4, <2>6 DEF Sound, Holds
    <3>2. c.by # "gate" /\ (c.by = "repair" => a = "repair")
      BY <2>1, ActorsAre DEF Commit, Role
    <3>3. a = "repair" => v.checked
      BY <1>1, <2>6 DEF Sound, HasChecked
    <3> QED
      BY <1>1, <2>2, <2>6, <3>1, <3>2, <3>3 DEF Fresh
  <2>14. Alone(a, Place(a))
    BY <1>1, HolderAlone
  <2> QED
    BY <1>1, <1>2, <2>6, <2>7, <2>8, <2>10, <2>12, <2>13, <2>14, PlaceTurn
<1> QED
  BY <1>3, <1>4 DEF PostPush

\* The revert is pushed, or refused.
LEMMA RollbackTurn == ASSUME Worked, NEW a \in Workers, Rollback(a) PROVE \E j : Turn(a, j)
<1>1. job[a].pc = "rollback" /\ a \in Actors /\ Types
  BY AtWork DEF Rollback
<1>2. UNCHANGED <<project, local, promos, review, fixes, faults>>
  BY DEF Rollback, store
<1>3. CASE FastForward(Place(a)) /\ PushMain(Place(a)) /\ Done(a)
  BY <1>1, <1>2, <1>3, PushedTurn DEF Done
<1>4. CASE CommandError(a) /\ UNCHANGED <<main, ws>>
  BY <1>1, <1>2, <1>4, ErrorTurn
<1> QED
  BY <1>3, <1>4 DEF Rollback

-----------------------------------------------------------------------------
(* The other ways to main.                                                 *)

\* An objective promotion starts from a worktree of its own, on the main branch as far as
\* it was fetched.
LEMMA PromoteObjectiveTurn ==
  ASSUME Worked, PromoteObjective PROVE \E j : Turn("objective", j)
<1>1. /\ "objective" \in Workers /\ "objective" \in Actors /\ "objective" \notin Affirmers
      /\ Types /\ main \in Seq(Commits) /\ "watcher" # "objective" /\ "objective" \notin Runs
  BY ActorsAre, DeliveryAssumption DEF Worked, Types, Workers
<1>2. PICK r \in Runs, b \in DOMAIN main :
        /\ faults' = faults \/ (faults > 0 /\ faults' = faults - 1)
        /\ job' = [job EXCEPT !["objective"] =
                     [Idle EXCEPT !.pc = "check", !.run = r, !.out = Brings(r)]]
        /\ ws' = [ws EXCEPT !["objective"] =
                    [base |-> b, own |-> <<>>, checked |-> FALSE,
                     dirty |-> Carries(SubSeq(main, 1, b), r) # (Brings(r) = "change")]]
        /\ UNCHANGED <<project, main, local, store, review>>
  BY DEF PromoteObjective
<1>3. PICK pc, out : pc = "check" /\ out = Brings(r)
  OBVIOUS
<1>4. PICK j : j = [Idle EXCEPT !.pc = pc, !.run = r, !.out = out]
  OBVIOUS
<1>5. /\ pc \in Words /\ out \in Words /\ out \in {"change", "undo"}
      /\ b \in 1..Len(main)
  BY <1>1, <1>3 DEF Words, Brings
<1>6. /\ j \in Jobs /\ j.pc = pc /\ j.run = r /\ j.out = out /\ j.promo = 0
      /\ job' = [job EXCEPT !["objective"] = j]
  BY <1>2, <1>3, <1>4, <1>5, StartIs DEF Idle
<1>7. PICK dirty \in BOOLEAN :
        dirty = (Carries(SubSeq(main, 1, b), r) # (Brings(r) = "change"))
  OBVIOUS
<1>8. dirty /\ out = "change" => ~CarriedBy(main, b, r)
  BY <1>1, <1>3, <1>5, <1>7, CarriesIs
<1>9. PICK v : v = [base |-> b, own |-> <<>>, checked |-> FALSE, dirty |-> dirty]
  OBVIOUS
<1>10. /\ v \in Worktrees /\ v.base = b /\ v.own = <<>> /\ v.dirty = dirty
       /\ ws' = [ws EXCEPT !["objective"] = v]
  BY <1>1, <1>2, <1>5, <1>7, <1>9 DEF Worktrees
<1>11. ws' \in [Runs \cup {"objective"} -> Worktrees] /\ ws'["objective"] = v
  BY <1>1, <1>10 DEF Types
<1>12. Types'
  <2>1. UNCHANGED <<project, main, local, promos, review, fixes>>
    BY <1>2 DEF store
  <2> QED
    BY <1>1, <1>2, <1>6, <1>11, <2>1, TypesStep DEF Types
<1>13. Extends(main, main') /\ main' = main
  BY <1>1, <1>2 DEF Extends
<1>14. Sound("objective", j, main', ws')
  <2>1. BringsNews(j, main', ws')
    BY <1>5, <1>6, <1>8, <1>10, <1>11, <1>13 DEF BringsNews
  <2>2. Holds("objective", j, ws') /\ HasChecked("objective", j, ws') /\ HasLanded("objective", j, main')
    BY <1>1, <1>3, <1>6 DEF Holds, HasChecked, HasLanded, Holding
  <2> QED
    BY <2>1, <2>2 DEF Sound
<1>15. Fresh("objective", main', v)
  BY <1>5, <1>10, <1>13 DEF Fresh
<1>16. Alone("objective", "objective")
  <2> SUFFICES ASSUME NEW a \in Workers \ {"objective"}, job[a].pc \in Holding
               PROVE  Place(a) # "objective"
    BY DEF Alone
  <2>1. job[a].pc # "idle"
    BY DEF Holding
  <2> QED
    BY <2>1, AtWork
<1>17. Worked'
  <2>1. PICK x : x = "objective"
    OBVIOUS
  <2>2. j.pc \notin Holding
    BY <1>3, <1>6 DEF Holding
  <2> QED
    BY <1>1, <1>2, <1>6, <1>10, <1>12, <1>13, <1>14, <1>15, <1>16, <2>1, <2>2, WorkedStep
<1>18. JobTurn("objective", j) /\ MainTurn("objective", j)
  BY <1>1, <1>2, <1>3, <1>6, <1>13 DEF JobTurn, MainTurn, Holding
<1>19. StoreTurn("objective")
  <2>1. \A s \in Runs : ws'[s] = ws[s]
    BY <1>1, <1>10 DEF Types
  <2> QED
    BY <1>2, <2>1 DEF StoreTurn, store
<1> QED
  BY <1>1, <1>2, <1>17, <1>18, <1>19, SamePromos DEF Turn, store

\* A recovery fix passes the local checks, or is recorded as it failed.
LEMMA StructuralFixTurn ==
  ASSUME Worked, StructuralFix PROVE \E j : Turn("repair", j)
<1>1. /\ "repair" \in Workers /\ "repair" \in Actors /\ "repair" \notin Affirmers
      /\ Types /\ "watcher" # "repair" /\ "objective" \notin Runs
  BY ActorsAre, DeliveryAssumption DEF Worked, Workers
<1>2. UNCHANGED <<project, main, local, promos, review, fixes, faults>>
  BY DEF StructuralFix, store
<1>3. PICK r \in Runs : \E pc, out :
        /\ job' = [job EXCEPT !["repair"] = [Idle EXCEPT !.pc = pc, !.run = r, !.out = out]]
        /\ \/ pc = "record" /\ out \in {"skipped", "blocked"} /\ ws' = ws
           \/ pc = "check" /\ out = "none" /\ ws' = [ws EXCEPT ![r].checked = TRUE]
  BY DEF StructuralFix, LocalCI
<1>4. PICK pc, out :
        /\ job' = [job EXCEPT !["repair"] = [Idle EXCEPT !.pc = pc, !.run = r, !.out = out]]
        /\ \/ pc = "record" /\ out \in {"skipped", "blocked"} /\ ws' = ws
           \/ pc = "check" /\ out = "none" /\ ws' = [ws EXCEPT ![r].checked = TRUE]
  BY <1>3
<1>5. PICK j : j = [Idle EXCEPT !.pc = pc, !.run = r, !.out = out]
  OBVIOUS
<1>6. pc \in Words /\ out \in Words
  BY <1>4 DEF Words
<1>7. /\ j \in Jobs /\ j.pc = pc /\ j.run = r /\ j.out = out /\ j.promo = 0
      /\ job' = [job EXCEPT !["repair"] = j]
  BY <1>4, <1>5, <1>6, StartIs DEF Idle
<1>8. CASE pc = "record" /\ out \in {"skipped", "blocked"} /\ ws' = ws
  <2>1. Plain("repair", j)
    BY <1>1, <1>7, <1>8 DEF Plain, Holding
  <2> QED
    BY <1>1, <1>2, <1>7, <1>8, <2>1, QuietTurn
<1>9. CASE pc = "check" /\ out = "none" /\ ws' = [ws EXCEPT ![r].checked = TRUE]
  <2>1. ws[r] \in Worktrees /\ Fresh(r, main, ws[r]) /\ main \in Seq(Commits)
    BY DEF Worked, Types, Workplaces
  <2>2. PICK v : v = [ws[r] EXCEPT !.checked = TRUE]
    OBVIOUS
  <2>3. /\ v \in Worktrees /\ v.checked /\ v.own = ws[r].own /\ v.dirty = ws[r].dirty
        /\ v.base = ws[r].base /\ ws' = [ws EXCEPT ![r] = v]
    BY <1>9, <2>1, <2>2 DEF Worktrees
  <2>4. ws' \in [Runs \cup {"objective"} -> Worktrees] /\ ws'[r] = v
    BY <1>1, <2>3 DEF Types
  <2>5. Types'
    BY <1>1, <1>2, <1>7, <2>4, TypesStep DEF Types
  <2>6. Extends(main, main') /\ main' = main
    BY <1>2, <2>1 DEF Extends
  <2>7. Sound("repair", j, main', ws')
    <3>1. PlaceOf("repair", j) = r
      BY <1>7 DEF PlaceOf
    <3> QED
      BY <1>7, <1>9, <2>3, <2>4, <3>1 DEF Sound, Holds, HasChecked, HasLanded, Holding
  <2>8. Fresh(r, main', v)
    BY <2>1, <2>3, <2>6 DEF Fresh
  <2>9. j.pc \notin Holding
    BY <1>7, <1>9 DEF Holding
  <2>10. Worked'
    BY <1>1, <1>2, <1>7, <2>3, <2>5, <2>6, <2>7, <2>8, <2>9, WorkedStep
  <2>11. JobTurn("repair", j) /\ MainTurn("repair", j)
    BY <1>1, <1>2, <1>7, <1>9, <2>6, <2>9 DEF JobTurn, MainTurn
  <2>12. StoreTurn("repair")
    <3>1. \A s \in Runs : ws'[s] = IF s = r THEN v ELSE ws[s]
      BY <2>3 DEF Worked, Types
    <3> QED
      BY <1>2, <2>3, <3>1 DEF StoreTurn
  <2> QED
    BY <1>1, <1>2, <2>10, <2>11, <2>12, SamePromos DEF Turn
<1> QED
  BY <1>4, <1>8, <1>9

-----------------------------------------------------------------------------
(* Every step is such a turn.                                              *)

\* Whatever a command, a webhook handler, the sidecar or the world does is a turn.
LEMMA NextTurn ==
  ASSUME Worked, ReviewsChecked, Next PROVE \E a \in Actors : \E j : Turn(a, j)
<1>1. /\ Affirmers \subseteq Actors /\ Workers \subseteq Actors
      /\ {"objective", "repair", "gate", "watcher"} \subseteq Actors
      /\ Affirmers \cup {"objective", "repair"} = Workers
  BY ActorsAre DEF Workers
<1>2. ASSUME NEW a \in Affirmers,
             \/ Review(a) \/ Rereview(a) \/ Refuse(a) \/ Affirm(a) \/ Answer(a)
             \/ RecordPromotion(a)
      PROVE  \E j : Turn(a, j)
  BY <1>2, ReviewTurn, RefuseTurn, AffirmTurn, AskTurn, RecordTurn
<1>3. ASSUME NEW a \in Affirmers \cup {"watcher"}, Find(a) \/ FileFollowOn(a)
      PROVE  \E j : Turn(a, j)
  BY <1>3, AskTurn
<1>4. ASSUME NEW a \in Workers,
             \/ HasChanges(a) \/ CommitWork(a) \/ PrePush(a) \/ Push(a) \/ OpenReview(a)
             \/ Verify(a) \/ PostPush(a) \/ Rollback(a)
      PROVE  \E j : Turn(a, j)
  BY <1>4, HasChangesTurn, CommitTurn, PrePushTurn, PushTurn, OpenTurn, VerifyTurn,
     PostPushTurn, RollbackTurn
<1>5. ASSUME PromoteObjective PROVE \E a \in Actors : \E j : Turn(a, j)
  BY <1>1, <1>5, PromoteObjectiveTurn
<1>6. ASSUME StructuralFix PROVE \E a \in Actors : \E j : Turn(a, j)
  BY <1>1, <1>6, StructuralFixTurn
<1>7. ASSUME RecordObjective \/ RecordFix PROVE \E a \in Actors : \E j : Turn(a, j)
  BY <1>1, <1>7, RecordFixTurn
<1>8. ASSUME AutoMerge \/ TestMerge \/ Pull PROVE \E a \in Actors : \E j : Turn(a, j)
  BY <1>1, <1>8, CloneTurn
<1>9. ASSUME Watch \/ WatchWrite PROVE \E a \in Actors : \E j : Turn(a, j)
  BY <1>1, <1>9, WatchTurn, WatchWriteTurn
<1>10. ASSUME OutsidePush \/ ReviewMoves PROVE \E a \in Actors : \E j : Turn(a, j)
  BY <1>1, <1>10, WorldTurn
<1>11. ASSUME NEW a \in Actors, Crash(a) PROVE \E j : Turn(a, j)
  BY <1>11, CrashTurn
<1>12. ASSUME \E a \in Affirmers : Review(a) \/ Rereview(a) \/ Refuse(a) \/ Affirm(a)
                                    \/ Answer(a) \/ RecordPromotion(a)
       PROVE  \E a \in Actors : \E j : Turn(a, j)
  BY <1>1, <1>2, <1>12
<1>13. ASSUME \E a \in Affirmers \cup {"watcher"} : Find(a) \/ FileFollowOn(a)
       PROVE  \E a \in Actors : \E j : Turn(a, j)
  BY <1>1, <1>3, <1>13
<1>14. ASSUME \E a \in Affirmers \cup {"objective", "repair"} :
                \/ HasChanges(a) \/ CommitWork(a) \/ PrePush(a) \/ Push(a) \/ OpenReview(a)
                \/ Verify(a) \/ PostPush(a) \/ Rollback(a)
       PROVE  \E a \in Actors : \E j : Turn(a, j)
  BY <1>1, <1>4, <1>14
<1>15. ASSUME \E a \in Actors : Crash(a) PROVE \E a \in Actors : \E j : Turn(a, j)
  BY <1>11, <1>15
<1> QED
  BY <1>5, <1>6, <1>7, <1>8, <1>9, <1>10, <1>12, <1>13, <1>14, <1>15 DEF Next

-----------------------------------------------------------------------------
(* Checks come first.                                                      *)

\* What a step brings to main is checked.
LEMMA MainCheckedStep ==
  ASSUME Types, MainChecked, project' = project, NEW a, NEW j, MainTurn(a, j)
  PROVE  MainChecked'
<1>1. main \in Seq(Commits)
  BY DEF Types
<1>2. ASSUME NEW c \in Commits, main' = Append(main, c), Checkable(c) => c.checked
      PROVE  MainChecked'
  <2>1. PICK n : n = main'
    OBVIOUS
  <2>2. Len(n) = Len(main) + 1 /\ n[Len(main) + 1] = c /\ Extends(main, n)
    BY <1>1, <1>2, <2>1, AppendExtends
  <2>3. \A k \in 1..Len(n) : k \in 1..Len(main) \/ k = Len(main) + 1
    BY <1>1, <2>2
  <2>4. DOMAIN n = 1..Len(n) /\ DOMAIN main = 1..Len(main)
    BY <1>1, <1>2, <2>1
  <2> QED
    BY <1>2, <2>1, <2>2, <2>3, <2>4 DEF MainChecked, Extends, Checkable
<1>3. CASE main' = main
  BY <1>3 DEF MainChecked, Checkable
<1> QED
  BY <1>2, <1>3 DEF MainTurn

\* A review is opened on a checked workspace, which stays checked.
LEMMA ReviewsCheckedStep ==
  ASSUME Worked, ReviewsChecked, project' = project, NEW a, NEW j, StoreTurn(a)
  PROVE  ReviewsChecked'
<1> SUFFICES ASSUME NEW r \in Runs, review'[r] # "none", r \in project.makefile
             PROVE  ws'[r].checked
  BY DEF ReviewsChecked
<1>1. CASE a \in Affirmers /\ job[a].pc = "open" /\ job[a].run = r
  <2>1. a \in Workers /\ a # "objective" /\ job[a].pc # "idle"
    BY <1>1, ActorsAre
  <2>2. Sound(a, job[a], main, ws) /\ PlaceOf(a, job[a]) = r
    BY <1>1, <2>1, AtWork DEF PlaceOf
  <2>3. ws[r].checked
    BY <1>1, <2>1, <2>2 DEF Sound, HasChecked, Holding
  <2> QED
    BY <2>3 DEF StoreTurn
<1>2. CASE review[r] # "none"
  BY <1>2 DEF ReviewsChecked, StoreTurn
<1> QED
  BY <1>1, <1>2 DEF StoreTurn

\* A process other than the merge gate leaves the gate's job alone.
LEMMA GateJob ==
  ASSUME Types, NEW a \in Actors \ {"gate"}, NEW pc, NEW out,
         \/ Goto(a, pc) \/ Conclude(a, pc, out) \/ Done(a)
         \/ \E j : job' = [job EXCEPT ![a] = j]
  PROVE  job'["gate"] = job["gate"]
<1>1. job \in [Actors -> {Idle} \cup Jobs] /\ "gate" \in Actors
  BY ActorsAre DEF Types
<1> QED
  BY <1>1 DEF Goto, Conclude, Done

\* So do a command and a check that fail.
LEMMA GateError ==
  ASSUME Types, NEW a \in Actors \ {"gate"}, CommandError(a) \/ RuntimeError(a)
  PROVE  job'["gate"] = job["gate"]
<1>1. Conclude(a, "record", "skipped") \/ Conclude(a, "record", "blocked") \/ Done(a)
  BY DEF CommandError, RuntimeError
<1> QED
  BY <1>1, GateJob

\* What a step of another process leaves alone.
GateStays ==
  /\ local' = local /\ job'["gate"] = job["gate"]
  /\ faults' = faults \/ (faults > 0 /\ faults' = faults - 1)

\* The review's processes.
LEMMA ReviewGate ==
  ASSUME Types, NEW a \in Affirmers \cup {"watcher"},
         \/ Find(a) \/ FileFollowOn(a)
         \/ /\ a \in Affirmers
            /\ \/ Review(a) \/ Rereview(a) \/ Refuse(a) \/ Affirm(a) \/ Answer(a)
               \/ RecordPromotion(a)
  PROVE  GateStays
<1>1. a \in Actors \ {"gate"}
  BY ActorsAre
<1>2. local' = local /\ faults' = faults
  BY DEF Find, FileFollowOn, Review, Rereview, Judged, Refuse, Affirm, Answer,
         RecordPromotion, repo
<1>3. \/ \E pc, out : Goto(a, pc) \/ Conclude(a, pc, out) \/ Done(a)
      \/ job' = job \/ \E j : job' = [job EXCEPT ![a] = j]
  <2>1. \/ Find(a) \/ FileFollowOn(a) \/ Answer(a) \/ Refuse(a) \/ RecordPromotion(a)
        => \E pc, out : Goto(a, pc) \/ Conclude(a, pc, out) \/ Done(a)
    BY DEF Find, FileFollowOn, Answer, Refuse, RecordPromotion
  <2>2. \/ Review(a) \/ Rereview(a) \/ Affirm(a)
        => job' = job \/ \E j : job' = [job EXCEPT ![a] = j]
    BY DEF Review, Rereview, Judged, Affirm
  <2> QED
    BY <2>1, <2>2
<1> QED
  BY <1>1, <1>2, <1>3, GateJob DEF GateStays

\* The processes that apply.
LEMMA WorkGate ==
  ASSUME Types, NEW a \in Workers,
         \/ HasChanges(a) \/ CommitWork(a) \/ PrePush(a) \/ Push(a) \/ OpenReview(a)
         \/ Verify(a) \/ PostPush(a) \/ Rollback(a)
  PROVE  GateStays
<1>1. a \in Actors \ {"gate"}
  BY ActorsAre
<1>2. local' = local /\ (faults' = faults \/ (faults > 0 /\ faults' = faults - 1))
  <2>1. HasChanges(a) \/ CommitWork(a) \/ PrePush(a) \/ Verify(a) \/ PostPush(a) \/ Rollback(a)
        => local' = local /\ faults' = faults
    BY DEF HasChanges, CommitWork, PrePush, Verify, PostPush, Rollback, repo
  <2>2. Push(a) => local' = local /\ (faults' = faults \/ (faults > 0 /\ faults' = faults - 1))
    BY DEF Push
  <2>3. OpenReview(a) =>
          local' = local /\ (faults' = faults \/ (faults > 0 /\ faults' = faults - 1))
    BY DEF OpenReview, repo
  <2> QED
    BY <2>1, <2>2, <2>3
<1>3. \/ \E pc, out : Goto(a, pc) \/ Conclude(a, pc, out) \/ Done(a)
      \/ CommandError(a) \/ RuntimeError(a)
  <2>1. \/ HasChanges(a) \/ CommitWork(a) \/ PrePush(a) \/ Verify(a)
        => \/ \E pc, out : Goto(a, pc) \/ Conclude(a, pc, out)
           \/ CommandError(a) \/ RuntimeError(a)
    BY DEF HasChanges, CommitWork, PrePush, Verify
  <2>2. \/ Push(a) \/ OpenReview(a) \/ PostPush(a) \/ Rollback(a)
        => \/ \E pc, out : Goto(a, pc) \/ Conclude(a, pc, out) \/ Done(a)
           \/ CommandError(a) \/ RuntimeError(a)
    BY DEF Push, OpenReview, PostPush, Rollback
  <2> QED
    BY <2>1, <2>2
<1> QED
  BY <1>1, <1>2, <1>3, GateJob, GateError DEF GateStays

\* The other processes, and the world.
LEMMA OtherGate ==
  ASSUME Types, \/ PromoteObjective \/ RecordObjective \/ StructuralFix \/ RecordFix
                \/ Watch \/ WatchWrite \/ OutsidePush \/ ReviewMoves
                \/ \E a \in Actors \ {"gate"} : Crash(a)
  PROVE  GateStays
<1>1. {"objective", "repair", "watcher"} \subseteq Actors \ {"gate"}
  BY ActorsAre
<1>2. local' = local /\ (faults' = faults \/ (faults > 0 /\ faults' = faults - 1))
  BY DEF PromoteObjective, RecordObjective, StructuralFix, RecordFix, Watch, WatchWrite,
         OutsidePush, ReviewMoves, Crash, repo
<1>3. \/ job' = job
      \/ \E a \in Actors \ {"gate"} : \E pc :
           Goto(a, pc) \/ Done(a) \/ \E j : job' = [job EXCEPT ![a] = j]
  <2>1. OutsidePush \/ ReviewMoves => job' = job
    BY DEF OutsidePush, ReviewMoves
  <2>2. PromoteObjective => \E j : job' = [job EXCEPT !["objective"] = j]
    BY DEF PromoteObjective
  <2>3. StructuralFix => \E j : job' = [job EXCEPT !["repair"] = j]
    BY DEF StructuralFix
  <2>4. Watch => \E j : job' = [job EXCEPT !["watcher"] = j]
    BY DEF Watch
  <2>5. WatchWrite => Goto("watcher", "find") \/ Done("watcher")
    BY DEF WatchWrite
  <2>6. (RecordObjective => Done("objective")) /\ (RecordFix => Done("repair"))
    BY DEF RecordObjective, RecordFix
  <2>7. \A a \in Actors : Crash(a) => Done(a)
    BY DEF Crash
  <2> QED
    BY <1>1, <2>1, <2>2, <2>3, <2>4, <2>5, <2>6, <2>7
<1> QED
  BY <1>2, <1>3, GateJob DEF GateStays

\* A merge, its test and a pull of the clone.
LEMMA CloneChecked ==
  ASSUME Types, MainChecked, LocalChecked, AutoMerge \/ TestMerge \/ Pull
  PROVE  LocalChecked'
<1>1. /\ local \in Seq(Commits) /\ main \in Seq(Commits) /\ "gate" \in Actors
      /\ job \in [Actors -> {Idle} \cup Jobs]
      /\ faults' = faults /\ project' = project
  BY ActorsAre DEF Types, AutoMerge, TestMerge, Pull
<1> SUFFICES ASSUME faults = project.faults, NEW k \in DOMAIN local', Checkable(local'[k])
             PROVE  local'[k].checked \/ (job'["gate"] # Idle /\ k = Len(local'))
  BY <1>1 DEF LocalChecked, Checkable
<1>2. \A i \in 1..Len(local) : Checkable(local[i]) =>
        local[i].checked \/ (job["gate"] # Idle /\ i = Len(local))
  BY <1>1 DEF LocalChecked
<1>3. ASSUME AutoMerge
      PROVE  local'[k].checked \/ (job'["gate"] # Idle /\ k = Len(local'))
  <2>1. job["gate"] = Idle /\ job'["gate"] # Idle
    <3>1. PICK r : job' = [job EXCEPT !["gate"] = [Idle EXCEPT !.pc = "tests", !.run = r]]
      BY <1>3 DEF AutoMerge
    <3>2. job'["gate"].pc = "tests" /\ Idle.pc = "idle"
      BY <1>1, <3>1 DEF Idle
    <3> QED
      BY <1>3, <3>2 DEF AutoMerge, Free
  <2>2. CASE local' = local
    BY <1>1, <1>2, <2>1, <2>2
  <2>3. ASSUME NEW c, local' = Append(local, c)
        PROVE  local'[k].checked \/ (job'["gate"] # Idle /\ k = Len(local'))
    <3>1. /\ Len(local') = Len(local) + 1 /\ DOMAIN local' = 1..Len(local')
          /\ \A i \in 1..Len(local) : local'[i] = local[i]
      BY <1>1, <2>3
    <3>2. k \in 1..Len(local) \/ k = Len(local')
      BY <1>1, <3>1
    <3> QED
      BY <1>2, <2>1, <3>1, <3>2
  <2> QED
    BY <1>3, <2>2, <2>3 DEF AutoMerge
<1>4. ASSUME TestMerge PROVE local'[k].checked
  <2>1. CASE local' = Tested
    <3>1. k \in 1..Len(local)
      BY <1>1, <2>1 DEF Tested
    <3>2. local[k] \in Commits
      BY <1>1, <3>1
    <3>3. local'[k] = [local[k] EXCEPT !.checked = @ \/ k = Len(local)]
      BY <1>1, <2>1, <3>1 DEF Tested
    <3>4. Checkable(local[k])
      BY <3>2, <3>3 DEF Commits, Checkable
    <3>5. local[k].checked \/ k = Len(local)
      BY <1>2, <3>1, <3>4
    <3> QED
      BY <3>2, <3>3, <3>5 DEF Commits
  <2>2. CASE local' = SubSeq(local, 1, Len(local) - 1)
    <3>1. /\ k \in 1..Len(local) /\ k # Len(local) /\ local'[k] = local[k]
      BY <1>1, <2>2
    <3> QED
      BY <1>2, <3>1
  <2> QED
    BY <1>4, <2>1, <2>2 DEF TestMerge
<1>5. Pull => local'[k].checked
  BY DEF Pull, MainChecked
<1> QED
  BY <1>3, <1>4, <1>5

\* What the clone keeps is checked, as long as no process has died.
LEMMA LocalCheckedStep ==
  ASSUME Types, MainChecked, LocalChecked, project' = project, Next PROVE LocalChecked'
<1>1. faults \in Nat /\ project.faults \in Nat /\ faults <= project.faults
  BY DEF Types
<1>2. CASE GateStays
  BY <1>1, <1>2 DEF GateStays, LocalChecked, Checkable
<1>3. CASE AutoMerge \/ TestMerge \/ Pull
  BY <1>3, CloneChecked
<1>4. CASE Crash("gate")
  <2>1. faults' # project'.faults
    BY <1>1, <1>4 DEF Crash
  <2> QED
    BY <2>1 DEF LocalChecked
<1>5. GateStays \/ AutoMerge \/ TestMerge \/ Pull \/ Crash("gate")
  <2>1. Affirmers \cup {"objective", "repair"} = Workers
    BY ActorsAre DEF Workers
  <2>2. ASSUME NEW a \in Affirmers,
               \/ Review(a) \/ Rereview(a) \/ Refuse(a) \/ Affirm(a) \/ Answer(a)
               \/ RecordPromotion(a)
        PROVE  GateStays
    BY <2>2, ReviewGate
  <2>3. ASSUME NEW a \in Affirmers \cup {"watcher"}, Find(a) \/ FileFollowOn(a)
        PROVE  GateStays
    BY <2>3, ReviewGate
  <2>4. ASSUME NEW a \in Affirmers \cup {"objective", "repair"},
               \/ HasChanges(a) \/ CommitWork(a) \/ PrePush(a) \/ Push(a) \/ OpenReview(a)
               \/ Verify(a) \/ PostPush(a) \/ Rollback(a)
        PROVE  GateStays
    BY <2>1, <2>4, WorkGate
  <2>5. ASSUME NEW a \in Actors, Crash(a) PROVE GateStays \/ Crash("gate")
    <3>1. a # "gate" => GateStays
      BY <2>5, OtherGate
    <3> QED
      BY <2>5, <3>1
  <2>6. \/ PromoteObjective \/ RecordObjective \/ StructuralFix \/ RecordFix
        \/ Watch \/ WatchWrite \/ OutsidePush \/ ReviewMoves
        => GateStays
    BY OtherGate
  <2> QED
    BY <2>2, <2>3, <2>4, <2>5, <2>6 DEF Next
<1> QED
  BY <1>2, <1>3, <1>4, <1>5

-----------------------------------------------------------------------------
(* No second change.                                                       *)

\* What a step brings to main is no second change.
LEMMA DoubleStep ==
  ASSUME Types, NoDoubleApply, NEW a, NEW j, MainTurn(a, j) PROVE NoDoubleApply'
<1>1. main \in Seq(Commits)
  BY DEF Types
<1>2. CASE main' = main
  BY <1>2 DEF NoDoubleApply
<1>3. ASSUME NEW c \in Commits, main' = Append(main, c),
             c.op = "change" => ~CarriedBy(main, Len(main), c.run)
      PROVE  NoDoubleApply'
  <2>1. PICK n : n = main'
    OBVIOUS
  <2>2. n \in Seq(Commits) /\ DOMAIN n = 1..Len(n) /\ DOMAIN main = 1..Len(main)
    BY <1>1, <1>3, <2>1, AppendExtends
  <2>3. Singly(main)
    BY <2>2 DEF NoDoubleApply, Singly
  <2>4. Singly(n)
    BY <1>1, <1>3, <2>1, <2>3, AppendNews
  <2> QED
    BY <2>1, <2>2, <2>4 DEF NoDoubleApply, Singly
<1> QED
  BY <1>2, <1>3 DEF MainTurn

-----------------------------------------------------------------------------
(* What is on record as applied is on main.                                *)

\* main grows.
LEMMA MainGrows ==
  ASSUME Types, NEW a, NEW j, MainTurn(a, j)
  PROVE  main' \in Seq(Commits) /\ Extends(main, main')
<1>1. main \in Seq(Commits)
  BY DEF Types
<1>2. CASE main' = main
  BY <1>1, <1>2 DEF Extends
<1>3. ASSUME NEW c \in Commits, main' = Append(main, c)
      PROVE  main' \in Seq(Commits) /\ Extends(main, main')
  <2>1. PICK n : n = main'
    OBVIOUS
  <2>2. n \in Seq(Commits) /\ Extends(main, n)
    BY <1>1, <1>3, <2>1, AppendExtends
  <2> QED
    BY <2>1, <2>2
<1> QED
  BY <1>2, <1>3 DEF MainTurn

\* A change is taken back at the end of an apply only.
LEMMA BackIs ==
  ASSUME Types, NEW a, NEW j, MainTurn(a, j), project.mode = "direct_main", NoReviews,
         NEW r, On(main', "rollback", r, "affirmer")
  PROVE  \/ On(main, "rollback", r, "affirmer")
         \/ a \in Affirmers /\ job[a].pc = "rollback" /\ job[a].run = r /\ j = Idle
<1>1. main \in Seq(Commits)
  BY DEF Types
<1>2. CASE main' = main
  BY <1>2 DEF On
<1>3. ASSUME NEW c \in Commits, main' = Append(main, c),
             c.op = "rollback" /\ c.by = "affirmer" =>
               a \in Affirmers /\ job[a].pc = "rollback" /\ job[a].run = c.run /\ j = Idle
      PROVE  \/ On(main, "rollback", r, "affirmer")
             \/ a \in Affirmers /\ job[a].pc = "rollback" /\ job[a].run = r /\ j = Idle
  <2>1. PICK n : n = main'
    OBVIOUS
  <2>2. PICK k \in DOMAIN n : n[k].op = "rollback" /\ n[k].run = r /\ n[k].by = "affirmer"
    BY <2>1 DEF On
  <2>3. /\ Len(n) = Len(main) + 1 /\ n[Len(main) + 1] = c /\ Extends(main, n)
        /\ DOMAIN n = 1..Len(n) /\ DOMAIN main = 1..Len(main) /\ Len(main) \in Nat
    BY <1>1, <1>3, <2>1, AppendExtends
  <2>4. k \in 1..Len(main) \/ k = Len(main) + 1
    BY <2>2, <2>3
  <2> QED
    BY <1>3, <2>2, <2>3, <2>4 DEF On, Extends
<1> QED
  BY <1>2, <1>3 DEF MainTurn

\* An affirmer that holds a workspace after a step held it before, or it had something to
\* commit.
LEMMA HeldBefore ==
  ASSUME Types, NEW a \in Actors, NEW j, JobTurn(a, j), NEW b \in Affirmers,
         job'[b].pc \in Holding
  PROVE  /\ job'[b] = IF b = a THEN j ELSE job[b]
         /\ job'[b].run = job[b].run
         /\ job[b].pc \in Holding \/ ws[job[b].run].dirty
<1>1. /\ job' = [job EXCEPT ![a] = j] /\ b \in Actors /\ b \in Workers /\ b # "objective"
      /\ DOMAIN job = Actors
  BY ActorsAre DEF JobTurn, Types
<1>2. job'[b] = IF b = a THEN j ELSE job[b]
  BY <1>1
<1>3. ASSUME b = a PROVE job'[b].run = job[b].run /\ (job[b].pc \in Holding \/ ws[job[b].run].dirty)
  <2>1. PlaceOf(a, j) = Place(a) /\ (job[a].pc \in Holding \/ ws[Place(a)].dirty)
    BY <1>1, <1>2, <1>3 DEF JobTurn
  <2> QED
    BY <1>1, <1>2, <1>3, <2>1 DEF Place, PlaceOf
<1> QED
  BY <1>2, <1>3

\* What an affirmer that holds a workspace knows.
LEMMA HolderKnows ==
  ASSUME Worked, NEW a \in Affirmers, job[a].pc \in Holding
  PROVE  /\ job[a].run \in Runs /\ ~ws[job[a].run].dirty
         /\ \A b \in Affirmers \ {a} : job[b].pc \in Holding => job[b].run # job[a].run
         /\ job[a].pc = "post" => On(main, "change", job[a].run, "affirmer")
<1>1. a \in Workers /\ a # "objective" /\ job[a].pc # "idle" /\ Affirmers \subseteq Workers
  BY ActorsAre DEF Holding
<1>2. Sound(a, job[a], main, ws) /\ job[a].run \in Runs /\ PlaceOf(a, job[a]) = job[a].run
  BY <1>1, AtWork DEF PlaceOf
<1>3. ~ws[job[a].run].dirty
  BY <1>1, <1>2 DEF Sound, Holds
<1>4. job[a].pc = "post" => On(main, "change", job[a].run, "affirmer")
  BY <1>2 DEF Sound, HasLanded, Role
<1>5. \A b \in Affirmers \ {a} : job[b].pc \in Holding => job[b].run # job[a].run
  BY <1>1, ActorsAre DEF Worked, Apart, Place
<1> QED
  BY <1>2, <1>3, <1>4, <1>5

\* A promotion keeps its run.
LEMMA LinkedStep ==
  ASSUME Types, Types', Linked, NEW a \in Actors, NEW j, JobTurn(a, j), PromoTurn(a)
  PROVE  Linked'
<1> SUFFICES ASSUME NEW b \in Affirmers, job'[b].promo # 0
             PROVE  job'[b].promo \in DOMAIN promos' /\ promos'[job'[b].promo].run = job'[b].run
  BY DEF Linked
<1>1. /\ job' = [job EXCEPT ![a] = j] /\ b \in Actors /\ DOMAIN job = Actors
  BY ActorsAre DEF JobTurn, Types
<1>2. job'[b] = IF b = a THEN j ELSE job[b]
  BY <1>1
<1>3. job'[b].promo \in DOMAIN promos /\ promos[job'[b].promo].run = job'[b].run
  BY <1>2 DEF Linked, JobTurn
<1>4. DOMAIN promos \subseteq DOMAIN promos'
  <2>1. /\ promos \in Seq(Records) /\ promos' \in Seq(Records)
        /\ Len(promos) <= Len(promos')
    BY DEF Types, PromoTurn
  <2>2. DOMAIN promos = 1..Len(promos) /\ DOMAIN promos' = 1..Len(promos')
    BY <2>1
  <2> QED
    BY <2>1, <2>2
<1> QED
  BY <1>3, <1>4 DEF PromoTurn

\* A project that promotes directly goes on without reviews.
LEMMA NoReviewsStep ==
  ASSUME Types, NoReviews, project.mode = "direct_main", NEW a \in Actors, NEW j,
         JobTurn(a, j)
  PROVE  NoReviews'
<1>1. \A b \in Actors : job'[b] = IF b = a THEN j ELSE job[b]
  BY DEF JobTurn, Types
<1>2. Workers \subseteq Actors /\ "watcher" \in Actors
  BY ActorsAre
<1>3. /\ review' = review
      /\ a \in Workers => j.pc # "open"
      /\ a = "watcher" => j.pc # "write"
  BY DEF JobTurn
<1> QED
  BY <1>1, <1>2, <1>3 DEF NoReviews

\* A run that is to be committed, or is being applied, was not taken back.
LEMMA NotYetBackStep ==
  ASSUME Worked, NotYetBack, NoReviews, project.mode = "direct_main", NEW a \in Actors, NEW j,
         JobTurn(a, j), MainTurn(a, j), StoreTurn(a)
  PROVE  NotYetBack'
<1> SUFFICES ASSUME NEW r \in Runs, On(main', "rollback", r, "affirmer"),
                    \/ ws'[r].dirty
                    \/ \E b \in Affirmers : job'[b].pc \in Holding /\ job'[b].run = r
             PROVE  FALSE
  BY DEF NotYetBack
<1>1. ws'[r].dirty => ws[r].dirty
  BY DEF StoreTurn
<1>2. ASSUME NEW b \in Affirmers, job'[b].pc \in Holding, job'[b].run = r
      PROVE  /\ job'[b] = IF b = a THEN j ELSE job[b]
             /\ job[b].run = r /\ (job[b].pc \in Holding \/ ws[r].dirty)
  BY <1>2, HeldBefore DEF Worked
<1>3. ws[r].dirty \/ \E b \in Affirmers : job[b].pc \in Holding /\ job[b].run = r
  BY <1>1, <1>2
<1>4. ~On(main, "rollback", r, "affirmer")
  BY <1>3 DEF NotYetBack
<1>5. a \in Affirmers /\ job[a].pc = "rollback" /\ job[a].run = r /\ j = Idle
  BY <1>4, BackIs DEF Worked
<1>6. /\ ~ws[r].dirty
      /\ \A b \in Affirmers \ {a} : job[b].pc \in Holding => job[b].run # r
  BY <1>5, HolderKnows DEF Holding
<1>7. PICK b \in Affirmers : job'[b].pc \in Holding /\ job'[b].run = r
  BY <1>1, <1>6
<1>8. b # a
  <2>1. b = a => job'[b] = Idle
    BY <1>2, <1>5, <1>7
  <2> QED
    BY <1>7, <2>1 DEF Idle, Holding
<1> QED
  BY <1>2, <1>6, <1>7, <1>8

\* What is settled stays so.
LEMMA SettledStep ==
  ASSUME Worked, NoReviews, project.mode = "direct_main", NEW a \in Actors, NEW j,
         JobTurn(a, j), MainTurn(a, j), StoreTurn(a), NEW r \in Runs, Settled(r)
  PROVE  Settled(r)'
<1>1. main \in Seq(Commits) /\ main' \in Seq(Commits) /\ Extends(main, main')
  BY MainGrows DEF Worked, Types
<1>2. On(main', "change", r, "affirmer")
  BY <1>1, OnStays DEF Settled
<1>3. ~On(main', "rollback", r, "affirmer")
  BY BackIs DEF Worked, Settled, Holding
<1>4. ~ws'[r].dirty
  BY DEF StoreTurn, Settled
<1>5. \A b \in Affirmers : job'[b].pc \in Holding => job'[b].run # r
  BY HeldBefore DEF Worked, Settled
<1> QED
  BY <1>2, <1>3, <1>4, <1>5 DEF Settled

\* What passed the last check is settled.
LEMMA SettledNow ==
  ASSUME Worked, NotYetBack, NoReviews, project.mode = "direct_main", NEW a \in Affirmers,
         NEW j, JobTurn(a, j), MainTurn(a, j), StoreTurn(a),
         job[a].pc = "post", j.pc = "record", NEW r \in Runs, job[a].run = r
  PROVE  Settled(r)'
<1>1. /\ r \in Runs /\ ~ws[r].dirty /\ On(main, "change", r, "affirmer")
      /\ \A b \in Affirmers \ {a} : job[b].pc \in Holding => job[b].run # r
      /\ a \in Actors
  BY ActorsAre, HolderKnows DEF Holding
<1>2. main \in Seq(Commits) /\ main' \in Seq(Commits) /\ Extends(main, main')
  BY MainGrows DEF Worked, Types
<1>3. On(main', "change", r, "affirmer")
  BY <1>1, <1>2, OnStays
<1>4. ~On(main, "rollback", r, "affirmer")
  BY <1>1 DEF NotYetBack, Holding
<1>5. ~On(main', "rollback", r, "affirmer")
  BY <1>4, BackIs DEF Worked
<1>6. ~ws'[r].dirty
  BY <1>1 DEF StoreTurn
<1>7. \A b \in Affirmers : job'[b].pc \in Holding => job'[b].run # r
  <2> SUFFICES ASSUME NEW b \in Affirmers, job'[b].pc \in Holding, job'[b].run = r
               PROVE  FALSE
    OBVIOUS
  <2>1. /\ job'[b] = IF b = a THEN j ELSE job[b]
        /\ job[b].run = r /\ (job[b].pc \in Holding \/ ws[r].dirty)
    BY <1>1, HeldBefore DEF Worked
  <2>2. b # a
    BY <2>1 DEF Holding
  <2> QED
    BY <1>1, <2>1, <2>2
<1> QED
  BY <1>3, <1>5, <1>6, <1>7 DEF Settled

\* A record that says applied is of a settled run, and so is a job about to write one.
LEMMA AllSettledStep ==
  ASSUME Worked, Worked', Linked, NotYetBack, NoReviews, AllSettled,
         project.mode = "direct_main", NEW a \in Actors, NEW j, Turn(a, j)
  PROVE  AllSettled'
<1>1. /\ JobTurn(a, j) /\ MainTurn(a, j) /\ PromoTurn(a) /\ StoreTurn(a)
      /\ Types /\ Types' /\ job' = [job EXCEPT ![a] = j] /\ DOMAIN job = Actors
      /\ Affirmers \subseteq Actors /\ "watcher" \in Actors
  BY ActorsAre DEF Turn, Worked, JobTurn, Types
<1>2. /\ promos \in Seq(Records) /\ promos' \in Seq(Records)
      /\ DOMAIN promos = 1..Len(promos) /\ DOMAIN promos' = 1..Len(promos')
  BY <1>1 DEF Types
<1>3. ASSUME NEW r \in Runs, Settled(r) PROVE Settled(r)'
  BY <1>1, <1>3, SettledStep
<1>4. ASSUME NEW i \in DOMAIN promos', promos'[i].applyback = "applied"
      PROVE  \E r \in Runs : r = promos'[i].run /\ Settled(r)
  <2>1. i \in DOMAIN promos /\ promos'[i].run = promos[i].run
    BY <1>1, <1>4 DEF PromoTurn
  <2>2. promos[i].run \in Runs
    <3>1. promos[i] \in Records
      BY <1>2, <2>1
    <3> QED
      BY <3>1 DEF Records
  <2>3. CASE promos[i].applyback = "applied"
    BY <2>1, <2>2, <2>3 DEF AllSettled
  <2>4. CASE a \in Affirmers /\ job[a].pc = "record" /\ job[a].out = "applied" /\ i = job[a].promo
    <3>1. promos[i].run = job[a].run
      BY <1>2, <2>1, <2>4 DEF Linked
    <3> QED
      BY <2>1, <2>2, <2>4, <3>1 DEF AllSettled
  <2> QED
    BY <1>1, <1>4, <2>3, <2>4 DEF PromoTurn, NoReviews
<1>5. ASSUME NEW i \in DOMAIN promos', promos'[i].applyback = "applied"
      PROVE  Settled(promos[i].run)'
  <2>1. PICK r \in Runs : r = promos'[i].run /\ Settled(r)
    BY <1>4, <1>5
  <2>2. Settled(r)'
    BY <1>3, <2>1
  <2> QED
    BY <2>1, <2>2
<1>6. ASSUME NEW b \in Affirmers, job'[b].pc = "record", job'[b].out = "applied"
      PROVE  Settled(job[b].run)'
  <2>1. job'[b] = IF b = a THEN j ELSE job[b]
    BY <1>1
  <2>2. CASE b # a
    <3>1. PICK r : r = job[b].run
      OBVIOUS
    <3>2. job[b] \in Jobs
      BY <1>1, <1>6, <2>1, <2>2 DEF Types, Idle
    <3>3. r \in Runs /\ Settled(r) /\ r = job'[b].run
      BY <1>6, <2>1, <2>2, <3>1, <3>2 DEF Jobs, AllSettled
    <3>4. Settled(r)'
      BY <1>3, <3>3
    <3> QED
      BY <3>3, <3>4
  <2>3. CASE b = a
    <3>1. /\ j.pc = "record" /\ job[a].pc = "post" /\ job[a].run = j.run
      BY <1>1, <1>6, <2>1, <2>3 DEF JobTurn
    <3>2. PICK r : r = job[a].run
      OBVIOUS
    <3>3. r \in Runs /\ r = job'[b].run
      BY <1>6, <2>1, <2>3, <3>1, <3>2, HolderKnows DEF Holding
    <3>4. Settled(r)'
      BY <1>1, <1>6, <2>3, <3>1, <3>2, <3>3, SettledNow
    <3> QED
      BY <3>3, <3>4
  <2> QED
    BY <2>2, <2>3
<1> QED
  BY <1>5, <1>6 DEF AllSettled

\* A repair on record as pushed is on main.
LEMMA RepairStep ==
  ASSUME Worked, \A r \in Runs : fixes[r].repair = "pushed" => On(main, "change", r, "repair"),
         NEW a \in Actors, NEW j, MainTurn(a, j), StoreTurn(a)
  PROVE  \A r \in Runs : fixes'[r].repair = "pushed" => On(main', "change", r, "repair")
<1>1. main \in Seq(Commits) /\ main' \in Seq(Commits) /\ Extends(main, main')
  BY MainGrows DEF Worked, Types
<1>2. ASSUME NEW r \in Runs, fixes'[r].repair = "pushed" PROVE On(main, "change", r, "repair")
  <2>1. CASE job["repair"].pc = "record" /\ job["repair"].out = "pushed"
             /\ job["repair"].run = r
    <3>1. Sound("repair", job["repair"], main, ws) /\ Role("repair") = "repair"
      BY ActorsAre DEF Worked, Role
    <3> QED
      BY <2>1, <3>1 DEF Sound, HasLanded
  <2> QED
    BY <1>2, <2>1 DEF StoreTurn
<1> QED
  BY <1>1, <1>2, OnStays

\* apply and its record: what says applied, pushed or watched stays true of main.
LEMMA AppliedStep ==
  ASSUME Worked, Worked', AllApplied, NEW a \in Actors, NEW j, Turn(a, j) PROVE AllApplied'
<1>1. /\ JobTurn(a, j) /\ MainTurn(a, j) /\ PromoTurn(a) /\ StoreTurn(a)
      /\ Types /\ Types' /\ project' = project
  BY DEF Turn, Worked
<1>2. Linked'
  BY <1>1, LinkedStep DEF AllApplied
<1>3. \A r \in Runs : fixes'[r].repair = "pushed" => On(main', "change", r, "repair")
  BY <1>1, RepairStep DEF AllApplied
<1>4. ASSUME project.mode = "direct_main" PROVE (NoReviews /\ NotYetBack /\ AllSettled)'
  <2>1. Linked /\ NoReviews /\ NotYetBack /\ AllSettled
    BY <1>4 DEF AllApplied
  <2>2. NoReviews'
    BY <1>1, <1>4, <2>1, NoReviewsStep
  <2>3. NotYetBack'
    BY <1>1, <1>4, <2>1, NotYetBackStep
  <2>4. AllSettled'
    BY <1>4, <2>1, AllSettledStep
  <2> QED
    BY <2>2, <2>3, <2>4
<1> QED
  BY <1>1, <1>2, <1>3, <1>4 DEF AllApplied

-----------------------------------------------------------------------------
(* The initial states.                                                     *)

\* A workspace as a run leaves it.
LEMMA WorkspaceIs ==
  ASSUME NEW x \in Runs \cup {"objective"},
         NEW kind \in {"dirty", "committed", "shared", "missing"},
         x = "objective" => kind = "missing", main \in Seq(Commits), Len(main) >= 1
  PROVE  /\ Workspace(kind, x) \in Worktrees
         /\ Fresh(x, main, Workspace(kind, x))
<1>1. PICK c, own : /\ c = Commit("change", x, "pipeline")
                    /\ own = (IF kind = "committed" THEN <<c>> ELSE <<>>)
  OBVIOUS
<1>2. c.by \in {"affirmer", "pipeline"} /\ c.run = x /\ c.by # "gate" /\ c.by # "repair"
  BY <1>1 DEF Commit, Role
<1>3. x \in Runs => c \in Commits
  BY <1>1, <1>2 DEF Commit, Commits
<1>4. kind = "committed" => x \in Runs /\ x # "objective"
  OBVIOUS
<1>5. \/ own = <<>>
      \/ \E d \in Commits : /\ own = <<d>> /\ d.run = x /\ x # "objective"
                            /\ d.by # "gate" /\ d.by # "repair"
  BY <1>1, <1>2, <1>3, <1>4
<1>6. own \in Seq(Commits)
  <2>1. CASE own = <<>>
    BY <2>1
  <2>2. ASSUME NEW d \in Commits, own = <<d>> PROVE own \in Seq(Commits)
    BY <2>2
  <2> QED
    BY <1>5, <2>1, <2>2
<1>7. PICK dirty \in BOOLEAN : dirty <=> kind \in {"dirty", "shared"}
  <2>1. CASE kind \in {"dirty", "shared"}
    <3>1. TRUE <=> kind \in {"dirty", "shared"}
      BY <2>1
    <3> WITNESS TRUE \in BOOLEAN
    <3> QED
      BY <3>1
  <2>2. CASE kind \notin {"dirty", "shared"}
    <3>1. FALSE <=> kind \in {"dirty", "shared"}
      BY <2>2
    <3> WITNESS FALSE \in BOOLEAN
    <3> QED
      BY <3>1
  <2> QED
    BY <2>1, <2>2
<1>8. PICK v : v = Workspace(kind, x)
  OBVIOUS
<1>9. v = [base |-> 1, dirty |-> dirty, own |-> own, checked |-> FALSE]
  BY <1>1, <1>7, <1>8 DEF Workspace
<1>10. v \in Worktrees
  BY <1>6, <1>9 DEF Worktrees
<1>11. v.dirty => v.own = <<>>
  BY <1>1, <1>7, <1>9
<1>12. 1 \in 1..Len(main)
  OBVIOUS
<1>13. Fresh(x, main, v)
  <2>1. CASE own = <<>>
    BY <1>9, <1>12, <2>1 DEF Fresh
  <2>2. ASSUME NEW d \in Commits, own = <<d>>, d.run = x, x # "objective",
               d.by # "gate", d.by # "repair"
        PROVE  Fresh(x, main, v)
    <3>1. own[1] = d /\ own # <<>>
      BY <2>2
    <3> QED
      BY <1>9, <1>11, <1>12, <2>2, <3>1 DEF Fresh
  <2> QED
    BY <1>5, <2>1, <2>2
<1> QED
  BY <1>8, <1>10, <1>13

\* A project starts on a main of one commit, with the workspaces as their runs left them.
LEMMA TypesInit == ASSUME Init PROVE Types /\ Workplaces
<1>1. PICK p \in Projects :
        /\ project = p
        /\ main = <<Outside>> /\ local = <<Outside>>
        /\ ws = [w \in Runs \cup {"objective"} |->
                   IF w \in Runs THEN Workspace(p.workspace[w], w) ELSE Workspace("missing", w)]
        /\ promos = <<>> /\ filed = [r \in Runs |-> 0] /\ rebase = {}
        /\ review = [r \in Runs |-> "none"]
        /\ fixes = [r \in Runs |-> [applied |-> FALSE, repair |-> "none"]]
        /\ job = [a \in Actors |-> Idle] /\ faults = p.faults
  BY DEF Init
<1>2. /\ p.workspace \in [Runs -> {"dirty", "committed", "shared", "missing"}]
      /\ {p.faults, p.promotions} \subseteq Nat /\ "objective" \notin Runs
  BY DeliveryAssumption
<1>3. PICK c : c = Outside
  OBVIOUS
<1>4. c \in Commits
  BY <1>3 DEF Outside, Commit, Commits, Role
<1>5. /\ main \in Seq(Commits) /\ Len(main) >= 1 /\ main[1] = c
      /\ local \in Seq(Commits)
  BY <1>1, <1>3, <1>4
<1>6. \A x \in Runs \cup {"objective"} : ws[x] \in Worktrees /\ Fresh(x, main, ws[x])
  <2> SUFFICES ASSUME NEW x \in Runs \cup {"objective"}
               PROVE  ws[x] \in Worktrees /\ Fresh(x, main, ws[x])
    OBVIOUS
  <2>1. PICK kind : kind = IF x \in Runs THEN p.workspace[x] ELSE "missing"
    OBVIOUS
  <2>2. /\ kind \in {"dirty", "committed", "shared", "missing"}
        /\ x = "objective" => kind = "missing"
    BY <1>2, <2>1
  <2>3. ws[x] = Workspace(kind, x)
    BY <1>1, <2>1
  <2> QED
    BY <1>5, <2>2, <2>3, WorkspaceIs
<1>7. ws \in [Runs \cup {"objective"} -> Worktrees]
  BY <1>1, <1>6
<1>8. "none" \in Words
  BY DEF Words
<1>9. promos \in Seq(Records)
  BY <1>1
<1>10. review \in [Runs -> Words] /\ fixes \in [Runs -> [applied : BOOLEAN, repair : Words]]
  BY <1>1, <1>8
<1>11. job \in [Actors -> {Idle} \cup Jobs]
  BY <1>1
<1>12. faults \in Nat /\ project.faults \in Nat /\ faults <= project.faults
  BY <1>1, <1>2
<1>13. Types
  BY <1>1, <1>3, <1>5, <1>7, <1>9, <1>10, <1>11, <1>12 DEF Types
<1> QED
  BY <1>6, <1>13 DEF Workplaces

\* At the start nobody is at work and nothing is on record.
LEMMA StartsQuiet ==
  ASSUME Init
  PROVE  /\ \A a \in Actors : job[a] = Idle
         /\ main = <<Outside>> /\ local = <<Outside>> /\ promos = <<>>
         /\ \A r \in Runs : review[r] = "none" /\ fixes[r].repair = "none"
BY DEF Init

\* At the start no process of the promotion services holds a workspace.
LEMMA WorkedInit == ASSUME Init PROVE Worked
<1>1. Workers \subseteq Actors /\ \A a \in Actors : job[a] = Idle
  BY ActorsAre, StartsQuiet
<1>2. \A a \in Actors : Sound(a, job[a], main, ws)
  BY <1>1 DEF Sound, Holds, HasChecked, HasLanded, BringsNews, Holding, Idle
<1>3. Apart
  BY <1>1 DEF Apart, Holding, Idle
<1> QED
  BY <1>2, <1>3, TypesInit DEF Worked

\* Nothing that needed checks is on main or in the clone at the start.
LEMMA CheckedInit == ASSUME Init PROVE AllChecked
<1>1. main = <<Outside>> /\ local = <<Outside>> /\ ~Checkable(Outside)
  BY StartsQuiet DEF Outside, Commit, Checkable
<1> QED
  BY <1>1, StartsQuiet DEF AllChecked, MainChecked, LocalChecked, ReviewsChecked

\* Nothing is on record as applied or pushed at the start.
LEMMA AppliedInit == ASSUME Init PROVE AllApplied
<1>1. Workers \subseteq Actors /\ Affirmers \subseteq Actors /\ "watcher" \in Actors
  BY ActorsAre
<1>2. \A a \in Actors : job[a].promo = 0 /\ job[a].pc = "idle"
  BY StartsQuiet DEF Idle
<1>3. Linked
  BY <1>1, <1>2 DEF Linked
<1>4. NoReviews
  BY <1>1, <1>2, StartsQuiet DEF NoReviews
<1>5. NotYetBack
  <2>1. \A r : ~On(main, "rollback", r, "affirmer")
    <3>1. main = <<Outside>> /\ Outside.op = "outside"
      BY StartsQuiet DEF Outside, Commit
    <3> QED
      BY <3>1 DEF On
  <2> QED
    BY <2>1 DEF NotYetBack
<1>6. AllSettled
  BY <1>1, <1>2, StartsQuiet DEF AllSettled
<1> QED
  BY <1>3, <1>4, <1>5, <1>6, StartsQuiet DEF AllApplied

\* A main of one commit brings no change twice.
LEMMA DoubleInit == ASSUME Init PROVE NoDoubleApply
BY StartsQuiet DEF NoDoubleApply

-----------------------------------------------------------------------------
(* The invariant, and the theorems.                                        *)

DeliveryInv == Worked /\ AllChecked /\ AllApplied /\ NoDoubleApply

\* The start of a project.
LEMMA DeliveryInvInit == Init => DeliveryInv
BY WorkedInit, CheckedInit, AppliedInit, DoubleInit DEF DeliveryInv

\* The steps of every process that promotes, merges, repairs or watches.
LEMMA DeliveryInvStep == DeliveryInv /\ [Next]_vars => DeliveryInv'
<1> SUFFICES ASSUME DeliveryInv, [Next]_vars PROVE DeliveryInv'
  OBVIOUS
<1>1. CASE UNCHANGED vars
  BY <1>1
  DEF vars, DeliveryInv, Worked, Types, Apart, Workplaces, Place, AllChecked, MainChecked,
      LocalChecked, ReviewsChecked, AllApplied, Linked, NoReviews, NotYetBack, AllSettled,
      Settled, NoDoubleApply, Sound, HasChecked, Checkable
<1>2. CASE Next
  <2>1. Worked /\ AllChecked /\ AllApplied /\ NoDoubleApply /\ Types
    BY DEF DeliveryInv, Worked
  <2>2. MainChecked /\ LocalChecked /\ ReviewsChecked
    BY <2>1 DEF AllChecked
  <2>3. PICK a, j : a \in Actors /\ Turn(a, j)
    BY <1>2, <2>1, <2>2, NextTurn
  <2>4. Worked' /\ project' = project /\ MainTurn(a, j) /\ StoreTurn(a)
    BY <2>3 DEF Turn
  <2>5. AllChecked'
    BY <1>2, <2>1, <2>2, <2>4, MainCheckedStep, LocalCheckedStep, ReviewsCheckedStep
    DEF AllChecked
  <2>6. AllApplied'
    BY <2>1, <2>3, <2>4, AppliedStep
  <2>7. NoDoubleApply'
    BY <2>1, <2>4, DoubleStep
  <2> QED
    BY <2>4, <2>5, <2>6, <2>7 DEF DeliveryInv
<1> QED
  BY <1>1, <1>2

\* The invariant the three theorems are read off.
LEMMA DeliveryIsSound == Spec => []DeliveryInv
BY DeliveryInvInit, DeliveryInvStep, PTL DEF Spec

\* What a process brought to main passed checks on its workspace first, whichever way it
\* took, as long as there is a Makefile to check it with, and a repair always; and as long
\* as no process has died the operator's clone keeps no merge that the test suite did not
\* pass on (repository_promotion_service._run_pre_push_checks, run_local_ci,
\* merge_gate.execute_merge).  Every step brings to main only what was committed in one
\* workspace, which only its holder writes, and it goes unchecked only where _run_checks
\* found nothing to run.
THEOREM CheckedFirst == Spec => []CheckedBeforeMain
<1>1. DeliveryInv => CheckedBeforeMain
  BY DEF DeliveryInv, AllChecked, MainChecked, LocalChecked, CheckedBeforeMain
<1> QED
  BY <1>1, DeliveryIsSound, PTL

\* A promotion on record as applied in a project that promotes directly is on main by an
\* affirmer and was not rolled back, and a repair on record as pushed is on main, in every
\* interleaving of the processes, with crashes, lost connections and other pushes
\* (promotion_service._apply_approved_promotion, repository_promotion_service.apply,
\* structural_fix_promotion_service).  A workspace with something to commit has no holder
\* and a workspace has one, so that nobody is left to roll back what is recorded.
THEOREM AppliedOnMain == Spec => []AppliedIsOnMain
<1>1. DeliveryInv => AppliedIsOnMain
  BY DEF DeliveryInv, AllApplied, AllSettled, Settled, AppliedIsOnMain
<1> QED
  BY <1>1, DeliveryIsSound, PTL

\* No change is brought to main twice without having been taken out in between
\* (repository_promotion_service.apply, apply_objective): a workspace is committed to once
\* and its first push is a fast-forward only of the history it was cloned from.
THEOREM NoSecondApply == Spec => []NoDoubleApply
<1>1. DeliveryInv => NoDoubleApply
  BY DEF DeliveryInv
<1> QED
  BY <1>1, DeliveryIsSound, PTL
=============================================================================
