--------------------------- MODULE ObjectiveProofs --------------------------
(***************************************************************************)
(* Theorems about ObjectiveFlow, for any reviewed dimensions, plans and    *)
(* bounds.                                                                 *)
(***************************************************************************)
EXTENDS ObjectiveFlow, SequenceTheorems, TLAPS

\* The fields of the objective's record that the steps below look at.
Named == {"task", "waived", "pushed", "marked", "status", "phase", "late", "intent",
          "interrogated", "version", "drawn", "proposed", "gens", "rounds", "planner",
          "reviewer", "promo", "up", "room", "edits", "failures", "races", "crashes"}

Shaped(o) == DOMAIN o = Named /\ o = [x \in Named |-> o[x]]

-----------------------------------------------------------------------------
(* The rounds, the threads that review and the remediations they led to.   *)

RoundRecords ==
  [packets : [Dims -> {"none", "pass", "concern"}], end : {"running", "completed", "failed"},
   override : BOOLEAN]

Registers == {"pc", "round", "copy", "todo", "made"}

\* A thread at work has a round, and the dimensions it has yet to ask about have
\* no packet in it.
InRound(o, p) ==
  /\ DOMAIN o.reviewer[p] = Registers
  /\ IF o.reviewer[p].pc \in {"idle", "admitted"} THEN o.reviewer[p].todo = {}
     ELSE o.reviewer[p].round \in 1..Len(o.rounds)
  /\ \A d \in o.reviewer[p].todo :
       d \in Dims /\ o.rounds[o.reviewer[p].round].packets[d] = "none"

\* A remediation answers a concern of a round.
Raised(o, t) == t[2] \in 1..Len(o.rounds) /\ o.rounds[t[2]].packets[t[3]] = "concern"

\* No two threads write packets of one round, so that a packet stays as it is.
RoundInv(o) ==
  /\ o.rounds \in Seq(RoundRecords) /\ o.task \in [TaskIds -> TaskStatus]
  /\ o.reviewer = [p \in Procs |-> o.reviewer[p]]
  /\ \A p \in Procs : InRound(o, p)
  /\ \A p, q \in Procs : p # q /\ o.reviewer[p].todo # {} /\ o.reviewer[q].todo # {}
                          => o.reviewer[p].round # o.reviewer[q].round
  /\ \A t \in FixTasks : o.task[t] # "none" => Raised(o, t)

\* Rounds are only added, and an override is not taken back.
Further(o, n) ==
  /\ Len(o.rounds) <= Len(n.rounds)
  /\ \A k \in 1..Len(o.rounds) : o.rounds[k].override => n.rounds[k].override

Reviewed(o, n) == RoundInv(o) => RoundInv(n) /\ Further(o, n)

\* A step that touches neither the promotions nor what they have done, and may take
\* the review further.
Untouched(o, n) ==
  /\ Shaped(n)
  /\ n.pushed = o.pushed /\ n.marked = o.marked /\ n.promo = o.promo
  /\ Reviewed(o, n)

\* One round is written, if it is there.
LEMMA RoundUpdate ==
  ASSUME NEW s \in Seq(RoundRecords), NEW i, NEW rec,
         i \in 1..Len(s) => rec \in RoundRecords
  PROVE  /\ [s EXCEPT ![i] = rec] \in Seq(RoundRecords)
         /\ Len([s EXCEPT ![i] = rec]) = Len(s)
         /\ \A k \in 1..Len(s) : [s EXCEPT ![i] = rec][k] = IF k = i THEN rec ELSE s[k]
<1>1. CASE i \in 1..Len(s)
  BY <1>1, ExceptSeq
<1>2. CASE i \notin 1..Len(s)
  <2>1. DOMAIN s = 1..Len(s)
    OBVIOUS
  <2>2. [s EXCEPT ![i] = rec] = s
    BY <1>2, <2>1
  <2> QED
    BY <1>2, <2>2
<1> QED
  BY <1>1, <1>2

\* Rounds whose packets stay, and that may end or be overridden.
LEMMA RoundsReviewed ==
  ASSUME NEW o, NEW n, n.task = o.task, n.reviewer = o.reviewer,
         RoundInv(o) =>
           /\ n.rounds \in Seq(RoundRecords) /\ Len(n.rounds) = Len(o.rounds)
           /\ \A k \in 1..Len(o.rounds) : /\ n.rounds[k].packets = o.rounds[k].packets
                                          /\ o.rounds[k].override => n.rounds[k].override
  PROVE  Reviewed(o, n)
<1> SUFFICES ASSUME RoundInv(o) PROVE RoundInv(n) /\ Further(o, n)
  BY DEF Reviewed
<1>1. Len(o.rounds) \in Nat
  BY DEF RoundInv
<1>2. Further(o, n)
  BY <1>1 DEF Further
<1>3. \A p \in Procs : InRound(n, p)
  BY DEF RoundInv, InRound
<1>4. \A t : Raised(o, t) => Raised(n, t)
  BY DEF Raised
<1> QED
  BY <1>2, <1>3, <1>4 DEF RoundInv

\* Tasks that move, none of them a remediation without its concern.
LEMMA TasksReviewed ==
  ASSUME NEW o, NEW n, n.rounds = o.rounds, n.reviewer = o.reviewer,
         RoundInv(o) =>
           /\ n.task \in [TaskIds -> TaskStatus]
           /\ \A t \in FixTasks : n.task[t] # "none" => o.task[t] # "none" \/ Raised(o, t)
  PROVE  Reviewed(o, n)
<1> SUFFICES ASSUME RoundInv(o) PROVE RoundInv(n) /\ Further(o, n)
  BY DEF Reviewed
<1>1. Further(o, n)
  BY DEF Further, RoundInv
<1>2. \A p \in Procs : InRound(n, p)
  BY DEF RoundInv, InRound
<1>3. \A t \in FixTasks : n.task[t] # "none" => Raised(n, t)
  BY DEF RoundInv, Raised
<1> QED
  BY <1>1, <1>2, <1>3 DEF RoundInv

\* What may become of the registers of a thread: it comes to rest, or goes on in its round.
GoesOn(o, p, regs) ==
  /\ DOMAIN regs = Registers
  /\ \/ regs.todo = {} /\ regs.pc \in {"idle", "admitted"}
     \/ /\ regs.todo = o.reviewer[p].todo /\ regs.round = o.reviewer[p].round
        /\ {o.reviewer[p].pc, regs.pc} \cap {"idle", "admitted"} = {}

\* The registers of one thread: at rest, or in the round it was in.
LEMMA ThreadReviewed ==
  ASSUME NEW o, NEW n, NEW p, NEW regs, n.rounds = o.rounds, n.task = o.task,
         n.reviewer = [o.reviewer EXCEPT ![p] = regs],
         RoundInv(o) /\ p \in Procs => GoesOn(o, p, regs)
  PROVE  Reviewed(o, n)
<1> SUFFICES ASSUME RoundInv(o) PROVE RoundInv(n) /\ Further(o, n)
  BY DEF Reviewed
<1>1. Further(o, n)
  BY DEF Further, RoundInv
<1>2. DOMAIN o.reviewer = Procs
  BY DEF RoundInv
<1>3. \A q \in Procs : q # p => n.reviewer[q] = o.reviewer[q]
  BY <1>2
<1>4. p \in Procs => n.reviewer[p] = regs
  BY <1>2
<1>5. \A q \in Procs : InRound(n, q)
  <2> SUFFICES ASSUME NEW q \in Procs PROVE InRound(n, q)
    OBVIOUS
  <2>1. InRound(o, q)
    BY DEF RoundInv
  <2>2. CASE q # p
    BY <1>3, <2>1, <2>2 DEF InRound
  <2>3. CASE q = p
    BY <1>4, <2>1, <2>3 DEF InRound, GoesOn
  <2> QED
    BY <2>2, <2>3
<1>6. \A q \in Procs : n.reviewer[q].todo # {} =>
        /\ o.reviewer[q].todo = n.reviewer[q].todo
        /\ o.reviewer[q].round = n.reviewer[q].round
  BY <1>3, <1>4 DEF GoesOn
<1>7. \A q, s \in Procs : q # s /\ n.reviewer[q].todo # {} /\ n.reviewer[s].todo # {}
                           => n.reviewer[q].round # n.reviewer[s].round
  BY <1>6 DEF RoundInv
<1>8. n.reviewer = [q \in Procs |-> n.reviewer[q]]
  BY <1>2
<1>9. \A t \in FixTasks : n.task[t] # "none" => Raised(n, t)
  BY DEF RoundInv, Raised
<1> QED
  BY <1>1, <1>5, <1>7, <1>8, <1>9 DEF RoundInv

\* A step that has nothing to do with the review.
LEMMA SameReview ==
  ASSUME NEW o, NEW n, n.rounds = o.rounds, n.task = o.task, n.reviewer = o.reviewer
  PROVE  Reviewed(o, n)
<1>1. RoundInv(o) => n.task \in [TaskIds -> TaskStatus]
  BY DEF RoundInv
<1> QED
  BY <1>1, TasksReviewed

-----------------------------------------------------------------------------
(* The operators that all handlers are made of leave promotions alone.     *)

Elsewhere == Named \ {"pushed", "marked", "promo", "rounds", "task", "reviewer"}

\* A field that has to do with neither.
LEMMA FieldLeaves ==
  ASSUME NEW o, NEW f \in Elsewhere, NEW v, Shaped(o) PROVE Untouched(o, [o EXCEPT ![f] = v])
<1>1. PICK n : n = [o EXCEPT ![f] = v]
  OBVIOUS
<1>2. /\ Shaped(n) /\ n.pushed = o.pushed /\ n.marked = o.marked /\ n.promo = o.promo
      /\ n.rounds = o.rounds /\ n.task = o.task /\ n.reviewer = o.reviewer
  BY <1>1 DEF Shaped, Named, Elsewhere
<1>3. Reviewed(o, n)
  BY <1>2, SameReview
<1> QED
  BY <1>1, <1>2, <1>3 DEF Untouched

\* One of the fields of the review, as the lemmas above allow.
LEMMA ReviewFieldLeaves ==
  ASSUME NEW o, NEW f \in {"rounds", "task", "reviewer"}, NEW v, Shaped(o),
         Reviewed(o, [o EXCEPT ![f] = v])
  PROVE  Untouched(o, [o EXCEPT ![f] = v])
BY DEF Shaped, Named, Untouched

\* The review goes further and further.
LEMMA ReviewedTrans ==
  ASSUME NEW o, NEW n, NEW m, Reviewed(o, n), Reviewed(n, m) PROVE Reviewed(o, m)
<1> SUFFICES ASSUME RoundInv(o) PROVE RoundInv(m) /\ Further(o, m)
  BY DEF Reviewed
<1>1. RoundInv(n) /\ RoundInv(m) /\ Further(o, n) /\ Further(n, m)
  BY DEF Reviewed
<1>2. Len(o.rounds) \in Nat /\ Len(n.rounds) \in Nat /\ Len(m.rounds) \in Nat
  BY <1>1 DEF RoundInv
<1> QED
  BY <1>1, <1>2 DEF Further

\* One field after another.
LEMMA LeavesTrans ==
  ASSUME NEW o, NEW n, NEW m, Untouched(o, n), Untouched(n, m) PROVE Untouched(o, m)
<1>1. Reviewed(o, m)
  BY ReviewedTrans DEF Untouched
<1> QED
  BY <1>1 DEF Untouched

\* Several fields that have to do with neither.
LEMMA SameLeaves ==
  ASSUME NEW o, NEW n, Shaped(n),
         n.pushed = o.pushed, n.marked = o.marked, n.promo = o.promo,
         n.rounds = o.rounds, n.task = o.task, n.reviewer = o.reviewer
  PROVE  Untouched(o, n)
BY SameReview DEF Untouched

\* The registers of a reviewing thread that comes to rest, is at rest, or works on.
LEMMA ThreadLeaves ==
  ASSUME NEW o, NEW p, Shaped(o)
  PROVE  /\ Untouched(o, [o EXCEPT !.reviewer[p] = IdleReviewer])
         /\ \A pc : /\ IF ReviewerAlive(o, p) THEN pc \notin {"idle", "admitted"}
                       ELSE pc \in {"idle", "admitted"}
                    => Untouched(o, [o EXCEPT !.reviewer[p].pc = pc])
<1>1. ASSUME NEW regs, RoundInv(o) /\ p \in Procs => GoesOn(o, p, regs)
      PROVE  Untouched(o, [o EXCEPT !.reviewer[p] = regs])
  <2>1. PICK all : all = [o.reviewer EXCEPT ![p] = regs]
    OBVIOUS
  <2>2. PICK n : n = [o EXCEPT !.reviewer = all]
    OBVIOUS
  <2>3. n.rounds = o.rounds /\ n.task = o.task /\ n.reviewer = [o.reviewer EXCEPT ![p] = regs]
    BY <2>1, <2>2 DEF Shaped, Named
  <2>4. Reviewed(o, n)
    BY <1>1, <2>3, ThreadReviewed
  <2>5. Reviewed(o, [o EXCEPT !.reviewer = all])
    BY <2>2, <2>4
  <2>6. Untouched(o, [o EXCEPT !.reviewer = all])
    BY <2>5, ReviewFieldLeaves
  <2> QED
    BY <2>1, <2>6
<1>2. Untouched(o, [o EXCEPT !.reviewer[p] = IdleReviewer])
  <2>1. PICK regs : regs = IdleReviewer
    OBVIOUS
  <2>2. DOMAIN regs = Registers /\ regs.todo = {} /\ regs.pc = "idle"
    BY <2>1 DEF IdleReviewer, Registers
  <2>3. GoesOn(o, p, regs)
    BY <2>2 DEF GoesOn
  <2>4. Untouched(o, [o EXCEPT !.reviewer[p] = regs])
    BY <1>1, <2>3
  <2> QED
    BY <2>1, <2>4
<1>3. ASSUME NEW pc, IF ReviewerAlive(o, p) THEN pc \notin {"idle", "admitted"}
                     ELSE pc \in {"idle", "admitted"}
      PROVE  Untouched(o, [o EXCEPT !.reviewer[p].pc = pc])
  <2>1. PICK regs : regs = [o.reviewer[p] EXCEPT !.pc = pc]
    OBVIOUS
  <2>2. ASSUME RoundInv(o), p \in Procs PROVE GoesOn(o, p, regs)
    <3>1. InRound(o, p)
      BY <2>2 DEF RoundInv
    <3> QED
      BY <1>3, <2>1, <3>1 DEF InRound, ReviewerAlive, Registers, GoesOn
  <2>3. Untouched(o, [o EXCEPT !.reviewer[p] = regs])
    BY <1>1, <2>2
  <2> QED
    BY <2>1, <2>3
<1> QED
  BY <1>2, <1>3

\* No step at all.
LEMMA LeavesSelf ==
  ASSUME NEW o, Shaped(o) PROVE Untouched(o, o)
BY SameReview DEF Untouched

\* set_objective_phase writes phase and status, no promotion.
LEMMA SetPhaseLeaves ==
  ASSUME NEW o, NEW phase, Shaped(o) PROVE Untouched(o, SetPhase(o, phase))
<1> DEFINE n == [o EXCEPT !.phase = phase]
<1>1. Untouched(o, n) /\ Shaped(n)
  BY FieldLeaves DEF Named, Elsewhere, Untouched
<1>2. Untouched(n, [n EXCEPT !.status = StatusOfPhase(phase)])
  BY <1>1, FieldLeaves DEF Named, Elsewhere
<1> QED
  BY <1>1, <1>2, LeavesTrans DEF SetPhase

\* update_objective_phase writes the status alone.
LEMMA UpdateLeaves ==
  ASSUME NEW o, Shaped(o) PROVE Untouched(o, UpdateObjectivePhase(o))
BY FieldLeaves, LeavesSelf DEF Named, Elsewhere, UpdateObjectivePhase

\* update_task_status writes a task, a remediation only once there is one, and then
\* the derived status.
LEMMA SetTaskLeaves ==
  ASSUME NEW o, NEW t, NEW st \in TaskStatus, Shaped(o),
         t \in FixTasks => o.task[t] # "none"
  PROVE  Untouched(o, SetTask(o, t, st))
<1>1. PICK more : more = [o.task EXCEPT ![t] = st]
  OBVIOUS
<1>2. PICK n : n = [o EXCEPT !.task = more]
  OBVIOUS
<1>3. n.rounds = o.rounds /\ n.reviewer = o.reviewer /\ n.task = more
  BY <1>2 DEF Shaped, Named
<1>4. ASSUME RoundInv(o)
      PROVE  /\ more \in [TaskIds -> TaskStatus]
             /\ \A u \in FixTasks : more[u] # "none" => o.task[u] # "none"
  <2>1. o.task \in [TaskIds -> TaskStatus] /\ FixTasks \subseteq TaskIds
    BY <1>4 DEF RoundInv, TaskIds
  <2> QED
    BY <1>1, <2>1
<1>5. Untouched(o, n) /\ Shaped(n)
  <2>1. Reviewed(o, [o EXCEPT !.task = more])
    BY <1>2, <1>3, <1>4, TasksReviewed
  <2>2. Untouched(o, [o EXCEPT !.task = more])
    BY <2>1, ReviewFieldLeaves
  <2> QED
    BY <1>2, <2>2 DEF Untouched
<1>6. Untouched(o, UpdateObjectivePhase(n))
  BY <1>5, UpdateLeaves, LeavesTrans
<1>7. SetTask(o, t, st) = UpdateObjectivePhase(n)
  BY <1>1, <1>2 DEF SetTask
<1> QED
  BY <1>6, <1>7

\* The end records of a generation and of a round.
LEMMA EndLeaves ==
  ASSUME NEW o, NEW i, NEW end \in {"completed", "failed"}, Shaped(o)
  PROVE  Untouched(o, EndGeneration(o, i, end)) /\ Untouched(o, EndRound(o, i, end))
<1>1. Untouched(o, EndGeneration(o, i, end))
  <2>1. PICK more : more = [o.gens EXCEPT ![i].end = IF @ = "failed" THEN @ ELSE end]
    OBVIOUS
  <2>2. EndGeneration(o, i, end) = [o EXCEPT !.gens = more]
    BY <2>1 DEF EndGeneration
  <2>3. Untouched(o, [o EXCEPT !.gens = more])
    BY FieldLeaves DEF Named, Elsewhere
  <2> QED
    BY <2>2, <2>3
<1>2. Untouched(o, EndRound(o, i, end))
  <2>1. PICK more : more = [o.rounds EXCEPT ![i].end = IF @ = "failed" THEN @ ELSE end]
    OBVIOUS
  <2>2. PICK n : n = [o EXCEPT !.rounds = more]
    OBVIOUS
  <2>3. n.rounds = more /\ n.task = o.task /\ n.reviewer = o.reviewer
    BY <2>2 DEF Shaped, Named
  <2>4. ASSUME RoundInv(o)
        PROVE  /\ more \in Seq(RoundRecords) /\ Len(more) = Len(o.rounds)
               /\ \A k \in 1..Len(o.rounds) : /\ more[k].packets = o.rounds[k].packets
                                              /\ more[k].override = o.rounds[k].override
    <3>1. o.rounds \in Seq(RoundRecords)
      BY <2>4 DEF RoundInv
    <3>2. PICK rec : rec = [o.rounds[i] EXCEPT !.end = IF @ = "failed" THEN @ ELSE end]
      OBVIOUS
    <3>3. more = [o.rounds EXCEPT ![i] = rec]
      BY <2>1, <3>2
    <3>4. \A k \in 1..Len(o.rounds) : o.rounds[k] \in RoundRecords
      BY <3>1
    <3>5. i \in 1..Len(o.rounds) =>
            /\ rec \in RoundRecords /\ rec.packets = o.rounds[i].packets
            /\ rec.override = o.rounds[i].override
      BY <3>2, <3>4 DEF RoundRecords
    <3>6. /\ more \in Seq(RoundRecords) /\ Len(more) = Len(o.rounds)
          /\ \A k \in 1..Len(o.rounds) : more[k] = IF k = i THEN rec ELSE o.rounds[k]
      BY <3>1, <3>3, <3>5, RoundUpdate
    <3> QED
      BY <3>5, <3>6
  <2>5. Reviewed(o, n)
    BY <2>3, <2>4, RoundsReviewed
  <2>6. Untouched(o, n)
    <3>1. Reviewed(o, [o EXCEPT !.rounds = more])
      BY <2>2, <2>5
    <3>2. Untouched(o, [o EXCEPT !.rounds = more])
      BY <3>1, ReviewFieldLeaves
    <3> QED
      BY <2>2, <3>2
  <2>7. EndRound(o, i, end) = n
    BY <2>1, <2>2 DEF EndRound
  <2> QED
    BY <2>6, <2>7
<1> QED
  BY <1>1, <1>2

-----------------------------------------------------------------------------
(* The handlers of generations.                                            *)

\* Interrupting a stale generation touches its record alone.
LEMMA ClearGenerationLeaves ==
  ASSUME NEW o, NEW p, NEW aged, Shaped(o)
  PROVE  Untouched(o, ClearStaleGeneration(o, p, aged))
BY LeavesSelf, EndLeaves DEF ClearStaleGeneration, MarkGenerationInterrupted

\* So does starting one: the record and the registers of its thread.
LEMMA StartGenerationLeaves ==
  ASSUME NEW o, NEW p, Shaped(o) PROVE Untouched(o, StartGeneration(o, p))
<1>1. PICK n : n = StartGeneration(o, p)
  OBVIOUS
<1>2. /\ Shaped(n) /\ n.pushed = o.pushed /\ n.marked = o.marked /\ n.promo = o.promo
      /\ n.rounds = o.rounds /\ n.task = o.task /\ n.reviewer = o.reviewer
  BY <1>1 DEF Shaped, Named, StartGeneration
<1> QED
  BY <1>1, <1>2, SameLeaves

\* queue_atomic_generation, in one step or as a poll does it.
LEMMA QueueLeaves ==
  ASSUME NEW o, NEW p, NEW aged, Shaped(o)
  PROVE  /\ Untouched(o, QueueAtomicGeneration(o, p, aged))
         /\ Untouched(o, AdmitGeneration(o, p, aged))
<1> DEFINE cleared == ClearStaleGeneration(o, p, aged)
<1>1. Untouched(o, cleared) /\ Shaped(cleared)
  BY ClearGenerationLeaves DEF Untouched
<1>2. Untouched(cleared, StartGeneration(cleared, p))
  BY <1>1, StartGenerationLeaves
<1>3. Untouched(cleared, [cleared EXCEPT !.planner[p].pc = "admitted"])
  BY <1>1, FieldLeaves DEF Named, Elsewhere
<1>4. Untouched(o, StartGeneration(cleared, p))
  BY <1>1, <1>2, LeavesTrans
<1>5. Untouched(o, [cleared EXCEPT !.planner[p].pc = "admitted"])
  BY <1>1, <1>3, LeavesTrans
<1> QED
  BY <1>1, <1>4, <1>5 DEF QueueAtomicGeneration, AdmitGeneration

\* _maybe_resume_atomic_generation.
LEMMA ResumeGenerationLeaves ==
  ASSUME NEW o, NEW p, NEW aged, Shaped(o)
  PROVE  Untouched(o, ResumeGeneration(o, p, aged))
<1> DEFINE cleared == ClearStaleGeneration(o, p, aged)
<1>1. Untouched(o, cleared) /\ Shaped(cleared)
  BY ClearGenerationLeaves DEF Untouched
<1>2. Untouched(cleared, AdmitGeneration(cleared, p, aged))
  BY <1>1, QueueLeaves
<1>3. Untouched(o, AdmitGeneration(cleared, p, aged))
  BY <1>1, <1>2, LeavesTrans
<1> QED
  BY <1>1, <1>3, LeavesSelf DEF ResumeGeneration

\* No step of _run_atomic_generation touches a promotion.
LEMMA PlanLeaves ==
  ASSUME NEW p, Shaped(obj), Plan(p) PROVE Untouched(obj, obj')
<1>1. CASE obj' = ReadDiagram(obj, p)
  <2> DEFINE phased == SetPhase(obj, "trio_planning")
             moved  == IF obj.planner[p].copy # "mermaid_review" THEN obj
                       ELSE [phased EXCEPT !.planner[p].copy = "trio_planning"]
             read   == [moved EXCEPT !.planner[p].pc = "trio"]
  <2>1. Untouched(obj, phased) /\ Shaped(phased)
    BY SetPhaseLeaves DEF Untouched
  <2>2. Untouched(phased, [phased EXCEPT !.planner[p].copy = "trio_planning"])
    BY <2>1, FieldLeaves DEF Named, Elsewhere
  <2>3. Untouched(obj, moved) /\ Shaped(moved)
    BY <2>1, <2>2, LeavesTrans, LeavesSelf DEF Untouched
  <2>4. Untouched(moved, read) /\ Shaped(read)
    BY <2>3, FieldLeaves DEF Named, Elsewhere, Untouched
  <2>5. Untouched(read, [read EXCEPT !.planner[p].trio = 1])
    BY <2>4, FieldLeaves DEF Named, Elsewhere
  <2>6. obj' = [read EXCEPT !.planner[p].trio = 1]
    BY <1>1 DEF ReadDiagram
  <2> QED
    BY <2>3, <2>4, <2>5, <2>6, LeavesTrans
<1>2. CASE obj' = PlansPassed(obj, p)
  <2> DEFINE at == [obj EXCEPT !.planner[p].pc = "publish"]
  <2>1. Untouched(obj, at) /\ Shaped(at)
    BY FieldLeaves DEF Named, Elsewhere, Untouched
  <2>2. Untouched(at, [at EXCEPT !.planner[p].left = Units])
    BY <2>1, FieldLeaves DEF Named, Elsewhere
  <2>3. obj' = [at EXCEPT !.planner[p].left = Units]
    BY <1>2 DEF PlansPassed
  <2> QED
    BY <2>1, <2>2, <2>3, LeavesTrans
<1>3. CASE obj' = PlansRejected(obj, p)
  <2>1. Untouched(obj, EndGeneration(obj, obj.planner[p].gen, "failed"))
    BY EndLeaves
  <2> DEFINE ended  == EndGeneration(obj, obj.planner[p].gen, "failed")
             paused == [ended EXCEPT !.status = "paused"]
  <2>2. Untouched(ended, paused) /\ Shaped(paused)
    BY <2>1, FieldLeaves DEF Named, Elsewhere, Untouched
  <2>3. Untouched(paused, [paused EXCEPT !.planner[p] = IdlePlanner])
    BY <2>2, FieldLeaves DEF Named, Elsewhere
  <2>4. Untouched(obj, [obj EXCEPT !.planner[p].trio = @ + 1])
    BY FieldLeaves DEF Named, Elsewhere
  <2>5. \/ obj' = [obj EXCEPT !.planner[p].trio = @ + 1]
        \/ obj' = [paused EXCEPT !.planner[p] = IdlePlanner]
    BY <1>3 DEF PlansRejected
  <2> QED
    BY <2>1, <2>2, <2>3, <2>4, <2>5, LeavesTrans
<1>4. CASE \E u \in obj.planner[p].left : obj' = PublishUnit(obj, p, u)
  <2>1. PICK u : obj' = PublishUnit(obj, p, u)
    BY <1>4
  <2>2. PICK more : more = [obj.task EXCEPT ![<<"unit", obj.planner[p].gen, u>>] = "pending"]
    OBVIOUS
  <2>3. /\ Shaped(obj') /\ obj'.pushed = obj.pushed /\ obj'.marked = obj.marked
        /\ obj'.promo = obj.promo /\ obj'.task = more
        /\ obj'.rounds = obj.rounds /\ obj'.reviewer = obj.reviewer
    BY <2>1, <2>2 DEF PublishUnit, Shaped, Named
  <2>4. \A t \in FixTasks : more[t] = obj.task[t] \/ t \notin DOMAIN obj.task
    <3>1. \A t \in FixTasks : t # <<"unit", obj.planner[p].gen, u>>
      BY DEF FixTasks
    <3> QED
      BY <2>2, <3>1
  <2>5. ASSUME RoundInv(obj)
        PROVE  /\ more \in [TaskIds -> TaskStatus]
               /\ \A t \in FixTasks : more[t] # "none" => obj.task[t] # "none"
    <3>1. obj.task \in [TaskIds -> TaskStatus] /\ FixTasks \subseteq TaskIds
      BY <2>5 DEF RoundInv, TaskIds
    <3> QED
      BY <2>2, <2>4, <3>1 DEF TaskStatus
  <2>6. Reviewed(obj, obj')
    BY <2>3, <2>5, TasksReviewed
  <2> QED
    BY <2>3, <2>6 DEF Untouched
<1>5. CASE obj' = ToExecuting(obj, p)
  <2>1. Untouched(obj, SetPhase(obj, "executing"))
    BY SetPhaseLeaves
  <2> DEFINE moved == IF obj.planner[p].copy = "trio_planning" THEN SetPhase(obj, "executing")
                      ELSE obj
  <2>2. Untouched(obj, moved) /\ Shaped(moved)
    BY <2>1, LeavesSelf DEF Untouched
  <2>3. Untouched(moved, [moved EXCEPT !.planner[p].pc = "finish"])
    BY <2>2, FieldLeaves DEF Named, Elsewhere
  <2>4. obj' = [moved EXCEPT !.planner[p].pc = "finish"]
    BY <1>5 DEF ToExecuting
  <2> QED
    BY <2>2, <2>3, <2>4, LeavesTrans
<1>6. CASE obj' = FinishGeneration(obj, p)
  <2> DEFINE ended == EndGeneration(obj, obj.planner[p].gen, "completed")
             idle  == [ended EXCEPT !.planner[p] = IdlePlanner]
  <2>1. Untouched(obj, ended)
    BY EndLeaves
  <2>2. Shaped(ended)
    BY <2>1 DEF Untouched
  <2>3. Untouched(ended, idle)
    BY <2>2, FieldLeaves DEF Named, Elsewhere
  <2>4. Untouched(obj, idle)
    BY <2>1, <2>3, LeavesTrans
  <2>5. Shaped(idle)
    BY <2>4 DEF Untouched
  <2>6. Untouched(idle, UpdateObjectivePhase(idle))
    BY <2>5, UpdateLeaves
  <2> QED
    BY <1>6, <2>4, <2>6, LeavesTrans DEF FinishGeneration
<1> QED
  BY <1>1, <1>2, <1>3, <1>4, <1>5, <1>6 DEF Plan

-----------------------------------------------------------------------------
(* The handlers of review rounds.                                          *)

\* A round is added, with a thread of its own or none; in it nothing is said yet.
Adds(o, n, p, regs) ==
  /\ n.rounds = Append(o.rounds, NewRound) /\ n.task = o.task
  /\ \/ n.reviewer = o.reviewer
     \/ /\ n.reviewer = [o.reviewer EXCEPT ![p] = regs]
        /\ DOMAIN regs = Registers /\ regs.todo = Dims /\ regs.pc = "packets"
        /\ RoundInv(o) => regs.round = Len(o.rounds) + 1

\* The thread of a new round is alone in it.
LEMMA RoundAdded ==
  ASSUME NEW o, NEW n, NEW p, NEW regs, Adds(o, n, p, regs) PROVE Reviewed(o, n)
<1> SUFFICES ASSUME RoundInv(o) PROVE RoundInv(n) /\ Further(o, n)
  BY DEF Reviewed
<1> USE DEF Adds
<1>1. o.rounds \in Seq(RoundRecords) /\ Len(o.rounds) \in Nat /\ DOMAIN o.reviewer = Procs
  BY DEF RoundInv
<1>2. /\ NewRound \in RoundRecords /\ NewRound.packets = [d \in Dims |-> "none"]
  BY DEF NewRound, RoundRecords
<1>3. /\ n.rounds \in Seq(RoundRecords) /\ Len(n.rounds) = Len(o.rounds) + 1
      /\ \A k \in 1..Len(o.rounds) : n.rounds[k] = o.rounds[k]
      /\ n.rounds[Len(o.rounds) + 1] = NewRound
  BY <1>1, <1>2
<1>4. Further(o, n)
  BY <1>1, <1>3 DEF Further
<1>5. \A q \in Procs : \/ n.reviewer[q] = o.reviewer[q]
                       \/ /\ n.reviewer[q] = regs /\ q = p
                          /\ DOMAIN regs = Registers /\ regs.todo = Dims
                          /\ regs.pc = "packets" /\ regs.round = Len(o.rounds) + 1
  BY <1>1
<1>6. \A q \in Procs : InRound(n, q)
  <2> SUFFICES ASSUME NEW q \in Procs PROVE InRound(n, q)
    OBVIOUS
  <2>1. InRound(o, q)
    BY DEF RoundInv
  <2>2. CASE n.reviewer[q] = o.reviewer[q]
    <3>1. n.reviewer[q].round \in 1..Len(o.rounds) =>
            /\ n.reviewer[q].round \in 1..Len(n.rounds)
            /\ n.rounds[n.reviewer[q].round] = o.rounds[n.reviewer[q].round]
      BY <1>1, <1>3
    <3>2. n.reviewer[q].todo # {} => n.reviewer[q].round \in 1..Len(o.rounds)
      BY <2>1, <2>2 DEF InRound
    <3> QED
      BY <2>1, <2>2, <3>1, <3>2 DEF InRound
  <2>3. CASE /\ n.reviewer[q] = regs /\ DOMAIN regs = Registers /\ regs.todo = Dims
             /\ regs.pc = "packets" /\ regs.round = Len(o.rounds) + 1
    BY <1>1, <1>2, <1>3, <2>3 DEF InRound
  <2> QED
    BY <1>5, <2>2, <2>3
<1>7. \A q \in Procs : o.reviewer[q].todo # {} => o.reviewer[q].round \in 1..Len(o.rounds)
  BY DEF RoundInv, InRound
<1>8. \A q, s \in Procs : q # s /\ n.reviewer[q].todo # {} /\ n.reviewer[s].todo # {}
                           => n.reviewer[q].round # n.reviewer[s].round
  BY <1>1, <1>5, <1>7 DEF RoundInv
<1>9. n.reviewer = [q \in Procs |-> n.reviewer[q]]
  BY DEF RoundInv
<1>10. \A t \in FixTasks : n.task[t] # "none" => Raised(n, t)
  <2> SUFFICES ASSUME NEW t \in FixTasks, n.task[t] # "none" PROVE Raised(n, t)
    OBVIOUS
  <2>1. t[2] \in 1..Len(o.rounds) /\ o.rounds[t[2]].packets[t[3]] = "concern"
    BY DEF RoundInv, Raised
  <2>2. t[2] \in 1..Len(n.rounds) /\ n.rounds[t[2]] = o.rounds[t[2]]
    BY <1>1, <1>3, <2>1
  <2> QED
    BY <2>1, <2>2 DEF Raised
<1> QED
  BY <1>3, <1>4, <1>6, <1>8, <1>9, <1>10 DEF RoundInv

\* A started round: its record, the phase and the registers of its thread.
LEMMA StartRoundLeaves ==
  ASSUME NEW o, NEW p, Shaped(o) PROVE Untouched(o, StartRound(o, p))
<1> DEFINE recorded == [o EXCEPT !.rounds = Append(@, NewRound)]
           moved    == IF o.phase = "executing" THEN SetPhase(recorded, "reviewing")
                       ELSE recorded
           regs     == [IdleReviewer EXCEPT !.pc = "packets", !.round = Len(moved.rounds),
                                            !.copy = moved.phase, !.todo = Dims]
           begun    == [moved EXCEPT !.reviewer[p] = regs]
<1>1. /\ Shaped(recorded) /\ recorded.rounds = Append(o.rounds, NewRound)
      /\ recorded.task = o.task /\ recorded.reviewer = o.reviewer
      /\ recorded.pushed = o.pushed /\ recorded.marked = o.marked /\ recorded.promo = o.promo
  BY DEF Shaped, Named
<1> HIDE DEF recorded
<1>2. /\ Shaped(moved) /\ moved.rounds = Append(o.rounds, NewRound)
      /\ moved.task = o.task /\ moved.reviewer = o.reviewer
      /\ moved.pushed = o.pushed /\ moved.marked = o.marked /\ moved.promo = o.promo
  BY <1>1 DEF Shaped, Named, SetPhase
<1> HIDE DEF moved
<1>3. /\ DOMAIN regs = Registers /\ regs.todo = Dims /\ regs.pc = "packets"
      /\ regs.round = Len(moved.rounds)
  BY DEF IdleReviewer, Registers
<1> HIDE DEF regs
<1>4. /\ Shaped(begun) /\ begun.rounds = Append(o.rounds, NewRound)
      /\ begun.task = o.task /\ begun.reviewer = [o.reviewer EXCEPT ![p] = regs]
      /\ begun.pushed = o.pushed /\ begun.marked = o.marked /\ begun.promo = o.promo
  BY <1>2 DEF Shaped, Named
<1> HIDE DEF begun
<1>5. ASSUME RoundInv(o) PROVE Len(moved.rounds) = Len(o.rounds) + 1
  BY <1>2, <1>5 DEF RoundInv
<1>6. Untouched(o, moved)
  <2>1. Adds(o, moved, p, regs)
    BY <1>2 DEF Adds
  <2> QED
    BY <1>2, <2>1, RoundAdded DEF Untouched
<1>7. Untouched(o, begun)
  <2>1. RoundInv(o) => regs.round = Len(o.rounds) + 1
    BY <1>3, <1>5
  <2>2. Adds(o, begun, p, regs)
    BY <1>3, <1>4, <2>1 DEF Adds
  <2> QED
    BY <1>4, <2>2, RoundAdded DEF Untouched
<1>8. Untouched(o, [o EXCEPT !.reviewer[p].pc = IF ReviewerAlive(o, p) THEN @ ELSE "idle"])
  <2>1. CASE ReviewerAlive(o, p)
    BY <2>1, ThreadLeaves DEF ReviewerAlive
  <2>2. CASE ~ReviewerAlive(o, p)
    BY <2>2, ThreadLeaves
  <2> QED
    BY <2>1, <2>2
<1>9. \/ StartRound(o, p) = moved \/ StartRound(o, p) = begun
      \/ StartRound(o, p) =
           [o EXCEPT !.reviewer[p].pc = IF ReviewerAlive(o, p) THEN @ ELSE "idle"]
  BY DEF StartRound, begun, regs, moved, recorded
<1> QED
  BY <1>6, <1>7, <1>8, <1>9

\* Interrupting a stale round touches its record alone.
LEMMA ClearRoundLeaves ==
  ASSUME NEW o, NEW p, NEW aged, Shaped(o)
  PROVE  /\ Untouched(o, ClearStaleRound(o, p, aged))
         /\ ClearStaleRound(o, p, aged).task = o.task
<1>1. EndRound(o, Len(o.rounds), "failed").task = o.task
  BY DEF Shaped, Named, EndRound
<1> QED
  BY <1>1, LeavesSelf, EndLeaves DEF ClearStaleRound, MarkReviewInterrupted

\* queue_objective_review, as a poll does it.
LEMMA AdmitRoundLeaves ==
  ASSUME NEW o, NEW p, NEW aged, Shaped(o) PROVE Untouched(o, AdmitRound(o, p, aged))
<1> DEFINE cleared == ClearStaleRound(o, p, aged)
<1>1. Untouched(o, cleared) /\ Shaped(cleared)
  BY ClearRoundLeaves DEF Untouched
<1>2. Untouched(o, StartRound(cleared, p))
  BY <1>1, StartRoundLeaves, LeavesTrans
<1>3. ~ReviewerAlive(cleared, p) =>
        Untouched(cleared, [cleared EXCEPT !.reviewer[p].pc = "admitted"])
  BY <1>1, ThreadLeaves
<1>4. ~ReviewerAlive(cleared, p) =>
        Untouched(o, [cleared EXCEPT !.reviewer[p].pc = "admitted"])
  BY <1>1, <1>3, LeavesTrans
<1> QED
  BY <1>1, <1>2, <1>4 DEF AdmitRound

\* A field is written, and the status derived again.
LEMMA FieldUpdateLeaves ==
  ASSUME NEW o, NEW f \in Elsewhere, NEW v, Shaped(o)
  PROVE  Untouched(o, UpdateObjectivePhase([o EXCEPT ![f] = v]))
<1> DEFINE n == [o EXCEPT ![f] = v]
<1>1. Untouched(o, n) /\ Shaped(n)
  BY FieldLeaves DEF Untouched
<1> QED
  BY <1>1, UpdateLeaves, LeavesTrans

\* Tasks that become pending: what has failed, or what a concern of a round asks for.
LEMMA PendingLeaves ==
  ASSUME NEW o, NEW ts, Shaped(o),
         RoundInv(o) => \A t \in ts : o.task[t] # "none" \/ Raised(o, t)
  PROVE  Untouched(o, UpdateObjectivePhase([o EXCEPT !.task =
           [t \in TaskIds |-> IF t \in ts THEN "pending" ELSE o.task[t]]]))
<1>1. PICK more : more = [t \in TaskIds |-> IF t \in ts THEN "pending" ELSE o.task[t]]
  OBVIOUS
<1>2. PICK n : n = [o EXCEPT !.task = more]
  OBVIOUS
<1>3. n.rounds = o.rounds /\ n.reviewer = o.reviewer /\ n.task = more
  BY <1>2 DEF Shaped, Named
<1>4. ASSUME RoundInv(o)
      PROVE  /\ more \in [TaskIds -> TaskStatus]
             /\ \A t \in FixTasks : more[t] # "none" => o.task[t] # "none" \/ Raised(o, t)
  <2>1. o.task \in [TaskIds -> TaskStatus] /\ FixTasks \subseteq TaskIds
    BY <1>4 DEF RoundInv, TaskIds
  <2> QED
    BY <1>1, <1>4, <2>1 DEF TaskStatus
<1>5. Reviewed(o, n)
  BY <1>3, <1>4, TasksReviewed
<1>6. Untouched(o, [o EXCEPT !.task = more])
  BY <1>2, <1>5, ReviewFieldLeaves
<1>7. Untouched(o, n) /\ Shaped(n)
  BY <1>2, <1>6 DEF Untouched
<1>8. Untouched(o, UpdateObjectivePhase(n))
  BY <1>7, UpdateLeaves, LeavesTrans
<1> QED
  BY <1>1, <1>2, <1>8

\* _maybe_resume_objective_review: retries, remediations or a new round.
LEMMA ResumeReviewLeaves ==
  ASSUME NEW o, NEW p, NEW aged, NEW safe \in SUBSET FailedFixes(o), Shaped(o)
  PROVE  Untouched(o, ResumeReview(o, p, aged, safe))
<1> DEFINE cleared == ClearStaleRound(o, p, aged)
           open    == {<<"fix", Len(cleared.rounds), d>> :
                         d \in Concerns(cleared, Len(cleared.rounds))}
           retried == [t \in TaskIds |-> IF t \in safe THEN "pending" ELSE cleared.task[t]]
           remedy  == [t \in TaskIds |-> IF t \in open THEN "pending" ELSE cleared.task[t]]
<1>1. Untouched(o, cleared) /\ cleared.task = o.task
  BY ClearRoundLeaves
<1>2. Shaped(cleared)
  BY <1>1 DEF Untouched
<1> HIDE DEF cleared
<1>3. Untouched(cleared, AutoRetried(cleared, safe))
  <2>1. \A t \in safe : cleared.task[t] # "none"
    BY <1>1 DEF FailedFixes, InState
  <2>2. Untouched(cleared, UpdateObjectivePhase([cleared EXCEPT !.task = retried]))
    BY <1>2, <2>1, PendingLeaves
  <2> QED
    BY <2>2 DEF AutoRetried
<1>4. Len(cleared.rounds) > 0 =>
        Untouched(cleared, UpdateObjectivePhase([cleared EXCEPT !.task = remedy]))
  <2> SUFFICES ASSUME Len(cleared.rounds) > 0
               PROVE  Untouched(cleared, UpdateObjectivePhase([cleared EXCEPT !.task = remedy]))
    OBVIOUS
  <2>1. RoundInv(cleared) => \A t \in open : Raised(cleared, t)
    BY DEF Raised, Concerns, RoundInv
  <2> QED
    BY <1>2, <2>1, PendingLeaves
<1>5. Untouched(cleared, AdmitRound(cleared, p, aged))
  BY <1>2, AdmitRoundLeaves
<1>6. Untouched(cleared, ResumeReview(o, p, aged, safe))
  BY <1>2, <1>3, <1>4, <1>5, LeavesSelf DEF ResumeReview, cleared
<1> QED
  BY <1>1, <1>6, LeavesTrans

\* reconcile_objective_workflow, from a poll or at the end of a command.
LEMMA ReconciledLeaves ==
  ASSUME NEW o, NEW p, NEW aged, NEW polled, Shaped(o)
  PROVE  Untouched(o, Reconciled(o, p, aged, polled))
<1> DEFINE derived == UpdateObjectivePhase(o)
<1>1. Untouched(o, derived) /\ Shaped(derived)
  BY UpdateLeaves DEF Untouched
<1>2. /\ Untouched(derived, AdmitGeneration(derived, p, aged))
      /\ Untouched(derived, QueueAtomicGeneration(derived, p, aged))
      /\ Untouched(derived, AdmitRound(derived, p, aged))
  BY <1>1, QueueLeaves, AdmitRoundLeaves
<1>3. Untouched(derived, Reconciled(o, p, aged, polled))
  BY <1>1, <1>2, LeavesSelf DEF Reconciled
<1> QED
  BY <1>1, <1>3, LeavesTrans

-----------------------------------------------------------------------------
(* The handlers of the operator.                                           *)

\* A new version of the diagram.
LEMMA NewDiagramLeaves ==
  ASSUME NEW o, NEW drawn, Shaped(o)
  PROVE  Untouched(o, NewDiagram(o, drawn)) /\ Shaped(NewDiagram(o, drawn))
<1> DEFINE next == [o EXCEPT !.version = o.version + 1]
<1>1. Untouched(o, next) /\ Shaped(next)
  BY FieldLeaves DEF Named, Elsewhere, Untouched
<1>2. Untouched(next, [next EXCEPT !.drawn = drawn])
  BY <1>1, FieldLeaves DEF Named, Elsewhere
<1>3. NewDiagram(o, drawn) = [next EXCEPT !.drawn = drawn]
  BY DEF NewDiagram
<1>4. Untouched(o, NewDiagram(o, drawn))
  BY <1>1, <1>2, <1>3, LeavesTrans
<1> QED
  BY <1>4 DEF Untouched

\* update_mermaid_artifact with a finished diagram, up to its reconcile.
LEMMA FinishDiagramLeaves ==
  ASSUME NEW o, Shaped(o) PROVE Untouched(o, FinishDiagram(o))
<1> DEFINE drawn == NewDiagram(o, "finished")
<1>1. Untouched(o, drawn) /\ Shaped(drawn)
  BY NewDiagramLeaves
<1>2. Untouched(drawn, SetPhase(drawn, "mermaid_review"))
  BY <1>1, SetPhaseLeaves
<1> QED
  BY <1>1, <1>2, LeavesTrans DEF FinishDiagram

\* The two fields that an approval writes.
LEMMA PlanningLeaves ==
  ASSUME NEW o, NEW v, Shaped(o)
  PROVE  /\ Untouched(o, [o EXCEPT !.status = "planning", !.interrogated = v])
         /\ Untouched(o, [o EXCEPT !.status = "planning", !.proposed = v])
<1> DEFINE n == [o EXCEPT !.status = "planning"]
<1>1. Untouched(o, n) /\ Shaped(n)
  BY FieldLeaves DEF Named, Elsewhere, Untouched
<1>2. Untouched(n, [n EXCEPT !.interrogated = v]) /\ Untouched(n, [n EXCEPT !.proposed = v])
  BY <1>1, FieldLeaves DEF Named, Elsewhere
<1> QED
  BY <1>1, <1>2, LeavesTrans

\* The same, up to the generation it queues.
LEMMA ApproveLeaves ==
  ASSUME NEW o, NEW p, NEW aged, Shaped(o) PROVE Untouched(o, ApproveDiagram(o, p, aged))
<1> DEFINE drawn    == FinishDiagram(o)
           approved == [drawn EXCEPT !.status = "planning", !.interrogated = TRUE]
<1>1. Untouched(o, drawn) /\ Shaped(drawn)
  BY FinishDiagramLeaves DEF Untouched
<1>2. Untouched(drawn, approved) /\ Shaped(approved)
  BY <1>1, PlanningLeaves DEF Untouched
<1>3. Untouched(approved, QueueAtomicGeneration(approved, p, aged))
  BY <1>2, QueueLeaves
<1>4. Untouched(o, QueueAtomicGeneration(approved, p, aged))
  BY <1>1, <1>2, <1>3, LeavesTrans
<1> QED
  BY <1>1, <1>4 DEF ApproveDiagram

\* A diagram that is paused or sent back to draft.
LEMMA DrawLeaves ==
  ASSUME NEW o, Shaped(o)
  PROVE  Untouched(o, PauseDiagram(o)) /\ Untouched(o, ReviseDiagram(o))
<1>1. ASSUME NEW drawn, NEW status
      PROVE  Untouched(o, [NewDiagram(o, drawn) EXCEPT !.status = status])
  <2> DEFINE next == NewDiagram(o, drawn)
  <2>1. Untouched(o, next) /\ Shaped(next)
    BY NewDiagramLeaves
  <2>2. Untouched(next, [next EXCEPT !.status = status])
    BY <2>1, FieldLeaves DEF Named, Elsewhere
  <2> QED
    BY <2>1, <2>2, LeavesTrans
<1> QED
  BY <1>1 DEF PauseDiagram, ReviseDiagram

\* accept_mermaid_proposal.
LEMMA AcceptLeaves ==
  ASSUME NEW o, NEW p, NEW aged, Shaped(o) PROVE Untouched(o, AcceptProposal(o, p, aged))
<1> DEFINE drawn == NewDiagram(o, "finished")
           taken == [drawn EXCEPT !.status = "planning", !.proposed = FALSE]
<1>1. Untouched(o, drawn) /\ Shaped(drawn)
  BY NewDiagramLeaves
<1>2. Untouched(drawn, taken) /\ Shaped(taken)
  BY <1>1, PlanningLeaves DEF Untouched
<1>3. Untouched(taken, QueueAtomicGeneration(taken, p, aged))
  BY <1>2, QueueLeaves
<1> QED
  BY <1>1, <1>2, <1>3, LeavesTrans DEF AcceptProposal

\* Counting a command.
LEMMA EditLeaves ==
  ASSUME NEW o, NEW n, Untouched(o, n) PROVE Untouched(o, Edit(n))
<1>1. Untouched(n, Edit(n))
  BY FieldLeaves DEF Edit, Named, Elsewhere, Untouched
<1> QED
  BY <1>1, LeavesTrans

\* update_mermaid_artifact as a whole leaves promotions alone.
LEMMA UpdateDiagramLeaves ==
  ASSUME Shaped(obj), UpdateDiagram PROVE Untouched(obj, obj')
<1>1. ASSUME NEW n, NEW aged, Untouched(obj, n)
      PROVE  Untouched(obj, Edit(Reconciled(n, "ui", aged, FALSE)))
  <2>1. Shaped(n)
    BY <1>1 DEF Untouched
  <2>2. Untouched(n, Reconciled(n, "ui", aged, FALSE))
    BY <2>1, ReconciledLeaves
  <2> QED
    BY <1>1, <2>2, LeavesTrans, EditLeaves
<1>2. PICK aged \in BOOLEAN :
        \/ obj' = Edit(FinishDiagram(obj))
        \/ obj' = Edit(Reconciled(ApproveDiagram(obj, "ui", aged), "ui", aged, FALSE))
        \/ obj' = Edit(Reconciled(PauseDiagram(obj), "ui", aged, FALSE))
        \/ obj' = Edit(Reconciled(ReviseDiagram(obj), "ui", aged, FALSE))
  BY DEF UpdateDiagram
<1>3. Untouched(obj, Edit(FinishDiagram(obj)))
  BY FinishDiagramLeaves, EditLeaves
<1> QED
  BY <1>1, <1>2, <1>3, ApproveLeaves, DrawLeaves

\* force_promote_objective_review waives and overrides, and promotes nothing.
LEMMA ForceLeaves ==
  ASSUME NEW o, Shaped(o) PROVE Untouched(o, ForcePromote(o))
<1> DEFINE r == Len(o.rounds)
           ws == o.waived \cup {t \in InState(o, "failed") : t \in FixTasks => t[2] = r}
           n  == [o EXCEPT !.rounds[r].override = TRUE, !.waived = ws]
<1>1. Untouched(o, n) /\ Shaped(n)
  <2>1. PICK rec : rec = [o.rounds[r] EXCEPT !.override = TRUE]
    OBVIOUS
  <2>2. /\ Shaped(n) /\ n.rounds = [o.rounds EXCEPT ![r] = rec]
        /\ n.task = o.task /\ n.reviewer = o.reviewer
        /\ n.pushed = o.pushed /\ n.marked = o.marked /\ n.promo = o.promo
    BY <2>1 DEF Shaped, Named
  <2> HIDE DEF n, r
  <2>3. ASSUME RoundInv(o)
        PROVE  /\ n.rounds \in Seq(RoundRecords) /\ Len(n.rounds) = Len(o.rounds)
               /\ \A k \in 1..Len(o.rounds) : /\ n.rounds[k].packets = o.rounds[k].packets
                                              /\ o.rounds[k].override => n.rounds[k].override
    <3>1. o.rounds \in Seq(RoundRecords)
      BY <2>3 DEF RoundInv
    <3>2. \A k \in 1..Len(o.rounds) : o.rounds[k] \in RoundRecords
      BY <3>1
    <3>3. r \in 1..Len(o.rounds) =>
            rec \in RoundRecords /\ rec.packets = o.rounds[r].packets /\ rec.override
      BY <2>1, <3>2 DEF RoundRecords
    <3>4. PICK last, more : last = r /\ more = n.rounds
      OBVIOUS
    <3>5. more = [o.rounds EXCEPT ![last] = rec]
      BY <2>2, <3>4
    <3>6. last \in 1..Len(o.rounds) => rec \in RoundRecords
      BY <3>3, <3>4
    <3>7. /\ more \in Seq(RoundRecords) /\ Len(more) = Len(o.rounds)
          /\ \A k \in 1..Len(o.rounds) : more[k] = IF k = last THEN rec ELSE o.rounds[k]
      BY <3>1, <3>5, <3>6, RoundUpdate
    <3> QED
      BY <3>3, <3>4, <3>7
  <2>4. Reviewed(o, n)
    BY <2>2, <2>3, RoundsReviewed
  <2> QED
    BY <2>2, <2>4 DEF Untouched
<1>2. Untouched(o, UpdateObjectivePhase(n))
  BY <1>1, UpdateLeaves, LeavesTrans
<1>3. ForcePromote(o) = UpdateObjectivePhase(n)
  BY DEF ForcePromote
<1> QED
  BY <1>2, <1>3

\* The retry_as_is disposition.
LEMMA RetryLeaves ==
  ASSUME NEW o, NEW t, Shaped(o), o.task[t] = "failed"
  PROVE  Untouched(o, [SetTask([o EXCEPT !.waived = @ \ {t}], t, "pending")
                         EXCEPT !.status = "planning"])
<1> DEFINE freed == [o EXCEPT !.waived = @ \ {t}]
           again == SetTask(freed, t, "pending")
<1>1. Untouched(o, freed) /\ Shaped(freed) /\ freed.task = o.task
  <2>1. /\ Shaped(freed) /\ freed.task = o.task
        /\ freed.pushed = o.pushed /\ freed.marked = o.marked /\ freed.promo = o.promo
        /\ freed.rounds = o.rounds /\ freed.reviewer = o.reviewer
    BY DEF Shaped, Named
  <2> HIDE DEF freed
  <2> QED
    BY <2>1, SameLeaves
<1> HIDE DEF freed
<1>2. Untouched(freed, again)
  BY <1>1, SetTaskLeaves DEF TaskStatus
<1> HIDE DEF again
<1>3. Shaped(again)
  BY <1>2 DEF Untouched
<1>4. Untouched(again, [again EXCEPT !.status = "planning"])
  BY <1>3, FieldLeaves DEF Named, Elsewhere
<1>5. Untouched(o, [again EXCEPT !.status = "planning"])
  BY <1>1, <1>2, <1>4, LeavesTrans
<1> QED
  BY <1>5 DEF freed, again

-----------------------------------------------------------------------------
(* A round, up to the promotion that it may end in.                        *)

\* A remediation that a later round may look at, or an override covers.
Followed(o, t) ==
  t[2] \in 1..Len(o.rounds) /\ (t[2] < Len(o.rounds) \/ o.rounds[t[2]].override)

\* A step that only claims w's promotion, from the start.
Claimed(o, n, w) ==
  /\ Shaped(n) /\ Reviewed(o, n)
  /\ n.pushed = o.pushed /\ n.marked = o.marked
  /\ \E ts \in SUBSET TaskIds :
       /\ n.promo = [o.promo EXCEPT ![w] = [pc |-> "push", tasks |-> ts]]
       /\ RoundInv(o) => \A t \in FixTasks \cap ts : Followed(o, t)

\* What was rereviewed stays so: rounds are only added, overrides stand.
LEMMA StaysRereviewed ==
  ASSUME NEW o, NEW n, RoundInv(o), Reviewed(o, n), NEW t, Followed(o, t)
  PROVE  Followed(n, t)
<1>1. RoundInv(n) /\ Further(o, n)
  BY DEF Reviewed
<1>2. Len(o.rounds) \in Nat /\ Len(n.rounds) \in Nat
  BY <1>1 DEF RoundInv
<1> QED
  BY <1>1, <1>2 DEF Further, Followed

\* ReviewClear looks at the last round alone, and that is enough: a remediation of
\* the last round has its concern there.
LEMMA ClearIsRereviewed ==
  ASSUME NEW o, RoundInv(o), ClearToPromote(o), NEW t \in FixTasks \cap InState(o, "completed")
  PROVE  Followed(o, t)
<1>1. Raised(o, t) /\ t[3] \in Dims
  BY DEF RoundInv, InState, FixTasks
<1>2. t[2] = Len(o.rounds) => t[3] \in Concerns(o, Len(o.rounds))
  BY <1>1 DEF Raised, Concerns
<1>3. t[2] = Len(o.rounds) => o.rounds[t[2]].override
  BY <1>2 DEF ClearToPromote, ReviewClear, LastRound
<1>4. t[2] \in 1..Len(o.rounds) /\ Len(o.rounds) \in Nat
  BY <1>1 DEF Raised, RoundInv
<1> QED
  BY <1>3, <1>4 DEF Followed

\* The end of a round's remediation claims the promotion of its own process or none.
LEMMA CloseLeaves ==
  ASSUME NEW p, Shaped(obj), obj.reviewer[p].pc = "remediate", obj' = CloseRemediation(obj, p)
  PROVE  Untouched(obj, obj') \/ Claimed(obj, obj', p)
<1>1. CASE obj.reviewer[p].made
  <2> DEFINE n == [obj EXCEPT !.reviewer[p] = IdleReviewer]
  <2>1. Untouched(obj, n) /\ Shaped(n)
    BY ThreadLeaves DEF Untouched
  <2>2. Untouched(obj, UpdateObjectivePhase(n))
    BY <2>1, UpdateLeaves, LeavesTrans
  <2> QED
    BY <1>1, <2>2 DEF CloseRemediation
<1>2. CASE ~obj.reviewer[p].made /\ ReviewClear(obj) /\ Unapplied(obj) # {}
  <2> DEFINE ts == Unapplied(obj)
  <2>1. obj' = [obj EXCEPT !.reviewer[p].pc = "promote",
                           !.promo[p] = [pc |-> "push", tasks |-> ts]]
    BY <1>2 DEF CloseRemediation
  <2>2. ts \in SUBSET TaskIds /\ ts \subseteq InState(obj, "completed")
    BY DEF Unapplied, InState
  <2>3. obj'.promo = [obj.promo EXCEPT ![p] = [pc |-> "push", tasks |-> ts]]
    BY <2>1 DEF Shaped, Named
  <2>4. PICK n : n = [obj EXCEPT !.reviewer[p].pc = "promote"]
    OBVIOUS
  <2>5. Untouched(obj, n)
    BY <2>4, ThreadLeaves DEF ReviewerAlive
  <2>6. /\ Shaped(obj') /\ obj'.pushed = obj.pushed /\ obj'.marked = obj.marked
        /\ obj'.rounds = n.rounds /\ obj'.task = n.task /\ obj'.reviewer = n.reviewer
    BY <2>1, <2>4 DEF Shaped, Named
  <2>7. Reviewed(obj, obj')
    BY <2>5, <2>6, SameReview, ReviewedTrans DEF Untouched
  <2>8. RoundInv(obj) => \A t \in FixTasks \cap ts : Followed(obj, t)
    BY <1>2, <2>2, ClearIsRereviewed DEF ClearToPromote
  <2> HIDE DEF ts
  <2> QED
    BY <2>2, <2>3, <2>6, <2>7, <2>8 DEF Claimed
<1>3. CASE ~obj.reviewer[p].made /\ ~(ReviewClear(obj) /\ Unapplied(obj) # {})
  <2>1. obj' = [obj EXCEPT !.reviewer[p].pc = "advance"]
    BY <1>3 DEF CloseRemediation
  <2>2. PICK pc : pc = "advance"
    OBVIOUS
  <2>3. Untouched(obj, [obj EXCEPT !.reviewer[p].pc = pc])
    BY <2>2, ThreadLeaves DEF ReviewerAlive
  <2> QED
    BY <2>1, <2>2, <2>3
<1> QED
  BY <1>1, <1>2, <1>3

\* A packet is written once, by the one thread of its round.
LEMMA PacketReviewed ==
  ASSUME NEW p \in Procs, NEW d \in obj.reviewer[p].todo, NEW v \in {"pass", "concern"},
         Shaped(obj), obj' = RecordPacket(obj, p, d, v)
  PROVE  Reviewed(obj, obj')
<1> SUFFICES ASSUME RoundInv(obj) PROVE RoundInv(obj') /\ Further(obj, obj')
  BY DEF Reviewed
<1>1. PICK r : r = obj.reviewer[p].round
  OBVIOUS
<1>2. PICK rec : rec = [obj.rounds[r] EXCEPT !.packets[d] = v]
  OBVIOUS
<1>3. PICK regs : regs = [obj.reviewer[p] EXCEPT !.todo = @ \ {d}]
  OBVIOUS
<1>4. /\ obj'.rounds = [obj.rounds EXCEPT ![r] = rec] /\ obj'.task = obj.task
      /\ obj'.reviewer = [obj.reviewer EXCEPT ![p] = regs]
  BY <1>1, <1>2, <1>3 DEF RecordPacket, Shaped, Named
<1>5. /\ InRound(obj, p) /\ r \in 1..Len(obj.rounds) /\ d \in Dims
      /\ obj.rounds[r].packets[d] = "none"
  BY <1>1 DEF RoundInv, InRound
<1>6. obj.rounds \in Seq(RoundRecords) /\ Len(obj.rounds) \in Nat
  BY DEF RoundInv
<1>7. /\ rec \in RoundRecords /\ rec.override = obj.rounds[r].override
      /\ rec.packets = [obj.rounds[r].packets EXCEPT ![d] = v]
  <2>1. obj.rounds[r] \in RoundRecords
    BY <1>5, <1>6
  <2> QED
    BY <1>2, <2>1 DEF RoundRecords
<1>8. /\ obj'.rounds \in Seq(RoundRecords) /\ Len(obj'.rounds) = Len(obj.rounds)
      /\ \A k \in 1..Len(obj.rounds) : obj'.rounds[k] = IF k = r THEN rec ELSE obj.rounds[k]
  BY <1>4, <1>6, <1>7, RoundUpdate
<1>9. Further(obj, obj')
  BY <1>6, <1>7, <1>8 DEF Further
<1>10. /\ DOMAIN regs = Registers /\ regs.todo = obj.reviewer[p].todo \ {d}
       /\ regs.round = r /\ regs.pc = obj.reviewer[p].pc
  BY <1>1, <1>3, <1>5 DEF InRound, Registers
<1>11. DOMAIN obj.reviewer = Procs
  BY DEF RoundInv
<1>12. \A q \in Procs : obj'.reviewer[q] = IF q = p THEN regs ELSE obj.reviewer[q]
  BY <1>4, <1>11
<1>13. \A q \in Procs : obj'.reviewer[q].todo # {} =>
         obj.reviewer[q].todo # {} /\ obj'.reviewer[q].round = obj.reviewer[q].round
  BY <1>1, <1>10, <1>12
<1>14. \A q, s \in Procs :
         q # s /\ obj'.reviewer[q].todo # {} /\ obj'.reviewer[s].todo # {}
           => obj'.reviewer[q].round # obj'.reviewer[s].round
  BY <1>13 DEF RoundInv
<1>15. \A q \in Procs : InRound(obj', q)
  <2> SUFFICES ASSUME NEW q \in Procs PROVE InRound(obj', q)
    OBVIOUS
  <2>1. InRound(obj, q)
    BY DEF RoundInv
  <2>2. CASE q = p
    <3>1. \A e \in regs.todo : e \in Dims /\ rec.packets[e] = "none"
      <4>1. \A e \in Dims : e # d => rec.packets[e] = obj.rounds[r].packets[e]
        BY <1>7
      <4> QED
        BY <1>1, <1>5, <1>10, <4>1 DEF InRound
    <3> QED
      BY <1>1, <1>5, <1>8, <1>10, <1>12, <2>2, <3>1 DEF InRound
  <2>3. CASE q # p
    <3>1. obj.reviewer[q].todo # {} => obj.reviewer[q].round # r
      BY <1>1, <2>3 DEF RoundInv
    <3>2. obj.reviewer[q].todo # {} => obj.reviewer[q].round \in 1..Len(obj.rounds)
      BY <2>1 DEF InRound
    <3>3. obj.reviewer[q].todo # {} =>
            obj'.rounds[obj.reviewer[q].round] = obj.rounds[obj.reviewer[q].round]
      BY <1>8, <3>1, <3>2
    <3>4. obj'.reviewer[q] = obj.reviewer[q] /\ Len(obj'.rounds) = Len(obj.rounds)
      BY <1>8, <1>12, <2>3
    <3>5. \A e \in obj'.reviewer[q].todo :
            e \in Dims /\ obj'.rounds[obj'.reviewer[q].round].packets[e] = "none"
      BY <2>1, <3>3, <3>4 DEF InRound
    <3> QED
      BY <2>1, <3>4, <3>5 DEF InRound
  <2> QED
    BY <2>2, <2>3
<1>16. \A t \in FixTasks : obj'.task[t] # "none" => Raised(obj', t)
  <2> SUFFICES ASSUME NEW t \in FixTasks, obj.task[t] # "none" PROVE Raised(obj', t)
    BY <1>4
  <2>1. Raised(obj, t)
    BY DEF RoundInv
  <2>2. t[2] = r => t[3] # d
    BY <1>5, <2>1 DEF Raised
  <2>3. t[2] = r => rec.packets[t[3]] = obj.rounds[r].packets[t[3]]
    <3>1. \A e \in Dims : e # d => rec.packets[e] = obj.rounds[r].packets[e]
      BY <1>7
    <3>2. t[3] \in Dims
      BY DEF FixTasks
    <3> QED
      BY <2>2, <3>1, <3>2
  <2> QED
    BY <1>8, <2>1, <2>3 DEF Raised
<1>17. obj'.reviewer = [q \in Procs |-> obj'.reviewer[q]]
  BY <1>4, <1>11
<1> QED
  BY <1>4, <1>8, <1>9, <1>14, <1>15, <1>16, <1>17 DEF RoundInv

\* A remediation is created for a concern of the thread's round.
LEMMA RemediationLeaves ==
  ASSUME NEW p \in Procs, NEW d \in Unaddressed(obj, obj.reviewer[p].round),
         obj.reviewer[p].pc = "remediate", Shaped(obj), obj' = RemediateNext(obj, p, d)
  PROVE  Untouched(obj, obj')
<1>1. PICK t : t = <<"fix", obj.reviewer[p].round, d>>
  OBVIOUS
<1>2. PICK n : n = [obj EXCEPT !.task[t] = "pending"]
  OBVIOUS
<1>3. PICK regs : regs = [obj.reviewer[p] EXCEPT !.made = TRUE]
  OBVIOUS
<1>4. /\ Shaped(n) /\ n.pushed = obj.pushed /\ n.marked = obj.marked /\ n.promo = obj.promo
      /\ n.rounds = obj.rounds /\ n.reviewer = obj.reviewer
      /\ n.task = [obj.task EXCEPT ![t] = "pending"]
  BY <1>2 DEF Shaped, Named
<1>5. /\ Shaped(obj') /\ obj'.pushed = obj.pushed /\ obj'.marked = obj.marked
      /\ obj'.promo = obj.promo /\ obj'.rounds = n.rounds /\ obj'.task = n.task
      /\ obj'.reviewer = [n.reviewer EXCEPT ![p] = regs]
  BY <1>1, <1>2, <1>3 DEF RemediateNext, CreateRemediation, Shaped, Named
<1>6. RoundInv(obj) => Raised(obj, t)
  <2> SUFFICES ASSUME RoundInv(obj) PROVE Raised(obj, t)
    OBVIOUS
  <2>1. obj.reviewer[p].round \in 1..Len(obj.rounds)
    BY DEF RoundInv, InRound
  <2> QED
    BY <1>1, <2>1 DEF Raised, Unaddressed, Concerns
<1>7. Reviewed(obj, n)
  <2>1. ASSUME RoundInv(obj)
        PROVE  /\ n.task \in [TaskIds -> TaskStatus]
               /\ \A u \in FixTasks : n.task[u] # "none" => obj.task[u] # "none" \/ Raised(obj, u)
    <3>1. obj.task \in [TaskIds -> TaskStatus] /\ FixTasks \subseteq TaskIds
      BY <2>1 DEF RoundInv, TaskIds
    <3> QED
      BY <1>4, <1>6, <2>1, <3>1 DEF TaskStatus
  <2> QED
    BY <1>4, <2>1, TasksReviewed
<1>8. Reviewed(n, obj')
  <2>1. ASSUME RoundInv(n) PROVE GoesOn(n, p, regs)
    <3>1. InRound(n, p)
      BY <2>1 DEF RoundInv
    <3> QED
      BY <1>3, <1>4, <3>1 DEF InRound, GoesOn, Registers
  <2> QED
    BY <1>5, <2>1, ThreadReviewed
<1>9. Reviewed(obj, obj')
  BY <1>7, <1>8, ReviewedTrans
<1> QED
  BY <1>5, <1>9 DEF Untouched

\* No other step of _run_objective_review touches a promotion.
LEMMA ReviewLeaves ==
  ASSUME NEW p \in Procs, Shaped(obj), Review(p)
  PROVE  Untouched(obj, obj') \/ Claimed(obj, obj', p)
<1>1. ASSUME NEW d \in obj.reviewer[p].todo, NEW v \in {"pass", "concern"},
             obj' = RecordPacket(obj, p, d, v)
      PROVE  Untouched(obj, obj')
  <2>1. Reviewed(obj, obj')
    BY <1>1, PacketReviewed
  <2>2. /\ Shaped(obj') /\ obj'.pushed = obj.pushed /\ obj'.marked = obj.marked
        /\ obj'.promo = obj.promo
    BY <1>1 DEF RecordPacket, Shaped, Named
  <2> QED
    BY <2>1, <2>2 DEF Untouched
<1>2. ASSUME obj.reviewer[p].pc = "packets"
      PROVE  /\ Untouched(obj, CompleteRound(obj, p))
             /\ Untouched(obj, ReviewRaised(obj, p))
  <2>1. ASSUME NEW end \in {"completed", "failed"}
        PROVE  LET n == EndRound(obj, obj.reviewer[p].round, end)
               IN  /\ Untouched(obj, [n EXCEPT !.reviewer[p].pc = "remediate"])
                   /\ Untouched(obj, [n EXCEPT !.reviewer[p] = IdleReviewer])
    <3> DEFINE n == EndRound(obj, obj.reviewer[p].round, end)
    <3>1. Untouched(obj, n) /\ Shaped(n)
      BY EndLeaves DEF Untouched
    <3>2. n.reviewer = obj.reviewer
      BY DEF EndRound, Shaped, Named
    <3> HIDE DEF n
    <3>3. Untouched(n, [n EXCEPT !.reviewer[p].pc = "remediate"])
      BY <1>2, <3>1, <3>2, ThreadLeaves DEF ReviewerAlive
    <3>4. Untouched(n, [n EXCEPT !.reviewer[p] = IdleReviewer])
      BY <3>1, ThreadLeaves
    <3>5. /\ Untouched(obj, [n EXCEPT !.reviewer[p].pc = "remediate"])
          /\ Untouched(obj, [n EXCEPT !.reviewer[p] = IdleReviewer])
      BY <3>1, <3>3, <3>4, LeavesTrans
    <3> QED
      BY <3>5 DEF n
  <2>2. Untouched(obj, CompleteRound(obj, p))
    BY <2>1, Zenon DEF CompleteRound
  <2>3. Untouched(obj, ReviewRaised(obj, p))
    BY <2>1, Zenon DEF ReviewRaised
  <2> QED
    BY <2>2, <2>3
<1>3. ASSUME obj' = AdvancePromoted(obj, p) PROVE Untouched(obj, obj')
  <2> DEFINE n == IF obj.reviewer[p].copy = "reviewing" THEN SetPhase(obj, "promoted")
                  ELSE obj
  <2>1. Untouched(obj, n) /\ Shaped(n)
    BY SetPhaseLeaves, LeavesSelf DEF Untouched
  <2>2. Untouched(n, [n EXCEPT !.reviewer[p] = IdleReviewer])
    BY <2>1, ThreadLeaves
  <2>3. obj' = [n EXCEPT !.reviewer[p] = IdleReviewer]
    BY <1>3 DEF AdvancePromoted
  <2> QED
    BY <2>1, <2>2, <2>3, LeavesTrans
<1>4. obj.reviewer[p].pc = "promote" =>
        Untouched(obj, [obj EXCEPT !.reviewer[p].pc = "advance"])
  BY ThreadLeaves DEF ReviewerAlive
<1>5. \/ \E d \in obj.reviewer[p].todo, answer \in Answers :
             obj' = RecordPacket(obj, p, d, Packet(answer))
      \/ obj.reviewer[p].pc = "packets" /\ obj' \in {CompleteRound(obj, p), ReviewRaised(obj, p)}
      \/ obj.reviewer[p].pc = "remediate" /\
           \/ \E d \in Unaddressed(obj, obj.reviewer[p].round) : obj' = RemediateNext(obj, p, d)
           \/ obj' = CloseRemediation(obj, p)
      \/ obj.reviewer[p].pc = "promote" /\ obj' = [obj EXCEPT !.reviewer[p].pc = "advance"]
      \/ obj' = AdvancePromoted(obj, p)
  BY DEF Review
<1>6. \A answer \in Answers : Packet(answer) \in {"pass", "concern"}
  BY DEF Packet, PacketOf, StubPacket
<1>7. CASE \E d \in obj.reviewer[p].todo, answer \in Answers :
             obj' = RecordPacket(obj, p, d, Packet(answer))
  BY <1>1, <1>6, <1>7
<1> QED
  BY <1>2, <1>3, <1>4, <1>5, <1>7, CloseLeaves, RemediationLeaves

-----------------------------------------------------------------------------
(* The invariant: what a promotion is about to mark has been pushed, and   *)
(* what it is about to push may have been reviewed again.                  *)

PromoInv(o) ==
  /\ Shaped(o)
  /\ o.promo \in [Promoters -> [pc : {"idle", "push", "mark"}, tasks : SUBSET TaskIds]]
  /\ o.marked \subseteq o.pushed
  /\ \A w \in Promoters : o.promo[w].pc = "mark" => o.promo[w].tasks \subseteq o.pushed
  /\ RoundInv(o)
  /\ \A t \in FixTasks \cap o.pushed : Followed(o, t)
  /\ \A w \in Promoters : \A t \in FixTasks \cap o.promo[w].tasks : Followed(o, t)

\* What the promotions rest on survives any step of the review.
LEMMA ReviewKeeps ==
  ASSUME NEW o, NEW n, RoundInv(o), Reviewed(o, n)
  PROVE  RoundInv(n) /\ \A t : Followed(o, t) => Followed(n, t)
BY StaysRereviewed DEF Reviewed

\* A step that leaves promotions alone keeps the invariant.
LEMMA UntouchedKeeps ==
  ASSUME NEW o, NEW n, PromoInv(o), Untouched(o, n) PROVE PromoInv(n)
<1>1. RoundInv(n) /\ \A t : Followed(o, t) => Followed(n, t)
  BY ReviewKeeps DEF PromoInv, Untouched
<1> QED
  BY <1>1 DEF PromoInv, Untouched

\* So does one that puts a promotion at its start, whatever it was doing.
LEMMA ClaimedKeeps ==
  ASSUME NEW o, NEW n, NEW w \in Promoters, PromoInv(o), Claimed(o, n, w) PROVE PromoInv(n)
<1>1. RoundInv(n) /\ \A t : Followed(o, t) => Followed(n, t)
  BY ReviewKeeps DEF PromoInv, Claimed
<1>2. PICK ts \in SUBSET TaskIds :
        /\ n.promo = [o.promo EXCEPT ![w] = [pc |-> "push", tasks |-> ts]]
        /\ \A t \in FixTasks \cap ts : Followed(o, t)
  BY DEF PromoInv, Claimed
<1> QED
  BY <1>1, <1>2 DEF PromoInv, Claimed

\* _apply_repo_promotion_for_tasks: only a push reaches the marks, and it pushes
\* all that is marked after it, of what was claimed for it.
LEMMA PromoteKeeps ==
  ASSUME NEW w \in Promoters, PromoInv(obj), Promote(w) PROVE PromoInv(obj')
<1>0. ASSUME NEW n, n.rounds = obj.rounds, n.task = obj.task, n.reviewer = obj.reviewer
      PROVE  RoundInv(n) /\ \A t : Followed(obj, t) => Followed(n, t)
  BY <1>0, SameReview, ReviewKeeps DEF PromoInv
<1>1. CASE obj' = PushApplied(obj, w) /\ obj.promo[w].pc = "push"
  <2> DEFINE n == PushApplied(obj, w)
  <2>1. /\ Shaped(n) /\ n.marked = obj.marked
        /\ n.rounds = obj.rounds /\ n.task = obj.task /\ n.reviewer = obj.reviewer
    BY DEF PromoInv, Shaped, Named, PushApplied
  <2>2. n.pushed = obj.pushed \cup obj.promo[w].tasks
    BY DEF PromoInv, Shaped, Named, PushApplied
  <2>3. n.promo = [obj.promo EXCEPT ![w].pc = "mark"]
    BY DEF PromoInv, Shaped, Named, PushApplied
  <2> HIDE DEF n
  <2>4. RoundInv(n) /\ \A t : Followed(obj, t) => Followed(n, t)
    BY <1>0, <2>1
  <2>5. PromoInv(n)
    BY <2>1, <2>2, <2>3, <2>4 DEF PromoInv
  <2> QED
    BY <1>1, <2>5 DEF n
<1>2. CASE obj' = EndPromotion(obj, w)
  <2> DEFINE n == EndPromotion(obj, w)
  <2>1. /\ Shaped(n) /\ n.marked = obj.marked /\ n.pushed = obj.pushed
        /\ n.rounds = obj.rounds /\ n.task = obj.task /\ n.reviewer = obj.reviewer
    BY DEF PromoInv, Shaped, Named, EndPromotion
  <2>2. n.promo = [obj.promo EXCEPT ![w] = [pc |-> "idle", tasks |-> {}]]
    BY DEF PromoInv, Shaped, Named, EndPromotion, IdlePromotion
  <2> HIDE DEF n
  <2>3. RoundInv(n) /\ \A t : Followed(obj, t) => Followed(n, t)
    BY <1>0, <2>1
  <2>4. PromoInv(n)
    BY <2>1, <2>2, <2>3 DEF PromoInv
  <2> QED
    BY <1>2, <2>4 DEF n
<1>3. CASE \E t \in obj.promo[w].tasks : obj.promo[w].pc = "mark" /\ obj' = MarkApplied(obj, w, t)
  <2>1. PICK t \in obj.promo[w].tasks :
          obj.promo[w].pc = "mark" /\ obj' = MarkApplied(obj, w, t)
    BY <1>3
  <2> DEFINE n == MarkApplied(obj, w, t)
  <2>2. /\ Shaped(n) /\ n.pushed = obj.pushed
        /\ n.rounds = obj.rounds /\ n.task = obj.task /\ n.reviewer = obj.reviewer
    BY DEF PromoInv, Shaped, Named, MarkApplied
  <2>3. n.marked = obj.marked \cup {t}
    BY DEF PromoInv, Shaped, Named, MarkApplied
  <2>4. n.promo = [obj.promo EXCEPT ![w].tasks = @ \ {t}]
    BY DEF PromoInv, Shaped, Named, MarkApplied
  <2> HIDE DEF n
  <2>5. RoundInv(n) /\ \A u : Followed(obj, u) => Followed(n, u)
    BY <1>0, <2>2
  <2>6. PromoInv(n)
    BY <2>1, <2>2, <2>3, <2>4, <2>5 DEF PromoInv
  <2> QED
    BY <2>1, <2>6 DEF n
<1> QED
  BY <1>1, <1>2, <1>3 DEF Promote

\* A crash forgets the promotions of the process and its threads, and no row.
LEMMA CrashKeeps ==
  ASSUME NEW p \in Procs, PromoInv(obj), Crash(p) PROVE PromoInv(obj')
<1> DEFINE promos == [w \in Promoters |->
                        IF w = p \/ (p = "ui" /\ w = "operator") THEN [pc |-> "idle", tasks |-> {}]
                        ELSE obj.promo[w]]
<1>1. /\ Shaped(obj') /\ obj'.marked = obj.marked /\ obj'.pushed = obj.pushed
      /\ obj'.promo = promos
      /\ obj'.rounds = obj.rounds /\ obj'.task = obj.task
      /\ obj'.reviewer = [obj.reviewer EXCEPT ![p] = IdleReviewer]
  BY DEF PromoInv, Shaped, Named, Crash, IdlePromotion
<1>2. promos \in [Promoters -> [pc : {"idle", "push", "mark"}, tasks : SUBSET TaskIds]]
  BY DEF PromoInv
<1>3. \A w \in Promoters : promos[w].pc = "mark" => promos[w].tasks \subseteq obj.pushed
  BY DEF PromoInv
<1>4. \A w \in Promoters : promos[w].tasks \subseteq obj.promo[w].tasks
  OBVIOUS
<1> HIDE DEF promos
<1>5. Reviewed(obj, obj')
  <2>1. PICK regs, n : regs = IdleReviewer /\ n = obj'
    OBVIOUS
  <2>2. GoesOn(obj, p, regs)
    BY <2>1 DEF GoesOn, IdleReviewer, Registers
  <2>3. /\ n.rounds = obj.rounds /\ n.task = obj.task
        /\ n.reviewer = [obj.reviewer EXCEPT ![p] = regs]
    BY <1>1, <2>1
  <2>4. Reviewed(obj, n)
    BY <2>2, <2>3, ThreadReviewed
  <2> QED
    BY <2>1, <2>4
<1>6. RoundInv(obj') /\ \A t : Followed(obj, t) => Followed(obj', t)
  BY <1>5, ReviewKeeps DEF PromoInv
<1> QED
  BY <1>1, <1>2, <1>3, <1>4, <1>6 DEF PromoInv

\* The threads, the late write of the status and the task engine.
LEMMA ThreadKeeps ==
  ASSUME PromoInv(obj), Threads \/ ReadTasks \/ Engine PROVE PromoInv(obj')
<1> USE DEF PromoInv
<1>1. ASSUME NEW p \in Procs, BeginGeneration(p) \/ BeginRound(p) \/ Plan(p)
      PROVE  Untouched(obj, obj')
  BY <1>1, StartGenerationLeaves, StartRoundLeaves, PlanLeaves DEF BeginGeneration, BeginRound
<1>2. ASSUME NEW p \in Procs, Review(p) PROVE PromoInv(obj')
  <2>1. p \in Promoters
    BY DEF Promoters
  <2> QED
    BY <1>2, <2>1, ReviewLeaves, UntouchedKeeps, ClaimedKeeps
<1>3. ReadTasks => Untouched(obj, obj')
  <2>1. PICK n : n = [obj EXCEPT !.late = DerivedStatus(obj), !.races = @ - 1]
    OBVIOUS
  <2>2. /\ Shaped(n) /\ n.pushed = obj.pushed /\ n.marked = obj.marked
        /\ n.promo = obj.promo
        /\ n.rounds = obj.rounds /\ n.task = obj.task /\ n.reviewer = obj.reviewer
    BY <2>1 DEF Shaped, Named
  <2> QED
    BY <2>1, <2>2, SameLeaves DEF ReadTasks
<1>4. WriteStatus => Untouched(obj, obj')
  <2>1. PICK n : n = [obj EXCEPT !.status = obj.late, !.late = ""]
    OBVIOUS
  <2>2. /\ Shaped(n) /\ n.pushed = obj.pushed /\ n.marked = obj.marked
        /\ n.promo = obj.promo
        /\ n.rounds = obj.rounds /\ n.task = obj.task /\ n.reviewer = obj.reviewer
    BY <2>1 DEF Shaped, Named
  <2> QED
    BY <2>1, <2>2, SameLeaves DEF WriteStatus
<1>5. ASSUME NEW t \in TaskIds, StartTask(t) \/ FinishTask(t) PROVE Untouched(obj, obj')
  <2> DEFINE failed == SetTask(obj, t, "failed")
  <2>0. obj.task[t] # "none"
    BY <1>5 DEF StartTask, FinishTask
  <2>1. Untouched(obj, failed) /\ Shaped(failed)
    BY <2>0, SetTaskLeaves DEF Untouched, TaskStatus
  <2>2. Untouched(failed, [failed EXCEPT !.failures = @ - 1])
    BY <2>1, FieldLeaves DEF Named, Elsewhere
  <2>3. Untouched(obj, [failed EXCEPT !.failures = @ - 1])
    BY <2>1, <2>2, LeavesTrans
  <2> HIDE DEF failed
  <2>4. \/ obj' = [failed EXCEPT !.failures = @ - 1]
        \/ \E st \in TaskStatus : obj' = SetTask(obj, t, st)
    BY <1>5 DEF StartTask, FinishTask, TaskStatus, failed
  <2> QED
    BY <2>0, <2>3, <2>4, SetTaskLeaves
<1> QED
  BY <1>1, <1>2, <1>3, <1>4, <1>5, UntouchedKeeps, PromoteKeeps DEF Threads, Engine

\* The commands of the operator.
LEMMA OperatorKeeps ==
  ASSUME PromoInv(obj), Operator PROVE PromoInv(obj')
<1>1. Shaped(obj)
  BY DEF PromoInv
<1>2. ASSUME NEW f \in Elsewhere, NEW v, NEW aged
      PROVE  Untouched(obj, Reconciled([obj EXCEPT ![f] = v], "ui", aged, FALSE))
  <2> DEFINE n == [obj EXCEPT ![f] = v]
  <2>1. Untouched(obj, n) /\ Shaped(n)
    BY <1>1, FieldLeaves DEF Untouched
  <2> QED
    BY <2>1, ReconciledLeaves, LeavesTrans
<1>3. (SetIntent \/ CompleteInterrogation) => Untouched(obj, obj')
  BY <1>2 DEF SetIntent, CompleteInterrogation, Named, Elsewhere
<1>4. (Propose \/ Frustration) => Untouched(obj, obj')
  BY <1>1, EditLeaves, FieldLeaves DEF Propose, Frustration, Named, Elsewhere
<1>5. ResolveProposal => Untouched(obj, obj')
  <2>1. ASSUME NEW aged
        PROVE  /\ Untouched(obj, Edit(Reconciled(AcceptProposal(obj, "ui", aged), "ui",
                                                 aged, FALSE)))
               /\ Untouched(obj, Edit(Reconciled([obj EXCEPT !.proposed = FALSE], "ui",
                                                 aged, FALSE)))
    <3> DEFINE n == AcceptProposal(obj, "ui", aged)
    <3>1. Untouched(obj, n) /\ Shaped(n)
      BY <1>1, AcceptLeaves DEF Untouched
    <3> HIDE DEF n
    <3>2. Untouched(obj, Reconciled(n, "ui", aged, FALSE))
      BY <3>1, ReconciledLeaves, LeavesTrans
    <3> QED
      BY <1>2, <3>2, EditLeaves DEF Named, Elsewhere, n
  <2> QED
    BY <2>1 DEF ResolveProposal
<1>6. ASSUME NEW t \in TaskIds, RetryTask(t) PROVE Untouched(obj, obj')
  BY <1>1, <1>6, SetTaskLeaves, RetryLeaves, EditLeaves DEF RetryTask, TaskStatus
<1>7. ASSUME NEW t \in TaskIds, WaiveTask(t) PROVE Untouched(obj, obj')
  <2>1. Untouched(obj, UpdateObjectivePhase([obj EXCEPT !.waived = @ \cup {t}]))
    BY <1>1, FieldUpdateLeaves DEF Named, Elsewhere
  <2> QED
    BY <1>7, <2>1, EditLeaves DEF WaiveTask
<1>8. ForcePromoteReview => Untouched(obj, obj')
  BY <1>1, ForceLeaves, EditLeaves DEF ForcePromoteReview
<1>9. PromoteByOperator => Claimed(obj, obj', "operator")
  <2>1. ASSUME NEW ts \in SUBSET InState(obj, "completed"), ClearToPromote(obj),
               obj' = Edit([obj EXCEPT !.promo["operator"] = [pc |-> "push", tasks |-> ts]])
        PROVE  Claimed(obj, obj', "operator")
    <3>1. /\ Shaped(obj') /\ obj'.pushed = obj.pushed /\ obj'.marked = obj.marked
          /\ obj'.promo = [obj.promo EXCEPT !["operator"] = [pc |-> "push", tasks |-> ts]]
          /\ obj'.rounds = obj.rounds /\ obj'.task = obj.task
          /\ obj'.reviewer = obj.reviewer
      BY <1>1, <2>1 DEF Edit, Shaped, Named
    <3>2. Reviewed(obj, obj')
      BY <3>1, SameReview
    <3>3. \A t \in FixTasks \cap ts : Followed(obj, t)
      BY <2>1, ClearIsRereviewed DEF PromoInv
    <3>4. ts \in SUBSET TaskIds
      BY DEF InState
    <3> QED
      BY <3>1, <3>2, <3>3, <3>4 DEF Claimed
  <2>2. \A ts \in {Unapplied(obj)} \cup {{t} : t \in Unapplied(obj)} :
          ts \in SUBSET InState(obj, "completed")
    BY DEF Unapplied
  <2> QED
    BY <2>1, <2>2 DEF PromoteByOperator
<1>10. "operator" \in Promoters
  BY DEF Promoters
<1> QED
  BY <1>1, <1>3, <1>4, <1>5, <1>6, <1>7, <1>8, <1>9, <1>10, UpdateDiagramLeaves,
     UntouchedKeeps, ClaimedKeeps DEF Operator

\* The polls of either process.
LEMMA PollKeeps ==
  ASSUME NEW p \in Procs, PromoInv(obj), Poll(p) PROVE PromoInv(obj')
<1>1. Shaped(obj)
  BY DEF PromoInv
<1>2. Reconcile(p) => Untouched(obj, obj')
  BY <1>1, ReconciledLeaves DEF Reconcile
<1>3. PollGeneration(p) => Untouched(obj, obj')
  BY <1>1, ResumeGenerationLeaves DEF PollGeneration
<1>4. PollReview(p) => Untouched(obj, obj')
  BY <1>1, ResumeReviewLeaves DEF PollReview, PromoInv
<1> QED
  BY <1>2, <1>3, <1>4, UntouchedKeeps DEF Poll

\* A new objective has promoted nothing, and nothing of it has been reviewed.
LEMMA InitPromo == Init => PromoInv(obj)
<1> SUFFICES ASSUME NEW b \in Budgets PROVE PromoInv(NewObjective(b))
  BY DEF Init
<1>1. PICK o : o = NewObjective(b)
  OBVIOUS
<1>2. Shaped(o)
  BY <1>1 DEF NewObjective, Shaped, Named
<1>3. /\ o.marked = {} /\ o.pushed = {} /\ o.promo = [w \in Promoters |-> IdlePromotion]
      /\ o.rounds = <<>> /\ o.task = [t \in TaskIds |-> "none"]
      /\ o.reviewer = [p \in Procs |-> IdleReviewer]
  BY <1>1 DEF NewObjective
<1>4. IdlePromotion = [pc |-> "idle", tasks |-> {}]
  BY DEF IdlePromotion
<1>5. RoundInv(o)
  <2>1. \A p \in Procs : o.reviewer[p].todo = {} /\ InRound(o, p)
    BY <1>3 DEF IdleReviewer, InRound, Registers
  <2>2. o.rounds \in Seq(RoundRecords) /\ o.task \in [TaskIds -> TaskStatus]
    BY <1>3 DEF TaskStatus
  <2>3. \A t \in FixTasks : o.task[t] = "none"
    BY <1>3 DEF TaskIds
  <2> QED
    BY <1>3, <2>1, <2>2, <2>3 DEF RoundInv
<1>6. PromoInv(o)
  BY <1>2, <1>3, <1>4, <1>5 DEF PromoInv
<1> QED
  BY <1>1, <1>6

\* The invariant is inductive.
LEMMA NextPromo == PromoInv(obj) /\ [Next]_obj => PromoInv(obj')
<1> SUFFICES ASSUME PromoInv(obj), [Next]_obj PROVE PromoInv(obj')
  OBVIOUS
<1>0. CASE obj' = obj
  BY <1>0
<1>1. CASE Operator
  BY <1>1, OperatorKeeps
<1>2. ASSUME NEW p \in Procs, Poll(p) \/ Crash(p) PROVE PromoInv(obj')
  BY <1>2, PollKeeps, CrashKeeps
<1>3. CASE Threads \/ ReadTasks \/ Engine
  BY <1>3, ThreadKeeps
<1> QED
  BY <1>0, <1>1, <1>2, <1>3 DEF Next

\* So it always holds, of an objective whatever its bounds.
LEMMA PromotionsAreSound == Spec => []PromoInv(obj)
<1> DEFINE inv == PromoInv(obj)
<1>1. Init => inv
  BY InitPromo
<1>2. inv /\ [Next]_obj => inv'
  BY NextPromo
<1> HIDE DEF inv
<1>3. Spec => []inv
  BY <1>1, <1>2, PTL DEF Spec
<1> QED
  BY <1>3 DEF inv

\* The repo_applyback mark is only ever on pushed work, whatever crashes or races:
\* for any dimensions, plans, diagrams, rounds and bounds, without fairness.
THEOREM MarksAreTrue == Spec => []MarkedWasPushed
<1>1. PromoInv(obj) => MarkedWasPushed
  BY DEF PromoInv, MarkedWasPushed
<1> QED
  BY <1>1, PromotionsAreSound, PTL

\* A remediation is pushed only after a later round was begun, or the operator overrode
\* its own: a remediation of the last round keeps the concern it answers there, so that
\* the round is not clear. It takes that no two threads write one round, and that
\* overrides stand. That the later round passed it, or looked at all, does not follow,
\* and the code does not see to it (FixesAreRereviewed).
THEOREM FixesFollowed == Spec => []FixesAreFollowed
<1>1. PromoInv(obj) => FixesAreFollowed
  <2>1. PromoInv(obj) => Len(obj.rounds) \in Nat
    BY DEF PromoInv, RoundInv
  <2> QED
    BY <2>1 DEF PromoInv, Followed, FixesAreFollowed
<1> QED
  BY <1>1, PromotionsAreSound, PTL
=============================================================================
