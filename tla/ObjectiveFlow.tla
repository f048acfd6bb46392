---------------------------- MODULE ObjectiveFlow ---------------------------
(***************************************************************************)
(* An objective from its creation to its promotion: the operator, the      *)
(* polls of both processes, the generation and review threads, the task    *)
(* engine (of which only the status of each task is kept) and crashes.     *)
(***************************************************************************)
EXTENDS ObjectivePlanning, ObjectiveReview

CONSTANT
  Budgets   \* bounds: alternatives for a behaviour: the processes that are up, whether
            \* the objective is defined (intent and interrogation), and how many
            \* generations, rounds, operator commands, failing tasks, overtaken
            \* derivations and crashes there can be

ASSUME FlowAssumption ==
  \A b \in Budgets : /\ b.up \subseteq Procs
                     /\ b.defined \in BOOLEAN
                     /\ b.room \in [gens : 0..MaxGens, rounds : 0..MaxRounds]
                     /\ {b.edits, b.failures, b.races, b.crashes} \subseteq Nat

Promoters == Procs \cup {"operator"}

\* create_objective: the row and the seeded draft of the diagram.
NewObjective(b) ==
  [task |-> [t \in TaskIds |-> "none"], waived |-> {}, pushed |-> {}, marked |-> {},
   status |-> "open", phase |-> "created", late |-> "",
   intent |-> b.defined, interrogated |-> b.defined,
   version |-> 1, drawn |-> "draft", proposed |-> FALSE,
   gens |-> <<>>, rounds |-> <<>>,
   planner |-> [p \in Procs |-> IdlePlanner],
   reviewer |-> [p \in Procs |-> IdleReviewer],
   promo |-> [w \in Promoters |-> IdlePromotion],
   up |-> b.up, room |-> b.room, edits |-> b.edits, failures |-> b.failures,
   races |-> b.races, crashes |-> b.crashes]

Init == \E b \in Budgets : obj = NewObjective(b)

\* A handler of the process can run: the command line does one thing at a time,
\* and a process is between the check and the start of one handler at most.
Free(p) ==
  /\ p \in obj.up
  /\ obj.planner[p].pc # "admitted" /\ obj.reviewer[p].pc # "admitted"
  /\ p = "cli" => obj.planner[p].pc = "idle" /\ obj.reviewer[p].pc = "idle"

-----------------------------------------------------------------------------
(* Polls, each by a process whose last record of the work may be old. *)

\* reconcile_objective_workflow, of which a poll leaves the start to another step:
\* whether a round runs and may start is read first, the rest after the status
\* has been derived.
Reconciled(o, p, aged, polled) ==
  LET derived == UpdateObjectivePhase(o)
  IN  IF RestartsGeneration(derived, p, aged)
      THEN IF polled THEN AdmitGeneration(derived, p, aged)
           ELSE QueueAtomicGeneration(derived, p, aged)
      ELSE IF /\ ReviewReady(o) /\ derived.status = "resolved"
              /\ RoundState(o) # "running" /\ CanStartNewRound(o)
      THEN AdmitRound(derived, p, aged)
      ELSE derived

Reconcile(p) ==
  /\ Free(p)
  /\ \E aged \in BOOLEAN : obj' = Reconciled(obj, p, aged, TRUE)

PollGeneration(p) ==
  /\ Free(p)
  /\ \E aged \in BOOLEAN : obj' = ResumeGeneration(obj, p, aged)

PollReview(p) ==
  /\ Free(p)
  /\ \E aged \in BOOLEAN, safe \in SUBSET FailedFixes(obj) :
       obj' = ResumeReview(obj, p, aged, safe)

BeginGeneration(p) ==
  obj.planner[p].pc = "admitted" /\ obj' = StartGeneration(obj, p)

BeginRound(p) ==
  obj.reviewer[p].pc = "admitted" /\ obj' = StartRound(obj, p)

\* update_objective_phase selects the tasks and then writes what they imply; other
\* steps may come between.
ReadTasks ==
  /\ obj.late = "" /\ Linked(obj) # {}
  /\ obj.races > 0
  /\ obj' = [obj EXCEPT !.late = DerivedStatus(obj), !.races = @ - 1]

WriteStatus ==
  /\ obj.late # ""
  /\ obj' = [obj EXCEPT !.status = obj.late, !.late = ""]

-----------------------------------------------------------------------------
(* The threads. *)

Plan(p) ==
  LET at(pc) == obj.planner[p].pc = pc
  IN  \/ at("reading") /\ obj' = ReadDiagram(obj, p)
      \/ at("trio") /\ obj' = PlansPassed(obj, p)
      \/ at("trio") /\ obj' = PlansRejected(obj, p)
      \/ at("publish") /\ \E u \in obj.planner[p].left : obj' = PublishUnit(obj, p, u)
      \/ at("publish") /\ obj.planner[p].left = {} /\ obj' = ToExecuting(obj, p)
      \/ at("finish") /\ obj' = FinishGeneration(obj, p)

Review(p) ==
  LET at(pc) == obj.reviewer[p].pc = pc
      open   == Unaddressed(obj, obj.reviewer[p].round)
  IN  \/ /\ at("packets")
         /\ \E d \in obj.reviewer[p].todo, answer \in Answers :
              obj' = RecordPacket(obj, p, d, Packet(answer))
      \/ at("packets") /\ obj.reviewer[p].todo = {} /\ obj' = CompleteRound(obj, p)
      \/ at("packets") /\ obj.reviewer[p].todo = Dims /\ obj' = ReviewRaised(obj, p)
      \/ at("remediate") /\ \E d \in open : obj' = RemediateNext(obj, p, d)
      \/ at("remediate") /\ open = {} /\ obj' = CloseRemediation(obj, p)
      \/ at("promote") /\ obj.promo[p].pc = "idle"
           /\ obj' = [obj EXCEPT !.reviewer[p].pc = "advance"]
      \/ at("advance") /\ obj' = AdvancePromoted(obj, p)

Promote(w) ==
  LET at(pc) == obj.promo[w].pc = pc
  IN  \/ at("push") /\ obj' = PushApplied(obj, w)
      \/ at("push") /\ obj' = EndPromotion(obj, w)
      \/ at("mark") /\ \E t \in obj.promo[w].tasks : obj' = MarkApplied(obj, w, t)
      \/ at("mark") /\ obj.promo[w].tasks = {} /\ obj' = EndPromotion(obj, w)

-----------------------------------------------------------------------------
(* The task engine: a unit runs behind the execution gate, a remediation does not. *)

StartTask(t) ==
  /\ obj.task[t] = "pending"
  /\ t \in FixTasks \/ ExecutionGate(obj)
  /\ obj' = SetTask(obj, t, "active")

FinishTask(t) ==
  /\ obj.task[t] = "active"
  /\ \/ obj' = SetTask(obj, t, "completed")
     \/ /\ obj.failures > 0
        /\ obj' = [SetTask(obj, t, "failed") EXCEPT !.failures = @ - 1]

-----------------------------------------------------------------------------
(* The operator, through the UI. *)

\* The intent and the diagram come first.
SetIntent ==
  /\ Free("ui") /\ ~obj.intent
  /\ \E aged \in BOOLEAN :
       obj' = Reconciled([obj EXCEPT !.intent = TRUE], "ui", aged, FALSE)

\* complete_interrogation_review, on request or from a comment that answers it.
CompleteInterrogation ==
  /\ Free("ui") /\ ~obj.interrogated
  /\ \E aged \in BOOLEAN :
       obj' = Reconciled([obj EXCEPT !.interrogated = TRUE], "ui", aged, FALSE)

\* The other commands count towards the bound.
Edit(o) == [o EXCEPT !.edits = @ - 1]
MayEdit == Free("ui") /\ obj.edits > 0

\* update_mermaid_artifact ends in a reconcile, unless it raised.
UpdateDiagram ==
  /\ MayEdit /\ obj.version < MaxDiagrams
  /\ \E aged \in BOOLEAN :
       \/ obj' = IF FinishDiagram(obj).phase # "mermaid_review" THEN Edit(FinishDiagram(obj))
                 ELSE Edit(Reconciled(ApproveDiagram(obj, "ui", aged), "ui", aged, FALSE))
       \/ obj' = Edit(Reconciled(PauseDiagram(obj), "ui", aged, FALSE))
       \/ obj' = Edit(Reconciled(ReviseDiagram(obj), "ui", aged, FALSE))

\* propose_mermaid_update, in the background of a comment.
Propose ==
  /\ MayEdit /\ ~obj.proposed
  /\ obj' = Edit([obj EXCEPT !.proposed = TRUE])

ResolveProposal ==
  /\ MayEdit /\ obj.proposed /\ obj.version < MaxDiagrams
  /\ \E aged \in BOOLEAN :
       \/ obj' = Edit(Reconciled(AcceptProposal(obj, "ui", aged), "ui", aged, FALSE))
       \/ obj' = Edit(Reconciled([obj EXCEPT !.proposed = FALSE], "ui", aged, FALSE))

\* A comment that sounds frustrated sends the objective back to investigation.
Frustration == MayEdit /\ obj' = Edit([obj EXCEPT !.status = "investigating"])

\* retry_task leaves a waiver in place, the retry_as_is disposition replaces it.
RetryTask(t) ==
  /\ MayEdit /\ obj.task[t] = "failed"
  /\ \/ obj' = Edit(SetTask(obj, t, "pending"))
     \/ obj' = Edit([SetTask([obj EXCEPT !.waived = @ \ {t}], t, "pending")
                       EXCEPT !.status = "planning"])

WaiveTask(t) ==
  /\ MayEdit /\ obj.task[t] = "failed" /\ t \notin obj.waived
  /\ obj' = Edit(UpdateObjectivePhase([obj EXCEPT !.waived = @ \cup {t}]))

ForcePromoteReview ==
  /\ MayEdit /\ CanForcePromote(obj)
  /\ obj' = Edit(ForcePromote(obj))

\* promote_objective_to_repo takes all unapplied tasks, promote_atomic_unit one.
PromoteByOperator ==
  /\ MayEdit /\ ClearToPromote(obj) /\ obj.promo["operator"].pc = "idle"
  /\ \E ts \in {Unapplied(obj)} \cup {{t} : t \in Unapplied(obj)} :
       /\ ts # {}
       /\ obj' = Edit([obj EXCEPT !.promo["operator"] = [pc |-> "push", tasks |-> ts]])

-----------------------------------------------------------------------------

\* A process dies with its threads; the operator's request dies with the UI's.
Crash(p) ==
  /\ p \in obj.up /\ obj.crashes > 0
  /\ obj' = [obj EXCEPT !.planner[p] = IdlePlanner, !.reviewer[p] = IdleReviewer,
               !.promo = [w \in Promoters |->
                            IF w = p \/ (p = "ui" /\ w = "operator") THEN IdlePromotion
                            ELSE obj.promo[w]],
               !.crashes = @ - 1]

Poll(p) == Reconcile(p) \/ PollGeneration(p) \/ PollReview(p)

Operator ==
  \/ SetIntent \/ CompleteInterrogation \/ UpdateDiagram \/ Propose \/ ResolveProposal
  \/ Frustration \/ ForcePromoteReview \/ PromoteByOperator
  \/ \E t \in TaskIds : RetryTask(t) \/ WaiveTask(t)

Threads ==
  \/ \E p \in Procs : BeginGeneration(p) \/ BeginRound(p) \/ Plan(p) \/ Review(p)
  \/ \E w \in Promoters : Promote(w)
  \/ WriteStatus

Engine == \E t \in TaskIds : StartTask(t) \/ FinishTask(t)

Next ==
  \/ Operator
  \/ \E p \in Procs : Poll(p) \/ Crash(p)
  \/ Threads \/ ReadTasks \/ Engine

\* Threads make progress; the supervisor, when idle, polls every objective, and
\* finds a record that nothing renews old in the end; it runs what may run.
Stale(p) == \/ GenerationStale(obj, p, TRUE) /\ obj' = ResumeGeneration(obj, p, TRUE)
            \/ RoundStale(obj, p, TRUE) /\ obj' = ResumeReview(obj, p, TRUE, {})

Fairness ==
  /\ WF_obj(Threads) /\ WF_obj(Engine)
  /\ WF_obj(Reconcile("cli")) /\ WF_obj(PollGeneration("cli"))
  /\ WF_obj(Free("cli") /\ obj' = ResumeReview(obj, "cli", FALSE, {}))
  /\ WF_obj(Free("cli") /\ Stale("cli"))

Spec == Init /\ [][Next]_obj /\ Fairness

-----------------------------------------------------------------------------
(* Properties. *)

\* A round that ended with a packet of every dimension, all of them "pass".
Passed(r) ==
  obj.rounds[r].end = "completed" /\ \A d \in Dims : obj.rounds[r].packets[d] = "pass"

\* "review_clear is True only when objective_review_completed exists for the latest
\* review_id AND every packet under that review carries verdict=pass" (bench.py,
\* ReviewStatus): a remediation reaches the repository only after a later round has
\* passed it, or the operator overrode a round that found it wanting or a later one.
FixesAreRereviewed ==
  \A t \in FixTasks \cap obj.pushed : \E r \in DOMAIN obj.rounds :
    \/ r > t[2] /\ Passed(r)
    \/ r >= t[2] /\ obj.rounds[r].override

\* What the code guarantees of it: a promotion looks at the packets of the last round,
\* where the concern that asked for the remediation is, so that before it is pushed a
\* later round was begun, packets or none, or the operator overrode its own.
FixesAreFollowed ==
  \A t \in FixTasks \cap obj.pushed :
    Len(obj.rounds) > t[2] \/ obj.rounds[t[2]].override

\* The repo_applyback mark on a task, which hides it from later promotions, is
\* only ever on work that was pushed, whatever crashed or raced.
MarkedWasPushed == obj.marked \subseteq obj.pushed

\* The current generation does not run for ever, whoever died or was refused a
\* thread: the supervisor's poll interrupts what nobody works on.
GenerationEnds == []<>(GenerationState(obj) # "running")

\* The same of the last review round.
RoundEnds == []<>(RoundState(obj) # "running")

\* The status settles on what the tasks imply, in spite of late writes, runners
\* that write the phase's status and operators who set it.
StatusSettles == <>[](Linked(obj) = {} \/ obj.status = DerivedStatus(obj))

\* A concern of the last completed round is taken up: it gets a remediation, a
\* later round looks again, or the operator overrides; unless work is stuck on a
\* failure or the rounds run out.
ConcernsTakenUp ==
  \A r \in 1..MaxRounds : \A d \in Dims :
    (/\ r = Len(obj.rounds) /\ RoundStatus(obj, r) = "needs_remediation"
     /\ d \in Concerns(obj, r))
      ~> \/ obj.task[<<"fix", r, d>>] # "none"
         \/ Len(obj.rounds) > r
         \/ Len(obj.rounds) = r /\ obj.rounds[r].override
         \/ InState(obj, "failed") # {}
=============================================================================
