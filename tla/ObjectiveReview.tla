--------------------------- MODULE ObjectiveReview --------------------------
(***************************************************************************)
(* The objective's review: queueing a round, the round itself (a packet    *)
(* per dimension, a remediation task per concern, the promotion that       *)
(* follows a clear round), resuming it, and the operator's ways around it. *)
(***************************************************************************)
EXTENDS Objective

IdleReviewer ==
  [pc |-> "idle", round |-> 0, copy |-> "created", todo |-> {}, made |-> FALSE]
IdlePromotion == [pc |-> "idle", tasks |-> {}]

NewRound == [packets |-> [d \in Dims |-> "none"], end |-> "running", override |-> FALSE]

\* The started record, the phase, and a thread unless the process has one.
StartRound(o, p) ==
  IF Len(o.rounds) = o.room.rounds
  THEN [o EXCEPT !.reviewer[p].pc = IF ReviewerAlive(o, p) THEN @ ELSE "idle"]
  ELSE LET recorded == [o EXCEPT !.rounds = Append(@, NewRound)]
           moved    == IF o.phase = "executing" THEN SetPhase(recorded, "reviewing")
                       ELSE recorded
       IN  IF ReviewerAlive(o, p) THEN moved
           ELSE [moved EXCEPT
                  !.reviewer[p] = [IdleReviewer EXCEPT
                                    !.pc = "packets", !.round = Len(moved.rounds),
                                    !.copy = moved.phase, !.todo = Dims]]

\* A mutant: no round is ever found stale.
KeepRound(o, p, aged) == o

\* The part of queue_objective_review that reads.
ClearStaleRound(o, p, aged) ==
  IF RoundStale(o, p, aged) THEN MarkReviewInterrupted(o) ELSE o

RoundDue(o) ==
  RoundState(o) # "running" /\ CanStartNewRound(o) /\ Len(o.rounds) < o.room.rounds

AdmitRound(o, p, aged) ==
  LET cleared == ClearStaleRound(o, p, aged)
  IN  IF ~RoundDue(cleared) THEN cleared
      ELSE IF ReviewerAlive(cleared, p) THEN StartRound(cleared, p)
      ELSE [cleared EXCEPT !.reviewer[p].pc = "admitted"]

-----------------------------------------------------------------------------
(* _run_objective_review, one function per step of the thread. *)

\* What invoke_skill brings back from a dimension's reviewer; "failed" is a skill
\* that is not registered or gave nothing valid.
Answers == {"pass", "concern", "remediation_required", "failed"}

\* The packet of a valid answer; all that follows tells only a pass from a concern.
PacketOf(answer) == IF answer = "pass" THEN "pass" ELSE "concern"

\* A reviewer that failed is a concern about the review itself.
StubPacket == "concern"

\* ObjectiveReviewOrchestrator.execute, for one dimension.
Packet(answer) == IF answer = "failed" THEN StubPacket ELSE PacketOf(answer)

RecordPacket(o, p, d, verdict) ==
  [o EXCEPT !.rounds[o.reviewer[p].round].packets[d] = verdict,
            !.reviewer[p].todo = @ \ {d}]

CompleteRound(o, p) ==
  [EndRound(o, o.reviewer[p].round, "completed") EXCEPT !.reviewer[p].pc = "remediate"]

\* The concerns of a round that have no remediation task.
Unaddressed(o, r) == {d \in Concerns(o, r) : o.task[<<"fix", r, d>>] = "none"}

CreateRemediation(o, r, d) == [o EXCEPT !.task[<<"fix", r, d>>] = "pending"]

RemediateNext(o, p, d) ==
  [CreateRemediation(o, o.reviewer[p].round, d) EXCEPT !.reviewer[p].made = TRUE]

\* All created: with any, the objective goes back to execution; with none, the
\* clear round is promoted, if the promotion review agrees and there is something
\* to promote.
CloseRemediation(o, p) ==
  IF o.reviewer[p].made
  THEN UpdateObjectivePhase([o EXCEPT !.reviewer[p] = IdleReviewer])
  ELSE IF ReviewClear(o) /\ Unapplied(o) # {}
  THEN [o EXCEPT !.reviewer[p].pc = "promote",
                 !.promo[p] = [pc |-> "push", tasks |-> Unapplied(o)]]
  ELSE [o EXCEPT !.reviewer[p].pc = "advance"]

\* The round is over: the runner's copy moves on whatever became of the promotion.
AdvancePromoted(o, p) ==
  [(IF o.reviewer[p].copy = "reviewing" THEN SetPhase(o, "promoted") ELSE o)
     EXCEPT !.reviewer[p] = IdleReviewer]

ReviewRaised(o, p) ==
  [EndRound(o, o.reviewer[p].round, "failed") EXCEPT !.reviewer[p] = IdleReviewer]

-----------------------------------------------------------------------------
(* _apply_repo_promotion_for_tasks by w, a reviewing process or the operator. *)

\* A mutant: a push that failed goes unnoticed.
PushSwallowed(o, w) == [o EXCEPT !.promo[w].pc = "mark"]

PushApplied(o, w) ==
  [o EXCEPT !.pushed = @ \cup o.promo[w].tasks, !.promo[w].pc = "mark"]

MarkApplied(o, w, t) ==
  [o EXCEPT !.marked = @ \cup {t}, !.promo[w].tasks = @ \ {t}]

\* promote_objective_to_repo: clear, or overridden whatever is still open.
ClearToPromote(o) == ReviewClear(o) \/ (o.rounds # <<>> /\ LastRound(o).override)

EndPromotion(o, w) == [o EXCEPT !.promo[w] = IdlePromotion]

-----------------------------------------------------------------------------
(* The poll and the operator. *)

\* _auto_retry_restart_safe_failed_task over the failed remediations of the last
\* round, of which safe died in a way that is safe to restart.
AutoRetried(o, safe) ==
  UpdateObjectivePhase([o EXCEPT !.task = [t \in TaskIds |-> IF t \in safe THEN "pending"
                                                            ELSE o.task[t]]])

FailedFixes(o) ==
  IF o.rounds = <<>> THEN {}
  ELSE FixesOf(o, Len(o.rounds)) \cap InState(o, "failed")

\* A mutant: concerns without a remediation are left to the round that found them.
ResumeWithoutFixes(o, p, aged, safe) ==
  LET cleared == ClearStaleRound(o, p, aged)
  IN  IF safe # {} THEN AutoRetried(cleared, safe)
      ELSE IF o.status # "resolved" /\ LastStatus(cleared) \notin {"ready_for_rerun", "failed"}
      THEN cleared
      ELSE AdmitRound(cleared, p, aged)

\* _maybe_resume_objective_review.
ResumeReview(o, p, aged, safe) ==
  LET cleared == ClearStaleRound(o, p, aged)
      r       == Len(cleared.rounds)
  IN  IF safe # {} THEN AutoRetried(cleared, safe)
      ELSE IF o.status # "resolved" /\ LastStatus(cleared) \notin {"ready_for_rerun", "failed"}
      THEN cleared
      ELSE IF r > 0 /\ Concerns(cleared, r) # {} /\ FixesOf(cleared, r) = {}
      THEN UpdateObjectivePhase(
             [cleared EXCEPT !.task = [t \in TaskIds |->
                IF t \in {<<"fix", r, d>> : d \in Concerns(cleared, r)} THEN "pending"
                ELSE cleared.task[t]]])
      ELSE AdmitRound(cleared, p, aged)

\* force_promote_objective_review waives what failed, except the remediations of
\* earlier rounds, and overrides the last round.
ForcePromote(o) ==
  LET r == Len(o.rounds)
  IN  UpdateObjectivePhase(
        [o EXCEPT !.rounds[r].override = TRUE,
                  !.waived = @ \cup {t \in InState(o, "failed") : t \in FixTasks => t[2] = r}])

CanForcePromote(o) ==
  /\ o.rounds # <<>>
  /\ ~ReviewClear(o)
  /\ Runnable(o) = {}
=============================================================================
