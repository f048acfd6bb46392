------------------------------ MODULE Delivery ------------------------------
(***************************************************************************)
(* How a finished run's change reaches the main branch: the promotion      *)
(* review and its affirmation (promotion_service), the commit, push,       *)
(* verification, post-push checks and rollback (repository_promotion_      *)
(* service), the promotion of an objective's files, the recovery fix of    *)
(* the watch sidecar, the merge gate on the operator's own clone, and the  *)
(* watcher of open reviews.  Each runs in a process of its own (command    *)
(* line, web server, supervisor) and all of them meet in the store and in  *)
(* the remote repository.                                                  *)
(*                                                                         *)
(* History is linear: a push is refused unless it is a fast-forward.       *)
(***************************************************************************)
EXTENDS Naturals, Sequences, FiniteSets

CONSTANTS
  Runs,           \* the completed runs
  Remedies,       \* those that belong to the follow-on task, the others to the task
  Affirmers,      \* the processes that review and affirm promotions
  MaxMain,        \* a bound on the commits on main
  Projects        \* bounds: alternatives for a behaviour: the project's promotion mode, the
                  \* runs' workspaces and reports, with which run's change the tree has
                  \* a Makefile, the actors at work, how many promotions they create
                  \* and how many faults they meet

Others == {"objective", "repair", "gate", "watcher"}
Actors == Affirmers \cup Others

ASSUME DeliveryAssumption ==
  /\ Remedies \subseteq Runs /\ "objective" \notin Runs /\ Affirmers \cap Others = {}
  /\ MaxMain \in Nat
  /\ \A p \in Projects : /\ p.mode \in {"direct_main", "branch_only", "branch_and_pr"}
                         /\ p.workspace \in [Runs -> {"dirty", "committed", "shared", "missing"}]
                         /\ p.report \in [Runs -> {"clean", "concerns", "missing"}]
                         /\ p.makefile \subseteq Runs
                         /\ p.actors \subseteq Actors /\ {p.faults, p.promotions} \subseteq Nat

VARIABLES
  project,  \* the alternative of this behaviour
  main,     \* the commits on the remote main branch
  local,    \* the commits on the main branch of the operator's clone
  ws,       \* the workspace of each run, and the worktree of an objective promotion
  promos,   \* the promotions, in the order they were created
  filed,    \* how many follow-on tasks each run has
  rebase,   \* the runs with a follow-on that is to update the branch of their review
  review,   \* the pull request of each run
  fixes,    \* the records kept elsewhere: repo_applyback and sa_watch_promotion
  job,      \* what each process is doing
  faults    \* the faults still to come

vars == <<project, main, local, ws, promos, filed, rebase, review, fixes, job, faults>>
repo == <<main, local, ws>>
store == <<promos, filed, rebase, fixes>>

\* A commit: what it does to which run's change, who made it, and whether checks passed
\* on it before it was pushed or, in the clone, after it was merged.
Role(a) == IF a \in Affirmers THEN "affirmer" ELSE a
Commit(op, r, a) == [op |-> op, run |-> r, by |-> Role(a), checked |-> FALSE]
Outside == Commit("outside", "none", "none")
Commits == [op : {"outside", "change", "rollback", "undo"}, run : Runs \cup {"none"},
            by : {"affirmer", "objective", "repair", "gate", "pipeline", "none"},
            checked : BOOLEAN]

\* A history carries a run's change if the last commit about it brings it.
Carries(history, r) ==
  \E k \in DOMAIN history : /\ history[k].run = r /\ history[k].op = "change"
                            /\ \A j \in k + 1..Len(history) : history[j].run # r

Workspace(kind, r) ==
  [base |-> 1, dirty |-> kind \in {"dirty", "shared"},
   own |-> IF kind = "committed" THEN <<Commit("change", r, "pipeline")>> ELSE <<>>, checked |-> FALSE]
Idle == [pc |-> "idle", run |-> "none", promo |-> 0, out |-> "none", seen |-> "none"]

Init == \E p \in Projects :
  /\ project = p
  /\ main = <<Outside>> /\ local = <<Outside>>
  /\ ws = [w \in Runs \cup {"objective"} |->
             IF w \in Runs THEN Workspace(p.workspace[w], w) ELSE Workspace("missing", w)]
  /\ promos = <<>> /\ filed = [r \in Runs |-> 0] /\ rebase = {}
  /\ review = [r \in Runs |-> "none"]
  /\ fixes = [r \in Runs |-> [applied |-> FALSE, repair |-> "none"]]
  /\ job = [a \in Actors |-> Idle] /\ faults = p.faults

-----------------------------------------------------------------------------
(* Steps of a process. *)

Free(a) == a \in project.actors /\ job[a] = Idle
Goto(a, pc) == job' = [job EXCEPT ![a].pc = pc]
Done(a) == job' = [job EXCEPT ![a] = Idle]
Conclude(a, pc, out) == job' = [job EXCEPT ![a].pc = pc, ![a].out = out]

\* The workspace a process works in.
Place(a) == IF a = "objective" THEN "objective" ELSE job[a].run

\* A failed git command: an affirmer takes it for a workspace that is not git.
CommandError(a) ==
  IF a \in Affirmers THEN Conclude(a, "record", "skipped")
  ELSE IF a = "repair" THEN Conclude(a, "record", "blocked") ELSE Done(a)

\* A failed check: the promotion stays as it was, a repair is blocked.
RuntimeError(a) == IF a = "repair" THEN Conclude(a, "record", "blocked") ELSE Done(a)

-----------------------------------------------------------------------------
(* Promotion review. *)

RunReady(r) == r \in Remedies => \E s \in Runs \ Remedies : filed[s] > 0
TaskOf(r) == IF r \in Remedies THEN "follow-on" ELSE "task"
Promotion(task, r, status) ==
  [task |-> task, run |-> r, status |-> status, applyback |-> "none", watch |-> "none"]

\* The validators find nothing, or a follow-on is filed and the promotion is rejected.
Judged(a, task, r) ==
  /\ \/ promos' = Append(promos, Promotion(task, r, "pending")) /\ UNCHANGED job
     \/ /\ job' = [job EXCEPT ![a] = [Idle EXCEPT !.pc = "find", !.run = r, !.out = task]]
        /\ UNCHANGED promos
  /\ UNCHANGED <<project, repo, filed, rebase, fixes, review, faults>>

\* review_task: a run for its own task.
Review(a) == \E r \in Runs :
  /\ Free(a) /\ RunReady(r) /\ Len(promos) < project.promotions
  /\ Judged(a, TaskOf(r), r)

\* rereview_task: the run of a follow-on for the task it remedies.
Rereview(a) == \E r \in Remedies :
  /\ Free(a) /\ RunReady(r) /\ Len(promos) < project.promotions
  /\ Judged(a, "task", r)

\* find_follow_on_task, and create_follow_on_task in another transaction.
Find(a) ==
  /\ job[a].pc = "find"
  /\ IF filed[job[a].run] = 0 THEN Goto(a, "file")
     ELSE IF a = "watcher" THEN Done(a) ELSE Goto(a, "refuse")
  /\ UNCHANGED <<project, repo, store, review, faults>>

FileFollowOn(a) ==
  /\ job[a].pc = "file"
  /\ filed' = [filed EXCEPT ![job[a].run] = @ + 1]
  /\ IF a = "watcher" THEN rebase' = rebase \cup {job[a].run} /\ Done(a)
                      ELSE rebase' = rebase /\ Goto(a, "refuse")
  /\ UNCHANGED <<project, repo, promos, fixes, review, faults>>

\* The rejection is recorded: a new promotion after a review, an update of the
\* promotion as it was read after an affirmation.
Refuse(a) ==
  /\ job[a].pc = "refuse"
  /\ promos' = LET i == job[a].promo IN
       IF i = 0 THEN Append(promos, Promotion(job[a].out, job[a].run, "rejected"))
       ELSE [promos EXCEPT ![i] = Promotion(@.task, @.run, "rejected")]
  /\ Done(a)
  /\ UNCHANGED <<project, repo, filed, rebase, fixes, review, faults>>

\* affirm_review reads a pending promotion of a run of its own task, and asks.
Affirm(a) == \E i \in DOMAIN promos :
  /\ Free(a)
  /\ promos[i].status = "pending" /\ TaskOf(promos[i].run) = promos[i].task
  /\ job' = [job EXCEPT ![a] =
       [Idle EXCEPT !.pc = "asked", !.run = promos[i].run, !.promo = i]]
  /\ UNCHANGED <<project, repo, store, review, faults>>

\* evaluate_run: a report that is missing is a concern of the merge gate only.
GateConcerns(r, affirming) ==
  \/ project.report[r] = "concerns"
  \/ project.report[r] = "missing" /\ ~affirming

\* The skill's verdict and the merge gate's.
Answer(a) ==
  /\ job[a].pc = "asked"
  /\ \/ Goto(a, "find")
     \/ /\ ~GateConcerns(job[a].run, TRUE)
        /\ IF project.workspace[job[a].run] \in {"shared", "missing"}
           THEN Conclude(a, "record", "skipped") ELSE Goto(a, "check")
  /\ UNCHANGED <<project, repo, store, review, faults>>

-----------------------------------------------------------------------------
(* Apply: commit, push, verify, post-push checks, rollback. *)

HasChanges(a) ==
  /\ job[a].pc = "check"
  /\ IF ws[Place(a)].dirty THEN Goto(a, "commit") ELSE RuntimeError(a)
  /\ UNCHANGED <<project, repo, store, review, faults>>

\* _run_checks has something to run: the commands are make's.
HasCommands(a) == job[a].run \in project.makefile

CommitWork(a) ==
  /\ job[a].pc = "commit"
  /\ IF ws[Place(a)].dirty
     THEN /\ ws' = [ws EXCEPT ![Place(a)].dirty = FALSE,
                              ![Place(a)].own = Append(@, Commit(
                                IF a = "objective" THEN job[a].out ELSE "change", job[a].run, a))]
          /\ Goto(a, IF a = "repair" THEN "push" ELSE "prepush")
     ELSE CommandError(a) /\ UNCHANGED ws       \* another process committed it
  /\ UNCHANGED <<project, main, local, store, review, faults>>

\* A mutant: the checks run, their result is not looked at.
PrePushIgnored(a) ==
  /\ job[a].pc = "prepush"
  /\ \/ HasCommands(a) /\ ws' = [ws EXCEPT ![Place(a)].checked = TRUE] /\ Goto(a, "push")
     \/ Goto(a, "push") /\ UNCHANGED ws
  /\ UNCHANGED <<project, main, local, store, review, faults>>

\* _run_checks before the push: without a Makefile nothing is run, and the push goes ahead.
PrePush(a) ==
  /\ job[a].pc = "prepush"
  /\ \/ HasCommands(a) /\ ws' = [ws EXCEPT ![Place(a)].checked = TRUE] /\ Goto(a, "push")
     \/ HasCommands(a) /\ RuntimeError(a) /\ UNCHANGED ws
     \/ ~HasCommands(a) /\ Goto(a, "push") /\ UNCHANGED ws
  /\ UNCHANGED <<project, main, local, store, review, faults>>

\* A mutant: the workspace is rebased onto what others have pushed.
Rebased(w) == TRUE

\* The remote accepts a push of this workspace to main.
FastForward(w) == ws[w].base = Len(main)

Checked(w) == [k \in DOMAIN ws[w].own |-> [ws[w].own[k] EXCEPT !.checked = ws[w].checked]]

PushMain(w) ==
  /\ main' = main \o Checked(w)
  /\ ws' = [ws EXCEPT ![w].base = Len(main'), ![w].own = <<>>]

\* A push to main, or to a branch: the run's own, which is new, or the branch of the
\* review it remedies, whose commits the workspace does not have.
Push(a) ==
  /\ job[a].pc = "push"
  /\ LET r == job[a].run IN
     \/ /\ project.mode = "direct_main" \/ a = "repair"
        /\ FastForward(Place(a)) /\ PushMain(Place(a)) /\ Goto(a, "verify")
        /\ UNCHANGED faults
     \/ /\ project.mode = "direct_main" \/ a = "repair"
        /\ ~FastForward(Place(a)) /\ CommandError(a)
        /\ UNCHANGED <<main, ws, faults>>
     \/ /\ project.mode # "direct_main" /\ a # "repair"
        /\ IF a \in Affirmers /\ r \in Remedies /\ rebase # {} THEN CommandError(a)
           ELSE IF project.mode = "branch_and_pr" THEN Goto(a, "open")
           ELSE Conclude(a, "record", "applied")
        /\ UNCHANGED <<main, ws, faults>>
     \/ /\ faults > 0 /\ faults' = faults - 1        \* the remote cannot be reached
        /\ CommandError(a) /\ UNCHANGED <<main, ws>>
  /\ UNCHANGED <<project, local, store, review>>

\* _open_review; the provider's command line may fail.
OpenReview(a) ==
  /\ job[a].pc = "open"
  /\ \/ /\ review' = IF a \in Affirmers THEN [review EXCEPT ![job[a].run] = "open"] ELSE review
        /\ Conclude(a, "record", "applied") /\ UNCHANGED faults
     \/ /\ faults > 0 /\ faults' = faults - 1
        /\ RuntimeError(a) /\ UNCHANGED review
  /\ UNCHANGED <<project, repo, store>>

\* _verify_remote_sha: main still ends with what was pushed.
Verify(a) ==
  /\ job[a].pc = "verify"
  /\ IF ~FastForward(Place(a)) THEN RuntimeError(a)
     ELSE IF a = "repair" THEN Conclude(a, "record", "pushed") ELSE Goto(a, "post")
  /\ UNCHANGED <<project, repo, store, review, faults>>

\* A mutant: after the rollback the promotion is taken for applied.
PostPushKept(a) ==
  /\ job[a].pc = "post"
  /\ \/ Conclude(a, "record", "applied") /\ UNCHANGED repo
     \/ /\ FastForward(Place(a)) /\ Conclude(a, "record", "applied")
        /\ main' = Append(main, [Commit("rollback", job[a].run, a) EXCEPT !.checked = TRUE])
        /\ ws' = [ws EXCEPT ![Place(a)].base = Len(main')]
        /\ UNCHANGED local
  /\ UNCHANGED <<project, store, review, faults>>

\* The post-push checks, if there are any; if they fail the commit is reverted in the
\* workspace.
PostPush(a) ==
  /\ job[a].pc = "post"
  /\ \/ Conclude(a, "record", "applied") /\ UNCHANGED ws
     \/ /\ HasCommands(a)
        /\ ws' = [ws EXCEPT ![Place(a)].own = Append(@, Commit("rollback", job[a].run, a))]
        /\ Goto(a, "rollback")
  /\ UNCHANGED <<project, main, local, store, review, faults>>

\* The revert is pushed and verified: either way the apply raises, unless the push
\* itself is refused.
Rollback(a) ==
  /\ job[a].pc = "rollback"
  /\ IF FastForward(Place(a)) THEN PushMain(Place(a)) /\ Done(a)
                              ELSE CommandError(a) /\ UNCHANGED <<main, ws>>
  /\ UNCHANGED <<project, local, store, review, faults>>

\* update_promotion writes the record as the affirmer made it.
RecordPromotion(a) ==
  /\ job[a].pc = "record"
  /\ promos' = [promos EXCEPT ![job[a].promo] =
                  [Promotion(@.task, @.run, "approved") EXCEPT !.applyback = job[a].out]]
  /\ Done(a)
  /\ UNCHANGED <<project, repo, filed, rebase, fixes, review, faults>>

-----------------------------------------------------------------------------
(* The other ways to main. *)

\* _sync_objective_paths brings the run's files as they are in the operator's working
\* tree: without its change, if it is not there.
Brings(r) ==
  IF project.workspace[r] = "shared" \/ Carries(local, r) THEN "change" ELSE "undo"

\* The completed tasks that an objective promotion takes.
Eligible(r) == RunReady(r) /\ project.report[r] # "missing" /\ ~fixes[r].applied

\* promote_objective_to_repo: a worktree on the main branch as last fetched, with the
\* files of the run.
PromoteObjective == \E r \in Runs, b \in DOMAIN main :
  /\ Free("objective") /\ Eligible(r) /\ Len(main) < MaxMain
  /\ \/ b = Len(main) /\ UNCHANGED faults
     \/ b < Len(main) /\ faults > 0 /\ faults' = faults - 1     \* the fetch failed
  /\ job' = [job EXCEPT !["objective"] = [Idle EXCEPT !.pc = "check", !.run = r, !.out = Brings(r)]]
  /\ ws' = [ws EXCEPT !["objective"] =
       [base |-> b, own |-> <<>>, checked |-> FALSE,
        dirty |-> Carries(SubSeq(main, 1, b), r) # (Brings(r) = "change")]]
  /\ UNCHANGED <<project, main, local, store, review>>

\* What was applied is kept with the task (repo_applyback).
RecordObjective ==
  /\ job["objective"].pc = "record"
  /\ fixes' = [fixes EXCEPT ![job["objective"].run].applied = TRUE]
  /\ Done("objective")
  /\ UNCHANGED <<project, repo, promos, filed, rebase, review, faults>>

\* run_local_ci: its stages in order, until one fails; they call make.
LocalCI(r) == /\ project.workspace[r] # "missing" /\ r \in project.makefile
              /\ ws' = [ws EXCEPT ![r].checked = TRUE]

\* promote_completed_structural_fix: the local CI, then what the run changed is staged.
StructuralFix == \E r \in Runs :
  /\ Free("repair") /\ RunReady(r) /\ fixes[r].repair = "none"
  /\ LET start(pc, out) == job' = [job EXCEPT !["repair"] =
                                     [Idle EXCEPT !.pc = pc, !.run = r, !.out = out]]
     IN  \/ project.workspace[r] = "missing" /\ start("record", "skipped") /\ UNCHANGED ws
         \/ project.workspace[r] # "missing" /\ start("record", "blocked") /\ UNCHANGED ws
         \/ /\ LocalCI(r) /\ start("check", "none")
            /\ project.workspace[r] = "shared" => project.report[r] # "missing"
  /\ UNCHANGED <<project, main, local, store, review, faults>>

\* The result is kept with the task (sa_watch_promotion).
RecordFix ==
  /\ job["repair"].pc = "record"
  /\ fixes' = [fixes EXCEPT ![job["repair"].run].repair = job["repair"].out]
  /\ Done("repair")
  /\ UNCHANGED <<project, repo, promos, filed, rebase, review, faults>>

\* The branch of a run carries its change once it is committed there.
BranchCarries(r) == project.workspace[r] \in {"dirty", "committed"} /\ ~ws[r].dirty

\* auto_merge_run on the operator's clone: nothing is merged twice.  A merge that
\* conflicts is aborted.
AutoMerge == \E r \in Runs :
  /\ Free("gate") /\ RunReady(r) /\ ~GateConcerns(r, FALSE)
  /\ project.workspace[r] \in {"dirty", "committed"} /\ Len(local) < MaxMain
  /\ local' = IF BranchCarries(r) /\ ~Carries(local, r)
              THEN Append(local, Commit("change", r, "gate")) ELSE local
  /\ job' = [job EXCEPT !["gate"] = [Idle EXCEPT !.pc = "tests", !.run = r]]
  /\ UNCHANGED <<project, main, ws, store, review, faults>>

Tested == [k \in DOMAIN local |-> [local[k] EXCEPT !.checked = @ \/ k = Len(local)]]

\* The full test suite passes, or the last commit of the clone's main is dropped.
TestMerge ==
  /\ job["gate"].pc = "tests"
  /\ Done("gate")
  /\ local' \in {Tested, SubSeq(local, 1, Len(local) - 1)}
  /\ UNCHANGED <<project, main, ws, store, review, faults>>

-----------------------------------------------------------------------------
(* Open reviews. *)

\* check_due_reviews reads the promotions and asks the provider for the state.
Watch == \E i \in DOMAIN promos :
  /\ Free("watcher")
  /\ promos[i].status = "approved" /\ promos[i].applyback = "applied"
  /\ review[promos[i].run] # "none"
  /\ job' = [job EXCEPT !["watcher"] =
       [pc |-> "write", run |-> promos[i].run, promo |-> i,
        out |-> review[promos[i].run], seen |-> promos[i].watch]]
  /\ UNCHANGED <<project, repo, store, review, faults>>

\* The promotion is written as it was read, with the new state; a conflict that is
\* new needs a follow-on.
WatchWrite ==
  LET w == job["watcher"] IN
  /\ w.pc = "write"
  /\ promos' = [promos EXCEPT ![w.promo] =
       [Promotion(@.task, @.run, "approved") EXCEPT !.applyback = "applied", !.watch = w.out]]
  /\ IF w.out = "conflict" /\ w.seen # "conflict" THEN Goto("watcher", "find") ELSE Done("watcher")
  /\ UNCHANGED <<project, repo, filed, rebase, fixes, review, faults>>

-----------------------------------------------------------------------------
(* The world. *)

\* Somebody else pushes to main.
OutsidePush ==
  /\ faults > 0 /\ faults' = faults - 1
  /\ main' = Append(main, Outside)
  /\ UNCHANGED <<project, local, ws, store, review, job>>

\* A review meets a conflict, is freed of it, merged or closed.
ReviewMoves == \E r \in Runs :
  /\ review[r] \in {"open", "conflict"} /\ Len(main) < MaxMain
  /\ \E state \in {"open", "conflict", "merged", "closed"} \ {review[r]} :
       /\ state = "merged" => review[r] = "open"
       /\ review' = [review EXCEPT ![r] = state]
       /\ main' = IF state = "merged" /\ ~Carries(main, r)
                  THEN main \o Checked(r) ELSE main
  /\ UNCHANGED <<project, local, ws, store, job, faults>>

\* The operator pulls.
Pull ==
  /\ Len(local) < Len(main) /\ local = SubSeq(main, 1, Len(local))
  /\ job["gate"] = Idle
  /\ local' = main
  /\ UNCHANGED <<project, main, ws, store, review, job, faults>>

\* A process dies; the worktree of an objective promotion is abandoned.
Crash(a) ==
  /\ faults > 0 /\ job[a] # Idle
  /\ faults' = faults - 1 /\ Done(a)
  /\ UNCHANGED <<project, repo, store, review>>

Next ==
  \/ \E a \in Affirmers : Review(a) \/ Rereview(a) \/ Refuse(a) \/ Affirm(a) \/ Answer(a)
                           \/ RecordPromotion(a)
  \/ \E a \in Affirmers \cup {"watcher"} : Find(a) \/ FileFollowOn(a)
  \/ \E a \in Affirmers \cup {"objective", "repair"} :
        \/ HasChanges(a) \/ CommitWork(a) \/ PrePush(a) \/ Push(a) \/ OpenReview(a)
        \/ Verify(a) \/ PostPush(a) \/ Rollback(a)
  \/ PromoteObjective \/ RecordObjective \/ StructuralFix \/ RecordFix
  \/ AutoMerge \/ TestMerge
  \/ Watch \/ WatchWrite
  \/ OutsidePush \/ ReviewMoves \/ Pull
  \/ \E a \in Actors : Crash(a)

Spec == Init /\ [][Next]_vars

-----------------------------------------------------------------------------
(* Properties. *)

On(history, op, r, by) ==
  \E k \in DOMAIN history : history[k].op = op /\ history[k].run = r /\ history[k].by = by

\* A promotion on record as applied in a project that promotes directly to main is on
\* main by an affirmer's commit that no affirmer rolled back, and a repair on record as
\* pushed is on main, whatever the other processes, crashes, lost connections and other
\* pushes did meanwhile (promotion_service._apply_approved_promotion,
\* repository_promotion_service.apply, structural_fix_promotion_service).
AppliedIsOnMain ==
  /\ project.mode = "direct_main" => \A i \in DOMAIN promos :
       promos[i].applyback = "applied" =>
         /\ On(main, "change", promos[i].run, "affirmer")
         /\ ~On(main, "rollback", promos[i].run, "affirmer")
  /\ \A r \in Runs : fixes[r].repair = "pushed" => On(main, "change", r, "repair")

\* No change is brought to main twice without having been taken out in between: a retry
\* after a crash or a failed verification, a second affirmer, an objective promotion and
\* a repair of the same run meet a workspace with nothing left to commit or a push that
\* is refused (repository_promotion_service.apply, apply_objective).
NoDoubleApply ==
  \A j, k \in DOMAIN main :
    /\ j < k /\ main[j].run = main[k].run
    /\ main[j].op = "change" /\ main[k].op = "change"
    => \E m \in j + 1..k - 1 : main[m].run = main[j].run

\* The commits that some check is there for: a Makefile, or the merge gate's test suite.
\* A repair counts wherever it got to main.
Checkable(c) ==
  c.run # "none" /\ (c.run \in project.makefile \/ c.by \in {"gate", "repair"})

\* What a process brought to main passed checks on that workspace first, whichever way
\* it took, a review that was merged included, as long as there is a Makefile: without
\* one _run_checks returns and the work goes to main unchecked, except by a repair, whose
\* local CI then fails.  And as long as no process has died the operator's clone keeps no
\* merge but the one under test without the test suite having passed on it
\* (_run_pre_push_checks, run_local_ci, execute_merge).
CheckedBeforeMain ==
  /\ \A k \in DOMAIN main : Checkable(main[k]) => main[k].checked
  /\ faults = project.faults => \A k \in DOMAIN local :
       Checkable(local[k]) => local[k].checked \/ (job["gate"] # Idle /\ k = Len(local))
=============================================================================
