------------------------------ MODULE Evidence ------------------------------
(***************************************************************************)
(* What becomes of a pipeline's run: the report it leaves, the analyzer's  *)
(* verdict over the artifacts (policy.py), and the deterministic gates of  *)
(* the promotion review, which read the report and nothing else            *)
(* (validation/validators.py).                                             *)
(***************************************************************************)
EXTENDS WorkPipeline

\* The kinds of artifacts a run leaves; one that ends without a report is given one.
Kinds(j) == IF j.outcome = "success" THEN {"plan", "report"} ELSE {"report"}

\* The names of the commands of a profile.
Stages(profile) ==
  CASE profile = "python"     -> {"compile", "tests"}
    [] profile = "javascript" -> {"build", "tests"}
    [] OTHER                  -> {"check"}

\* A mutant: whatever passed counts as the stage asked for.
AnyStagePassed(j, names) == j.overall \in {"skipped", "pass"}

\* The checks of a report: some stage of that name passed, or there was nothing to run.
StagePassed(j, names) ==
  \/ j.overall = "skipped"
  \/ j.overall = "pass" /\ Stages(j.task.profile) \cap names # {}

Report(j) ==
  [profile  |-> j.task.profile,
   changed  |-> j.written,
   tests    |-> j.written \cap Tests,
   compiled |-> StagePassed(j, {"compile", "build"}),
   tested   |-> StagePassed(j, {"tests", "test"})]

-----------------------------------------------------------------------------
(* The validators. *)

RequiredArtifacts(task, kinds) == task.artifacts \subseteq kinds

ProfileMatches(task, report) == report.profile = task.profile

ChangedFiles(report) == report.changed # {}

CompileCheck(report) == report.compiled

TestEvidence(report) == report.tests # {} /\ report.tested

PythonTestFiles(report) ==
  report.tests # {} /\ report.tests \subseteq Suffixed["python"]

JavaScriptTestFiles(report) ==
  report.tests # {} /\ report.tests \subseteq Suffixed["javascript"]

\* Terraform wants a check of its own, which no report of the pipeline has.
TerraformValidation == FALSE

\* The files of the artifacts are there and readable, and no report of the pipeline
\* is marked as blocked.
PromotionGates(task, kinds, report) ==
  /\ RequiredArtifacts(task, kinds) /\ ProfileMatches(task, report)
  /\ ChangedFiles(report) /\ CompileCheck(report)
  /\ CASE task.profile = "python"     -> TestEvidence(report) /\ PythonTestFiles(report)
       [] task.profile = "javascript" -> TestEvidence(report) /\ JavaScriptTestFiles(report)
       [] task.profile = "terraform"  -> TerraformValidation
       [] OTHER                       -> TestEvidence(report)

-----------------------------------------------------------------------------

\* The verdict over an outcome; a run that raised has none.
Judge ==
  /\ job.pc = "done" /\ job.verdict = "none" /\ job.outcome # "raised"
  /\ job' = [job EXCEPT !.verdict =
       IF job.outcome # "success" THEN job.outcome
       ELSE IF RequiredArtifacts(job.task, Kinds(job)) THEN "acceptable"
       ELSE "incomplete"]

\* review_task, for a run that was completed.
ReviewTask ==
  /\ job.verdict = "acceptable" /\ job.promotion = "none"
  /\ job' = [job EXCEPT !.promotion =
       IF PromotionGates(job.task, Kinds(job), Report(job)) THEN "pending" ELSE "rejected"]

JudgingNext == Judge \/ ReviewTask

Settled ==
  \/ job.outcome = "raised" \/ job.verdict \notin {"none", "acceptable"}
  \/ job.promotion # "none"

-----------------------------------------------------------------------------

\* PendingIsWhatPassed: of a candidate that waits for its affirmation, the whole
\* workspace, deletions and fixed tests included, is what the last self-review saw
\* and allowed, apart from tests; and either nothing was there to be run, or it is
\* what a compile or build stage and a test stage passed on.  The one file that is
\* neither is CHANGELOG.md with its entry.
PendingIsWhatPassed ==
  job.promotion = "pending" =>
    /\ job.ready
    /\ \A f \in Files \ Tests : job.tree[f] = job.reviewed[f] \/ IsEntry(job, f, job.tree[f])
    /\ \/ ~HasCommands(job)
       \/ /\ \A f \in Files : job.tree[f] = job.checked[f] \/ IsEntry(job, f, job.tree[f])
          /\ Stages(job.task.profile) \cap {"compile", "build"} # {}
          /\ "tests" \in Stages(job.task.profile)
=============================================================================
