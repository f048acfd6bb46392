---------------------------- MODULE WorkPipeline ----------------------------
(***************************************************************************)
(* The skills pipeline of one run (services/work_orchestrator.py): scope,  *)
(* implement, self-review with one retry, validate, diagnose, the rounds   *)
(* of /fix-tests, the quality gate and the commit.  Every /skill that asks *)
(* an LLM goes through the router, whose failures and whose left-over      *)
(* response file are part of the behaviour.                                *)
(*                                                                         *)
(* A file's content is the step that wrote it; what an LLM answers, and    *)
(* whether tests pass, is an input.                                        *)
(***************************************************************************)
EXTENDS LLMRouting, FiniteSets

CONSTANTS
  Files,         \* the paths an answer can mention, each of them once (a bound)
  Tests,         \* the paths _is_test_path recognises
  Suffixed,      \* profile -> the paths with the suffixes of its language
  Absent,        \* the paths that are not in the repository yet
  Changelog,     \* the path of CHANGELOG.md
  MaxRounds,     \* rounds of implement and self-review: 2 in the code
  MaxFixRounds,  \* rounds of /fix-tests: 3 in the code
  Jobs           \* bounds: alternatives for a behaviour: the task, its workspace, and
                 \* how many tries of a backend bring no answer

Profiles == {"python", "javascript", "terraform", "generic"}

ASSUME PipelineAssumption ==
  /\ Tests \cup Absent \subseteq Files
  /\ Changelog \in Files \ Tests
  /\ Suffixed \in [Profiles -> SUBSET Files]
  /\ {MaxRounds, MaxFixRounds} \subseteq Nat \ {0}
  /\ \A j \in Jobs : /\ j.scope \subseteq Files \* a scope from the plan, or {}
                     /\ j.forbidden \subseteq Files /\ j.required \subseteq Files
                     /\ j.profile \in Profiles /\ "report" \in j.artifacts
                     /\ {j.light, j.tools, j.git} \subseteq BOOLEAN
                     /\ j.faults \in Nat

VARIABLE job   \* the task, its run and the workspace of the run

Base == [f \in Files |-> IF f \in Absent THEN "absent" ELSE "base"]
ImplementedBy(round) == IF round = 1 THEN "implemented" ELSE "reimplemented"

\* A run of a task, in a workspace of its own.
Fresh(j) ==
  [task |-> j, pc |-> "start", call |-> NoCall, text |-> NoText, demoted |-> {},
   faults |-> j.faults, scope |-> {}, tree |-> Base, written |-> {}, deleted |-> {},
   rejected |-> FALSE, round |-> 1, ready |-> FALSE, reviewed |-> Base, blind |-> FALSE,
   overall |-> "none", checked |-> Base, fixes |-> 0,
   committed |-> Base, outcome |-> "none", verdict |-> "none", promotion |-> "none"]

Init == \E j \in Jobs : job = Fresh(j)

-----------------------------------------------------------------------------
(* A skill that asks an LLM: its call, and what becomes of the answer.  The response *)
(* file starts empty: every call of the pipeline has a directory of its own.          *)

Asking == {"scope", "implement", "review", "diagnose", "fix"}

Ask(j, skill) == [j EXCEPT !.pc = skill, !.call = NewCall(j.demoted)]

End(j, outcome) == [j EXCEPT !.pc = "done", !.outcome = outcome, !.call = NoCall]

\* One try of the backend at the head of the chain.
Try ==
  /\ job.pc \in Asking /\ job.call.chain # <<>> /\ job.text = NoText
  /\ \E outcome \in Outcomes :
       LET b       == Head(job.call.chain)
           verdict == Verdict(job.call, b, outcome)
       IN  /\ outcome # "answer" => job.faults > 0
           /\ job' = [job EXCEPT
                !.faults  = IF outcome = "answer" THEN @ ELSE @ - 1,
                !.demoted = Demoted(@, b, verdict),
                !.text    = IF verdict = "accepted" THEN Response(job.call, b, outcome) ELSE @,
                !.call    = IF verdict = "accepted" THEN @ ELSE AfterFailure(@, b, outcome)]

\* Another worker's call on the shared router demotes a backend.
DemotedElsewhere ==
  /\ job.faults > 0 /\ job.pc # "done"
  /\ \E b \in ToSet(Backends) :
       job' = [job EXCEPT !.demoted = Demoted(@, b, "failed"), !.faults = @ - 1]

\* invoke_skill: the router gave up, or the text does not parse, or what it holds
\* is not valid output for the skill.
SkillFails == job.pc \in Asking /\ (job.text # NoText \/ job.call.chain = <<>>)
SkillAnswers == job.pc \in Asking /\ job.text # NoText

Answered(j) == [j EXCEPT !.text = NoText, !.call = NoCall]

-----------------------------------------------------------------------------
(* Scope. *)

Implement(j) == Ask(j, "implement")

\* The budget, then the scope of the plan or a /scope skill.
Start ==
  /\ job.pc = "start"
  /\ \/ job' = IF job.task.scope # {} THEN Implement([job EXCEPT !.scope = job.task.scope])
               ELSE Ask(job, "scope")
     \/ ~job.task.light /\ job' = End(job, "blocked")   \* the daily budget is spent

\* A valid answer of /scope names the files to touch.
ScopeAnswers == SUBSET Files \ {{}}

Scope ==
  /\ job.pc = "scope"
  /\ \/ SkillFails /\ job' = End(job, "failed")
     \/ /\ SkillAnswers
        /\ \E files \in ScopeAnswers :
             job' = Implement([Answered(job) EXCEPT !.scope = files])
     \/ SkillAnswers /\ job' = End(Answered(job), "blocked")   \* too_large

-----------------------------------------------------------------------------
(* Implement and self-review. *)

\* What an answer says of each path, and whether the anchors of its edits match.
Mentions(answer, op) == {f \in Files : answer.ops[f] = op}
AnyAnswers == [ops : [Files -> {"none", "edit", "create", "delete"}], anchored : BOOLEAN]

\* A valid answer of /implement changes something.
Answers == {answer \in AnyAnswers : Mentions(answer, "none") # Files}

\* A mutant: deletions are not held to the allowed files.
ApplyAnyDeletion(tree, answer, allowed, content) ==
  LET edits == Mentions(answer, "edit")
      edit  == IF /\ answer.anchored
                  /\ \A f \in edits : f \in allowed /\ tree[f] # "absent"
               THEN edits ELSE {}
      new   == {f \in Mentions(answer, "create") : f \in allowed /\ tree[f] = "absent"}
      del   == {f \in Mentions(answer, "delete") : tree[f] # "absent"}
  IN  [tree     |-> [f \in Files |-> IF f \in edit \cup new THEN content
                                     ELSE IF f \in del THEN "absent" ELSE tree[f]],
       written  |-> edit \cup new,
       rejected |-> FALSE]

\* apply_changes: the edits all or none, new files and deletions one by one, and
\* only in the allowed files.
ApplyChanges(tree, answer, allowed, content) ==
  LET edits == Mentions(answer, "edit")
      sound == /\ answer.anchored
               /\ \A f \in edits : f \in allowed /\ tree[f] # "absent"
      edit  == IF sound THEN edits ELSE {}
      new   == {f \in Mentions(answer, "create") : f \in allowed /\ tree[f] = "absent"}
      del   == {f \in Mentions(answer, "delete") : f \in allowed /\ tree[f] # "absent"}
  IN  [tree     |-> [f \in Files |-> IF f \in edit \cup new THEN content
                                     ELSE IF f \in del THEN "absent" ELSE tree[f]],
       written  |-> edit \cup new,
       rejected |-> \/ edits # edit
                    \/ Mentions(answer, "create") # new
                    \/ Mentions(answer, "delete") \ allowed # {}]

\* What git sees of the changes in the workspace.
Diff(tree) == {f \in Files : tree[f] # Base[f]}

\* An answer is applied and reviewed.  In the second round the merge of the two
\* rounds' rejections raises (the entries are not hashable) if there is any.
Applied(j, answer) ==
  LET a == ApplyChanges(j.tree, answer, j.scope, ImplementedBy(j.round))
      n == [j EXCEPT !.tree = a.tree, !.written = @ \cup a.written,
                     !.deleted = Mentions(answer, "delete"), !.rejected = @ \/ a.rejected]
  IN  IF j.round = 1 /\ a.rejected /\ a.written = {} THEN End(n, "failed")
      ELSE IF j.round > 1 /\ n.rejected THEN End(n, "raised")
      ELSE Ask([n EXCEPT !.reviewed = a.tree, !.blind = ~j.task.git], "review")

\* _git_diff runs into an error, which it takes for an empty diff.
DiffFails ==
  /\ job.pc = "review" /\ ~job.blind /\ job.call = NewCall(job.demoted)
  /\ job.faults > 0
  /\ job' = [job EXCEPT !.blind = TRUE, !.faults = @ - 1]

Implemented ==
  /\ job.pc = "implement"
  /\ \/ SkillFails /\ job' = IF job.round = 1 THEN End(job, "failed")
                             ELSE [Answered(job) EXCEPT !.pc = "validate"]
     \/ /\ SkillAnswers
        /\ \E answer \in Answers : job' = Applied(Answered(job), answer)

\* enforce_non_negotiables: what the diff may not and must touch.
NonNegotiable(j) ==
  LET seen == IF j.blind THEN {} ELSE Diff(j.reviewed)
  IN  seen \cap j.task.forbidden = {} /\ j.task.required \subseteq seen

ShipReady(j, verdict) == verdict /\ NonNegotiable(j)

Reviewed ==
  /\ job.pc = "review"
  /\ \/ SkillFails /\ job' = [Answered(job) EXCEPT !.pc = "validate", !.ready = FALSE]
     \/ /\ SkillAnswers
        /\ \E verdict \in BOOLEAN :
             LET ready == ShipReady(job, verdict)
                 next  == [Answered(job) EXCEPT !.ready = ready]
             IN  job' = IF ready \/ job.round = MaxRounds
                        THEN [next EXCEPT !.pc = "validate"]
                        ELSE Implement([next EXCEPT !.round = @ + 1])

-----------------------------------------------------------------------------
(* Validate, diagnose, fix the tests. *)

\* _resolve_validate_commands: none for a lightweight task, without the Makefile or
\* the package.json of the profile, or when no Python file was written.
HasCommands(j) ==
  /\ ~j.task.light
  /\ j.task.profile \in {"generic", "javascript"} => j.task.tools
  /\ j.task.profile = "python" => j.written \cap Suffixed["python"] # {}

Validate ==
  /\ job.pc = "validate"
  /\ IF HasCommands(job)
     THEN \/ job' = [job EXCEPT !.overall = "pass", !.checked = job.tree, !.pc = "gate"]
          \/ job' = Ask([job EXCEPT !.overall = "fail"], "diagnose")
     ELSE job' = [job EXCEPT !.overall = "skipped", !.pc = "gate"]

ChangedTests(j) == j.written \cap Tests

\* A mutant: the rounds are not counted.
FixUncounted(j) ==
  IF \E f \in ChangedTests(j) : j.tree[f] # "absent" THEN Ask(j, "fix")
  ELSE [j EXCEPT !.pc = "gate"]

\* _try_fix_tests looks at a changed test file, which may be gone.
Fix(j) ==
  IF j.fixes < MaxFixRounds /\ \E f \in ChangedTests(j) : j.tree[f] # "absent"
  THEN Ask([j EXCEPT !.fixes = @ + 1], "fix")
  ELSE [j EXCEPT !.pc = "gate"]

Diagnosed ==
  /\ job.pc = "diagnose"
  /\ \/ SkillFails /\ job' = [Answered(job) EXCEPT !.pc = "gate"]
     \/ SkillAnswers /\ job' = [Answered(job) EXCEPT !.pc = "gate"] \* not an assertion
     \/ SkillAnswers /\ job' = Fix(Answered(job))

\* A mutant: the fix may touch whatever the scope allows.
FixedInScope(j, answer) ==
  [j EXCEPT !.tree = ApplyChanges(j.tree, answer, j.scope, "fixed").tree,
            !.pc = "revalidate"]

\* A valid answer of /fix-tests edits something; the skill leaves the other keys of
\* the answer in place, and apply_changes follows them.
FixAnswers == {answer \in AnyAnswers : Mentions(answer, "edit") # {}}

Fixed(j, answer) ==
  [j EXCEPT !.tree = ApplyChanges(j.tree, answer, ChangedTests(j), "fixed").tree,
            !.pc = "revalidate"]

FixTests ==
  /\ job.pc = "fix"
  /\ \/ SkillFails /\ job' = [Answered(job) EXCEPT !.pc = "gate"]
     \/ /\ SkillAnswers
        /\ \E answer \in FixAnswers : job' = Fixed(Answered(job), answer)

\* A mutant: what was fixed is taken to pass.
TrustFix ==
  job.pc = "revalidate" /\ job' = [job EXCEPT !.overall = "pass", !.pc = "gate"]

Revalidate ==
  /\ job.pc = "revalidate"
  /\ \/ job' = [job EXCEPT !.overall = "pass", !.checked = job.tree, !.pc = "gate"]
     \/ job' = Fix(job)

-----------------------------------------------------------------------------
(* The verdict and the commit. *)

\* The quality gate reports and blocks nothing.
Gate ==
  /\ job.pc = "gate"
  /\ job' = IF job.overall = "fail" \/ ~job.ready THEN End(job, "failed")
            ELSE [job EXCEPT !.pc = "commit"]

\* _append_changelog_entry: CHANGELOG.md gets an entry, and is made for it, whatever the
\* scope and after everything that was reviewed and run.
Entered(j) == [j EXCEPT !.tree[Changelog] = "entry"]

\* What is staged: everything written, CHANGELOG.md if there is one, and what the last
\* answer wanted deleted.  git refuses all of it if one of the paths is neither tracked
\* nor there.
Staged(j) ==
  j.written \cup j.deleted \cup {f \in {Changelog} : j.tree[f] # "absent"}
Stageable(j) == \A f \in Staged(j) : j.tree[f] # "absent" \/ Base[f] # "absent"
                                     \/ f \in j.written

\* What the run ends with, from the workspace as the entry has left it.
Committed(j) ==
  [End(j, "success") EXCEPT
     !.committed = IF j.task.git /\ Stageable(j)
                   THEN [f \in Files |-> IF f \in Staged(j) THEN j.tree[f] ELSE Base[f]]
                   ELSE @]

Commit ==
  /\ job.pc = "commit"
  /\ \/ job' = Committed(Entered(job))
     \/ job.faults > 0 /\ job' = Committed([job EXCEPT !.faults = @ - 1]) \* not writable

Next ==
  \/ Try \/ DemotedElsewhere
  \/ Start \/ Scope \/ Implemented \/ DiffFails \/ Reviewed
  \/ Validate \/ Diagnosed \/ FixTests \/ Revalidate
  \/ Gate \/ Commit

Spec == Init /\ [][Next]_job

-----------------------------------------------------------------------------
(* Properties. *)

Shipped == {f \in Files : job.committed[f] # Base[f]}

\* The entry in CHANGELOG.md, which a successful run makes last.
IsEntry(j, f, content) == f = Changelog /\ content = "entry" /\ j.outcome = "success"

\* ShippedWasValidated: when commands were run, every file of the commit has the
\* content it had when they passed, whatever the later rounds of /fix-tests wrote.  Only
\* CHANGELOG.md is different: no command has seen its entry.
ShippedWasValidated ==
  job.overall = "pass" => \A f \in Shipped :
    job.committed[f] = job.checked[f] \/ IsEntry(job, f, job.committed[f])

\* ShippedWasReviewed: unless git could not show the diff, a commit holds what the
\* self-review that allowed it saw, except for the tests that /fix-tests may still
\* change, and nothing that the task's non-negotiables forbid; except also for the
\* entry in CHANGELOG.md, which no review sees and no non-negotiable keeps out.
ShippedWasReviewed ==
  ~job.blind => \A f \in Shipped \ Tests :
    /\ job.ready
    /\ \/ job.committed[f] = job.reviewed[f] /\ f \notin job.task.forbidden
       \/ IsEntry(job, f, job.committed[f])

\* ScopeKept: whatever the answers of all rounds ask for, the workspace differs from
\* the repository only in files of the scope, and after a success in CHANGELOG.md, which
\* then has its entry whatever the scope.
ScopeKept ==
  \A f \in Diff(job.tree) : f \in job.scope \/ IsEntry(job, f, job.tree[f])

\* ReportIsNoAnswer: what the router returns as an answer is never a backend's error
\* report, though the report may still be in the response file of the call.
ReportIsNoAnswer == ~IsReport(job.text)

\* RejectionIsAnOutcome: a proposed write outside the scope is reported as a failed or
\* a smaller change; it does not raise out of the pipeline.
RejectionIsAnOutcome == job.outcome # "raised"
=============================================================================
