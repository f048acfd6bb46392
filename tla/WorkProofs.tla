----------------------------- MODULE WorkProofs -----------------------------
(***************************************************************************)
(* Theorems about PlannedWork, for any tasks, paths, backends and drafts.  *)
(***************************************************************************)
EXTENDS PlannedWork, TLAPS

-----------------------------------------------------------------------------
(* The record of a run.                                                    *)

Named == {"task", "pc", "call", "text", "demoted", "faults", "scope", "tree", "written",
          "deleted", "rejected", "round", "ready", "reviewed", "blind", "overall",
          "checked", "fixes", "committed", "outcome", "verdict", "promotion"}

Shaped(j) == DOMAIN j = Named /\ j = [x \in Named |-> j[x]]

\* What a step leaves alone unless it says otherwise.
SameWork(j, n) ==
  /\ Shaped(n)
  /\ n.task = j.task /\ n.scope = j.scope /\ n.tree = j.tree /\ n.written = j.written
  /\ n.ready = j.ready /\ n.reviewed = j.reviewed /\ n.blind = j.blind
  /\ n.overall = j.overall /\ n.checked = j.checked /\ n.committed = j.committed
  /\ n.verdict = j.verdict /\ n.promotion = j.promotion

\* A fresh record names all of its fields.
LEMMA FreshShaped ==
  ASSUME NEW j PROVE Shaped(Fresh(j)) /\ Fresh(j).tree = Base /\ Fresh(j).written = {}
BY DEF Shaped, Named, Fresh

\* Asking an LLM, ending the run and taking an answer.
LEMMA AskKeeps ==
  ASSUME NEW j, Shaped(j), NEW skill
  PROVE  SameWork(j, Ask(j, skill)) /\ Ask(j, skill).pc = skill
         /\ Ask(j, skill).text = j.text /\ Ask(j, skill).outcome = j.outcome
BY DEF Shaped, Named, SameWork, Ask

\* A pipeline that stops with an outcome keeps the work it has done.
LEMMA EndKeeps ==
  ASSUME NEW j, Shaped(j), NEW outcome
  PROVE  SameWork(j, End(j, outcome)) /\ End(j, outcome).pc = "done"
         /\ End(j, outcome).text = j.text /\ End(j, outcome).outcome = outcome
BY DEF Shaped, Named, SameWork, End

\* Reading an answer of the model takes the text and nothing else.
LEMMA AnsweredKeeps ==
  ASSUME NEW j, Shaped(j)
  PROVE  SameWork(j, Answered(j)) /\ Answered(j).pc = j.pc
         /\ Answered(j).text = NoText /\ Answered(j).outcome = j.outcome
BY DEF Shaped, Named, SameWork, Answered

-----------------------------------------------------------------------------
(* What a run relies on from one step to the next.                         *)

\* Before a change has been asked for.
Before == {"waiting", "start", "scope"}

\* Once the commands have run, or were found not to be there.
After == {"gate", "commit", "done"}

\* Nothing is touched before a scope is fixed, and then nothing outside of it before
\* the entry in CHANGELOG.md.
InScope(j) ==
  /\ j.pc \in Before => j.tree = Base /\ j.written = {}
  /\ \A f \in Diff(j.tree) : f \in j.scope \/ IsEntry(j, f, j.tree[f])
  /\ j.written \subseteq j.scope

\* The run goes on with the workspace that its self-review saw, apart from tests and
\* in the end from the entry in CHANGELOG.md; an approval is of a later date than the last change and respects what the task
\* forbids; nothing is committed without one.
AsReviewed(j) ==
  /\ j.ready \in BOOLEAN
  /\ j.pc \in Before \cup {"implement", "review"} => ~ j.ready
  /\ j.pc # "done" \/ j.outcome = "success" =>
       \A f \in Files \ Tests : j.tree[f] = j.reviewed[f] \/ IsEntry(j, f, j.tree[f])
  /\ j.ready /\ ~ j.blind => Diff(j.reviewed) \cap j.task.forbidden = {}
  /\ j.pc = "commit" \/ j.outcome = "success" => j.ready
  /\ j.outcome # "success" => j.committed = Base
  /\ \A f \in Files : j.committed[f] \in {Base[f], j.tree[f]}

\* What passed is what is there, apart from that entry, and what was skipped had nothing to be run.
AsChecked(j) ==
  /\ j.overall = "pass" =>
       j.pc \in After /\ \A f \in Files : j.tree[f] = j.checked[f] \/ IsEntry(j, f, j.tree[f])
  /\ j.overall = "skipped" => j.pc \in After /\ ~ HasCommands(j)

\* A run is judged after its end, and only an acceptable one is up for promotion.
AsJudged(j) ==
  /\ j.outcome \in {"none", "success", "failed", "blocked", "raised"}
  /\ j.outcome # "none" => j.pc = "done"
  /\ j.verdict # "none" => j.pc = "done"
  /\ j.verdict = "acceptable" => j.outcome = "success"
  /\ j.promotion # "none" => j.verdict = "acceptable"
  /\ j.promotion = "pending" => PromotionGates(j.task, Kinds(j), Report(j))

RunInv(j) ==
  /\ Shaped(j) /\ ~ IsReport(j.text)
  /\ InScope(j) /\ AsReviewed(j) /\ AsChecked(j) /\ AsJudged(j)

\* It is the invariant that makes the properties true.
LEMMA RunInvImplies ==
  ASSUME RunInv(job)
  PROVE  /\ ShippedWasValidated /\ ShippedWasReviewed /\ ScopeKept /\ ReportIsNoAnswer
         /\ PendingIsWhatPassed
<1> USE DEF RunInv
<1>1. ShippedWasValidated
  BY DEF ShippedWasValidated, Shipped, AsChecked, AsReviewed
<1>2. ShippedWasReviewed
  <2> SUFFICES ASSUME ~ job.blind, NEW f \in Shipped \ Tests
               PROVE  /\ job.ready
                      /\ \/ job.committed[f] = job.reviewed[f] /\ f \notin job.task.forbidden
                         \/ IsEntry(job, f, job.committed[f])
    BY DEF ShippedWasReviewed
  <2>1. f \in Files \ Tests /\ job.committed[f] # Base[f] /\ job.outcome = "success"
    BY DEF Shipped, AsReviewed
  <2>2. /\ job.ready /\ job.committed[f] = job.tree[f]
        /\ job.tree[f] = job.reviewed[f] \/ IsEntry(job, f, job.tree[f])
    BY <2>1 DEF AsReviewed
  <2>3. job.tree[f] = job.reviewed[f] => f \in Diff(job.reviewed)
    BY <2>1, <2>2 DEF Diff
  <2> QED
    BY <2>2, <2>3 DEF AsReviewed
<1>3. ScopeKept /\ ReportIsNoAnswer
  BY DEF ScopeKept, ReportIsNoAnswer, InScope
<1>4. PendingIsWhatPassed
  <2> SUFFICES ASSUME job.promotion = "pending"
               PROVE  /\ job.ready
                      /\ \A f \in Files \ Tests :
                           job.tree[f] = job.reviewed[f] \/ IsEntry(job, f, job.tree[f])
                      /\ \/ ~HasCommands(job)
                         \/ /\ \A f \in Files : \/ job.tree[f] = job.checked[f]
                                                  \/ IsEntry(job, f, job.tree[f])
                            /\ Stages(job.task.profile) \cap {"compile", "build"} # {}
                            /\ "tests" \in Stages(job.task.profile)
    BY DEF PendingIsWhatPassed
  <2>1. job.outcome = "success" /\ PromotionGates(job.task, Kinds(job), Report(job))
    BY DEF AsJudged
  <2>2. StagePassed(job, {"compile", "build"}) /\ StagePassed(job, {"tests", "test"})
    BY <2>1 DEF PromotionGates, CompileCheck, TestEvidence, TerraformValidation, Report
  <2>3. job.overall = "skipped" => ~ HasCommands(job)
    BY DEF AsChecked
  <2>4. job.overall = "pass" => \A f \in Files : \/ job.tree[f] = job.checked[f]
                                                 \/ IsEntry(job, f, job.tree[f])
    BY DEF AsChecked
  <2>5. "test" \notin Stages(job.task.profile)
    BY DEF Stages
  <2> QED
    BY <2>1, <2>2, <2>3, <2>4, <2>5 DEF AsReviewed, StagePassed
<1> QED
  BY <1>1, <1>2, <1>3, <1>4

-----------------------------------------------------------------------------
(* The steps of a run.                                                     *)

\* A run before its end that touches nothing and moves on to a point where no
\* more is asked of it.
LEMMA MovesOn ==
  ASSUME NEW j, NEW n, RunInv(j), SameWork(j, n), j.pc # "done", ~ IsReport(n.text),
         n.pc \in Before => j.pc \in Before,
         n.pc \in {"implement", "review"} => ~ j.ready,
         n.pc = "commit" => j.ready,
         n.pc = "done" => n.outcome \in {"failed", "blocked", "raised"},
         n.pc # "done" => n.outcome = j.outcome,
         j.pc \in After => n.pc \in After
  PROVE  RunInv(n)
<1> USE DEF RunInv, SameWork
<1>1. j.outcome = "none" /\ j.verdict = "none" /\ j.promotion = "none"
  BY DEF AsJudged
<1>2. n.outcome \in {"none", "failed", "blocked", "raised"}
  BY <1>1
<1>3. InScope(n)
  BY <1>1 DEF InScope, IsEntry
<1>4. AsReviewed(n)
  BY <1>1, <1>2 DEF AsReviewed, IsEntry
<1>5. AsChecked(n)
  BY <1>1 DEF AsChecked, HasCommands, IsEntry
<1>6. AsJudged(n)
  BY <1>1, <1>2 DEF AsJudged
<1> QED
  BY <1>3, <1>4, <1>5, <1>6

\* An empty response is no error report.
LEMMA NoTextIsNoReport == ~ IsReport(NoText)
<1>1. NoText = [kind |-> "none", by |-> ""]
  BY DEF NoText, Text
<1> QED
  BY <1>1 DEF IsReport

\* A fresh run satisfies the invariant, and one that still waits for its task.
LEMMA FreshInv ==
  ASSUME NEW j
  PROVE  RunInv(Fresh(j)) /\ RunInv([Fresh(j) EXCEPT !.pc = "waiting"])
<1> DEFINE fresh(n) ==
      /\ Shaped(n) /\ n.pc \in Before /\ n.text = NoText /\ n.tree = Base /\ n.written = {}
      /\ n.ready = FALSE /\ n.reviewed = Base /\ n.overall = "none" /\ n.committed = Base
      /\ n.outcome = "none" /\ n.verdict = "none" /\ n.promotion = "none"
<1>1. fresh(Fresh(j)) /\ fresh([Fresh(j) EXCEPT !.pc = "waiting"])
  BY DEF Shaped, Named, Fresh, Before
<1>2. ASSUME NEW n, fresh(n) PROVE RunInv(n)
  <2>1. ~ IsReport(n.text)
    BY <1>2, NoTextIsNoReport
  <2>2. InScope(n)
    BY <1>2 DEF InScope, Diff
  <2>3. AsReviewed(n)
    BY <1>2 DEF AsReviewed, Before
  <2>4. AsChecked(n) /\ AsJudged(n)
    BY <1>2 DEF AsChecked, AsJudged
  <2> QED
    BY <1>2, <2>1, <2>2, <2>3, <2>4 DEF RunInv
<1> HIDE DEF fresh
<1> QED
  BY <1>1, <1>2

\* Once the scope is fixed, with the workspace as it was, a change is asked for.
LEMMA ScopeFixed ==
  ASSUME NEW j, RunInv(j), j.pc \in Before, NEW files, NEW n,
         n = Implement([j EXCEPT !.scope = files])
  PROVE  RunInv(n)
<1> DEFINE scoped == [j EXCEPT !.scope = files]
<1>1. /\ Shaped(scoped) /\ scoped.task = j.task /\ scoped.tree = j.tree
      /\ scoped.written = j.written /\ scoped.ready = j.ready /\ scoped.reviewed = j.reviewed
      /\ scoped.overall = j.overall /\ scoped.committed = j.committed /\ scoped.text = j.text
      /\ scoped.outcome = j.outcome /\ scoped.verdict = j.verdict
      /\ scoped.promotion = j.promotion
  BY DEF RunInv, Shaped, Named
<1> HIDE DEF scoped
<1>2. n = Ask(scoped, "implement")
  BY DEF Implement, scoped
<1>3. /\ SameWork(scoped, n) /\ n.pc = "implement" /\ n.text = scoped.text
      /\ n.outcome = scoped.outcome
  BY <1>2, <1>1, AskKeeps
<1>4. j.pc # "done" /\ j.tree = Base /\ j.written = {} /\ ~ j.ready /\ j.pc \notin After
  BY DEF RunInv, InScope, AsReviewed, Before, After
<1>5. j.outcome = "none" /\ j.verdict = "none" /\ j.promotion = "none"
  BY <1>4 DEF RunInv, AsJudged
<1>6. InScope(n)
  BY <1>1, <1>3, <1>4 DEF SameWork, InScope, Diff, Before
<1>7. AsReviewed(n)
  BY <1>1, <1>3, <1>4, <1>5 DEF RunInv, SameWork, AsReviewed, IsEntry
<1>8. AsChecked(n)
  BY <1>1, <1>3, <1>4 DEF RunInv, SameWork, AsChecked
<1>9. AsJudged(n)
  BY <1>1, <1>3, <1>5 DEF SameWork, AsJudged
<1> QED
  BY <1>1, <1>3, <1>6, <1>7, <1>8, <1>9 DEF RunInv, SameWork

\* A text that the router accepts as an answer is no error report.
LEMMA AcceptedIsNoReport ==
  ASSUME NEW call, NEW b, NEW outcome, Verdict(call, b, outcome) = "accepted"
  PROVE  ~ IsReport(Response(call, b, outcome))
BY DEF Verdict, IsReport

\* One try of a backend changes the call and the text, or demotes the backend.
LEMMA TryStep == ASSUME RunInv(job), Try PROVE RunInv(job')
<1>1. PICK outcome \in Outcomes :
        LET b       == Head(job.call.chain)
            verdict == Verdict(job.call, b, outcome)
        IN  job' = [job EXCEPT
                !.faults  = IF outcome = "answer" THEN @ ELSE @ - 1,
                !.demoted = Demoted(@, b, verdict),
                !.text    = IF verdict = "accepted" THEN Response(job.call, b, outcome) ELSE @,
                !.call    = IF verdict = "accepted" THEN @ ELSE AfterFailure(@, b, outcome)]
  BY DEF Try
<1> DEFINE b == Head(job.call.chain)
           verdict == Verdict(job.call, b, outcome)
<1>2. /\ SameWork(job, job') /\ job'.pc = job.pc /\ job'.outcome = job.outcome
      /\ job'.text = IF verdict = "accepted" THEN Response(job.call, b, outcome) ELSE job.text
  BY <1>1 DEF RunInv, Shaped, Named, SameWork
<1>3. ~ IsReport(job'.text)
  BY <1>2, AcceptedIsNoReport DEF RunInv
<1>4. job.pc \in Asking
  BY DEF Try
<1> QED
  BY <1>2, <1>3, <1>4, MovesOn DEF Asking, RunInv, AsReviewed, Before

\* Another call's failure demotes a backend and nothing else.
LEMMA DemotedStep == ASSUME RunInv(job), DemotedElsewhere PROVE RunInv(job')
<1>1. PICK b \in ToSet(Backends) :
        job' = [job EXCEPT !.demoted = Demoted(@, b, "failed"), !.faults = @ - 1]
  BY DEF DemotedElsewhere
<1>2. /\ SameWork(job, job') /\ job'.pc = job.pc /\ job'.outcome = job.outcome
      /\ job'.text = job.text
  BY <1>1 DEF RunInv, Shaped, Named, SameWork
<1> QED
  BY <1>2, MovesOn DEF DemotedElsewhere, RunInv, AsReviewed

\* The scope comes from the plan or is asked for, unless the budget is spent.
LEMMA StartStep == ASSUME RunInv(job), Start PROVE RunInv(job')
<1>1. job.pc = "start" /\ Shaped(job) /\ ~ job.ready /\ job.outcome = "none"
  BY DEF Start, RunInv, AsReviewed, AsJudged, Before
<1>2. CASE job' = Implement([job EXCEPT !.scope = job.task.scope])
  <2>1. PICK files : job' = Implement([job EXCEPT !.scope = files])
    BY <1>2
  <2>2. job.pc \in Before
    BY <1>1 DEF Before
  <2> QED
    BY <2>1, <2>2, ScopeFixed
<1>3. CASE job' = Ask(job, "scope")
  <2>1. SameWork(job, job') /\ job'.pc = "scope" /\ job'.text = job.text /\ job'.outcome = "none"
    BY <1>1, <1>3, AskKeeps
  <2> QED
    BY <1>1, <2>1, MovesOn DEF RunInv, Before, After
<1>4. CASE job' = End(job, "blocked")
  <2>1. /\ SameWork(job, job') /\ job'.pc = "done" /\ job'.text = job.text
        /\ job'.outcome = "blocked"
    BY <1>1, <1>4, EndKeeps
  <2> QED
    BY <1>1, <2>1, MovesOn DEF RunInv, Before, After
<1> QED
  BY <1>2, <1>3, <1>4 DEF Start

\* A valid answer of /scope fixes it; without one the run is over.
LEMMA ScopeStep == ASSUME RunInv(job), Scope PROVE RunInv(job')
<1>1. job.pc = "scope" /\ Shaped(job) /\ ~ IsReport(job.text)
  BY DEF Scope, RunInv
<1> DEFINE k == Answered(job)
<1>2. SameWork(job, k) /\ k.pc = "scope" /\ k.text = NoText /\ k.outcome = job.outcome
  BY <1>1, AnsweredKeeps
<1>3. RunInv(k)
  BY <1>1, <1>2, NoTextIsNoReport, MovesOn DEF Before
<1> HIDE DEF k
<1>4. CASE \E files : job' = Implement([k EXCEPT !.scope = files])
  <2>1. PICK files : job' = Implement([k EXCEPT !.scope = files])
    BY <1>4
  <2> QED
    BY <1>2, <1>3, <2>1, ScopeFixed DEF Before
<1>5. CASE job' = End(job, "failed")
  <2>1. SameWork(job, job') /\ job'.pc = "done" /\ job'.text = job.text
        /\ job'.outcome = "failed"
    BY <1>1, <1>5, EndKeeps
  <2> QED
    BY <1>1, <2>1, MovesOn DEF Before, After
<1>6. CASE job' = End(k, "blocked")
  <2>1. Shaped(k)
    BY <1>2 DEF SameWork
  <2>2. SameWork(k, job') /\ job'.pc = "done" /\ job'.text = k.text
        /\ job'.outcome = "blocked"
    BY <1>6, <2>1, EndKeeps
  <2> QED
    BY <1>2, <1>3, <2>2, NoTextIsNoReport, MovesOn DEF Before, After
<1> QED
  BY <1>4, <1>5, <1>6 DEF Scope, k

-----------------------------------------------------------------------------
(* Changes to the workspace.                                               *)

\* apply_changes leaves every file alone that it is not allowed to touch, and
\* reports nothing else as written.
LEMMA ApplyKeeps ==
  ASSUME NEW w, NEW answer, NEW allowed, NEW content
  PROVE  /\ \A f \in Files \ allowed :
              ApplyChanges(w, answer, allowed, content).tree[f] = w[f]
         /\ ApplyChanges(w, answer, allowed, content).written \subseteq allowed
<1> DEFINE edits == Mentions(answer, "edit")
           sound == /\ answer.anchored
                    /\ \A f \in edits : f \in allowed /\ w[f] # "absent"
           edit  == IF sound THEN edits ELSE {}
           new   == {f \in Mentions(answer, "create") : f \in allowed /\ w[f] = "absent"}
           del   == {f \in Mentions(answer, "delete") : f \in allowed /\ w[f] # "absent"}
           after == [f \in Files |-> IF f \in edit \cup new THEN content
                                     ELSE IF f \in del THEN "absent" ELSE w[f]]
           rej   == \/ edits # edit
                    \/ Mentions(answer, "create") # new
                    \/ Mentions(answer, "delete") \ allowed # {}
<1>1. ApplyChanges(w, answer, allowed, content)
        = [tree |-> after, written |-> edit \cup new, rejected |-> rej]
  BY DEF ApplyChanges
<1>2. edit \subseteq allowed /\ new \subseteq allowed /\ del \subseteq allowed
  OBVIOUS
<1>3. \A f \in Files \ allowed : after[f] = w[f]
  BY <1>2
<1> HIDE DEF edit, new, after, rej
<1>4. /\ ApplyChanges(w, answer, allowed, content).tree = after
      /\ ApplyChanges(w, answer, allowed, content).written = edit \cup new
  BY <1>1
<1> QED
  BY <1>2, <1>3, <1>4

\* An answer is applied inside the scope, and the review that follows sees all of
\* it; a rejection ends the run.
LEMMA AppliedStep ==
  ASSUME NEW j, RunInv(j), j.pc = "implement", NEW answer
  PROVE  RunInv(Applied(j, answer))
<1> DEFINE a == ApplyChanges(j.tree, answer, j.scope, ImplementedBy(j.round))
           n == [j EXCEPT !.tree = a.tree, !.written = @ \cup a.written,
                          !.deleted = Mentions(answer, "delete"), !.rejected = @ \/ a.rejected]
           seen == [n EXCEPT !.reviewed = a.tree, !.blind = ~j.task.git]
           m == Applied(j, answer)
<1>1. /\ \A f \in Files \ j.scope : a.tree[f] = j.tree[f]
      /\ a.written \subseteq j.scope
  BY ApplyKeeps
<1>2. m \in {End(n, "failed"), End(n, "raised"), Ask(seen, "review")}
  BY DEF Applied
<1> HIDE DEF a
<1>3. /\ Shaped(n) /\ n.task = j.task /\ n.scope = j.scope /\ n.tree = a.tree
      /\ n.written = j.written \cup a.written /\ n.ready = j.ready
      /\ n.overall = j.overall /\ n.committed = j.committed /\ n.text = j.text
      /\ n.outcome = j.outcome /\ n.verdict = j.verdict /\ n.promotion = j.promotion
  BY DEF RunInv, Shaped, Named
<1>4. /\ Shaped(seen) /\ seen.task = n.task /\ seen.scope = n.scope /\ seen.tree = n.tree
      /\ seen.written = n.written /\ seen.ready = n.ready /\ seen.reviewed = a.tree
      /\ seen.overall = n.overall /\ seen.committed = n.committed /\ seen.text = n.text
      /\ seen.outcome = n.outcome /\ seen.verdict = n.verdict
      /\ seen.promotion = n.promotion
  <2> HIDE DEF n
  <2> QED
    BY <1>3 DEF Shaped, Named
<1> HIDE DEF n, seen, m
<1>5. /\ Shaped(m) /\ m.task = j.task /\ m.scope = j.scope /\ m.tree = a.tree
      /\ m.written = j.written \cup a.written /\ m.ready = j.ready
      /\ m.overall = j.overall /\ m.committed = j.committed /\ m.text = j.text
      /\ m.verdict = j.verdict /\ m.promotion = j.promotion
      /\ \/ m.pc = "done" /\ m.outcome \in {"failed", "raised"}
         \/ m.pc = "review" /\ m.outcome = j.outcome /\ m.reviewed = a.tree
  <2>1. CASE m = End(n, "failed")
    BY <1>3, <2>1, EndKeeps DEF SameWork
  <2>2. CASE m = End(n, "raised")
    BY <1>3, <2>2, EndKeeps DEF SameWork
  <2>3. CASE m = Ask(seen, "review")
    BY <1>3, <1>4, <2>3, AskKeeps DEF SameWork
  <2> QED
    BY <1>2, <2>1, <2>2, <2>3
<1>6. /\ j.outcome = "none" /\ j.verdict = "none" /\ j.promotion = "none" /\ ~ j.ready
      /\ j.committed = Base /\ j.overall \notin {"pass", "skipped"}
  BY DEF RunInv, AsJudged, AsReviewed, AsChecked, After
<1>7. InScope(m)
  <2>1. Diff(m.tree) \subseteq j.scope
    BY <1>1, <1>5, <1>6 DEF RunInv, InScope, Diff, IsEntry
  <2> QED
    BY <1>1, <1>5, <2>1 DEF RunInv, InScope, Before
<1>8. AsReviewed(m)
  BY <1>5, <1>6 DEF RunInv, AsReviewed, Base
<1>9. AsChecked(m) /\ AsJudged(m)
  BY <1>5, <1>6 DEF AsChecked, AsJudged
<1> QED
  BY <1>5, <1>7, <1>8, <1>9 DEF RunInv, m

\* /fix-tests changes no file but tests that were written, which are in the scope.
LEMMA FixedStep ==
  ASSUME NEW j, RunInv(j), j.pc = "fix", NEW answer
  PROVE  RunInv(Fixed(j, answer))
<1> DEFINE a == ApplyChanges(j.tree, answer, ChangedTests(j), "fixed")
           m == Fixed(j, answer)
<1>1. \A f \in Files \ ChangedTests(j) : a.tree[f] = j.tree[f]
  BY ApplyKeeps
<1> HIDE DEF a
<1>2. m = [j EXCEPT !.tree = a.tree, !.pc = "revalidate"] /\ Shaped(j)
  BY DEF Fixed, a, RunInv
<1>3. /\ Shaped(m) /\ m.pc = "revalidate" /\ m.task = j.task /\ m.scope = j.scope
      /\ m.tree = a.tree /\ m.written = j.written /\ m.ready = j.ready
      /\ m.reviewed = j.reviewed /\ m.blind = j.blind /\ m.overall = j.overall
      /\ m.committed = j.committed /\ m.text = j.text /\ m.outcome = j.outcome
      /\ m.verdict = j.verdict /\ m.promotion = j.promotion
  <2> HIDE DEF m
  <2> QED
    BY <1>2 DEF Shaped, Named
<1> HIDE DEF m
<1>4. /\ j.outcome = "none" /\ j.verdict = "none" /\ j.promotion = "none"
      /\ j.committed = Base /\ j.overall \notin {"pass", "skipped"}
  BY DEF RunInv, AsJudged, AsReviewed, AsChecked, After
<1>5. ChangedTests(j) \subseteq j.scope /\ ChangedTests(j) \subseteq Tests
  BY DEF RunInv, InScope, ChangedTests
<1>6. InScope(m)
  BY <1>1, <1>3, <1>5 DEF RunInv, InScope, Diff, Before, IsEntry
<1>7. AsReviewed(m)
  BY <1>1, <1>3, <1>4, <1>5 DEF RunInv, AsReviewed, Before, Base, IsEntry
<1>8. AsChecked(m) /\ AsJudged(m)
  BY <1>3, <1>4 DEF AsChecked, AsJudged
<1> QED
  BY <1>3, <1>6, <1>7, <1>8 DEF RunInv, m

\* An answer of /implement is applied; without one a first round fails and a
\* second goes on with what the first has left.
LEMMA ImplementedStep == ASSUME RunInv(job), Implemented PROVE RunInv(job')
<1>1. job.pc = "implement" /\ Shaped(job) /\ ~ IsReport(job.text)
  BY DEF Implemented, RunInv
<1> DEFINE k == Answered(job)
<1>2. SameWork(job, k) /\ k.pc = "implement" /\ k.text = NoText /\ k.outcome = job.outcome
  BY <1>1, AnsweredKeeps
<1>3. RunInv(k) /\ ~ job.ready /\ Shaped(k)
  BY <1>1, <1>2, NoTextIsNoReport, MovesOn DEF Before, RunInv, AsReviewed
<1> HIDE DEF k
<1>4. CASE job' = End(job, "failed")
  <2>1. SameWork(job, job') /\ job'.pc = "done" /\ job'.text = job.text
        /\ job'.outcome = "failed"
    BY <1>1, <1>4, EndKeeps
  <2> QED
    BY <1>1, <2>1, MovesOn DEF Before, After
<1>5. CASE job' = [k EXCEPT !.pc = "validate"]
  <2>1. SameWork(k, job') /\ job'.pc = "validate" /\ job'.text = k.text
        /\ job'.outcome = k.outcome
    BY <1>3, <1>5 DEF Shaped, Named, SameWork
  <2> QED
    BY <1>2, <1>3, <2>1, NoTextIsNoReport, MovesOn DEF Before, After
<1>6. CASE \E answer \in Answers : job' = Applied(k, answer)
  BY <1>2, <1>3, <1>6, AppliedStep
<1> QED
  BY <1>4, <1>5, <1>6 DEF Implemented, k

\* The review goes blind.
LEMMA DiffFailsStep == ASSUME RunInv(job), DiffFails PROVE RunInv(job')
<1>1. job.pc = "review" /\ job' = [job EXCEPT !.blind = TRUE, !.faults = @ - 1]
  BY DEF DiffFails
<1>2. /\ Shaped(job') /\ job'.pc = "review" /\ job'.task = job.task /\ job'.scope = job.scope
      /\ job'.tree = job.tree /\ job'.written = job.written /\ job'.ready = job.ready
      /\ job'.reviewed = job.reviewed /\ job'.blind = TRUE /\ job'.overall = job.overall
      /\ job'.committed = job.committed /\ job'.text = job.text
      /\ job'.outcome = job.outcome /\ job'.verdict = job.verdict
      /\ job'.promotion = job.promotion
  BY <1>1 DEF RunInv, Shaped, Named
<1>3. job.overall \notin {"pass", "skipped"} /\ job.promotion = "none"
  BY <1>1 DEF RunInv, AsChecked, AsJudged, After
<1>4. InScope(job')
  BY <1>1, <1>2 DEF RunInv, InScope, IsEntry
<1>5. AsReviewed(job')
  BY <1>1, <1>2 DEF RunInv, AsReviewed, IsEntry
<1>6. AsChecked(job') /\ AsJudged(job')
  BY <1>1, <1>2, <1>3 DEF RunInv, AsChecked, AsJudged
<1> QED
  BY <1>2, <1>4, <1>5, <1>6 DEF RunInv

\* A run under review becomes ready, or not, by the verdict and the task's
\* non-negotiables over what the review has seen.
LEMMA JudgedReady ==
  ASSUME NEW j, RunInv(j), j.pc = "review", NEW ready \in BOOLEAN, NEW n,
         ready => NonNegotiable(j),
         n = [[j EXCEPT !.ready = ready] EXCEPT !.pc = "validate"]
  PROVE  RunInv(n)
<1>1. /\ Shaped(n) /\ n.pc = "validate" /\ n.task = j.task /\ n.scope = j.scope
      /\ n.tree = j.tree /\ n.written = j.written /\ n.ready = ready
      /\ n.reviewed = j.reviewed /\ n.blind = j.blind /\ n.overall = j.overall
      /\ n.committed = j.committed /\ n.text = j.text /\ n.outcome = j.outcome
      /\ n.verdict = j.verdict /\ n.promotion = j.promotion
  BY DEF RunInv, Shaped, Named
<1>2. /\ j.outcome = "none" /\ j.verdict = "none" /\ j.promotion = "none"
      /\ j.overall \notin {"pass", "skipped"}
  BY DEF RunInv, AsChecked, AsJudged, After
<1>3. ready /\ ~ j.blind => Diff(j.reviewed) \cap j.task.forbidden = {}
  BY DEF NonNegotiable
<1>4. InScope(n)
  BY <1>1 DEF RunInv, InScope, Before, IsEntry
<1>5. AsReviewed(n)
  BY <1>1, <1>2, <1>3 DEF RunInv, AsReviewed, Before, IsEntry
<1>6. AsChecked(n) /\ AsJudged(n)
  BY <1>1, <1>2 DEF AsChecked, AsJudged
<1> QED
  BY <1>1, <1>4, <1>5, <1>6 DEF RunInv

\* The self-review ends a round: on to the commands, or once more from the start.
LEMMA ReviewedStep == ASSUME RunInv(job), Reviewed PROVE RunInv(job')
<1>1. job.pc = "review" /\ Shaped(job) /\ ~ IsReport(job.text) /\ ~ job.ready
  BY DEF Reviewed, RunInv, AsReviewed
<1> DEFINE k == Answered(job)
<1>2. SameWork(job, k) /\ k.pc = "review" /\ k.text = NoText /\ k.outcome = job.outcome
  BY <1>1, AnsweredKeeps
<1>3. RunInv(k) /\ Shaped(k)
  BY <1>1, <1>2, NoTextIsNoReport, MovesOn DEF Before, RunInv
<1>4. ShipReady(job, TRUE) => NonNegotiable(k)
  BY <1>2 DEF ShipReady, NonNegotiable, SameWork
<1> HIDE DEF k
<1>5. CASE job' = [k EXCEPT !.pc = "validate", !.ready = FALSE]
  <2>1. job' = [[k EXCEPT !.ready = FALSE] EXCEPT !.pc = "validate"]
    BY <1>3, <1>5 DEF Shaped, Named
  <2> QED
    BY <1>2, <1>3, <2>1, JudgedReady
<1>6. ASSUME NEW verdict \in BOOLEAN,
             LET ready == ShipReady(job, verdict)
                 next  == [k EXCEPT !.ready = ready]
             IN  job' = IF ready \/ job.round = MaxRounds
                        THEN [next EXCEPT !.pc = "validate"]
                        ELSE Implement([next EXCEPT !.round = @ + 1])
      PROVE  RunInv(job')
  <2> DEFINE ready == ShipReady(job, verdict)
             next  == [k EXCEPT !.ready = ready]
  <2>1. ready \in BOOLEAN /\ (ready => NonNegotiable(k))
    BY <1>4 DEF ShipReady, NonNegotiable
  <2>2. CASE job' = [next EXCEPT !.pc = "validate"]
    <3> HIDE DEF ready
    <3> QED
      BY <1>2, <1>3, <2>1, <2>2, JudgedReady
  <2>3. CASE ~ ready /\ job' = Implement([next EXCEPT !.round = @ + 1])
    <3> DEFINE again == [next EXCEPT !.round = @ + 1]
    <3>1. ready = FALSE /\ k.ready = FALSE
      BY <1>1, <1>2, <2>1, <2>3 DEF RunInv, AsReviewed, SameWork
    <3>2. job' = Ask(again, "implement")
      BY <2>3 DEF Implement
    <3> HIDE DEF ready
    <3>3. SameWork(k, again) /\ again.text = NoText /\ again.outcome = k.outcome
      BY <1>2, <1>3, <3>1 DEF Shaped, Named, SameWork
    <3> HIDE DEF again
    <3>4. SameWork(again, job') /\ job'.pc = "implement" /\ job'.text = NoText
          /\ job'.outcome = again.outcome
      BY <3>2, <3>3, AskKeeps DEF SameWork
    <3>5. SameWork(k, job') /\ job'.outcome = k.outcome
      BY <3>3, <3>4 DEF SameWork
    <3> QED
      BY <1>1, <1>2, <1>3, <3>4, <3>5, NoTextIsNoReport, MovesOn DEF Before, After, SameWork
  <2> QED
    BY <1>6, <2>2, <2>3
<1> QED
  BY <1>5, <1>6 DEF Reviewed, k

-----------------------------------------------------------------------------
(* Commands, diagnosis, fixes and the commit.                              *)

\* The result of the commands, on the way to the gate.
Gated(j, n) ==
  /\ Shaped(n) /\ n.pc = "gate" /\ n.task = j.task /\ n.scope = j.scope /\ n.tree = j.tree
  /\ n.written = j.written /\ n.ready = j.ready /\ n.reviewed = j.reviewed
  /\ n.blind = j.blind /\ n.committed = j.committed /\ n.text = j.text
  /\ n.outcome = j.outcome /\ n.verdict = j.verdict /\ n.promotion = j.promotion

\* Commands that pass are recorded with the workspace they passed on.
LEMMA PassedGated ==
  ASSUME NEW j, Shaped(j)
  PROVE  LET n == [j EXCEPT !.overall = "pass", !.checked = j.tree, !.pc = "gate"]
         IN  Gated(j, n) /\ n.overall = "pass" /\ n.checked = j.tree
BY DEF Shaped, Named, Gated

\* Where there are none, that is recorded.
LEMMA SkippedGated ==
  ASSUME NEW j, Shaped(j)
  PROVE  LET n == [j EXCEPT !.overall = "skipped", !.pc = "gate"]
         IN  Gated(j, n) /\ n.overall = "skipped"
BY DEF Shaped, Named, Gated

\* What the commands say is about the workspace as it is.
LEMMA Checks ==
  ASSUME NEW j, RunInv(j), j.pc \in {"validate", "revalidate"}, NEW n,
         \/ n = [j EXCEPT !.overall = "pass", !.checked = j.tree, !.pc = "gate"]
         \/ ~ HasCommands(j) /\ n = [j EXCEPT !.overall = "skipped", !.pc = "gate"]
  PROVE  RunInv(n)
<1>1. /\ Gated(j, n)
      /\ \/ n.overall = "pass" /\ n.checked = j.tree
         \/ n.overall = "skipped" /\ ~ HasCommands(j)
  <2> DEFINE passed  == [j EXCEPT !.overall = "pass", !.checked = j.tree, !.pc = "gate"]
             skipped == [j EXCEPT !.overall = "skipped", !.pc = "gate"]
  <2>1. /\ Gated(j, passed) /\ passed.overall = "pass" /\ passed.checked = j.tree
        /\ Gated(j, skipped) /\ skipped.overall = "skipped"
    BY PassedGated, SkippedGated DEF RunInv
  <2>2. n = passed \/ (~ HasCommands(j) /\ n = skipped)
    OBVIOUS
  <2> HIDE DEF passed, skipped
  <2> QED
    BY <2>1, <2>2
<1>2. j.outcome = "none" /\ j.verdict = "none" /\ j.promotion = "none"
  BY DEF RunInv, AsJudged
<1>3. InScope(n)
  BY <1>1 DEF RunInv, Gated, InScope, Before, IsEntry
<1>4. AsReviewed(n)
  BY <1>1, <1>2 DEF RunInv, Gated, AsReviewed, Before, IsEntry
<1>5. AsChecked(n) /\ AsJudged(n)
  BY <1>1, <1>2 DEF Gated, AsChecked, AsJudged, HasCommands, After
<1> QED
  BY <1>1, <1>3, <1>4, <1>5 DEF RunInv, Gated

\* Commands that fail are diagnosed.
LEMMA ValidateStep == ASSUME RunInv(job), Validate PROVE RunInv(job')
<1>1. job.pc = "validate" /\ Shaped(job) /\ ~ IsReport(job.text)
  BY DEF Validate, RunInv
<1>2. CASE job' = Ask([job EXCEPT !.overall = "fail"], "diagnose")
  <2> DEFINE failed == [job EXCEPT !.overall = "fail"]
  <2>1. job' = Ask(failed, "diagnose")
    BY <1>2
  <2>2. /\ Shaped(failed) /\ failed.task = job.task /\ failed.scope = job.scope
        /\ failed.tree = job.tree /\ failed.written = job.written
        /\ failed.ready = job.ready /\ failed.reviewed = job.reviewed
        /\ failed.blind = job.blind /\ failed.overall = "fail"
        /\ failed.committed = job.committed /\ failed.text = job.text
        /\ failed.outcome = job.outcome /\ failed.verdict = job.verdict
        /\ failed.promotion = job.promotion
    BY <1>1 DEF Shaped, Named
  <2> HIDE DEF failed
  <2>3. SameWork(failed, job') /\ job'.pc = "diagnose" /\ job'.text = job.text
        /\ job'.outcome = job.outcome
    BY <2>1, <2>2, AskKeeps
  <2>4. job.outcome = "none" /\ job.verdict = "none" /\ job.promotion = "none"
    BY <1>1 DEF RunInv, AsJudged
  <2>5. InScope(job')
    BY <1>1, <2>2, <2>3 DEF RunInv, InScope, SameWork, Before, IsEntry
  <2>6. AsReviewed(job')
    BY <1>1, <2>2, <2>3, <2>4 DEF RunInv, AsReviewed, SameWork, Before, IsEntry
  <2>7. AsChecked(job') /\ AsJudged(job')
    BY <2>2, <2>3, <2>4 DEF AsChecked, AsJudged, SameWork
  <2> QED
    BY <1>1, <2>3, <2>5, <2>6, <2>7 DEF RunInv, SameWork
<1>3. CASE job' = [job EXCEPT !.overall = "pass", !.checked = job.tree, !.pc = "gate"]
  BY <1>1, <1>3, Checks
<1>4. CASE ~ HasCommands(job) /\ job' = [job EXCEPT !.overall = "skipped", !.pc = "gate"]
  BY <1>1, <1>4, Checks
<1> QED
  BY <1>2, <1>3, <1>4 DEF Validate

\* Another round of /fix-tests, or none.
LEMMA FixMoves ==
  ASSUME NEW j, RunInv(j), j.pc \in {"diagnose", "revalidate"}
  PROVE  RunInv(Fix(j)) /\ RunInv([j EXCEPT !.pc = "gate"])
<1> DEFINE counted == [j EXCEPT !.fixes = @ + 1]
           asked   == Ask(counted, "fix")
           gated   == [j EXCEPT !.pc = "gate"]
<1>1. SameWork(j, counted) /\ counted.text = j.text /\ counted.outcome = j.outcome
  BY DEF RunInv, Shaped, Named, SameWork
<1>2. SameWork(j, gated) /\ gated.pc = "gate" /\ gated.text = j.text
      /\ gated.outcome = j.outcome
  BY DEF RunInv, Shaped, Named, SameWork
<1> HIDE DEF counted, gated
<1>3. SameWork(j, asked) /\ asked.pc = "fix" /\ asked.text = j.text
      /\ asked.outcome = j.outcome
  BY <1>1, AskKeeps DEF SameWork
<1> HIDE DEF asked
<1>4. RunInv(asked)
  BY <1>3, MovesOn DEF Before, After, RunInv
<1>5. RunInv(gated)
  BY <1>2, MovesOn DEF Before, After, RunInv
<1>6. Fix(j) \in {asked, gated}
  BY DEF Fix, asked, counted, gated
<1> QED
  BY <1>4, <1>5, <1>6 DEF gated

\* A diagnosis is followed by a fix of the tests at most.
LEMMA DiagnosedStep == ASSUME RunInv(job), Diagnosed PROVE RunInv(job')
<1>1. job.pc = "diagnose" /\ Shaped(job)
  BY DEF Diagnosed, RunInv
<1> DEFINE k == Answered(job)
<1>2. SameWork(job, k) /\ k.pc = "diagnose" /\ k.text = NoText /\ k.outcome = job.outcome
  BY <1>1, AnsweredKeeps
<1>3. RunInv(k)
  BY <1>1, <1>2, NoTextIsNoReport, MovesOn DEF Before
<1> HIDE DEF k
<1>4. job' \in {Fix(k), [k EXCEPT !.pc = "gate"]}
  BY DEF Diagnosed, k
<1> QED
  BY <1>2, <1>3, <1>4, FixMoves

\* The fix is applied, or there is none.
LEMMA FixTestsStep == ASSUME RunInv(job), FixTests PROVE RunInv(job')
<1>1. job.pc = "fix" /\ Shaped(job)
  BY DEF FixTests, RunInv
<1> DEFINE k == Answered(job)
<1>2. SameWork(job, k) /\ k.pc = "fix" /\ k.text = NoText /\ k.outcome = job.outcome
  BY <1>1, AnsweredKeeps
<1>3. RunInv(k) /\ Shaped(k)
  BY <1>1, <1>2, NoTextIsNoReport, MovesOn DEF Before, RunInv
<1> HIDE DEF k
<1>4. CASE job' = [k EXCEPT !.pc = "gate"]
  <2>1. SameWork(k, job') /\ job'.pc = "gate" /\ job'.text = k.text /\ job'.outcome = k.outcome
    BY <1>3, <1>4 DEF Shaped, Named, SameWork
  <2> QED
    BY <1>2, <1>3, <2>1, NoTextIsNoReport, MovesOn DEF Before, After
<1>5. CASE \E answer \in FixAnswers : job' = Fixed(k, answer)
  BY <1>2, <1>3, <1>5, FixedStep
<1> QED
  BY <1>4, <1>5 DEF FixTests, k

\* The commands run again on what the fix has left.
LEMMA RevalidateStep == ASSUME RunInv(job), Revalidate PROVE RunInv(job')
<1>1. job.pc = "revalidate"
  BY DEF Revalidate
<1>2. CASE job' = [job EXCEPT !.overall = "pass", !.checked = job.tree, !.pc = "gate"]
  BY <1>1, <1>2, Checks
<1>3. CASE job' = Fix(job)
  BY <1>1, <1>3, FixMoves
<1> QED
  BY <1>2, <1>3 DEF Revalidate

\* Only a run that is ready and has not failed gets to its commit.
LEMMA GateStep == ASSUME RunInv(job), Gate PROVE RunInv(job')
<1>1. job.pc = "gate" /\ Shaped(job) /\ ~ IsReport(job.text)
  BY DEF Gate, RunInv
<1>2. CASE job' = End(job, "failed")
  <2>1. SameWork(job, job') /\ job'.pc = "done" /\ job'.text = job.text
        /\ job'.outcome = "failed"
    BY <1>1, <1>2, EndKeeps
  <2> QED
    BY <1>1, <2>1, MovesOn DEF Before, After
<1>3. CASE job.ready /\ job' = [job EXCEPT !.pc = "commit"]
  <2>1. SameWork(job, job') /\ job'.pc = "commit" /\ job'.text = job.text
        /\ job'.outcome = job.outcome
    BY <1>1, <1>3 DEF Shaped, Named, SameWork
  <2> QED
    BY <1>1, <1>3, <2>1, MovesOn DEF Before, After
<1> QED
  BY <1>2, <1>3 DEF Gate

\* The entry in CHANGELOG.md is all that changes at the end, and what is committed of a
\* file is what the workspace then has of it, or what was there.
LEMMA CommitStep == ASSUME RunInv(job), Commit PROVE RunInv(job')
<1>1. /\ job.pc = "commit" /\ Shaped(job) /\ job.outcome = "none" /\ job.ready
      /\ job.verdict = "none" /\ job.promotion = "none" /\ job.committed = Base
  BY DEF Commit, RunInv, AsReviewed, AsJudged
<1> DEFINE spent == [job EXCEPT !.faults = @ - 1]
<1>2. PICK m \in {Entered(job), spent} : job' = Committed(m)
  BY DEF Commit
<1>3. /\ SameWork(job, spent) /\ spent.text = job.text
  BY <1>1 DEF Shaped, Named, SameWork
<1> HIDE DEF spent
<1>4. /\ Shaped(m) /\ m.task = job.task /\ m.scope = job.scope /\ m.written = job.written
      /\ m.ready = job.ready /\ m.reviewed = job.reviewed /\ m.blind = job.blind
      /\ m.overall = job.overall /\ m.checked = job.checked /\ m.committed = job.committed
      /\ m.verdict = job.verdict /\ m.promotion = job.promotion /\ m.text = job.text
  <2>1. CASE m = Entered(job)
    BY <1>1, <2>1 DEF Entered, Shaped, Named
  <2>2. CASE m = spent
    BY <1>3, <2>2 DEF SameWork
  <2> QED
    BY <2>1, <2>2
<1>5. \A f \in Files : m.tree[f] = job.tree[f] \/ (f = Changelog /\ m.tree[f] = "entry")
  <2>1. CASE m = Entered(job)
    BY <1>1, <2>1 DEF Entered, Shaped, Named
  <2>2. CASE m = spent
    BY <1>3, <2>2 DEF SameWork
  <2> QED
    BY <2>1, <2>2
<1> DEFINE ended == End(m, "success")
           kept  == [f \in Files |-> IF f \in Staged(m) THEN m.tree[f] ELSE Base[f]]
<1>6. SameWork(m, ended) /\ ended.pc = "done" /\ ended.text = m.text
      /\ ended.outcome = "success"
  BY <1>4, EndKeeps
<1>7. PICK c \in {kept, m.committed} : job' = [ended EXCEPT !.committed = c]
  <2>1. ended.committed = m.committed
    BY <1>6 DEF SameWork
  <2> QED
    BY <1>2, <2>1 DEF Committed
<1>8. \A f \in Files : c[f] \in {Base[f], m.tree[f]}
  BY <1>1, <1>4
<1> HIDE DEF ended, kept
<1>9. /\ Shaped(job') /\ job'.pc = "done" /\ job'.task = job.task /\ job'.scope = job.scope
      /\ job'.tree = m.tree /\ job'.written = job.written /\ job'.ready = job.ready
      /\ job'.reviewed = job.reviewed /\ job'.blind = job.blind
      /\ job'.overall = job.overall /\ job'.checked = job.checked /\ job'.committed = c
      /\ job'.text = job.text /\ job'.outcome = "success"
      /\ job'.verdict = job.verdict /\ job'.promotion = job.promotion
  BY <1>4, <1>6, <1>7 DEF Shaped, Named, SameWork
<1>10. \A f \in Files : job'.tree[f] = job.tree[f] \/ IsEntry(job', f, job'.tree[f])
  BY <1>5, <1>9 DEF IsEntry
<1>11. /\ job'.written \subseteq job'.scope /\ job'.pc \notin Before
       /\ \A f \in Diff(job'.tree) : f \in job'.scope \/ IsEntry(job', f, job'.tree[f])
  <2>1. \A f \in Diff(job.tree) : f \in job.scope
    BY <1>1 DEF RunInv, InScope, IsEntry
  <2> QED
    BY <1>9, <1>10, <2>1 DEF RunInv, InScope, Diff, Before
<1>12. InScope(job')
  BY <1>11 DEF InScope
<1>13. AsReviewed(job')
  <2>1. \A f \in Files \ Tests : job.tree[f] = job.reviewed[f]
    BY <1>1 DEF RunInv, AsReviewed, IsEntry
  <2>2. \A f \in Files \ Tests :
          job'.tree[f] = job'.reviewed[f] \/ IsEntry(job', f, job'.tree[f])
    BY <1>9, <1>10, <2>1
  <2> QED
    BY <1>1, <1>8, <1>9, <2>2 DEF RunInv, AsReviewed, Before
<1>14. AsChecked(job')
  <2>1. job.overall = "pass" => \A f \in Files : job.tree[f] = job.checked[f]
    BY <1>1 DEF RunInv, AsChecked, IsEntry
  <2> QED
    BY <1>9, <1>10, <2>1 DEF RunInv, AsChecked, HasCommands, After
<1>15. AsJudged(job')
  BY <1>1, <1>9 DEF AsJudged
<1> QED
  BY <1>9, <1>12, <1>13, <1>14, <1>15 DEF RunInv

\* A verdict or a promotion changes nothing of the run.
LEMMA JudgingStep == ASSUME RunInv(job), JudgingNext PROVE RunInv(job')
<1> DEFINE verdict == IF job.outcome # "success" THEN job.outcome
                      ELSE IF RequiredArtifacts(job.task, Kinds(job)) THEN "acceptable"
                      ELSE "incomplete"
           promotion == IF PromotionGates(job.task, Kinds(job), Report(job)) THEN "pending"
                        ELSE "rejected"
<1>1. CASE Judge
  <2>1. job.pc = "done" /\ job.verdict = "none" /\ job' = [job EXCEPT !.verdict = verdict]
    BY <1>1 DEF Judge
  <2>2. verdict = "acceptable" => job.outcome = "success"
    BY DEF RunInv, AsJudged
  <2> HIDE DEF verdict
  <2>3. /\ Shaped(job') /\ job'.pc = "done" /\ job'.task = job.task
        /\ job'.scope = job.scope /\ job'.tree = job.tree /\ job'.written = job.written
        /\ job'.ready = job.ready /\ job'.reviewed = job.reviewed
        /\ job'.blind = job.blind /\ job'.overall = job.overall
        /\ job'.checked = job.checked /\ job'.committed = job.committed
        /\ job'.text = job.text /\ job'.outcome = job.outcome
        /\ job'.verdict = verdict /\ job'.promotion = job.promotion
    BY <2>1 DEF RunInv, Shaped, Named
  <2>4. job.promotion = "none"
    BY <2>1 DEF RunInv, AsJudged
  <2>5. InScope(job') /\ AsReviewed(job')
    BY <2>1, <2>3 DEF RunInv, InScope, AsReviewed, IsEntry
  <2>6. AsChecked(job') /\ AsJudged(job')
    BY <2>1, <2>2, <2>3, <2>4 DEF RunInv, AsChecked, AsJudged, HasCommands, IsEntry
  <2> QED
    BY <2>3, <2>5, <2>6 DEF RunInv
<1>2. CASE ReviewTask
  <2>1. /\ job.verdict = "acceptable" /\ job.promotion = "none"
        /\ job' = [job EXCEPT !.promotion = promotion]
    BY <1>2 DEF ReviewTask
  <2>2. promotion = "pending" => PromotionGates(job.task, Kinds(job), Report(job))
    OBVIOUS
  <2> HIDE DEF promotion
  <2>3. /\ Shaped(job') /\ job'.pc = job.pc /\ job'.task = job.task
        /\ job'.scope = job.scope /\ job'.tree = job.tree /\ job'.written = job.written
        /\ job'.ready = job.ready /\ job'.reviewed = job.reviewed
        /\ job'.blind = job.blind /\ job'.overall = job.overall
        /\ job'.checked = job.checked /\ job'.committed = job.committed
        /\ job'.text = job.text /\ job'.outcome = job.outcome
        /\ job'.verdict = job.verdict /\ job'.promotion = promotion
    BY <2>1 DEF RunInv, Shaped, Named
  <2>4. Kinds(job') = Kinds(job) /\ Report(job') = Report(job)
    BY <2>3 DEF Kinds, Report, StagePassed
  <2>5. InScope(job') /\ AsReviewed(job')
    BY <2>1, <2>3 DEF RunInv, InScope, AsReviewed, IsEntry
  <2>6. AsChecked(job') /\ AsJudged(job')
    BY <2>1, <2>2, <2>3, <2>4 DEF RunInv, AsChecked, AsJudged, HasCommands, IsEntry
  <2> QED
    BY <2>3, <2>5, <2>6 DEF RunInv
<1> QED
  BY <1>1, <1>2 DEF JudgingNext

\* Every step of a run, from planned work or elsewhere, preserves the invariant.
LEMMA RunStep == RunInv(job) /\ [WorkNext]_both => RunInv(job)'
<1> SUFFICES ASSUME RunInv(job), [WorkNext]_both PROVE RunInv(job')
  OBVIOUS
<1>1. CASE Next
  BY <1>1, TryStep, DemotedStep, StartStep, ScopeStep, ImplementedStep, DiffFailsStep,
     ReviewedStep, ValidateStep, DiagnosedStep, FixTestsStep, RevalidateStep, GateStep,
     CommitStep DEF Next
<1>2. CASE JudgingNext
  BY <1>2, JudgingStep
<1>3. CASE TakeTask
  <2>1. PICK k \in plan.tasks : job' = Fresh(PlannedTask(job.task, plan.rows[k]))
    BY <1>3 DEF TakeTask
  <2> QED
    BY <2>1, FreshInv
<1>4. CASE UNCHANGED job
  BY <1>4
<1> QED
  BY <1>1, <1>2, <1>3, <1>4 DEF WorkNext, Terminated, both

\* The invariant holds throughout.
LEMMA RunInvariant == WorkSpec => []RunInv(job)
<1>1. WorkInit => RunInv(job)
  BY FreshInv DEF WorkInit, Init
<1> QED
  BY <1>1, RunStep, PTL DEF WorkSpec

-----------------------------------------------------------------------------
(* What it makes true of every run.                                        *)

\* Whatever the answers of all rounds ask for, the workspace differs from the
\* repository only in files of the scope, and after a success in CHANGELOG.md.
THEOREM Scoped == WorkSpec => []ScopeKept
BY RunInvariant, RunInvImplies, PTL

\* Every file of a commit made after commands passed has the content they passed on,
\* but for the entry in CHANGELOG.md.
THEOREM Validated == WorkSpec => []ShippedWasValidated
BY RunInvariant, RunInvImplies, PTL

\* Unless git could not show the diff, a commit holds what the self-review saw and
\* allowed, tests and the entry in CHANGELOG.md apart, and nothing the task forbids.
THEOREM SelfReviewed == WorkSpec => []ShippedWasReviewed
BY RunInvariant, RunInvImplies, PTL

\* No error report of a backend is taken for an answer, whatever failed before it.
THEOREM AnswersOnly == WorkSpec => []ReportIsNoAnswer
BY RunInvariant, RunInvImplies, PTL

\* What waits for its affirmation is what was reviewed and, where there was
\* anything to run, what a compile or build stage and a test stage passed on; the entry
\* in CHANGELOG.md is neither.
THEOREM PendingPassed == WorkSpec => []PendingIsWhatPassed
BY RunInvariant, RunInvImplies, PTL

-----------------------------------------------------------------------------
(* The planner and its rows.                                               *)

PlanNamed == {"pc", "round", "files", "draft", "written", "batch", "rows", "tasks"}

PlanShaped(p) == DOMAIN p = PlanNamed /\ p = [x \in PlanNamed |-> p[x]]

\* Before the list of this generation is all in the table.
Planning == {"draft", "review", "rows"}

\* The rows before those of this generation's list.
Earlier(p) == Len(p.rows) - p.written

\* The table ends with a row for each of the first entries of the accepted list.
Listed(p) ==
  /\ p.written \in Nat /\ Earlier(p) \in Nat
  /\ p.pc \in {"draft", "review"} => p.written = 0
  /\ \A k \in 1..Earlier(p) : p.rows[k].batch < p.batch
  /\ \A i \in 1..p.written :
       LET row == p.rows[Earlier(p) + i]
       IN  /\ row.batch = p.batch /\ row.id = p.draft[i].id
           /\ row.impl = p.draft[i].impl /\ row.test = p.draft[i].test

\* Of a planner at work: the rows are of this generation or an earlier one; a list
\* under review or on its way into the table has passed the checks.
PlanAtWork(p) ==
  /\ PlanShaped(p)
  /\ p.files \in Inventories /\ p.batch \in Nat /\ IsList(p.rows)
  /\ \A k \in DOMAIN p.rows :
       /\ p.rows[k].batch \in Nat /\ p.rows[k].batch <= p.batch
       /\ p.rows[k].deps \subseteq DOMAIN p.rows
  /\ p.pc = "dead" => p.written = 0
  /\ p.pc \in Planning => Listed(p)
  /\ p.pc \in {"review", "rows"} =>
       IsList(p.draft) /\ TrioValid(p.files, p.draft) /\ p.written < Len(p.draft)

PlanInv == PlansAreSound /\ (plan.pc # "over" => PlanAtWork(plan))

\* Lists grow at the end.
LEMMA AppendToList ==
  ASSUME NEW s, IsList(s), NEW e
  PROVE  /\ IsList(Append(s, e)) /\ Len(s) \in Nat /\ DOMAIN s = 1..Len(s)
         /\ Len(Append(s, e)) = Len(s) + 1 /\ DOMAIN Append(s, e) = 1..(Len(s) + 1)
         /\ \A k \in 1..Len(s) : Append(s, e)[k] = s[k]
         /\ Append(s, e)[Len(s) + 1] = e
<1> DEFINE X == {s[i] : i \in DOMAIN s}
           t == Append(s, e)
<1>1. s \in Seq(X)
  BY DEF IsList
<1> HIDE DEF X
<1>2. /\ Len(s) \in Nat /\ DOMAIN s = 1..Len(s) /\ t \in Seq(X \cup {e})
      /\ Len(t) = Len(s) + 1 /\ DOMAIN t = 1..(Len(s) + 1)
      /\ \A k \in 1..Len(s) : t[k] = s[k]
      /\ t[Len(s) + 1] = e
  BY <1>1
<1>3. IsList(t)
  <2> HIDE DEF t
  <2>1. t \in Seq({t[i] : i \in DOMAIN t})
    BY <1>2
  <2> QED
    BY <2>1 DEF IsList
<1> QED
  BY <1>2, <1>3

\* The planner begins with an empty table.
LEMMA PlannerInit == PlanInit => PlanInv
<1> SUFFICES ASSUME PlanInit PROVE PlanInv
  OBVIOUS
<1>1. /\ PlanShaped(plan) /\ plan.pc = "draft" /\ plan.files = Tracked /\ plan.written = 0
      /\ plan.batch = 1 /\ plan.rows = <<>>
  BY DEF PlanInit, PlanShaped, PlanNamed
<1>2. Listed(plan)
  BY <1>1 DEF Listed, Earlier
<1>3. IsList(plan.rows) /\ plan.files \in Inventories /\ DOMAIN plan.rows = {}
  BY <1>1 DEF IsList, Inventories
<1>4. PlanAtWork(plan)
  BY <1>1, <1>2, <1>3 DEF PlanAtWork
<1>5. PlansAreSound
  BY <1>3 DEF PlansAreSound
<1> QED
  BY <1>4, <1>5 DEF PlanInv

\* A planner that leaves the table and its list's part of it alone.
LEMMA SameRows ==
  ASSUME NEW p, NEW n, PlanAtWork(p), PlanShaped(n), n.rows = p.rows, n.batch = p.batch,
         n.files \in Inventories, n.pc = "dead" => n.written = 0,
         n.pc \in Planning => p.pc \in {"draft", "review"} /\ n.written = p.written,
         n.pc \in {"review", "rows"} =>
           IsList(n.draft) /\ TrioValid(n.files, n.draft) /\ 0 < Len(n.draft)
  PROVE  PlanAtWork(n)
<1>1. n.pc \in Planning => Listed(n)
  <2> SUFFICES ASSUME n.pc \in Planning PROVE Listed(n)
    OBVIOUS
  <2>1. Listed(p) /\ p.written = 0 /\ n.written = 0
    BY DEF PlanAtWork, Listed, Planning
  <2> QED
    BY <2>1 DEF Listed, Earlier
<1>2. n.pc \in {"review", "rows"} => n.written < Len(n.draft)
  <2> SUFFICES ASSUME n.pc \in {"review", "rows"} PROVE n.written < Len(n.draft)
    OBVIOUS
  <2>1. n.written = 0
    BY DEF PlanAtWork, Listed, Planning
  <2> QED
    BY <2>1
<1> QED
  BY <1>1, <1>2 DEF PlanAtWork

\* Another round, or the end of them.
LEMMA NextRoundKeeps ==
  ASSUME NEW p, PlanAtWork(p), p.pc \in {"draft", "review"}
  PROVE  /\ PlanAtWork(NextRound(p)) /\ NextRound(p).rows = p.rows
         /\ NextRound(p).pc \in {"draft", "failed"}
<1> DEFINE n == NextRound(p)
<1>1. /\ PlanShaped(n) /\ n.rows = p.rows /\ n.batch = p.batch /\ n.files = p.files
      /\ n.written = p.written /\ n.pc \in {"draft", "failed"}
  BY DEF PlanAtWork, PlanShaped, PlanNamed, NextRound
<1> HIDE DEF n
<1>2. PlanAtWork(n)
  BY <1>1, SameRows DEF PlanAtWork
<1> QED
  BY <1>1, <1>2 DEF n

\* The rows are those there were.
LEMMA SoundStays ==
  ASSUME PlansAreSound, PlanAtWork(plan)', plan'.rows = plan.rows PROVE PlanInv'
BY DEF PlansAreSound, PlanInv

\* A draft goes under review only if it passes the checks.
LEMMA DraftStep == ASSUME PlanInv, Draft PROVE PlanInv'
<1>1. plan.pc = "draft" /\ PlansAreSound /\ PlanAtWork(plan)
  BY DEF Draft, PlanInv
<1>2. PICK files \in IF plan.round = 1 THEN Inventories ELSE {plan.files} :
        LET read == [plan EXCEPT !.files = files]
        IN  \/ plan' = NextRound(read)
            \/ \E answer \in Drafts :
                 LET plans == Parse(files, answer)
                 IN  plan' = IF TrioValid(files, plans)
                             THEN [read EXCEPT !.pc = "review", !.draft = plans]
                             ELSE NextRound(read)
  BY DEF Draft
<1> DEFINE read == [plan EXCEPT !.files = files]
<1>3. files \in Inventories
  BY <1>1, <1>2 DEF PlanAtWork
<1>4. /\ PlanShaped(read) /\ read.rows = plan.rows /\ read.batch = plan.batch
      /\ read.files = files /\ read.written = plan.written /\ read.pc = "draft"
  BY <1>1 DEF PlanAtWork, PlanShaped, PlanNamed
<1> HIDE DEF read
<1>5. PlanAtWork(read)
  BY <1>1, <1>3, <1>4, SameRows DEF PlanAtWork
<1>6. CASE plan' = NextRound(read)
  <2>1. PlanAtWork(plan)' /\ plan'.rows = plan.rows
    BY <1>4, <1>5, <1>6, NextRoundKeeps
  <2> QED
    BY <1>1, <2>1, SoundStays
<1>7. ASSUME NEW answer \in Drafts, TrioValid(files, Parse(files, answer)),
             plan' = [read EXCEPT !.pc = "review", !.draft = Parse(files, answer)]
      PROVE  PlanInv'
  <2> DEFINE plans == Parse(files, answer)
  <2>1. IsList(plans)
    BY <1>3, ParseAssumption
  <2> HIDE DEF plans
  <2>2. /\ PlanShaped(plan') /\ plan'.rows = plan.rows /\ plan'.batch = plan.batch
        /\ plan'.files = files /\ plan'.written = plan.written /\ plan'.pc = "review"
        /\ plan'.draft = plans
    <3>1. plan' = [read EXCEPT !.pc = "review", !.draft = plans]
      BY <1>7 DEF plans
    <3> QED
      BY <1>4, <3>1 DEF PlanShaped, PlanNamed
  <2>3. TrioValid(files, plans)
    BY <1>7 DEF plans
  <2>4. 0 < Len(plans)
    BY <2>1, <2>3 DEF TrioValid, DraftValid, IsList
  <2>5. PlanAtWork(plan)'
    BY <1>1, <1>3, <2>1, <2>2, <2>3, <2>4, SameRows
  <2> QED
    BY <1>1, <2>2, <2>5, SoundStays
<1> QED
  BY <1>2, <1>6, <1>7 DEF read

\* A review lets the list into the table, or sends the loop into its next round.
LEMMA PlanReviewStep == ASSUME PlanInv, Review PROVE PlanInv'
<1>1. plan.pc = "review" /\ PlansAreSound /\ PlanAtWork(plan)
  BY DEF Review, PlanInv
<1>2. CASE plan' = NextRound(plan)
  <2>1. PlanAtWork(plan)' /\ plan'.rows = plan.rows
    BY <1>1, <1>2, NextRoundKeeps
  <2> QED
    BY <1>1, <2>1, SoundStays
<1>3. CASE plan' = [plan EXCEPT !.pc = "rows"]
  <2>1. /\ PlanShaped(plan') /\ plan'.rows = plan.rows /\ plan'.batch = plan.batch
        /\ plan'.files = plan.files /\ plan'.written = plan.written /\ plan'.pc = "rows"
        /\ plan'.draft = plan.draft
    BY <1>1, <1>3 DEF PlanAtWork, PlanShaped, PlanNamed
  <2>2. 0 < Len(plan.draft)
    BY <1>1 DEF PlanAtWork, Listed, Planning
  <2>3. PlanAtWork(plan)'
    BY <1>1, <2>1, <2>2, SameRows DEF PlanAtWork
  <2> QED
    BY <1>1, <2>1, <2>3, SoundStays
<1> QED
  BY <1>2, <1>3 DEF Review

\* The thread dies; the rows stay.
LEMMA AbandonStep == ASSUME PlanInv, Abandon PROVE PlanInv'
<1>1. PlansAreSound /\ PlanAtWork(plan)
  BY DEF Abandon, PlanInv
<1>2. plan' = [plan EXCEPT !.pc = "dead", !.draft = <<>>, !.written = 0]
  BY DEF Abandon
<1>3. /\ PlanShaped(plan') /\ plan'.rows = plan.rows /\ plan'.batch = plan.batch
      /\ plan'.files = plan.files /\ plan'.pc = "dead" /\ plan'.written = 0
  BY <1>1, <1>2 DEF PlanAtWork, PlanShaped, PlanNamed
<1>4. PlanAtWork(plan)'
  BY <1>1, <1>3, SameRows DEF PlanAtWork, Planning
<1> QED
  BY <1>1, <1>3, <1>4, SoundStays

\* Publishing makes tasks of rows.
LEMMA PublishStep == ASSUME PlanInv, PublishPlan PROVE PlanInv'
<1>1. PlansAreSound /\ PlanAtWork(plan) /\ plan.pc = "publish"
  BY DEF PublishPlan, PlanInv
<1>2. PICK done, over : plan' = [plan EXCEPT !.tasks = done,
                                             !.pc = IF over THEN "published" ELSE @]
  BY DEF PublishPlan
<1>3. /\ PlanShaped(plan') /\ plan'.rows = plan.rows /\ plan'.batch = plan.batch
      /\ plan'.files = plan.files /\ plan'.pc \in {"publish", "published"}
  BY <1>1, <1>2 DEF PlanAtWork, PlanShaped, PlanNamed
<1>4. PlanAtWork(plan)'
  BY <1>1, <1>3, SameRows DEF PlanAtWork, Planning
<1> QED
  BY <1>1, <1>3, <1>4, SoundStays

\* The next generation has a number of its own, and no row yet.
LEMMA PlanAgainStep == ASSUME PlanInv, PlanAgain PROVE PlanInv'
<1>1. PlansAreSound /\ PlanAtWork(plan)
  BY DEF PlanAgain, PlanInv
<1>2. plan' = [plan EXCEPT !.pc = "draft", !.round = 1, !.batch = @ + 1]
  BY DEF PlanAgain
<1>3. /\ PlanShaped(plan') /\ plan'.rows = plan.rows /\ plan'.batch = plan.batch + 1
      /\ plan'.files = plan.files /\ plan'.pc = "draft" /\ plan'.written = plan.written
  BY <1>1, <1>2 DEF PlanAtWork, PlanShaped, PlanNamed
<1>4. plan.written = 0 /\ plan.batch \in Nat /\ Len(plan.rows) \in Nat
      /\ DOMAIN plan.rows = 1..Len(plan.rows)
  BY <1>1 DEF PlanAgain, PlanAtWork, IsList
<1>5. Listed(plan')
  BY <1>1, <1>3, <1>4 DEF PlanAtWork, Listed, Earlier
<1>6. PlanAtWork(plan)'
  BY <1>1, <1>3, <1>4, <1>5 DEF PlanAtWork
<1> QED
  BY <1>1, <1>3, <1>6, SoundStays

\* A row keeps the plans its entry needs: they are the rows made of the entries
\* before it.
LEMMA MaterializeStep == ASSUME PlanInv, MaterializePlan PROVE PlanInv'
<1> DEFINE n == plan.written + 1
           entry == plan.draft[n]
           row == Row(plan, entry)
           rows == Append(plan.rows, row)
           off == Earlier(plan)
           len == Len(plan.rows)
<1>1. PlansAreSound /\ PlanAtWork(plan) /\ plan.pc = "rows" /\ Listed(plan)
  BY DEF MaterializePlan, PlanInv, PlanAtWork, Planning
<1>2. plan' = [plan EXCEPT !.rows = rows, !.written = n,
                           !.pc = IF n = Len(plan.draft) THEN "publish" ELSE @]
  BY DEF MaterializePlan
<1>3. /\ IsList(plan.rows) /\ plan.written \in Nat /\ off \in Nat /\ len = off + plan.written
      /\ IsList(plan.draft) /\ TrioValid(plan.files, plan.draft) /\ n \in 1..Len(plan.draft)
      /\ Len(plan.draft) \in Nat /\ DOMAIN plan.draft = 1..Len(plan.draft)
      /\ plan.batch \in Nat /\ plan.files \in Inventories
  BY <1>1 DEF PlanAtWork, Listed, Earlier, IsList
<1>4. /\ IsList(rows) /\ len \in Nat /\ DOMAIN plan.rows = 1..len
      /\ Len(rows) = len + 1 /\ DOMAIN rows = 1..(len + 1)
      /\ \A k \in 1..len : rows[k] = plan.rows[k]
      /\ rows[len + 1] = row
  BY <1>3, AppendToList
<1>5. row = [batch |-> plan.batch, id |-> entry.id, impl |-> entry.impl,
             test |-> entry.test, needs |-> entry.needs,
             deps |-> {k \in Batch(plan) : plan.rows[k].id \in entry.needs}]
  BY DEF Row
<1>6. /\ row.batch = plan.batch /\ row.id = entry.id /\ row.impl = entry.impl
      /\ row.test = entry.test /\ row.needs = entry.needs
      /\ row.deps = {k \in Batch(plan) : plan.rows[k].id \in entry.needs}
  BY <1>5
<1>7. /\ \A k \in 1..off : plan.rows[k].batch < plan.batch
      /\ \A i \in 1..plan.written :
           /\ plan.rows[off + i].batch = plan.batch
           /\ plan.rows[off + i].id = plan.draft[i].id
           /\ plan.rows[off + i].impl = plan.draft[i].impl
           /\ plan.rows[off + i].test = plan.draft[i].test
  BY <1>1 DEF Listed
<1>8. /\ \A k \in 1..len : /\ plan.rows[k].batch \in Nat /\ plan.rows[k].batch <= plan.batch
                         /\ \A d \in plan.rows[k].deps : d \in 1..len
      /\ n = plan.written + 1 /\ entry = plan.draft[n]
  BY <1>1, <1>4 DEF PlanAtWork
<1> HIDE DEF n, entry, row, rows, off, len
<1>9. \A k \in (off + 1)..len :
        /\ k - off \in 1..plan.written /\ plan.rows[k].batch = plan.batch
        /\ plan.rows[k].id = plan.draft[k - off].id
        /\ plan.rows[k].impl = plan.draft[k - off].impl
        /\ plan.rows[k].test = plan.draft[k - off].test
  <2> SUFFICES ASSUME NEW k \in (off + 1)..len
               PROVE  /\ k - off \in 1..plan.written /\ plan.rows[k].batch = plan.batch
                      /\ plan.rows[k].id = plan.draft[k - off].id
                      /\ plan.rows[k].impl = plan.draft[k - off].impl
                      /\ plan.rows[k].test = plan.draft[k - off].test
    OBVIOUS
  <2>1. k - off \in 1..plan.written /\ off + (k - off) = k
    BY <1>3, <1>4
  <2> QED
    BY <1>7, <2>1
<1>10. Batch(plan) = (off + 1)..len
  <2>1. \A k \in 1..len : k \in 1..off \/ k \in (off + 1)..len
    BY <1>3, <1>4
  <2>2. (off + 1)..len \subseteq 1..len /\ plan.batch \in Nat
    BY <1>3, <1>4
  <2>3. \A k \in 1..off : plan.rows[k].batch # plan.batch
    BY <1>3, <1>4, <1>7, <1>8
  <2> QED
    BY <1>4, <1>9, <2>1, <2>2, <2>3 DEF Batch
<1>11. /\ PlanShaped(plan') /\ plan'.rows = rows /\ plan'.written = n
       /\ plan'.batch = plan.batch /\ plan'.files = plan.files /\ plan'.draft = plan.draft
       /\ plan'.pc = IF n = Len(plan.draft) THEN "publish" ELSE "rows"
  BY <1>1, <1>2 DEF PlanAtWork, PlanShaped, PlanNamed
<1>12. PlanAtWork(plan)'
  <2>0. /\ off \in Nat /\ plan.written \in Nat
        /\ len = off + plan.written /\ n = plan.written + 1
    BY <1>3, <1>8
  <2>1. Len(rows) - n = off
    <3>1. Len(rows) = len + 1
      BY <1>4
    <3> QED
      BY <2>0, <3>1
  <2>2. \A i \in 1..n : /\ rows[off + i].batch = plan.batch
                         /\ rows[off + i].id = plan.draft[i].id
                         /\ rows[off + i].impl = plan.draft[i].impl
                         /\ rows[off + i].test = plan.draft[i].test
    <3> SUFFICES ASSUME NEW i \in 1..n
                 PROVE  /\ rows[off + i].batch = plan.batch
                        /\ rows[off + i].id = plan.draft[i].id
                        /\ rows[off + i].impl = plan.draft[i].impl
                        /\ rows[off + i].test = plan.draft[i].test
      OBVIOUS
    <3>1. CASE i \in 1..plan.written
      <4>1. off + i \in 1..len
        BY <2>0, <3>1
      <4> QED
        BY <1>4, <1>7, <3>1, <4>1
    <3>2. CASE i = n
      <4>1. off + i = len + 1
        BY <2>0, <3>2
      <4> QED
        BY <1>4, <1>6, <1>8, <3>2, <4>1
    <3> QED
      BY <2>0, <3>1, <3>2
  <2>3. \A k \in 1..off : rows[k].batch < plan.batch
    <3>1. \A k \in 1..off : k \in 1..len
      BY <2>0
    <3> QED
      BY <1>4, <1>7, <3>1
  <2>4. n \in Nat
    BY <2>0
  <2>5. \A d \in row.deps : d \in 1..(len + 1)
    BY <2>0, <1>6, <1>10
  <2>6. Listed(plan')
    <3>1. Earlier(plan') = off
      BY <1>11, <2>1 DEF Earlier
    <3>2. off \in Nat /\ plan'.pc \notin {"draft", "review"}
      BY <1>11, <2>0
    <3> QED
      BY <1>11, <2>2, <2>3, <2>4, <3>1, <3>2 DEF Listed
  <2>7. \A k \in DOMAIN rows : /\ rows[k].batch \in Nat /\ rows[k].batch <= plan.batch
                               /\ rows[k].deps \subseteq DOMAIN rows
    <3> SUFFICES ASSUME NEW k \in 1..(len + 1)
                 PROVE  /\ rows[k].batch \in Nat /\ rows[k].batch <= plan.batch
                        /\ \A d \in rows[k].deps : d \in 1..(len + 1)
      BY <1>4
    <3>1. CASE k \in 1..len
      BY <1>4, <1>8, <3>1
    <3>2. CASE k = len + 1
      BY <1>3, <1>4, <1>6, <2>5, <3>2
    <3> QED
      BY <1>4, <3>1, <3>2
  <2>8. n # Len(plan.draft) => n < Len(plan.draft)
    BY <1>3
  <2> QED
    BY <1>3, <1>4, <1>11, <2>6, <2>7, <2>8 DEF PlanAtWork
<1>13. \A d \in row.deps : d \in 1..len /\ rows[d] = plan.rows[d]
  BY <1>3, <1>4, <1>6, <1>10
<1>14. {rows[d].id : d \in row.deps} = row.needs
  <2>1. ASSUME NEW x \in row.needs PROVE \E d \in row.deps : rows[d].id = x
    <3>1. x \in IdsBefore(plan.draft, n)
      BY <1>3, <1>6, <1>8 DEF TrioValid, DraftValid, BackwardNeeds
    <3>2. PICK i \in 1..(n - 1) : plan.draft[i].id = x
      BY <3>1 DEF IdsBefore
    <3>3. off + i \in (off + 1)..len /\ i \in 1..plan.written
      <4>1. /\ off \in Nat /\ plan.written \in Nat
            /\ len = off + plan.written /\ n = plan.written + 1
        BY <1>3, <1>8
      <4> QED
        BY <4>1, <3>2
    <3>4. off + i \in row.deps
      BY <1>6, <1>7, <1>10, <3>2, <3>3
    <3> QED
      BY <1>7, <1>13, <3>2, <3>3, <3>4
  <2>2. \A d \in row.deps : rows[d].id \in row.needs
    BY <1>6, <1>13
  <2> QED
    BY <2>1, <2>2
<1>15. \A d \in row.deps : d < len + 1 /\ rows[d].batch = row.batch
  BY <1>4, <1>6, <1>9, <1>10, <1>13
<1>16. n \in DOMAIN plan.draft /\ entry = plan.draft[n]
  BY <1>3, <1>8
<1>17. /\ ScopeOf(row) # {}
       /\ PathOf(row.impl) \subseteq Tracked \cup UNION {ImplRoot[f] : f \in Inventories}
       /\ PathOf(row.test) \subseteq Tracked \cup UNION {TestRoot[f] : f \in Inventories}
  <2>1. /\ entry.impl # NoTarget \/ entry.test # NoTarget
        /\ Grounded(plan.files, entry, entry.impl, ImplRoot[plan.files])
        /\ Grounded(plan.files, entry, entry.test, TestRoot[plan.files])
    BY <1>3, <1>16 DEF TrioValid
  <2>2. plan.files \subseteq Tracked
    BY <1>3 DEF Inventories
  <2> QED
    BY <1>3, <1>6, <2>1, <2>2 DEF Grounded, PathOf, ScopeOf
<1>18. \A d \in 1..len : rows[d].batch = row.batch =>
         /\ row.impl # NoTarget => rows[d].impl # row.impl
         /\ row.test # NoTarget => rows[d].test # row.test
  <2> SUFFICES ASSUME NEW d \in 1..len, rows[d].batch = row.batch
               PROVE  /\ row.impl # NoTarget => rows[d].impl # row.impl
                      /\ row.test # NoTarget => rows[d].test # row.test
    OBVIOUS
  <2>1. rows[d] = plan.rows[d] /\ d \in Batch(plan)
    BY <1>4, <1>6 DEF Batch
  <2>2. d \in (off + 1)..len
    BY <1>10, <2>1
  <2>3. d - off \in 1..(n - 1)
    BY <1>3, <1>8, <1>9, <2>2
  <2>4. Unclaimed(plan.draft, n)
    BY <1>3, <1>16 DEF TrioValid
  <2> QED
    BY <1>6, <1>9, <1>16, <2>1, <2>2, <2>3, <2>4 DEF Unclaimed
<1>19. PlansAreSound'
  <2> SUFFICES ASSUME NEW k \in 1..(len + 1)
               PROVE  /\ {rows[d].id : d \in rows[k].deps} = rows[k].needs
                      /\ \A d \in rows[k].deps : d < k /\ rows[d].batch = rows[k].batch
                      /\ ScopeOf(rows[k]) # {}
                      /\ PathOf(rows[k].impl) \subseteq
                           Tracked \cup UNION {ImplRoot[f] : f \in Inventories}
                      /\ PathOf(rows[k].test) \subseteq
                           Tracked \cup UNION {TestRoot[f] : f \in Inventories}
                      /\ \A d \in 1..(k - 1) : rows[d].batch = rows[k].batch =>
                           /\ rows[k].impl # NoTarget => rows[d].impl # rows[k].impl
                           /\ rows[k].test # NoTarget => rows[d].test # rows[k].test
    BY <1>4, <1>11 DEF PlansAreSound
  <2>1. CASE k = len + 1
    BY <1>4, <1>14, <1>15, <1>17, <1>18, <2>1
  <2>2. CASE k \in 1..len
    <3>1. rows[k] = plan.rows[k] /\ \A d \in rows[k].deps : rows[d] = plan.rows[d]
      BY <1>4, <1>8, <2>2
    <3>2. \A d \in 1..(k - 1) : rows[d] = plan.rows[d]
      BY <1>4, <2>2
    <3>3. /\ {plan.rows[d].id : d \in plan.rows[k].deps} = plan.rows[k].needs
          /\ \A d \in plan.rows[k].deps : d < k /\ plan.rows[d].batch = plan.rows[k].batch
          /\ ScopeOf(plan.rows[k]) # {}
          /\ PathOf(plan.rows[k].impl) \subseteq
               Tracked \cup UNION {ImplRoot[f] : f \in Inventories}
          /\ PathOf(plan.rows[k].test) \subseteq
               Tracked \cup UNION {TestRoot[f] : f \in Inventories}
          /\ \A d \in 1..(k - 1) : plan.rows[d].batch = plan.rows[k].batch =>
               /\ plan.rows[k].impl # NoTarget => plan.rows[d].impl # plan.rows[k].impl
               /\ plan.rows[k].test # NoTarget => plan.rows[d].test # plan.rows[k].test
      BY <1>1, <1>4, <2>2 DEF PlansAreSound
    <3>4. {rows[d].id : d \in rows[k].deps} = rows[k].needs
      BY <3>1, <3>3
    <3> QED
      BY <3>1, <3>2, <3>3, <3>4
  <2> QED
    BY <1>4, <2>1, <2>2
<1> QED
  BY <1>12, <1>19 DEF PlanInv

\* Every step of the planner keeps the rows sound; the worker that takes one of its
\* tasks, and the run of it, leave them as they are.
LEMMA PlanStep == ASSUME PlanInv, [WorkNext]_both PROVE PlanInv'
<1>1. CASE PlanNext
  BY <1>1, DraftStep, PlanReviewStep, MaterializeStep, PublishStep, AbandonStep,
     PlanAgainStep DEF PlanNext
<1>2. CASE plan' = NoPlanner
  <2>1. plan'.pc = "over" /\ plan'.rows = <<>>
    BY <1>2 DEF NoPlanner
  <2>2. DOMAIN plan'.rows = {}
    BY <2>1
  <2> QED
    BY <2>1, <2>2 DEF PlanInv, PlansAreSound
<1>3. CASE UNCHANGED plan
  BY <1>3 DEF PlanInv, PlansAreSound
<1> QED
  BY <1>1, <1>2, <1>3 DEF WorkNext, TakeTask, Terminated, both

\* Every plan in the table, one of a generation that died included, keeps the plans
\* it needs in earlier rows of its list, names files that are there or may be made,
\* and shares its targets with no plan of its list.
THEOREM SoundPlans == WorkSpec => []PlansAreSound
<1>1. ASSUME plan = NoPlanner PROVE PlanInv
  <2>1. plan.pc = "over" /\ plan.rows = <<>>
    BY <1>1 DEF NoPlanner
  <2>2. DOMAIN plan.rows = {}
    BY <2>1
  <2> QED
    BY <2>1, <2>2 DEF PlanInv, PlansAreSound
<1>2. WorkInit => PlanInv
  BY <1>1, PlannerInit DEF WorkInit
<1>3. PlanInv => PlansAreSound
  BY DEF PlanInv
<1> QED
  BY <1>2, <1>3, PlanStep, PTL DEF WorkSpec
=============================================================================
