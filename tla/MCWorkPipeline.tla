--------------------------- MODULE MCWorkPipeline ---------------------------
(* The instances of PlannedWork that TLC checks. *)
EXTENDS PlannedWork

MCBackends == <<"codex", "claude">>

Job(scope, profile, faults) ==
  [scope |-> scope, forbidden |-> {}, required |-> {}, profile |-> profile,
   artifacts |-> {"plan", "report"}, light |-> FALSE, tools |-> TRUE, git |-> TRUE,
   faults |-> faults]

MCSuffixed ==
  [profile \in Profiles |-> IF profile = "python" THEN {"code", "test"} ELSE {}]

\* "log" is CHANGELOG.md, which the repository does not have yet.

\* A scope chosen by an answer or by a plan, without faults; then scopes given
\* with the task, with faults.
MCJobs == {
  [Job({}, "python", 0) EXCEPT !.forbidden = {"code"}],
  [Job({"code", "test"}, "python", 1) EXCEPT !.required = {"code"}],
  [Job({"code"}, "python", 2) EXCEPT !.forbidden = {"code"}],
  [Job({"test"}, "generic", 3) EXCEPT !.light = TRUE],
  [Job({"log"}, "terraform", 2) EXCEPT !.git = FALSE],
  Job({"code", "log"}, "python", 1),
  Job({"code", "test"}, "generic", 0),
  [Job({"code", "test"}, "javascript", 0) EXCEPT !.tools = FALSE],
  [Job({"test"}, "python", 0) EXCEPT !.artifacts = @ \cup {"unit_test_coverage"}]}

MCTracked == {"code", "test"}
MCImplRoot == [files \in {MCTracked, {}} |-> {"code", "log"}]
MCTestRoot == [files \in {MCTracked, {}} |-> {"test"}]
MCDefined == {<<"code", "f">>, <<"test", "t">>}

Entry(id) ==
  [id |-> id, labelled |-> TRUE, needs |-> {}, impl |-> <<"code", id>>, test |-> NoTarget,
   declared |-> FALSE, supersedes |-> {}, strategy |-> NoStrategy, reason |-> FALSE,
   size |-> "medium", stated |-> TRUE, samples |-> <<1, 1>>]

\* An entry, and what may be different or wrong about it.
Variants(id, other) == LET e == Entry(id) IN {
  e,
  [e EXCEPT !.labelled = FALSE],
  [e EXCEPT !.needs = {other}],
  [e EXCEPT !.needs = {id}],
  [e EXCEPT !.id = other],
  [e EXCEPT !.impl = <<"code", other>>],
  [e EXCEPT !.impl = NoTarget],
  [e EXCEPT !.impl = <<"log", "g">>, !.test = <<"test", "t">>],
  [e EXCEPT !.impl = NoTarget, !.test = <<"test", id>>],
  [e EXCEPT !.impl = <<"elsewhere", "g">>],
  [e EXCEPT !.impl = <<"elsewhere", "g">>, !.declared = TRUE],
  [e EXCEPT !.supersedes = {<<"code", "f">>}, !.strategy = "absorb"],
  [e EXCEPT !.supersedes = {<<"code", "f">>}, !.strategy = "accept"],
  [e EXCEPT !.supersedes = {<<"code", "gone">>}, !.strategy = "follow_up"],
  [e EXCEPT !.strategy = "absorb"],
  [e EXCEPT !.size = "too_large"],
  [e EXCEPT !.stated = FALSE],
  [e EXCEPT !.samples = <<2, 1>>]}

MCDrafts ==
  {<<>>, <<Entry("p1"), Entry("p2"), Entry("p3")>>}
    \cup {<<e>> : e \in Variants("p1", "p2")}
    \cup {<<d, e>> : d \in Variants("p1", "p2"), e \in Variants("p2", "p1")}
=============================================================================
