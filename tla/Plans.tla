-------------------------------- MODULE Plans --------------------------------
(***************************************************************************)
(* The plans of one objective: the checks a drafted list of plans must     *)
(* pass (skills/plan_draft.py), what its reviewer may say of it            *)
(* (skills/review_plan_atomicity.py), the loop around both                 *)
(* (services/trio_plan_orchestrator.py over services/red_team_loop.py),    *)
(* the plan rows made of the accepted list and the scope a task inherits.  *)
(* The planner is a thread that may be killed; the next generation starts  *)
(* over and leaves the rows of the dead one in place.                      *)
(***************************************************************************)
EXTENDS Naturals, Sequences, FiniteSets

CONSTANTS
  Tracked,       \* the paths git lists in the repository
  ImplRoot,      \* inventory -> the paths below a root for new implementation files
  TestRoot,      \* inventory -> the paths below a root for new tests
  Defined,       \* the <<path, symbol>> defined there (any, outside Python files)
  NoTarget, NoStrategy,
  MaxPlans,      \* _MAX_PLANS: 15 in the code
  MaxPlanRounds, \* rounds of the loop: 4 in the code
  MaxRestarts,   \* bound: generations that die and are started over
  Drafts         \* bound: the lists of plans an answer can hold

\* RepoInventoryProvider.files, which is empty when git fails.
Inventories == {Tracked, {}}

ASSUME PlansAssumption ==
  /\ {DOMAIN ImplRoot, DOMAIN TestRoot} = {Inventories}
  /\ {MaxPlans, MaxPlanRounds} \subseteq Nat \ {0} /\ MaxRestarts \in Nat
  /\ \A s \in Defined : s[1] \in Tracked

VARIABLE plan   \* the planner, its draft, and the rows of plans and of tasks

-----------------------------------------------------------------------------
(* An answer, once parsed.  An entry is a record                            *)
(*   id, labelled, needs, impl, test, declared, supersedes, strategy,       *)
(*   reason, size, stated, samples                                          *)
(* where a target, like a superseded symbol, is a <<path, symbol>>.         *)

Absentee(files, target, root) ==
  target # NoTarget /\ target[1] \notin files /\ target[1] \in root

\* An undeclared new file counts as declared when its path is a plausible one.
CreatesNew(files, entry) ==
  \/ entry.declared
  \/ Absentee(files, entry.impl, ImplRoot[files])
  \/ Absentee(files, entry.test, TestRoot[files])

\* Entries without a local_id or a label are dropped.
Parse(files, answer) ==
  LET Kept(entry) == entry.id # "" /\ entry.labelled
      kept        == SelectSeq(answer, Kept)
  IN  [i \in DOMAIN kept |-> [kept[i] EXCEPT !.declared = CreatesNew(files, kept[i])]]

\* A list, whatever its elements are.
IsList(s) == s \in Seq({s[i] : i \in DOMAIN s})

\* What an answer parses into is a list.
ASSUME ParseAssumption == \A files \in Inventories, answer \in Drafts : IsList(Parse(files, answer))

IdsBefore(plans, i) == {plans[k].id : k \in 1..(i - 1)}

\* A mutant: needs may point anywhere in the list.
KnownNeeds(plans) ==
  \A i \in DOMAIN plans : plans[i].needs \subseteq {plans[k].id : k \in DOMAIN plans}

\* No plan needs itself, a later plan or one that is not there.
BackwardNeeds(plans) == \A i \in DOMAIN plans : plans[i].needs \subseteq IdsBefore(plans, i)

DraftValid(plans) ==
  /\ plans # <<>> /\ Len(plans) <= MaxPlans
  /\ \A i \in DOMAIN plans : plans[i].id \notin IdsBefore(plans, i)
  /\ BackwardNeeds(plans)

Unclaimed(plans, i) ==
  \A k \in 1..(i - 1) :
    /\ plans[i].impl # NoTarget => plans[k].impl # plans[i].impl
    /\ plans[i].test # NoTarget => plans[k].test # plans[i].test

Grounded(files, entry, target, root) ==
  \/ target = NoTarget
  \/ target[1] \in files
  \/ entry.declared /\ target[1] \in root

OrphansHandled(files, entry) ==
  IF entry.supersedes = {} THEN entry.strategy = NoStrategy
  ELSE /\ \A s \in entry.supersedes : s[1] \in files /\ s \in Defined
       /\ entry.strategy \in {"absorb", "follow_up", "accept"}
       /\ entry.strategy = "accept" => entry.reason

\* samples: how many inputs and how many outputs the entry lists.
Concrete(entry) ==
  /\ entry.size # "too_large" /\ entry.stated
  /\ entry.samples[1] # 0 /\ entry.samples[1] = entry.samples[2]

TrioValid(files, plans) ==
  /\ DraftValid(plans)
  /\ \A i \in DOMAIN plans :
       /\ plans[i].impl # NoTarget \/ plans[i].test # NoTarget
       /\ Unclaimed(plans, i)
       /\ Grounded(files, plans[i], plans[i].impl, ImplRoot[files])
       /\ Grounded(files, plans[i], plans[i].test, TestRoot[files])
       /\ OrphansHandled(files, plans[i]) /\ Concrete(plans[i])

\* A review, and whether its verdict goes with its findings.
Reviews == [verdict : {"pass", "concern", "remediation_required"},
            severities : SUBSET {"minor", "major", "critical"}]

ReviewValid(review) ==
  LET grave == review.severities \cap {"major", "critical"}
  IN  CASE review.verdict = "pass"    -> grave = {}
        [] review.verdict = "concern" -> grave # {}
        [] OTHER                      -> "critical" \in grave

Approves(review) == ReviewValid(review) /\ review.verdict = "pass"

-----------------------------------------------------------------------------
(* The loop, the rows and the tasks. *)

PlanInit ==
  plan = [pc |-> "draft", round |-> 1, files |-> Tracked, draft |-> <<>>, written |-> 0,
          batch |-> 1, rows |-> <<>>, tasks |-> {}]

\* A draft or a review that fails, or objects, sends the loop into its next round.
NextRound(p) ==
  IF p.round < MaxPlanRounds THEN [p EXCEPT !.pc = "draft", !.round = @ + 1, !.draft = <<>>]
  ELSE [p EXCEPT !.pc = "failed", !.draft = <<>>]

\* The first draft of a generation reads the inventory, which is then kept.
Draft ==
  /\ plan.pc = "draft"
  /\ \E files \in IF plan.round = 1 THEN Inventories ELSE {plan.files} :
       LET read == [plan EXCEPT !.files = files]
       IN  \/ plan' = NextRound(read)             \* no answer, or none that parses
           \/ \E answer \in Drafts :
                LET plans == Parse(files, answer)
                IN  plan' = IF TrioValid(files, plans)
                            THEN [read EXCEPT !.pc = "review", !.draft = plans]
                            ELSE NextRound(read)

Review ==
  /\ plan.pc = "review"
  /\ \/ plan' = NextRound(plan)
     \/ \E review \in Reviews :
          plan' = IF Approves(review) THEN [plan EXCEPT !.pc = "rows"] ELSE NextRound(plan)

\* The rows of this generation, by the index they have in the table.
Batch(p) == {k \in DOMAIN p.rows : p.rows[k].batch = p.batch}

PathOf(target) == IF target = NoTarget THEN {} ELSE {target[1]}

\* The row of an entry: its needs become the rows already made of this list.
Row(p, entry) ==
  [batch |-> p.batch, id |-> entry.id, impl |-> entry.impl, test |-> entry.test,
   deps |-> {k \in Batch(p) : p.rows[k].id \in entry.needs}, needs |-> entry.needs]

MaterializePlan ==
  /\ plan.pc = "rows"
  /\ LET n == plan.written + 1
     IN  plan' = [plan EXCEPT
           !.rows = Append(@, Row(plan, plan.draft[n])), !.written = n,
           !.pc = IF n = Len(plan.draft) THEN "publish" ELSE @]

\* The scope of the task of a row.
ScopeOf(row) == PathOf(row.impl) \cup PathOf(row.test)

\* One task per plan, in the order of the list.
PublishPlan ==
  /\ plan.pc = "publish"
  /\ LET k    == CHOOSE k \in Batch(plan) \ plan.tasks :
                   \A other \in Batch(plan) \ plan.tasks : k <= other
         done == plan.tasks \cup {k}
     IN  plan' = [plan EXCEPT !.tasks = done,
                              !.pc = IF Batch(plan) \subseteq done THEN "published" ELSE @]

\* The thread dies with its process, or runs into an exception.
Abandon ==
  /\ plan.pc \in {"draft", "review", "rows", "publish"}
  /\ plan.batch <= MaxRestarts
  /\ plan' = [plan EXCEPT !.pc = "dead", !.draft = <<>>, !.written = 0]

\* A poll finds the generation failed, and no task of it that may still run.
PlanAgain ==
  /\ plan.pc = "dead" /\ plan.tasks = {}
  /\ plan' = [plan EXCEPT !.pc = "draft", !.round = 1, !.batch = @ + 1]

PlanNext ==
  Draft \/ Review \/ MaterializePlan \/ PublishPlan \/ Abandon \/ PlanAgain

-----------------------------------------------------------------------------

\* PlansAreSound: every plan in the table, those of a generation that died
\* included, keeps all the plans it needs, each of them in an earlier row of
\* its own list; names a file, every one of which git lists or a new file may
\* be created at; and shares its targets with no plan of its list.
PlansAreSound ==
  \A k \in DOMAIN plan.rows :
    LET row == plan.rows[k]
    IN  /\ {plan.rows[d].id : d \in row.deps} = row.needs
        /\ \A d \in row.deps : d < k /\ plan.rows[d].batch = row.batch
        /\ ScopeOf(row) # {}
        /\ PathOf(row.impl) \subseteq Tracked \cup UNION {ImplRoot[f] : f \in Inventories}
        /\ PathOf(row.test) \subseteq Tracked \cup UNION {TestRoot[f] : f \in Inventories}
        /\ \A d \in 1..(k - 1) :
             plan.rows[d].batch = row.batch =>
               /\ row.impl # NoTarget => plan.rows[d].impl # row.impl
               /\ row.test # NoTarget => plan.rows[d].test # row.test
=============================================================================
