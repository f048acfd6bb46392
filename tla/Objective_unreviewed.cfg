\* The UI alone at work on one objective, with two review rounds.
SPECIFICATION Spec
CONSTANTS
  Dims = {"d1"}
  Units = {"u1"}
  MaxTrio = 1
  MaxGens = 1
  MaxRounds = 2
  MaxDiagrams = 2
  Budgets <- MCTwoRounds
INVARIANTS FixesAreRereviewed
CHECK_DEADLOCK FALSE
