\* Both processes and the operator at work on one objective.
SPECIFICATION Spec
CONSTANTS
  Dims = {"d1"}
  Units = {"u1"}
  MaxTrio = 1
  MaxGens = 2
  MaxRounds = 1
  MaxDiagrams = 2
  Budgets <- MCBudgets
INVARIANTS MarkedWasPushed
PROPERTIES GenerationEnds RoundEnds StatusSettles ConcernsTakenUp
CHECK_DEADLOCK FALSE
