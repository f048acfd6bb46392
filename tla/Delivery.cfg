SPECIFICATION Spec
CONSTANTS
  Runs = {"r1", "r2"}
  Remedies = {"r2"}
  Affirmers = {"a1", "a2"}
  MaxMain = 4
  Projects <- MCProjects
INVARIANTS AppliedIsOnMain NoDoubleApply CheckedBeforeMain
CHECK_DEADLOCK FALSE
