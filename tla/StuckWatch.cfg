SPECIFICATION Spec
CONSTANTS
  MaxTask = 6
  Disposers = {"d1", "d2"}
  Cap = 2
  MaxFindings = 2
  Categories = {"c1", "c2"}
  Workers = {"w1", "w2"}
  Threshold = 2
  HardMax = 2
  Scenes <- MCScenes
INVARIANTS RetryTreeBound
PROPERTIES StuckIsNoticed
CHECK_DEADLOCK FALSE
