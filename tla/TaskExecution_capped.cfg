\* Two tasks of a project capped at one, one of a project without a cap; two workers.
SPECIFICATION Spec
CONSTANTS
  w1 = w1  w2 = w2  w3 = w3  t1 = t1  t2 = t2  t3 = t3  p1 = p1  p2 = p2
  None = None
  Workers = {w1, w2}
  Direct = {}
  Tasks = {t1, t2, t3}
  Projects = {p1, p2}
  ProjectOf <- Project3
  MaxConcurrent <- Cap2
  Rank <- Rank3
  MaxAttempts <- One3
  MaxBranches <- One3
  LeaseOutlivesRun = TRUE
  MaxFaults = 0
  MaxCommands = 0
SYMMETRY Symmetry
INVARIANTS ConcurrencyCap WorkKept
PROPERTIES ImplementsBoard
