\* One task of two attempts, two queue workers; leases outlive every run.
SPECIFICATION FairSpec
CONSTANTS
  w1 = w1  w2 = w2  w3 = w3  t1 = t1  t2 = t2  t3 = t3  p1 = p1  p2 = p2
  None = None
  Workers = {w1, w2}
  Direct = {}
  Tasks = {t1}
  Projects = {p1}
  ProjectOf <- Project1
  MaxConcurrent <- Cap1
  Rank <- Rank1
  MaxAttempts <- Two1
  MaxBranches <- One1
  LeaseOutlivesRun = TRUE
  MaxFaults = 1
  MaxCommands = 1
INVARIANTS OneWorkerPerTask RunRowIsTrue AttemptsDistinct RetryBudget OutcomeIsBacked
PROPERTIES CompletedIsFinal EveryTaskFinishes
