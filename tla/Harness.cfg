\* Scenes of one harness: up to three supervisors, three tasks, two clerks, two launchers.
SPECIFICATION Spec
CONSTANTS
  Clerks = {"c1", "c2"}
  Issues = {"i1"}
  Proposals = {"fix", "split"}
  HighRisk = {"split"}
  MaxTask = 3
  Drainers = {1, 2, 3, 9}
  MaxRun = 2
  MaxAttempts = 1
  MaxBranches = 2
  Sups = {1, 2, 3}
  Nudger = 9
  Launchers = {4, 5, 10}
  Children = {6, 7, 8}
  Projects = {"q1"}
  Escalation = 2
  DrainBound = 1
  Every = 2
  Scenes <- MCScenes
INVARIANTS ImportBound NudgeWaits
PROPERTIES StopHonoured QueueServed SidecarFollows
CHECK_DEADLOCK FALSE
