SPECIFICATION WorkSpec
CONSTANTS
  Backends <- MCBackends
  FileContract = {"codex"}
  MaxTries = 3
  Files = {"code", "test", "log"}
  Tests = {"test"}
  Suffixed <- MCSuffixed
  Absent = {"log"}
  Changelog = "log"
  MaxRounds = 2
  MaxFixRounds = 3
  Jobs <- MCJobs
  Tracked <- MCTracked
  ImplRoot <- MCImplRoot
  TestRoot <- MCTestRoot
  Defined <- MCDefined
  NoTarget = NoTarget
  NoStrategy = NoStrategy
  MaxPlans = 2
  MaxPlanRounds = 2
  MaxRestarts = 1
  Drafts <- MCDrafts
INVARIANT RejectionIsAnOutcome
