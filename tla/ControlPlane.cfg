\* An operator, a supervisor and the watch; the methods of two of them overlap.
SPECIFICATION OverlapSpec
CONSTANTS
  op = op  s1 = s1  s2 = s2  wa = wa
  Operators = {op}
  Supervisors = {s1}
  Watches = {wa}
  Lanes = {"worker"}
  Limit = 0
  MaxCommands = 1
  MaxCrashes = 1
INVARIANTS StateAgreesWithSwitch BudgetBound
PROPERTIES FreezeHolds ReportSettles CooldownEnds
