SPECIFICATION Spec
CONSTANTS
  NoPlan = NoPlan
  Id = {"s1", "s2"}
  Plans <- MCPlans
  Edits <- MCEdits
  Risky = {"s2"}
  Fetching = {"s1"}
  Callers = {"cli"}
  Modes = {FALSE}
  MaxIter = 4
  MaxRepeat = 2
  MaxReplans = 1
  MaxRuns = 1
  Faults = {}
  MaxFaults = 0
CHECK_DEADLOCK FALSE
INVARIANT AskedIsResumable
