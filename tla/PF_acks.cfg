SPECIFICATION Spec
CONSTANTS
  NoPlan = NoPlan
  Id = {"s1", "s2"}
  Plans <- MCPlans
  Edits <- MCEdits
  Risky = {"s1"}
  Fetching = {}
  Callers = {"server"}
  Modes = {FALSE}
  MaxIter = 4
  MaxRepeat = 2
  MaxReplans = 1
  MaxRuns = 2
  Faults = {}
  MaxFaults = 0
CHECK_DEADLOCK FALSE
PROPERTY AcksKeptToPlan
