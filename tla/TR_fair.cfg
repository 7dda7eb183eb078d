SPECIFICATION FairSpec
CONSTANTS
  NoRun = NoRun
  NoClient = NoClient
  Session = {s1}
  Run = {r1, r2}
  Client = {c1}
  MaxSlots = 1
  MaxRetries = 1
  Owns = FALSE
  Ops = {"run", "dispatch", "resume", "resume_mode", "restore", "cancel", "delete", "rerun"}
  Faults = {"save", "factory", "crash"}
  MaxFaults = 2
PROPERTY UntracksOwnOnly
PROPERTY BudgetOnlySpent
PROPERTY RequestEnds
PROPERTY SlotGranted
CHECK_DEADLOCK FALSE
