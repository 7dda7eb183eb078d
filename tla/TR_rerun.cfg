SPECIFICATION Spec
CONSTANTS
  NoRun = NoRun
  NoClient = NoClient
  Session = {s1}
  Run = {r1, r2}
  Client = {c1}
  MaxSlots = 2
  MaxRetries = 1
  Owns = TRUE
  Ops = {"run", "rerun"}
  Faults = {}
  MaxFaults = 0
PROPERTY RerunHasFullBudget
