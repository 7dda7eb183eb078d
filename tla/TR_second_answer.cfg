SPECIFICATION Spec
CONSTANTS
  NoRun = NoRun
  NoClient = NoClient
  Session = {s1}
  Run = {r1, r2, r3}
  Client = {c1, c2}
  MaxSlots = 2
  MaxRetries = 1
  Owns = TRUE
  Ops = {"run", "resume"}
  Faults = {}
  MaxFaults = 0
SYMMETRY Symmetric
INVARIANT SecondAnswerRefused
