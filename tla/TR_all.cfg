SPECIFICATION Spec
CONSTANTS
  NoRun = NoRun
  NoClient = NoClient
  Session = {s1}
  Run = {r1, r2}
  Client = {c1, c2}
  MaxSlots = 1
  MaxRetries = 1
  Owns = TRUE
  Ops = {"run", "dispatch", "resume", "resume_mode", "restore", "cancel", "delete", "rerun"}
  Faults = {"crash"}
  MaxFaults = 1
SYMMETRY Symmetric
VIEW StateView
INVARIANT TypeOK
INVARIANT RetryStateTracked
INVARIANT RunningIsAttended
INVARIANT OneWriter
CHECK_DEADLOCK FALSE
