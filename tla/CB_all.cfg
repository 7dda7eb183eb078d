SPECIFICATION FairSpec
CONSTANTS
  Entity = {e1}
  Caller = {c1, c2, c3}
  FailureThreshold = 2
  SuccessThreshold = 2
  Cooldown = 3
  Jitter = 1
  Stagger = TRUE
  MaxLapses = 1
INVARIANT TypeOK
INVARIANT CountAgrees
PROPERTY OpenRefuses
PROPERTY ImplementsGate
PROPERTY AdmittedAgain
