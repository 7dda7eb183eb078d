SPECIFICATION Spec
CONSTANTS
  NoPlan = NoPlan
  Id = {"s1", "s2"}
  Plans <- MCPlans
  Edits <- MCEdits
  Risky = {"s2"}
  Fetching = {"s1"}
  Callers = {"server", "cli", "resume"}
  Modes = {TRUE, FALSE}
  MaxIter = 4
  MaxRepeat = 2
  MaxReplans = 1
  MaxRuns = 2
  Faults = {"save", "crash"}
  MaxFaults = 1
INVARIANT TypeOK
INVARIANT ReplansBounded
INVARIANT PausedIsSaved
PROPERTY MailReviewed
PROPERTY RiskyAnswered
PROPERTY ReviewedIsSaved
PROPERTY CompletedByWork
CHECK_DEADLOCK FALSE
