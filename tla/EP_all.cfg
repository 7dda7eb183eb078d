SPECIFICATION FairSpec
CONSTANTS
  NoEmitter = NoEmitter
  Emitter = {e1, e2, e3}
  Retries = 1
  MaxEvents = 3
  MaxCompactions = 2
INVARIANT TypeOK
INVARIANT Accounted
PROPERTY RowGrows
PROPERTY EmitEnds
CHECK_DEADLOCK FALSE
