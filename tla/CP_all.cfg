SPECIFICATION FairSpec
CONSTANTS
  NoUser = NoUser
  NoConn = NoConn
  User = {u1, u2, u3}
  MaxRead = 2
  MaxOpenings = 2
INVARIANT TypeOK
INVARIANT OwnWork
INVARIANT ConnectionAtHand
PROPERTY ReadersClosed
PROPERTY CloseEnds
CHECK_DEADLOCK FALSE
