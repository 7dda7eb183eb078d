------------------------ MODULE ConnectionPool_proofs ------------------------
(* Theorems about ConnectionPool: types, and whose work is uncommitted. *)
EXTENDS ConnectionPool, FiniteSetTheorems, TLAPS

\* The pool's lock is held at these suspension points, and only there.
LockPC == {"opening", "filling", "draining", "shutting", "dropping", "emptying"}

LockHeld == \A u \in User : pc[u] \in LockPC <=> lock = u

\* The write lock is a writer's for as long as its block runs.
WriterHolds == \A u \in User : pc[u] = "writing" <=> wlock = u

\* A reader has a connection.
ReaderHolds == \A u \in User : pc[u] = "reading" => held[u] \in Conn

\* An opening counts its own connections, and none of them is there before it.
Opening ==
  /\ \A u \in User : pc[u] \in {"opening", "filling"} => openings > 0 /\ made < MaxRead
  /\ \A u \in User : pc[u] = "opening" => \A conn \in open : conn[1] < openings

\* Nothing is open that no opening made; work is on open connections.
OpenKnown == \A conn \in open : conn[1] <= openings
WorkOpen == \A w \in work : w[1] \in open

PoolInv ==
  /\ TypeOK /\ LockHeld /\ WriterHolds /\ ReaderHolds /\ Opening /\ OpenKnown /\ WorkOpen /\ OwnWork

LEMMA InitInv == Init => PoolInv
  <1> SUFFICES ASSUME Init PROVE PoolInv
    OBVIOUS
  <1>1. TypeOK
    <2>1. drained \in 0..MaxRead /\ made \in 0..MaxRead /\ openings \in 0..MaxOpenings
      BY ReadAssumption, OpeningsAssumption DEF Init
    <2>2. /\ pc \in [User -> PC]
          /\ want \in [User -> {"read", "write"}]
          /\ held \in [User -> Conn \cup {NoConn}]
      BY DEF Init, PC
    <2>3. initialized \in BOOLEAN /\ closing \in BOOLEAN /\ closed \in BOOLEAN
      BY DEF Init
    <2> QED BY <2>1, <2>2, <2>3 DEF Init, TypeOK
  <1>2. LockHeld /\ WriterHolds /\ ReaderHolds
    BY UserAssumption DEF Init, LockHeld, WriterHolds, ReaderHolds, LockPC
  <1>3. Opening /\ OpenKnown /\ WorkOpen /\ OwnWork
    BY DEF Init, Opening, OpenKnown, WorkOpen, OwnWork
  <1> QED BY <1>1, <1>2, <1>3 DEF PoolInv

-----------------------------------------------------------------------------
(* The types *)

LEMMA FinishType ==
  ASSUME TypeOK, NEW u \in User, Finish(u)
  PROVE  /\ pc' \in [User -> PC]
         /\ want' \in [User -> {"read", "write"}]
         /\ held' \in [User -> Conn \cup {NoConn}]
  BY DEF Finish, Goto, TypeOK, PC

LEMMA TypeStep == TypeOK /\ ReaderHolds /\ Opening /\ [Next]_vars => TypeOK'
  <1> SUFFICES ASSUME TypeOK, ReaderHolds, Opening, [Next]_vars
               PROVE  TypeOK'
    OBVIOUS
  <1> USE ReadAssumption, OpeningsAssumption
  <1>1. CASE UNCHANGED vars
    BY <1>1 DEF vars, flags, conns, TypeOK
  <1>2. ASSUME NEW u \in User, PoolStep(u)
        PROVE  TypeOK'
    <2>1. CASE Initialize(u)
      BY <2>1, FinishType DEF Initialize, Goto, Queued, flags, TypeOK, PC
    <2>2. CASE OpenWrite(u)
      <3>1. <<openings, 0>> \in Conn
        BY <2>2 DEF OpenWrite, Opening, TypeOK, Conn
      <3> QED BY <3>1, <2>2 DEF OpenWrite, Goto, flags, TypeOK, PC
    <2>3. CASE OpenRead(u)
      <3>1. <<openings, made + 1>> \in Conn /\ made + 1 \in 0..MaxRead
        BY <2>3 DEF OpenRead, Opening, TypeOK, Conn
      <3>2. pc' \in [User -> PC] /\ lock' \in User \cup {NoUser} /\ initialized' \in BOOLEAN
        BY <2>3 DEF OpenRead, Goto, Queued, TypeOK, PC
      <3> QED BY <3>1, <3>2, <2>3 DEF OpenRead, TypeOK
    <2>4. CASE TakePermit(u) \/ Get(u)
      BY <2>4 DEF TakePermit, Get, TakeConn, Goto, flags, TypeOK, PC
    <2>5. CASE TakeWriteLock(u)
      BY <2>5 DEF TakeWriteLock, Goto, flags, conns, TypeOK, PC
    <2>6. CASE StartClose(u)
      BY <2>6 DEF StartClose, Goto, conns, TypeOK, PC
    <2>7. CASE DrainPermit(u)
      BY <2>7 DEF DrainPermit, flags, conns, TypeOK
    <2>8. CASE EndDrain(u)
      BY <2>8 DEF EndDrain, Goto, flags, conns, TypeOK, PC
    <2>9. CASE ShutWrite(u)
      BY <2>9 DEF ShutWrite, Shut, Goto, flags, TypeOK, PC
    <2>10. CASE DropWrite(u)
      BY <2>10 DEF DropWrite, Goto, flags, TypeOK, PC
    <2>11. CASE ShutRead(u)
      BY <2>11 DEF ShutRead, Shut, flags, TypeOK
    <2>12. CASE FinishClose(u)
      BY <2>12 DEF FinishClose, Goto, TypeOK, PC
    <2> QED
      BY <1>2, <2>1, <2>2, <2>3, <2>4, <2>5, <2>6, <2>7, <2>8, <2>9, <2>10, <2>11, <2>12
      DEF PoolStep, Drained, DrainTimeout
  <1>3. ASSUME NEW u \in User, UserStep(u)
        PROVE  TypeOK'
    <2>1. ASSUME NEW w \in {"read", "write"}, Ask(u, w)
          PROVE  TypeOK'
      BY <2>1 DEF Ask, Goto, Queued, flags, conns, TypeOK, PC
    <2>2. CASE Close(u)
      BY <2>2 DEF Close, Goto, flags, conns, TypeOK, PC
    <2>3. CASE EndRead(u)
      <3>1. queue' \subseteq Conn
        BY <2>3 DEF EndRead, Returned, ReaderHolds, TypeOK
      <3> QED BY <3>1, <2>3, FinishType DEF EndRead, flags, TypeOK
    <2>4. CASE Statement(u)
      BY <2>4 DEF Statement, flags, conns, TypeOK
    <2>5. CASE Commit(u) \/ Rollback(u)
      BY <2>5, FinishType DEF Commit, Rollback, EndWrite, Elsewhere, flags, conns, TypeOK
    <2>6. CASE Quit(u)
      BY <2>6, FinishType DEF Quit, Shut, flags, TypeOK
    <2> QED BY <1>3, <2>1, <2>2, <2>3, <2>4, <2>5, <2>6 DEF UserStep
  <1> QED BY <1>1, <1>2, <1>3 DEF Next

-----------------------------------------------------------------------------
(* The locks *)

\* The suspension points say who holds the locks, and that readers hold a
\* connection.
LEMMA LockStep ==
  TypeOK /\ LockHeld /\ WriterHolds /\ ReaderHolds /\ [Next]_vars
    => LockHeld' /\ WriterHolds' /\ ReaderHolds'
  <1> SUFFICES ASSUME TypeOK, LockHeld, WriterHolds, ReaderHolds, [Next]_vars
               PROVE  LockHeld' /\ WriterHolds' /\ ReaderHolds'
    OBVIOUS
  <1> USE UserAssumption DEF TypeOK, LockHeld, WriterHolds, ReaderHolds, LockPC
  <1>1. CASE UNCHANGED vars
    BY <1>1 DEF vars
  <1>2. ASSUME NEW u \in User, PoolStep(u)
        PROVE  LockHeld' /\ WriterHolds' /\ ReaderHolds'
    <2>1. CASE Initialize(u)
      BY <2>1 DEF Initialize, Finish, Goto, Queued
    <2>2. CASE OpenWrite(u)
      BY <2>2 DEF OpenWrite, Goto
    <2>3. CASE OpenRead(u)
      BY <2>3 DEF OpenRead, Goto, Queued
    <2>4. CASE TakePermit(u) \/ Get(u)
      BY <2>4 DEF TakePermit, Get, TakeConn, Goto
    <2>5. CASE TakeWriteLock(u)
      BY <2>5 DEF TakeWriteLock, Goto
    <2>6. CASE StartClose(u)
      BY <2>6 DEF StartClose, Goto
    <2>7. CASE DrainPermit(u) \/ EndDrain(u)
      BY <2>7 DEF DrainPermit, EndDrain, Goto
    <2>8. CASE ShutWrite(u) \/ DropWrite(u) \/ ShutRead(u)
      BY <2>8 DEF ShutWrite, DropWrite, ShutRead, Goto
    <2>9. CASE FinishClose(u)
      BY <2>9 DEF FinishClose, Goto
    <2> QED
      BY <1>2, <2>1, <2>2, <2>3, <2>4, <2>5, <2>6, <2>7, <2>8, <2>9
      DEF PoolStep, Drained, DrainTimeout
  <1>3. ASSUME NEW u \in User, UserStep(u)
        PROVE  LockHeld' /\ WriterHolds' /\ ReaderHolds'
    <2>1. ASSUME NEW w \in {"read", "write"}, Ask(u, w)
          PROVE  LockHeld' /\ WriterHolds' /\ ReaderHolds'
      BY <2>1 DEF Ask, Goto, Queued
    <2>2. CASE Close(u) \/ Statement(u)
      BY <2>2 DEF Close, Statement, Goto
    <2>3. CASE EndRead(u)
      BY <2>3 DEF EndRead, Finish, Goto
    <2>4. CASE Commit(u) \/ Rollback(u)
      BY <2>4 DEF Commit, Rollback, EndWrite, Finish, Goto
    <2>5. CASE Quit(u)
      BY <2>5 DEF Quit, Finish, Goto, PC
    <2> QED BY <1>3, <2>1, <2>2, <2>3, <2>4, <2>5 DEF UserStep
  <1> QED BY <1>1, <1>2, <1>3 DEF Next

-----------------------------------------------------------------------------
(* The openings *)

\* Only the holder of the pool's lock opens connections.
LEMMA OpeningStep ==
  TypeOK /\ LockHeld /\ Opening /\ OpenKnown /\ [Next]_vars => Opening' /\ OpenKnown'
  <1> SUFFICES ASSUME TypeOK, LockHeld, Opening, OpenKnown, [Next]_vars
               PROVE  Opening' /\ OpenKnown'
    OBVIOUS
  <1> USE DEF Opening, OpenKnown
  <1>1. ASSUME UNCHANGED <<openings, made>>, open' \subseteq open,
               \A v \in User : pc'[v] \in {"opening", "filling"} => pc'[v] = pc[v]
        PROVE  Opening' /\ OpenKnown'
    BY <1>1
  <1>2. CASE UNCHANGED vars
    BY <1>1, <1>2 DEF vars, conns
  <1>3. ASSUME NEW u \in User, Initialize(u)
        PROVE  Opening' /\ OpenKnown'
    <2>1. CASE initialized
      BY <2>1, <1>1, <1>3 DEF Initialize, Finish, Goto, Queued, TypeOK
    <2>2. CASE ~initialized
      <3>1. \A v \in User : v # u => pc'[v] \notin {"opening", "filling"}
        BY <2>2, <1>3, UserAssumption DEF Initialize, Goto, LockHeld, LockPC, TypeOK
      <3>2. pc'[u] = "opening" /\ openings' = openings + 1 /\ made' = 0 /\ open' = open
        BY <2>2, <1>3 DEF Initialize, Goto, TypeOK
      <3>3. \A conn \in open : conn[1] \in Nat
        BY DEF TypeOK, Conn
      <3> QED BY <3>1, <3>2, <3>3, ReadAssumption DEF TypeOK
    <2> QED BY <2>1, <2>2
  <1>4. ASSUME NEW u \in User, OpenWrite(u)
        PROVE  Opening' /\ OpenKnown'
    <2>1. \A v \in User : v # u => pc'[v] \notin {"opening", "filling"}
      BY <1>4 DEF OpenWrite, Goto, LockHeld, LockPC, TypeOK
    <2>2. pc'[u] = "filling" /\ open' = open \cup {<<openings, 0>>}
      BY <1>4 DEF OpenWrite, Goto, TypeOK
    <2> QED BY <2>1, <2>2, <1>4 DEF OpenWrite, TypeOK
  <1>5. ASSUME NEW u \in User, OpenRead(u)
        PROVE  Opening' /\ OpenKnown'
    <2>1. \A v \in User : v # u => pc'[v] \notin {"opening", "filling"}
      BY <1>5 DEF OpenRead, Goto, LockHeld, LockPC, TypeOK
    <2>2. pc'[u] # "opening" /\ (pc'[u] = "filling" => made + 1 # MaxRead)
      BY <1>5 DEF OpenRead, Filled, Goto, Queued, TypeOK
    <2>3. /\ open' = open \cup {<<openings, made + 1>>}
          /\ made' = made + 1 /\ openings' = openings
      BY <1>5 DEF OpenRead
    <2>4. openings > 0 /\ made < MaxRead
      BY <1>5 DEF OpenRead
    <2> QED BY <2>1, <2>2, <2>3, <2>4, ReadAssumption DEF TypeOK
  <1>6. ASSUME NEW u \in User,
               \/ TakePermit(u) \/ Get(u) \/ TakeWriteLock(u) \/ StartClose(u)
               \/ DrainPermit(u) \/ EndDrain(u) \/ ShutWrite(u) \/ DropWrite(u)
               \/ ShutRead(u) \/ FinishClose(u)
        PROVE  Opening' /\ OpenKnown'
    BY <1>1, <1>6
    DEF TakePermit, Get, TakeConn, TakeWriteLock, StartClose, DrainPermit, EndDrain,
        ShutWrite, DropWrite, ShutRead, FinishClose, Shut, Goto, conns, TypeOK
  <1>7. ASSUME NEW u \in User, UserStep(u)
        PROVE  Opening' /\ OpenKnown'
    BY <1>1, <1>7
    DEF UserStep, Ask, Queued, Close, EndRead, Statement, Commit, Rollback, EndWrite,
        Quit, Shut, Finish, Goto, conns, TypeOK
  <1> QED
    BY <1>2, <1>3, <1>4, <1>5, <1>6, <1>7 DEF Next, PoolStep, Drained, DrainTimeout

-----------------------------------------------------------------------------
(* The uncommitted work *)

LEMMA WorkStep ==
  TypeOK /\ WriterHolds /\ Opening /\ WorkOpen /\ OwnWork /\ [Next]_vars
    => WorkOpen' /\ OwnWork'
  <1> SUFFICES ASSUME TypeOK, WriterHolds, Opening, WorkOpen, OwnWork, [Next]_vars
               PROVE  WorkOpen' /\ OwnWork'
    OBVIOUS
  <1> USE DEF WorkOpen, OwnWork
  <1>1. ASSUME work' \subseteq work, open \subseteq open', UNCHANGED <<wconn, wlock>>
        PROVE  WorkOpen' /\ OwnWork'
    BY <1>1
  <1>2. ASSUME NEW conn, Shut(conn), UNCHANGED <<wconn, wlock>>
        PROVE  WorkOpen' /\ OwnWork'
    BY <1>2 DEF Shut
  <1>3. CASE UNCHANGED vars
    BY <1>1, <1>3 DEF vars, conns
  \* A connection without work becomes the write connection.
  <1>4. ASSUME NEW u \in User, OpenWrite(u)
        PROVE  WorkOpen' /\ OwnWork'
    <2>1. <<openings, 0>> \notin open
      BY <1>4 DEF OpenWrite, Opening, TypeOK
    <2> QED BY <2>1, <1>4 DEF OpenWrite
  \* Whoever takes the write lock finds no work.
  <1>5. ASSUME NEW u \in User, TakeWriteLock(u)
        PROVE  WorkOpen' /\ OwnWork'
    <2>1. \A w \in work : w[2] # NoUser
      BY UserAssumption DEF TypeOK
    <2>2. \A w \in work : w[1] # wconn
      BY <2>1, <1>5 DEF TakeWriteLock
    <2> QED BY <2>2, <1>5 DEF TakeWriteLock, conns
  \* Without a write connection there is nothing to own.
  <1>6. ASSUME wconn' = NoConn, UNCHANGED wlock,
               UNCHANGED <<open, work>> \/ \E conn \in Conn \cup {NoConn} : Shut(conn)
        PROVE  WorkOpen' /\ OwnWork'
    <2>1. \A w \in work : w[1] # NoConn
      BY ConnAssumption DEF TypeOK
    <2> QED BY <2>1, <1>6 DEF Shut
  <1>7. ASSUME NEW u \in User, PoolStep(u)
        PROVE  WorkOpen' /\ OwnWork'
    <2>1. CASE ShutWrite(u) \/ ShutRead(u)
      BY <2>1, <1>2 DEF ShutWrite, ShutRead
    <2>2. CASE DropWrite(u)
      BY <2>2, <1>6 DEF DropWrite
    <2>3. CASE \/ Initialize(u) \/ OpenRead(u) \/ TakePermit(u) \/ Get(u) \/ StartClose(u)
               \/ DrainPermit(u) \/ EndDrain(u) \/ FinishClose(u)
      BY <2>3, <1>1
      DEF Initialize, OpenRead, TakePermit, Get, TakeConn, StartClose, DrainPermit,
          EndDrain, FinishClose, conns
    <2> QED BY <1>4, <1>5, <1>7, <2>1, <2>2, <2>3 DEF PoolStep, Drained, DrainTimeout
  <1>8. ASSUME NEW u \in User, UserStep(u)
        PROVE  WorkOpen' /\ OwnWork'
    <2>1. CASE Statement(u)
      <3>1. wlock = u /\ held[u] \in open
        BY <2>1 DEF Statement, WriterHolds
      <3> QED BY <3>1, <2>1 DEF Statement, conns
    <2>2. CASE Commit(u) \/ Rollback(u)
      BY <2>2 DEF Commit, Rollback, EndWrite, Elsewhere, conns
    <2>3. CASE Quit(u)
      <3>1. CASE pc[u] \in {"shutting", "dropping"}
        BY <3>1, <2>3, <1>6 DEF Quit, TypeOK
      <3>2. CASE pc[u] \notin {"shutting", "dropping"}
        BY <3>2, <2>3, <1>1 DEF Quit
      <3> QED BY <3>1, <3>2
    <2>4. CASE (\E w \in {"read", "write"} : Ask(u, w)) \/ Close(u) \/ EndRead(u)
      BY <2>4, <1>1 DEF Ask, Close, EndRead, conns
    <2> QED BY <1>8, <2>1, <2>2, <2>3, <2>4 DEF UserStep
  <1> QED BY <1>3, <1>7, <1>8 DEF Next

-----------------------------------------------------------------------------

\* The invariant the two theorems after it follow from.
THEOREM PoolInvariant == Spec => []PoolInv
  <1>1. PoolInv /\ [Next]_vars => PoolInv'
    BY TypeStep, LockStep, OpeningStep, WorkStep DEF PoolInv
  <1> QED BY <1>1, InitInv, PTL DEF Spec

\* The types, for any number of users, connections and openings.
THEOREM PoolTypes == Spec => []TypeOK
  <1>1. PoolInv => TypeOK
    BY DEF PoolInv
  <1> QED BY <1>1, PoolInvariant, PTL

\* No writer ever commits or rolls back another one's work: what is uncommitted
\* on the pool's write connection is its holder's, whatever was cancelled,
\* closed by force or opened again.
THEOREM WorkIsOwn == Spec => []OwnWork
  <1>1. PoolInv => OwnWork
    BY DEF PoolInv
  <1> QED BY <1>1, PoolInvariant, PTL

-----------------------------------------------------------------------------
(* close reaches the readers *)

\* The pool knows every read connection that is open.
ReadersKnown == \A conn \in open : conn[2] # 0 => conn \in rconns

LEMMA ReadersKnownStep == ReadersKnown /\ [Next]_vars => ReadersKnown'
  <1> SUFFICES ASSUME ReadersKnown, [Next]_vars
               PROVE  ReadersKnown'
    OBVIOUS
  <1> USE DEF ReadersKnown
  <1>1. ASSUME open' \subseteq open, UNCHANGED rconns
        PROVE  ReadersKnown'
    BY <1>1
  <1>2. CASE UNCHANGED vars
    BY <1>1, <1>2 DEF vars, conns
  <1>3. ASSUME NEW u \in User, OpenWrite(u) \/ OpenRead(u) \/ FinishClose(u)
        PROVE  ReadersKnown'
    BY <1>3 DEF OpenWrite, OpenRead, FinishClose, ToClose
  <1>4. ASSUME NEW u \in User,
               \/ Initialize(u) \/ TakePermit(u) \/ Get(u) \/ TakeWriteLock(u)
               \/ StartClose(u) \/ DrainPermit(u) \/ EndDrain(u) \/ ShutWrite(u)
               \/ DropWrite(u) \/ ShutRead(u)
        PROVE  ReadersKnown'
    BY <1>1, <1>4
    DEF Initialize, TakePermit, Get, TakeConn, TakeWriteLock, StartClose, DrainPermit,
        EndDrain, ShutWrite, DropWrite, ShutRead, Shut, conns
  <1>5. ASSUME NEW u \in User, UserStep(u)
        PROVE  ReadersKnown'
    BY <1>1, <1>5
    DEF UserStep, Ask, Close, EndRead, Statement, Commit, Rollback, EndWrite, Quit,
        Shut, conns
  <1> QED BY <1>2, <1>3, <1>4, <1>5 DEF Next, PoolStep, Drained, DrainTimeout

\* When close has finished no read connection is open: not one a reader held, nor
\* one that a failed opening made.
THEOREM CloseReachesReaders == Spec => ReadersClosed
  <1> DEFINE NoReader == ~closed /\ closed' => \A conn \in open' : conn[2] = 0
  <1>1. Init => ReadersKnown
    BY DEF Init, ReadersKnown
  <1>2. ReadersKnown /\ [Next]_vars => [NoReader]_vars
    <2> SUFFICES ASSUME ReadersKnown, Next, ~closed, closed'
                 PROVE  \A conn \in open' : conn[2] = 0
      OBVIOUS
    <2>1. \E u \in User : FinishClose(u)
      BY DEF Next, PoolStep, UserStep, Initialize, OpenWrite, OpenRead, TakePermit, Get,
             TakeWriteLock, StartClose, DrainPermit, Drained, DrainTimeout, EndDrain,
             ShutWrite, DropWrite, ShutRead, Ask, Close, EndRead, Statement, Commit,
             Rollback, EndWrite, Quit, flags
    <2> QED BY <2>1 DEF FinishClose, ToClose, ReadersKnown
  <1> QED BY <1>1, <1>2, ReadersKnownStep, PTL DEF Spec, ReadersClosed

-----------------------------------------------------------------------------
(* Permits and connections agree *)

\* A read connection the pool knows waits in the queue or is with a reader.
Kept(conn) == conn \in queue \/ \E u \in User : pc[u] = "reading" /\ held[u] = conn

\* Until the pool is closed its connections are kept, an initialised pool has
\* max_read of them, and only an initialised pool is asked for one.
Supply ==
  /\ ~closed => \A conn \in rconns : Kept(conn)
  /\ ~closed /\ initialized => \A i \in 1..MaxRead : <<openings, i>> \in rconns
  /\ \A u \in User : pc[u] = "filling" => \A i \in 1..made : <<openings, i>> \in rconns
  /\ \A u \in User : pc[u] = "opening" => made = 0
  /\ \A u \in User : pc[u] = "permit" => initialized \/ closed

\* A free permit means that fewer readers than connections have one.
LEMMA SupplySuffices ==
  ASSUME TypeOK, Supply, ~closed, initialized, Permits > 0
  PROVE  queue # {}
  <1> DEFINE Busy == {u \in User : pc[u] \in {"getting", "reading"}}
  <1>1. IsFiniteSet(Busy) /\ Cardinality(Busy) \in Nat
    <2>1. Busy \in SUBSET User
      OBVIOUS
    <2>2. IsFiniteSet(Busy)
      BY <2>1, UserAssumption, FS_Subset
    <2> QED BY <2>2, FS_CardinalityType
  <1>2. Cardinality(Busy) < MaxRead
    BY <1>1, ReadAssumption DEF Permits, TypeOK
  <1>3. Cardinality(1..MaxRead) = MaxRead
    BY FS_Interval, ReadAssumption
  <1>4. ASSUME queue = {}
        PROVE  FALSE
    <2> DEFINE f == [i \in 1..MaxRead |->
                       CHOOSE u \in Busy : held[u] = <<openings, i>>]
    <2>1. \A i \in 1..MaxRead : \E u \in Busy : held[u] = <<openings, i>>
      BY <1>4 DEF Supply, Kept
    <2>2. \A i \in 1..MaxRead : f[i] \in Busy /\ held[f[i]] = <<openings, i>>
      BY <2>1
    <2>3. f \in Injection(1..MaxRead, Busy)
      <3>1. f \in [1..MaxRead -> Busy]
        BY <2>2
      <3>2. \A i, j \in 1..MaxRead : f[i] = f[j] => i = j
        BY <2>2
      <3> HIDE DEF f
      <3> QED BY <3>1, <3>2 DEF Injection, IsInjective
    <2> HIDE DEF f
    <2>4. Cardinality(1..MaxRead) <= Cardinality(Busy)
      BY <2>3, <1>1, FS_Injection
    <2> QED BY <2>4, <1>1, <1>2, <1>3, ReadAssumption
  <1> QED BY <1>4

LEMMA SupplyStep ==
  TypeOK /\ LockHeld /\ ReaderHolds /\ Opening /\ Supply /\ [Next]_vars => Supply'
  <1> SUFFICES ASSUME TypeOK, LockHeld, ReaderHolds, Opening, Supply, [Next]_vars
               PROVE  Supply'
    OBVIOUS
  \* Most steps move no connection and nobody to an opening or a permit.
  <1>1. ASSUME rconns' = rconns, queue' = queue, openings' = openings, made' = made,
               initialized' <=> initialized, closed' <=> closed,
               \A v \in User : pc[v] = "reading" => pc'[v] = "reading" /\ held'[v] = held[v],
               \A v \in User : pc'[v] \in {"opening", "filling"} => pc'[v] = pc[v],
               \A v \in User : pc'[v] = "permit" => pc[v] = "permit" \/ initialized
        PROVE  Supply'
    BY <1>1 DEF Supply, Kept
  <1>2. CASE UNCHANGED vars
    <2>1. rconns' = rconns /\ queue' = queue /\ openings' = openings /\ made' = made
      BY <1>2 DEF vars, flags, conns
    <2>2. (initialized' <=> initialized) /\ (closed' <=> closed)
      BY <1>2 DEF vars, flags, conns
    <2>3. pc' = pc /\ held' = held
      BY <1>2 DEF vars, flags, conns
    <2> QED BY <1>1, <2>1, <2>2, <2>3
  <1>3. ASSUME NEW u \in User, Initialize(u)
        PROVE  Supply'
    <2>1. CASE initialized
      BY <2>1, <1>1, <1>3 DEF Initialize, Finish, Goto, Queued, flags, TypeOK
    <2>2. CASE ~initialized
      <3>1. \A v \in User : v # u => pc'[v] \notin {"opening", "filling"} /\ pc'[v] = pc[v]
        BY <2>2, <1>3, UserAssumption DEF Initialize, Goto, LockHeld, LockPC, TypeOK
      <3>2. pc'[u] = "opening" /\ made' = 0 /\ pc[u] = "entering"
        BY <2>2, <1>3 DEF Initialize, Goto, TypeOK
      <3>3. UNCHANGED <<rconns, queue, initialized, closed, held>>
        BY <2>2, <1>3 DEF Initialize, flags
      <3> QED BY <3>1, <3>2, <3>3, <2>2 DEF Supply, Kept
    <2> QED BY <2>1, <2>2
  <1>4. ASSUME NEW u \in User, OpenWrite(u)
        PROVE  Supply'
    <2>1. \A v \in User : v # u => pc'[v] = pc[v]
      BY <1>4 DEF OpenWrite, Goto, TypeOK
    <2>2. pc'[u] = "filling" /\ pc[u] = "opening" /\ made = 0
      BY <1>4 DEF OpenWrite, Goto, TypeOK, Supply
    <2>3. UNCHANGED <<rconns, queue, openings, made, initialized, closed, held>>
      BY <1>4 DEF OpenWrite, flags
    <2> QED BY <2>1, <2>2, <2>3 DEF Supply, Kept
  <1>5. ASSUME NEW u \in User, OpenRead(u)
        PROVE  Supply'
    <2> DEFINE conn == <<openings, made + 1>>
    <2>1. /\ pc[u] = "filling" /\ held' = held /\ closed' = closed /\ openings' = openings
          /\ rconns' = rconns \cup {conn} /\ queue' = queue \cup {conn} /\ made' = made + 1
      BY <1>5 DEF OpenRead
    <2>2. \A i \in 1..(made + 1) : <<openings, i>> \in rconns'
      <3>1. \A i \in 1..(made + 1) : i \in 1..made \/ i = made + 1
        BY DEF TypeOK
      <3> QED BY <3>1, <2>1 DEF Supply
    <2>3. \A v \in User : v # u => pc'[v] = pc[v] /\ pc'[v] \notin {"opening", "filling"}
      BY <1>5 DEF OpenRead, Goto, LockHeld, LockPC, TypeOK
    <2>4. \/ made + 1 = MaxRead /\ initialized' = TRUE /\ pc'[u] \in {"permit", "wlock"}
          \/ initialized' = initialized /\ pc'[u] = "filling"
      BY <1>5 DEF OpenRead, Filled, Goto, Queued, TypeOK
    <2>5. ~closed => \A c \in rconns' : Kept(c)'
      BY <2>1, <2>3, <2>4 DEF Supply, Kept
    <2>6. ~closed /\ initialized' => \A i \in 1..MaxRead : <<openings, i>> \in rconns'
      BY <2>1, <2>2, <2>4 DEF Supply
    <2>7. \A v \in User : pc'[v] = "permit" => initialized' \/ closed
      BY <2>3, <2>4 DEF Supply
    <2> QED BY <2>1, <2>2, <2>3, <2>4, <2>5, <2>6, <2>7 DEF Supply
  <1>6. ASSUME NEW u \in User, TakePermit(u) \/ Get(u)
        PROVE  Supply'
    <2>1. /\ UNCHANGED <<rconns, openings, made, initialized, closed>>
          /\ \A v \in User : v # u => pc'[v] = pc[v] /\ held'[v] = held[v]
          /\ pc[u] # "reading" /\ pc'[u] \in {"reading", "getting"}
      BY <1>6 DEF TakePermit, Get, TakeConn, Goto, flags, TypeOK
    <2>2. \/ \E c \in queue : queue' = queue \ {c} /\ pc'[u] = "reading" /\ held'[u] = c
          \/ UNCHANGED queue
      BY <1>6 DEF TakePermit, Get, TakeConn, Goto, TypeOK
    <2>3. ASSUME NEW c \in rconns, ~closed PROVE Kept(c)'
      BY <2>1, <2>2, <2>3 DEF Supply, Kept
    <2> QED BY <2>1, <2>3 DEF Supply
  <1>7. ASSUME NEW u \in User, EndRead(u)
        PROVE  Supply'
    <2>1. /\ UNCHANGED <<rconns, openings, made, initialized, closed>>
          /\ \A v \in User : v # u => pc'[v] = pc[v] /\ held'[v] = held[v]
          /\ pc'[u] = "idle"
          /\ ~closed => queue' = queue \cup {held[u]}
      BY <1>7 DEF EndRead, Returned, Finish, Goto, flags, TypeOK
    <2>2. ASSUME NEW c \in rconns, ~closed PROVE Kept(c)'
      BY <2>1, <2>2 DEF Supply, Kept
    <2> QED BY <2>1, <2>2 DEF Supply
  <1>8. ASSUME NEW u \in User, FinishClose(u)
        PROVE  Supply'
    <2>1. \A v \in User : pc'[v] \notin {"opening", "filling"}
      BY <1>8 DEF FinishClose, Goto, LockHeld, LockPC, TypeOK
    <2> QED BY <2>1, <1>8 DEF FinishClose, Supply
  <1>9. ASSUME NEW u \in User,
               \/ TakeWriteLock(u) \/ StartClose(u) \/ DrainPermit(u) \/ EndDrain(u)
               \/ ShutWrite(u) \/ DropWrite(u) \/ ShutRead(u)
        PROVE  Supply'
    BY <1>1, <1>9
    DEF TakeWriteLock, StartClose, DrainPermit, EndDrain, ShutWrite, DropWrite, ShutRead,
        Goto, flags, conns, TypeOK
  <1>10. ASSUME NEW u \in User, NEW w \in {"read", "write"}, Ask(u, w)
         PROVE  Supply'
    BY <1>1, <1>10 DEF Ask, Goto, Queued, flags, conns, TypeOK
  <1>11. ASSUME NEW u \in User,
                Close(u) \/ Statement(u) \/ Commit(u) \/ Rollback(u) \/ Quit(u)
         PROVE  Supply'
    BY <1>1, <1>11
    DEF Close, Statement, Commit, Rollback, EndWrite, Quit, Finish, Goto, flags, conns,
        PC, TypeOK
  <1> QED
    BY <1>2, <1>3, <1>4, <1>5, <1>6, <1>7, <1>8, <1>9, <1>10, <1>11
    DEF Next, PoolStep, UserStep, Drained, DrainTimeout

LEMMA AtHandStep ==
  TypeOK /\ Supply /\ ConnectionAtHand /\ [Next]_vars => ConnectionAtHand'
  <1> SUFFICES ASSUME TypeOK, Supply, ConnectionAtHand, [Next]_vars, ~closed'
               PROVE  \A v \in User : pc'[v] # "getting"
    BY DEF ConnectionAtHand
  <1>1. ASSUME NEW u \in User, TakePermit(u), ~closed
        PROVE  \A v \in User : pc'[v] # "getting"
    <2>1. queue # {}
      BY <1>1, SupplySuffices DEF TakePermit, Supply
    <2> QED BY <2>1, <1>1 DEF TakePermit, TakeConn, Goto, ConnectionAtHand, TypeOK
  <1>2. ~closed
    BY DEF Next, PoolStep, UserStep, Initialize, OpenWrite, OpenRead, TakePermit, Get,
           TakeWriteLock, StartClose, DrainPermit, Drained, DrainTimeout, EndDrain,
           ShutWrite, DropWrite, ShutRead, FinishClose, Ask, Close, EndRead, Statement,
           Commit, Rollback, EndWrite, Quit, flags, vars
  <1>3. ASSUME NEW u \in User, PoolStep(u) /\ ~TakePermit(u)
        PROVE  \A v \in User : pc'[v] # "getting"
    BY <1>2, <1>3
    DEF ConnectionAtHand, PoolStep, Initialize, OpenWrite, OpenRead, Get, TakeConn,
        TakeWriteLock, StartClose, DrainPermit, Drained, DrainTimeout, EndDrain,
        ShutWrite, DropWrite, ShutRead, FinishClose, Finish, Goto, Queued, TypeOK
  <1>4. ASSUME NEW u \in User, UserStep(u)
        PROVE  \A v \in User : pc'[v] # "getting"
    BY <1>2, <1>4
    DEF ConnectionAtHand, UserStep, Ask, Close, EndRead, Statement, Commit, Rollback,
        EndWrite, Quit, Finish, Goto, Queued, TypeOK
  <1>5. CASE UNCHANGED vars
    BY <1>2, <1>5 DEF vars, ConnectionAtHand
  <1> QED BY <1>1, <1>2, <1>3, <1>4, <1>5 DEF Next

\* Until the pool is closed under it, no reader that has a permit waits for a
\* connection, for any number of readers, connections, failed openings and
\* cancelled closes.
THEOREM PermitsSuffice == Spec => []ConnectionAtHand
  <1>1. Init => Supply /\ ConnectionAtHand
    BY DEF Init, Supply, ConnectionAtHand
  <1>2. PoolInv /\ Supply /\ ConnectionAtHand /\ [Next]_vars => Supply' /\ ConnectionAtHand'
    BY SupplyStep, AtHandStep DEF PoolInv
  <1> QED BY <1>1, <1>2, PoolInvariant, PTL DEF Spec
=============================================================================
