--------------------------- MODULE ConnectionPool ---------------------------
(***************************************************************************)
(* SQLiteConnectionPool                                                    *)
(* (weebot/infrastructure/persistence/connection_pool.py): one write       *)
(* connection behind a lock, MaxRead read connections behind a semaphore   *)
(* and a queue, opened by the first user and closed under those still in   *)
(* flight.                                                                 *)
(*                                                                         *)
(* Each connection has a worker thread that does what it is asked in       *)
(* order, also when the coroutine that asked has been cancelled.  A step   *)
(* is what a coroutine does between two awaits, or a connection being      *)
(* closed by its thread.  Asking for a lock is an await even when the lock *)
(* is free.                                                                *)
(***************************************************************************)
EXTENDS Integers, FiniteSets

CONSTANTS
  User,         \* concurrent readers, writers and closers
  NoUser,       \* a free lock
  NoConn,       \* None
  MaxRead,      \* max_read
  MaxOpenings   \* BOUND: how often initialize gets to open connections

ASSUME UserAssumption == NoUser \notin User /\ IsFiniteSet(User)
ASSUME ReadAssumption == MaxRead \in Nat \ {0}
ASSUME OpeningsAssumption == MaxOpenings \in Nat

\* A connection is named by the opening that made it; number 0 is for writing.
Conn == (1..MaxOpenings) \X (0..MaxRead)

ASSUME ConnAssumption == NoConn \notin Conn

VARIABLES
  lock,         \* _lock: who initialises or closes the pool
  wlock,        \* _write_lock
  wconn,        \* _write_conn
  rconns,       \* _read_conns
  queue,        \* _read_pool
  initialized,  \* _initialized
  closing,      \* _closing
  closed,       \* _closed
  drained,      \* the read permits the closer holds (acquired in _drain)
  made,         \* read connections the current initialize has opened
  open,         \* the connections that are open, known to the pool or not
  openings,     \* history: how many openings were begun
  work,         \* uncommitted work: the connection it is on and the writer
  pc,           \* where each user is suspended
  want,         \* what a user that waits for initialize goes on to do
  held          \* the connection each user was given

flags == <<initialized, closing, closed>>
conns == <<wconn, rconns, queue, open, openings, made>>
vars  == <<lock, wlock, drained, work, flags, conns, pc, want, held>>

PC == {"idle", "entering", "opening", "filling", "permit", "getting", "reading",
       "wlock", "writing",
       "locking", "draining", "shutting", "dropping", "emptying"}

\* The suspension points of close().
ClosePC == {"locking", "draining", "shutting", "dropping", "emptying"}

TypeOK ==
  /\ lock \in User \cup {NoUser}
  /\ wlock \in User \cup {NoUser}
  /\ wconn \in Conn \cup {NoConn}
  /\ rconns \subseteq Conn
  /\ queue \subseteq Conn
  /\ initialized \in BOOLEAN /\ closing \in BOOLEAN /\ closed \in BOOLEAN
  /\ drained \in 0..MaxRead
  /\ made \in 0..MaxRead
  /\ open \subseteq Conn
  /\ openings \in 0..MaxOpenings
  /\ work \subseteq Conn \X User
  /\ pc \in [User -> PC]
  /\ want \in [User -> {"read", "write"}]
  /\ held \in [User -> Conn \cup {NoConn}]

Init ==
  /\ lock = NoUser
  /\ wlock = NoUser
  /\ wconn = NoConn
  /\ rconns = {}
  /\ queue = {}
  /\ initialized = FALSE /\ closing = FALSE /\ closed = FALSE
  /\ drained = 0
  /\ made = 0
  /\ open = {}
  /\ openings = 0
  /\ work = {}
  /\ pc = [u \in User |-> "idle"]
  /\ want = [u \in User |-> "read"]
  /\ held = [u \in User |-> NoConn]

Goto(u, at) == pc' = [pc EXCEPT ![u] = at]

\* The user is done, and so are its locals.
Finish(u) ==
  /\ Goto(u, "idle")
  /\ want' = [want EXCEPT ![u] = "read"]
  /\ held' = [held EXCEPT ![u] = NoConn]

\* What is left of the read semaphore: each reader with a permit has one, and the drain
\* has some.
Permits ==
  MaxRead - drained - Cardinality({u \in User : pc[u] \in {"getting", "reading"}})

-----------------------------------------------------------------------------
(* acquire_read and acquire_write up to their waits, and initialize (whose *)
(* other callers, get_or_create_pool and __aenter__, are the first users   *)
(* of a pool they have just built)                                         *)

Queued(w) == IF w = "read" THEN "permit" ELSE "wlock"

\* The gate, and the pool is initialised first when it has to be.
Ask(u, w) ==
  /\ pc[u] = "idle"
  /\ ~closed /\ ~closing
  /\ want' = [want EXCEPT ![u] = w]
  /\ Goto(u, IF initialized THEN Queued(w) ELSE "entering")
  /\ UNCHANGED <<lock, wlock, drained, work, flags, conns, held>>

\* Under the pool's lock the gate is not looked at again, the initialisation is;
\* a writer behind a close that was cancelled half-way finds no connection.
Initialize(u) ==
  /\ pc[u] = "entering"
  /\ lock = NoUser
  /\ \/ /\ initialized
        /\ \/ want[u] = "write" /\ wconn = NoConn /\ Finish(u)
           \/ /\ ~(want[u] = "write" /\ wconn = NoConn)
              /\ Goto(u, Queued(want[u]))
              /\ UNCHANGED <<want, held>>
        /\ UNCHANGED <<lock, openings, made>>
     \/ /\ ~initialized
        /\ openings < MaxOpenings
        /\ openings' = openings + 1
        /\ made' = 0
        /\ lock' = u
        /\ Goto(u, "opening")
        /\ UNCHANGED <<want, held>>
  /\ UNCHANGED <<wlock, drained, work, flags, wconn, rconns, queue, open>>

OpenWrite(u) ==
  /\ pc[u] = "opening"
  /\ wconn' = <<openings, 0>>
  /\ open' = open \cup {<<openings, 0>>}
  /\ Goto(u, "filling")
  /\ UNCHANGED <<lock, wlock, drained, work, flags, rconns, queue, openings, made,
                 want, held>>

\* MUTANT: one connection more than max_read.
OneTooMany == made = MaxRead

\* MUTANT: one connection less than max_read.
OneShort == made + 2 = MaxRead

\* The loop over max_read connections is over.
Filled == made + 1 = MaxRead

OpenRead(u) ==
  /\ pc[u] = "filling"
  /\ LET conn == <<openings, made + 1>>
     IN /\ rconns' = rconns \cup {conn}
        /\ queue' = queue \cup {conn}
        /\ open' = open \cup {conn}
  /\ made' = made + 1
  /\ IF Filled
       THEN initialized' = TRUE /\ lock' = NoUser /\ Goto(u, Queued(want[u]))
       ELSE UNCHANGED <<initialized, lock, pc>>
  /\ UNCHANGED <<wlock, drained, work, closing, closed, wconn, openings, want, held>>

-----------------------------------------------------------------------------
(* acquire_read *)

TakeConn(u) ==
  \E conn \in queue :
    /\ queue' = queue \ {conn}
    /\ held' = [held EXCEPT ![u] = conn]
    /\ Goto(u, "reading")

\* The semaphore, then the queue: get suspends only when there is nothing in it.
TakePermit(u) ==
  /\ pc[u] = "permit"
  /\ Permits > 0
  /\ \/ TakeConn(u)
     \/ queue = {} /\ Goto(u, "getting") /\ UNCHANGED <<queue, held>>
  /\ UNCHANGED <<lock, wlock, drained, work, flags, wconn, rconns, open, openings, made,
                 want>>

Get(u) ==
  /\ pc[u] = "getting"
  /\ TakeConn(u)
  /\ UNCHANGED <<lock, wlock, drained, work, flags, wconn, rconns, open, openings, made,
                 want>>

Returned(u) == IF closed THEN queue ELSE queue \cup {held[u]}

\* The reader's block ends, by itself, by an exception or cancelled.
EndRead(u) ==
  /\ pc[u] = "reading"
  /\ queue' = Returned(u)
  /\ Finish(u)
  /\ UNCHANGED <<lock, wlock, drained, work, flags, wconn, rconns, open, openings, made>>

-----------------------------------------------------------------------------
(* acquire_write *)

TakeWriteLock(u) ==
  /\ pc[u] = "wlock"
  /\ wlock = NoUser
  /\ wlock' = u
  /\ held' = [held EXCEPT ![u] = wconn]
  /\ Goto(u, "writing")
  /\ UNCHANGED <<lock, drained, work, flags, conns, want>>

\* A statement of the writer's block, on the connection it was given: with None
\* or a closed connection it raises.
Statement(u) ==
  /\ pc[u] = "writing"
  /\ held[u] \in open
  /\ work' = work \cup {<<held[u], u>>}
  /\ UNCHANGED <<lock, wlock, drained, flags, conns, pc, want, held>>

\* What is not on the pool's write connection: commit and rollback act on
\* _write_conn, whatever the writer was given, and raise when it is None.
Elsewhere == {w \in work : w[1] # wconn}

EndWrite(u, left) ==
  /\ pc[u] = "writing"
  /\ work' = left
  /\ wlock' = NoUser
  /\ Finish(u)
  /\ UNCHANGED <<lock, drained, flags, conns>>

Commit(u) == EndWrite(u, Elsewhere)

\* MUTANT: except Exception, which a cancelled writer passes by.
NoRollback(u) == EndWrite(u, work)

\* except BaseException: the block raised or was cancelled.
Rollback(u) == EndWrite(u, Elsewhere)

-----------------------------------------------------------------------------
(* close, _drain *)

Close(u) ==
  /\ pc[u] = "idle"
  /\ ~closed
  /\ Goto(u, "locking")
  /\ UNCHANGED <<lock, wlock, drained, work, flags, conns, want, held>>

\* The gate is shut before the pool is drained.
StartClose(u) ==
  /\ pc[u] = "locking"
  /\ lock = NoUser
  /\ IF closed
       THEN Goto(u, "idle") /\ UNCHANGED <<lock, closing>>
       ELSE lock' = u /\ closing' = TRUE /\ Goto(u, "draining")
  /\ UNCHANGED <<wlock, drained, work, initialized, closed, conns, want, held>>

DrainPermit(u) ==
  /\ pc[u] = "draining"
  /\ drained < MaxRead
  /\ Permits > 0
  /\ drained' = drained + 1
  /\ UNCHANGED <<lock, wlock, work, flags, conns, pc, want, held>>

\* What _drain took is released as it returns, before anything is closed.
EndDrain(u) ==
  /\ pc[u] = "draining"
  /\ drained' = 0
  /\ Goto(u, IF wconn = NoConn THEN "emptying" ELSE "shutting")
  /\ UNCHANGED <<lock, wlock, work, flags, conns, want, held>>

\* Every permit and the write lock: nobody is in flight.
Drained(u) == drained = MaxRead /\ wlock = NoUser /\ EndDrain(u)

\* MUTANT: the drain waits as long as its users take.
NoDrainTimeout(u) == FALSE

DrainTimeout(u) == EndDrain(u)

\* The connection's thread closes it; uncommitted work is lost with it.
Shut(conn) ==
  /\ open' = open \ {conn}
  /\ work' = {w \in work : w[1] # conn}

ShutWrite(u) ==
  /\ pc[u] = "shutting"
  /\ Shut(wconn)
  /\ Goto(u, "dropping")
  /\ UNCHANGED <<lock, wlock, drained, flags, wconn, rconns, queue, openings, made, want,
                 held>>

DropWrite(u) ==
  /\ pc[u] = "dropping"
  /\ wconn' = NoConn
  /\ Goto(u, "emptying")
  /\ UNCHANGED <<lock, wlock, drained, work, flags, rconns, queue, open, openings, made,
                 want, held>>

\* MUTANT: only the idle connections are closed (D36).
IdleConns == queue

\* Every connection the pool opened for reading, checked out or not.
ToClose == rconns

ShutRead(u) ==
  /\ pc[u] = "emptying"
  /\ \E conn \in ToClose \cap open : Shut(conn)
  /\ UNCHANGED <<lock, wlock, drained, flags, wconn, rconns, queue, openings, made, pc,
                 want, held>>

FinishClose(u) ==
  /\ pc[u] = "emptying"
  /\ ToClose \cap open = {}
  /\ rconns' = {}
  /\ queue' = {}
  /\ closed' = TRUE
  /\ initialized' = FALSE
  /\ lock' = NoUser
  /\ Goto(u, "idle")
  /\ UNCHANGED <<wlock, drained, work, closing, wconn, open, openings, made, want, held>>

-----------------------------------------------------------------------------

\* A user that is cancelled, times out or fails at one of its waits.  The locks
\* and permits it has are released; an opening it was in the middle of stays as
\* it is, and a close cancelled while it shuts the write connection drops it,
\* closed or not.
Quit(u) ==
  /\ pc[u] \in PC \ {"idle", "reading", "writing"}
  /\ lock' = IF lock = u THEN NoUser ELSE lock
  /\ drained' = IF pc[u] = "draining" THEN 0 ELSE drained
  /\ wconn' = IF pc[u] \in {"shutting", "dropping"} THEN NoConn ELSE wconn
  /\ \/ UNCHANGED <<open, work>>
     \/ pc[u] = "shutting" /\ Shut(wconn)
  /\ Finish(u)
  /\ UNCHANGED <<wlock, flags, rconns, queue, openings, made>>

\* The steps that are not the users' own.
PoolStep(u) ==
  \/ Initialize(u) \/ OpenWrite(u) \/ OpenRead(u)
  \/ TakePermit(u) \/ Get(u) \/ TakeWriteLock(u)
  \/ StartClose(u) \/ DrainPermit(u) \/ Drained(u) \/ DrainTimeout(u)
  \/ ShutWrite(u) \/ DropWrite(u) \/ ShutRead(u) \/ FinishClose(u)

UserStep(u) ==
  \/ \E w \in {"read", "write"} : Ask(u, w)
  \/ Close(u) \/ EndRead(u) \/ Statement(u) \/ Commit(u) \/ Rollback(u) \/ Quit(u)

Next == \E u \in User : PoolStep(u) \/ UserStep(u)

Spec == Init /\ [][Next]_vars

\* asyncio's locks wake their waiters in turn and every database call ends; a
\* user may keep what it was given for ever.
FairSpec == Spec /\ \A u \in User : SF_vars(PoolStep(u))

-----------------------------------------------------------------------------
(* Properties *)

\* "so they don't share an uncommitted transaction on the single write
\* connection": what is uncommitted on the pool's write connection is the work
\* of the writer that holds it, through cancelled writers, closes that were
\* forced or cancelled, and pools opened again.
OwnWork == \A w \in work : w[1] = wconn => wlock = w[2]

\* The permits and the connections agree: a reader with a permit never waits for
\* a connection, except in a pool that was closed under it.
ConnectionAtHand == ~closed => \A u \in User : pc[u] # "getting"

\* "Close every read connection this pool opened - not merely the ones that
\* happen to be sitting in the idle queue": also those of openings that failed,
\* and those readers hold.
ReadersClosed ==
  [][~closed /\ closed' => \A conn \in open' : conn[2] = 0]_vars

\* "a shutdown path must never inherit a request path's patience": close ends
\* whatever its users do.
CloseEnds == \A u \in User : pc[u] \in ClosePC ~> pc[u] = "idle"
=============================================================================
