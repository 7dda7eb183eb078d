--------------------------- MODULE EventPublisher ---------------------------
(***************************************************************************)
(* How a flow's events reach the session's row: EventPublisher.emit        *)
(* (weebot/application/flows/event_publisher.py) with the retries and the  *)
(* dead letters of SessionPersistenceAdapter under it, while the           *)
(* scheduler's job compacts the row (weebot/scheduling/default_jobs.py).   *)
(*                                                                         *)
(* A session is compared by how many of its events a copy holds: events    *)
(* are only appended, so a snapshot is the number of the last one in it.   *)
(* Emits overlap as they may for this class (a plan-act flow alone makes   *)
(* them one at a time); each step is what one emit does between two awaits.*)
(***************************************************************************)
EXTENDS Naturals

CONSTANTS
  Emitter,    \* concurrent emits
  NoEmitter,  \* nobody holds _emit_lock
  Retries,    \* len(PERSISTENCE_RETRY_CONFIG.delays)
  MaxEvents,  \* BOUND: events in a behaviour
  MaxCompactions  \* BOUND: compactions written in a behaviour

ASSUME EmitterAssumption == NoEmitter \notin Emitter
ASSUME RetriesAssumption == Retries \in Nat
ASSUME EventsAssumption  == MaxEvents \in Nat
ASSUME CompactionsAssumption == MaxCompactions \in Nat

VARIABLES
  adapter, \* a SessionPersistenceAdapter is wired (fixed when the flow is built)
  seq,     \* _event_seq: events added to the publisher's session
  saved,   \* _saved_seq: events the last save covered
  row,     \* events in the session's row
  stamp,   \* the row's updated_at
  job,     \* the compaction job: where it is and the row it loaded
  compactions, \* compactions written
  dead,    \* events in each dead-letter file
  lost,    \* history: snapshots that reached neither
  quit,    \* history: events whose emit was cancelled or raised
  lock,    \* who holds _emit_lock
  pc,      \* where each emit is suspended
  num,     \* the number of each emit's event (its local seq)
  snap,    \* the session each save writes
  tries    \* retries each save has made

stored == <<row, stamp>>
emits  == <<adapter, seq, saved, dead, lost, quit, lock, pc, num, snap, tries>>
jobs   == <<job, compactions>>
vars   == <<stored, emits, jobs>>

PC == {"idle", "publishing", "waiting", "writing", "backoff", "burying"}

\* The points at which an emit holds the lock.
Saving == {"writing", "backoff", "burying"}

Count == 0..MaxEvents

\* The values of updated_at that tell rows apart: a flow's session takes a new one
\* with each event, and a compaction gives the row one of its own.
Stamp == 0..(MaxEvents + MaxCompactions)

IdleJob == [at |-> "idle", seen |-> 0, stamp |-> 0]

TypeOK ==
  /\ adapter \in BOOLEAN
  /\ seq \in Count
  /\ saved \in Count
  /\ row \in Count
  /\ stamp \in Stamp
  /\ job \in [at : {"idle", "compacting"}, seen : Count, stamp : Stamp]
  /\ compactions \in 0..MaxCompactions
  /\ dead \subseteq Count
  /\ lost \subseteq Count
  /\ quit \subseteq Count
  /\ lock \in Emitter \cup {NoEmitter}
  /\ pc \in [Emitter -> PC]
  /\ num \in [Emitter -> Count]
  /\ snap \in [Emitter -> Count]
  /\ tries \in [Emitter -> 0..Retries]

Init ==
  /\ adapter \in BOOLEAN
  /\ seq = 0
  /\ saved = 0
  /\ row = 0
  /\ stamp = 0
  /\ job = IdleJob
  /\ compactions = 0
  /\ dead = {}
  /\ lost = {}
  /\ quit = {}
  /\ lock = NoEmitter
  /\ pc = [e \in Emitter |-> "idle"]
  /\ num = [e \in Emitter |-> 0]
  /\ snap = [e \in Emitter |-> 0]
  /\ tries = [e \in Emitter |-> 0]

Goto(e, at) == pc' = [pc EXCEPT ![e] = at]

\* The emit's locals are given up with it.
Forget(e) ==
  /\ Goto(e, "idle")
  /\ num' = [num EXCEPT ![e] = 0]
  /\ snap' = [snap EXCEPT ![e] = 0]
  /\ tries' = [tries EXCEPT ![e] = 0]

\* MUTANT: acquire and release without a context manager.
KeepLock(e) == lock

Unlocked(e) == IF lock = e THEN NoEmitter ELSE lock

-----------------------------------------------------------------------------
(* emit *)

\* The event is added to the session and numbered; the bus is told next.
AddEvent(e) ==
  /\ pc[e] = "idle"
  /\ seq < MaxEvents
  /\ seq' = seq + 1
  /\ num' = [num EXCEPT ![e] = seq + 1]
  /\ Goto(e, "publishing")
  /\ UNCHANGED <<stored, jobs, adapter, saved, dead, lost, quit, lock, snap, tries>>

Published(e) ==
  /\ pc[e] = "publishing"
  /\ Goto(e, "waiting")
  /\ UNCHANGED <<stored, jobs, adapter, seq, saved, dead, lost, quit, lock, num, snap, tries>>

\* MUTANT: saves are not serialised.
AlwaysFree == TRUE

LockFree == lock = NoEmitter

\* Under the lock: an emit whose event the save before it already held is done;
\* another one saves the session as it is now.
AcquireLock(e) ==
  /\ pc[e] = "waiting"
  /\ LockFree
  /\ IF saved < num[e]
       THEN /\ lock' = e
            /\ snap' = [snap EXCEPT ![e] = seq]
            /\ Goto(e, "writing")
            /\ UNCHANGED <<num, tries>>
       ELSE Forget(e) /\ UNCHANGED lock
  /\ UNCHANGED <<stored, jobs, adapter, seq, saved, dead, lost, quit>>

\* MUTANT: the count is read after the save instead of before it.
CountedAfter(e) == seq

\* covered: what the save held, read before it began.
Covered(e) == snap[e]

\* The save is over, one way or another: _saved_seq moves on and the lock is free.
EndSave(e) ==
  /\ saved' = Covered(e)
  /\ lock' = Unlocked(e)
  /\ Forget(e)
  /\ UNCHANGED <<jobs, adapter, seq, quit>>

-----------------------------------------------------------------------------
(* _persist_session, SessionPersistenceAdapter.save_session *)

\* The upsert of the session's row, whole.
StoreRow(e) == row' = snap[e] /\ stamp' = snap[e]

\* What fails in a save may be the indexing, after the row was written.
MayStore(e) == StoreRow(e) \/ UNCHANGED stored

WriteRow(e) ==
  /\ pc[e] = "writing"
  /\ StoreRow(e)
  /\ EndSave(e)
  /\ UNCHANGED <<dead, lost>>

\* Without the adapter one attempt is made and its failure is only logged.
WriteFails(e) ==
  /\ pc[e] = "writing"
  /\ ~adapter
  /\ MayStore(e)
  /\ lost' = lost \cup {snap[e]}
  /\ EndSave(e)
  /\ UNCHANGED dead

\* MUTANT: the retries are not counted.
AnotherTry(e) == TRUE

MoreTries(e) == tries[e] < Retries

\* The adapter retries what may pass (the same snapshot), and dead-letters what
\* is permanent, out of retries or out of time.
RetryLater(e) ==
  /\ pc[e] = "writing"
  /\ adapter
  /\ MoreTries(e)
  /\ MayStore(e)
  /\ tries' = [tries EXCEPT ![e] = @ + 1]
  /\ Goto(e, "backoff")
  /\ UNCHANGED <<jobs, adapter, seq, saved, dead, lost, quit, lock, num, snap>>

Retry(e) ==
  /\ pc[e] = "backoff"
  /\ Goto(e, "writing")
  /\ UNCHANGED <<stored, jobs, adapter, seq, saved, dead, lost, quit, lock, num, snap, tries>>

GiveUp(e) ==
  /\ pc[e] = "writing"
  /\ adapter
  /\ MayStore(e)
  /\ Goto(e, "burying")
  /\ UNCHANGED <<jobs, adapter, seq, saved, dead, lost, quit, lock, num, snap, tries>>

DeadLetter(e) ==
  /\ pc[e] = "burying"
  /\ \/ dead' = dead \cup {snap[e]} /\ UNCHANGED lost
     \/ lost' = lost \cup {snap[e]} /\ UNCHANGED dead
  /\ EndSave(e)
  /\ UNCHANGED stored

-----------------------------------------------------------------------------

\* The bus raises, or the emit is cancelled (at any await): a write it was
\* waiting for has been made or not, and _saved_seq does not move.
Quit(e) ==
  /\ pc[e] # "idle"
  /\ quit' = quit \cup {num[e]}
  /\ lock' = Unlocked(e)
  /\ \/ UNCHANGED <<stored, dead>>
     \/ pc[e] = "writing" /\ StoreRow(e) /\ UNCHANGED dead
     \/ pc[e] = "burying" /\ dead' = dead \cup {snap[e]} /\ UNCHANGED stored
  /\ Forget(e)
  /\ UNCHANGED <<jobs, adapter, seq, saved, lost>>

-----------------------------------------------------------------------------
(* _memory_compact_job: the row of a RUNNING session is loaded, compacted and
   saved if it has not changed meanwhile *)

LoadForCompaction ==
  /\ job.at = "idle"
  /\ compactions < MaxCompactions
  /\ job' = [at |-> "compacting", seen |-> row, stamp |-> stamp]
  /\ UNCHANGED <<stored, emits, compactions>>

\* MUTANT: the compacted copy is saved as a flow saves its session.
AnyRow == TRUE

\* save_if_unchanged: one UPDATE for the row with the updated_at that was loaded.
RowUnchanged == stamp = job.stamp

\* The compacted copy still stands for every event it was made from.
SaveCompacted ==
  /\ job.at = "compacting"
  /\ RowUnchanged
  /\ row' = job.seen
  /\ compactions' = compactions + 1
  /\ stamp' = MaxEvents + compactions'
  /\ job' = IdleJob
  /\ UNCHANGED emits

\* The row has changed, or compacting or saving raised: the session is left to the
\* job's next run.
SkipCompaction ==
  /\ job.at = "compacting"
  /\ job' = IdleJob
  /\ UNCHANGED <<stored, emits, compactions>>

JobStep == LoadForCompaction \/ SaveCompacted \/ SkipCompaction

-----------------------------------------------------------------------------

EmitStep(e) ==
  \/ Published(e) \/ AcquireLock(e) \/ WriteRow(e) \/ WriteFails(e)
  \/ RetryLater(e) \/ Retry(e) \/ GiveUp(e) \/ DeadLetter(e)

Next ==
  \/ \E e \in Emitter : AddEvent(e) \/ EmitStep(e) \/ Quit(e)
  \/ JobStep

Spec == Init /\ [][Next]_vars

\* The event loop resumes every emit that can go on, and asyncio.Lock wakes its
\* waiters in turn, hence strong fairness.
FairSpec == Spec /\ \A e \in Emitter : SF_vars(EmitStep(e))

-----------------------------------------------------------------------------
(* Properties *)

UnderWay(n) == \E e \in Emitter : pc[e] # "idle" /\ num[e] = n

\* Every event of the session is in the row or in a dead letter, is still being
\* emitted, or is one whose emit was cut short or whose dead letter could not be
\* written: skipping a save never drops an event.
Accounted ==
  \A n \in 1..seq :
    \/ n <= row
    \/ \E d \in dead \cup lost : n <= d
    \/ n \in quit
    \/ UnderWay(n)

\* "a retried write for an older snapshot must not finish after, and overwrite,
\* a newer one", and the compaction, which holds no lock while it works, writes "only
\* over the row that was compacted".
RowGrows == [][row' >= row]_vars

\* "holding the lock here cannot deadlock": every emit ends, whatever fails.
EmitEnds == \A e \in Emitter : pc[e] # "idle" ~> pc[e] = "idle"
=============================================================================
