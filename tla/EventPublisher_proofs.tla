------------------------ MODULE EventPublisher_proofs ------------------------
(* Proofs of the safety properties of EventPublisher, for any number of     *)
(* concurrent emits, events and retries.                                    *)
EXTENDS EventPublisher, TLAPS

USE DEF Count, PC, Saving, stored, emits, jobs

-----------------------------------------------------------------------------
(* The inductive invariant *)

\* _emit_lock is held by the emit that is saving, and only by it.
LockHeld == \A e \in Emitter : pc[e] \in Saving <=> lock = e

\* A save writes a snapshot that holds its own event and everything the row
\* holds: the row cannot have moved past it while the lock is held.
SnapFresh ==
  \A e \in Emitter :
    pc[e] \in Saving => row <= snap[e] /\ num[e] <= snap[e] /\ snap[e] <= seq

\* Nothing is numbered, saved or stored that was not added.
Bounded == row <= seq /\ \A e \in Emitter : num[e] <= seq

\* The events _saved_seq covers are in the row or in a dead letter.
SavedKept == saved <= row \/ \E d \in dead \cup lost : saved <= d

\* updated_at tells rows apart: a flow's stamp says which snapshot it belongs to, and
\* the row still has the stamp that the job loaded only if it holds what the job saw.
Stamped ==
  /\ stamp <= MaxEvents => row = stamp
  /\ job.at = "compacting" =>
       /\ compactions < MaxCompactions
       /\ job.stamp <= MaxEvents => job.seen = job.stamp
       /\ job.stamp = stamp => job.seen = row

PubInv ==
  TypeOK /\ LockHeld /\ SnapFresh /\ Bounded /\ Stamped /\ SavedKept /\ Accounted

LEMMA InitInv == Init => PubInv
<1> SUFFICES ASSUME Init PROVE PubInv
  OBVIOUS
<1> USE EmitterAssumption, RetriesAssumption, EventsAssumption, CompactionsAssumption DEF Init
<1>1. TypeOK
  BY DEF TypeOK, Stamp, IdleJob
<1>2. LockHeld /\ SnapFresh /\ Bounded /\ Stamped /\ SavedKept
  BY DEF LockHeld, SnapFresh, Bounded, Stamped, IdleJob, SavedKept
<1>3. Accounted
  BY DEF Accounted
<1> QED BY <1>1, <1>2, <1>3 DEF PubInv

-----------------------------------------------------------------------------
(* Each step preserves the types. *)

LEMMA ForgetTypes ==
  ASSUME TypeOK, NEW e \in Emitter, Forget(e)
  PROVE  /\ pc' \in [Emitter -> PC]
         /\ num' \in [Emitter -> Count]
         /\ snap' \in [Emitter -> Count]
         /\ tries' \in [Emitter -> 0..Retries]
  BY RetriesAssumption, EventsAssumption DEF TypeOK, Forget, Goto

\* What a save may do to the row.
LEMMA StoreTypes ==
  ASSUME TypeOK, NEW e \in Emitter, MayStore(e)
  PROVE  row' \in Count /\ stamp' \in Stamp /\ row' \in {row, snap[e]}
  BY EventsAssumption, CompactionsAssumption DEF TypeOK, MayStore, StoreRow, Stamp

LEMMA EndSaveTypes ==
  ASSUME TypeOK, NEW e \in Emitter, EndSave(e), MayStore(e),
         dead' \subseteq Count, lost' \subseteq Count
  PROVE  TypeOK'
  <1>1. saved' \in Count /\ lock' \in Emitter \cup {NoEmitter}
    BY DEF EndSave, Covered, Unlocked, TypeOK
  <1>2. UNCHANGED <<adapter, seq, quit, job, compactions>> /\ Forget(e)
    BY DEF EndSave
  <1>3. row' \in Count /\ stamp' \in Stamp
    BY StoreTypes
  <1> QED BY <1>1, <1>2, <1>3, ForgetTypes DEF TypeOK

LEMMA TypeStep == ASSUME TypeOK, Stamped, [Next]_vars PROVE TypeOK'
  <1>1. CASE UNCHANGED vars
    BY <1>1 DEF vars, TypeOK
  <1>2. ASSUME NEW e \in Emitter, AddEvent(e) PROVE TypeOK'
    BY <1>2, EventsAssumption DEF AddEvent, Goto, TypeOK
  <1>3. ASSUME NEW e \in Emitter, Published(e) \/ Retry(e) PROVE TypeOK'
    BY <1>3 DEF Published, Retry, Goto, TypeOK
  <1>4. ASSUME NEW e \in Emitter, AcquireLock(e) PROVE TypeOK'
    <2>1. CASE saved < num[e]
      BY <1>4, <2>1 DEF AcquireLock, Goto, TypeOK
    <2>2. CASE ~(saved < num[e])
      <3>1. Forget(e) /\ UNCHANGED <<stored, jobs, adapter, seq, saved, dead, lost, quit, lock>>
        BY <1>4, <2>2 DEF AcquireLock
      <3> QED BY <3>1, ForgetTypes DEF TypeOK
    <2> QED BY <2>1, <2>2
  <1>5. ASSUME NEW e \in Emitter, WriteRow(e) PROVE TypeOK'
    <2>1. EndSave(e) /\ MayStore(e) /\ UNCHANGED <<dead, lost>>
      BY <1>5 DEF WriteRow, MayStore
    <2> QED BY <2>1, EndSaveTypes DEF TypeOK
  <1>6. ASSUME NEW e \in Emitter, WriteFails(e) PROVE TypeOK'
    <2>1. EndSave(e) /\ MayStore(e) /\ lost' \subseteq Count /\ UNCHANGED dead
      BY <1>6 DEF WriteFails, TypeOK
    <2> QED BY <2>1, EndSaveTypes DEF TypeOK
  <1>7. ASSUME NEW e \in Emitter, RetryLater(e) \/ GiveUp(e) PROVE TypeOK'
    <2>1. row' \in Count /\ stamp' \in Stamp
      BY <1>7, StoreTypes DEF RetryLater, GiveUp
    <2>2. pc' \in [Emitter -> PC] /\ tries' \in [Emitter -> 0..Retries]
      BY <1>7, RetriesAssumption DEF RetryLater, GiveUp, MoreTries, Goto, TypeOK
    <2>3. UNCHANGED <<adapter, seq, saved, dead, lost, quit, lock, num, snap, job, compactions>>
      BY <1>7 DEF RetryLater, GiveUp
    <2> QED BY <2>1, <2>2, <2>3 DEF TypeOK
  <1>8. ASSUME NEW e \in Emitter, DeadLetter(e) PROVE TypeOK'
    <2>1. EndSave(e) /\ MayStore(e) /\ dead' \subseteq Count /\ lost' \subseteq Count
      BY <1>8 DEF DeadLetter, MayStore, TypeOK
    <2> QED BY <2>1, EndSaveTypes DEF TypeOK
  <1>9. ASSUME NEW e \in Emitter, Quit(e) PROVE TypeOK'
    <2>1. /\ dead' \subseteq Count /\ quit' \subseteq Count
          /\ UNCHANGED <<adapter, seq, saved, lost, job, compactions>>
          /\ lock' \in Emitter \cup {NoEmitter}
      BY <1>9 DEF Quit, Unlocked, TypeOK
    <2>2. Forget(e) /\ MayStore(e)
      BY <1>9 DEF Quit, MayStore
    <2> QED BY <2>1, <2>2, ForgetTypes, StoreTypes DEF TypeOK
  <1>10. ASSUME JobStep PROVE TypeOK'
    <2>1. UNCHANGED emits
      BY <1>10 DEF JobStep, LoadForCompaction, SkipCompaction, SaveCompacted
    <2>2. job' \in [at : {"idle", "compacting"}, seen : Count, stamp : Stamp]
      <3>1. IdleJob \in [at : {"idle", "compacting"}, seen : Count, stamp : Stamp]
        BY EventsAssumption, CompactionsAssumption DEF IdleJob, Stamp
      <3>2. CASE LoadForCompaction
        BY <3>2 DEF LoadForCompaction, TypeOK
      <3>3. CASE SkipCompaction \/ SaveCompacted
        BY <3>1, <3>3 DEF SkipCompaction, SaveCompacted
      <3> QED BY <1>10, <3>2, <3>3 DEF JobStep
    <2>3. row' \in Count /\ stamp' \in Stamp /\ compactions' \in 0..MaxCompactions
      <3>1. CASE LoadForCompaction \/ SkipCompaction
        BY <3>1 DEF LoadForCompaction, SkipCompaction, TypeOK
      <3>2. CASE SaveCompacted
        BY <3>2, EventsAssumption, CompactionsAssumption
        DEF SaveCompacted, Stamp, Stamped, TypeOK
      <3> QED BY <1>10, <3>1, <3>2 DEF JobStep
    <2> QED BY <2>1, <2>2, <2>3 DEF TypeOK
  <1> QED
    BY <1>1, <1>2, <1>3, <1>4, <1>5, <1>6, <1>7, <1>8, <1>9, <1>10
    DEF Next, EmitStep

-----------------------------------------------------------------------------
(* Each step preserves the lock's discipline. *)

LEMMA LockStep == ASSUME TypeOK, LockHeld, [Next]_vars PROVE LockHeld'
  <1> USE EmitterAssumption DEF TypeOK, LockHeld
  <1>1. CASE UNCHANGED vars
    BY <1>1 DEF vars
  <1>2. ASSUME NEW e \in Emitter, AddEvent(e) \/ Published(e) PROVE LockHeld'
    BY <1>2 DEF AddEvent, Published, Goto
  <1>3. ASSUME NEW e \in Emitter, AcquireLock(e) PROVE LockHeld'
    BY <1>3 DEF AcquireLock, LockFree, Forget, Goto
  <1>4. ASSUME NEW e \in Emitter, EndSave(e), pc[e] \in Saving PROVE LockHeld'
    BY <1>4 DEF EndSave, Unlocked, Forget, Goto
  <1>5. ASSUME NEW e \in Emitter, RetryLater(e) \/ Retry(e) \/ GiveUp(e) PROVE LockHeld'
    BY <1>5 DEF RetryLater, Retry, GiveUp, Goto
  <1>6. ASSUME NEW e \in Emitter, Quit(e) PROVE LockHeld'
    BY <1>6 DEF Quit, Unlocked, Forget, Goto
  <1>7. ASSUME NEW e \in Emitter, WriteRow(e) \/ WriteFails(e) \/ DeadLetter(e)
        PROVE  LockHeld'
    <2>1. EndSave(e) /\ pc[e] \in Saving
      BY <1>7 DEF WriteRow, WriteFails, DeadLetter
    <2> QED BY <2>1, <1>4
  <1>8. ASSUME JobStep PROVE LockHeld'
    BY <1>8 DEF JobStep, LoadForCompaction, SaveCompacted, SkipCompaction
  <1> QED BY <1>1, <1>2, <1>3, <1>5, <1>6, <1>7, <1>8 DEF Next, EmitStep

-----------------------------------------------------------------------------
(* Each step preserves what the numbers say. *)

\* The row, and the emits' locals, are only touched by the emit that steps.
LEMMA EndSaveNumbers ==
  ASSUME TypeOK, LockHeld, SnapFresh, Bounded, NEW e \in Emitter,
         pc[e] \in Saving, EndSave(e), row' \in {row, snap[e]}
  PROVE  SnapFresh' /\ Bounded' /\ row <= row'
  <1>1. row' \in Count /\ row <= row' /\ row' <= seq /\ seq' = seq
    BY EventsAssumption DEF SnapFresh, Bounded, TypeOK, EndSave
  <1>2. \A q \in Emitter : q # e => pc[q] \notin Saving
    BY DEF LockHeld
  <1>3. /\ pc' = [pc EXCEPT ![e] = "idle"]
        /\ num' = [num EXCEPT ![e] = 0]
    BY DEF EndSave, Forget, Goto
  <1>4. SnapFresh'
    BY <1>2, <1>3 DEF SnapFresh, TypeOK
  <1>5. Bounded'
    BY <1>1, <1>3, EventsAssumption DEF Bounded, TypeOK
  <1> QED BY <1>1, <1>4, <1>5

LEMMA NumbersStep ==
  ASSUME TypeOK, LockHeld, SnapFresh, Bounded, Stamped, [Next]_vars
  PROVE  SnapFresh' /\ Bounded' /\ row <= row'
  <1> USE EventsAssumption
  <1>1. CASE UNCHANGED vars
    BY <1>1 DEF vars, SnapFresh, Bounded, TypeOK
  <1>2. ASSUME NEW e \in Emitter, AddEvent(e)
        PROVE  SnapFresh' /\ Bounded' /\ row <= row'
    BY <1>2 DEF AddEvent, Goto, SnapFresh, Bounded, TypeOK
  <1>3. ASSUME NEW e \in Emitter, Published(e) \/ Retry(e)
        PROVE  SnapFresh' /\ Bounded' /\ row <= row'
    BY <1>3 DEF Published, Retry, Goto, SnapFresh, Bounded, TypeOK
  <1>4. ASSUME NEW e \in Emitter, AcquireLock(e)
        PROVE  SnapFresh' /\ Bounded' /\ row <= row'
    BY <1>4 DEF AcquireLock, Forget, Goto, SnapFresh, Bounded, TypeOK
  <1>5. ASSUME NEW e \in Emitter, WriteRow(e) \/ WriteFails(e) \/ DeadLetter(e)
        PROVE  SnapFresh' /\ Bounded' /\ row <= row'
    <2>1. EndSave(e) /\ pc[e] \in Saving /\ row' \in {row, snap[e]}
      BY <1>5 DEF WriteRow, WriteFails, DeadLetter, MayStore, StoreRow
    <2> QED BY <2>1, EndSaveNumbers
  <1>6. ASSUME NEW e \in Emitter, Quit(e)
        PROVE  SnapFresh' /\ Bounded' /\ row <= row'
    <2>1. /\ pc' = [pc EXCEPT ![e] = "idle"]
          /\ num' = [num EXCEPT ![e] = 0]
          /\ snap' = [snap EXCEPT ![e] = 0]
          /\ seq' = seq
      BY <1>6 DEF Quit, Forget, Goto
    <2>2. CASE row' = row
      BY <2>1, <2>2 DEF SnapFresh, Bounded, TypeOK
    <2>3. CASE pc[e] = "writing" /\ row' = snap[e]
      <3>1. \A q \in Emitter : q # e => pc[q] \notin Saving
        BY <2>3 DEF LockHeld
      <3> QED BY <2>1, <2>3, <3>1 DEF SnapFresh, Bounded, TypeOK
    <2> QED BY <1>6, <2>2, <2>3 DEF Quit, StoreRow
  <1>7. ASSUME NEW e \in Emitter, RetryLater(e) \/ GiveUp(e)
        PROVE  SnapFresh' /\ Bounded' /\ row <= row'
    <2>1. /\ UNCHANGED <<num, snap, seq>>
          /\ pc[e] = "writing"
          /\ \A q \in Emitter : q # e => pc'[q] = pc[q] /\ pc[q] \notin Saving
      BY <1>7 DEF RetryLater, GiveUp, Goto, LockHeld, TypeOK
    <2>2. row' \in {row, snap[e]}
      BY <1>7 DEF RetryLater, GiveUp, MayStore, StoreRow
    <2> QED BY <2>1, <2>2 DEF SnapFresh, Bounded, TypeOK
  <1>8. ASSUME JobStep PROVE SnapFresh' /\ Bounded' /\ row <= row'
    <2>1. UNCHANGED <<pc, num, snap, seq>>
      BY <1>8 DEF JobStep, LoadForCompaction, SaveCompacted, SkipCompaction
    <2>2. row' = row
      BY <1>8
      DEF JobStep, LoadForCompaction, SaveCompacted, SkipCompaction, RowUnchanged, Stamped
    <2> QED BY <2>1, <2>2 DEF SnapFresh, Bounded, TypeOK
  <1> QED BY <1>1, <1>2, <1>3, <1>4, <1>5, <1>6, <1>7, <1>8 DEF Next, EmitStep

-----------------------------------------------------------------------------
(* Each step leaves the row with a stamp of its own. *)

LEMMA StampStep ==
  ASSUME TypeOK, Stamped, [Next]_vars
  PROVE  Stamped'
  <1> USE EventsAssumption, CompactionsAssumption
  <1>1. CASE UNCHANGED stored /\ UNCHANGED jobs
    BY <1>1 DEF Stamped
  <1>2. ASSUME NEW e \in Emitter, StoreRow(e), UNCHANGED jobs PROVE Stamped'
    BY <1>2 DEF StoreRow, Stamped, TypeOK
  <1>3. ASSUME NEW e \in Emitter, AddEvent(e) \/ EmitStep(e) \/ Quit(e)
        PROVE  UNCHANGED jobs /\ MayStore(e)
    BY <1>3
    DEF EmitStep, AddEvent, Published, AcquireLock, EndSave, WriteRow, WriteFails,
        RetryLater, Retry, GiveUp, DeadLetter, Quit, MayStore
  <1>4. ASSUME LoadForCompaction PROVE Stamped'
    BY <1>4 DEF LoadForCompaction, Stamped, TypeOK
  <1>5. ASSUME SaveCompacted PROVE Stamped'
    BY <1>5 DEF SaveCompacted, IdleJob, Stamped, TypeOK
  <1>6. ASSUME SkipCompaction PROVE Stamped'
    BY <1>6 DEF SkipCompaction, IdleJob, Stamped
  <1> QED BY <1>1, <1>2, <1>3, <1>4, <1>5, <1>6 DEF Next, JobStep, MayStore, vars

-----------------------------------------------------------------------------
(* Each step keeps account of the events. *)

\* What was stored stays stored, and a finished save stored its snapshot.
Stored(n) == n <= row \/ \E d \in dead \cup lost : n <= d

LEMMA StoredStays ==
  ASSUME TypeOK, TypeOK', row <= row', [Next]_vars, NEW n \in Nat, Stored(n)
  PROVE  Stored(n)'
  <1>1. dead \subseteq dead' /\ lost \subseteq lost'
    BY DEF Next, vars, EmitStep, AddEvent, Published, AcquireLock, WriteRow, WriteFails,
           RetryLater, Retry, GiveUp, DeadLetter, Quit,
           JobStep, LoadForCompaction, SaveCompacted, SkipCompaction
  <1> QED BY <1>1, EventsAssumption DEF Stored, TypeOK

LEMMA SaveStores ==
  ASSUME TypeOK, NEW e \in Emitter, WriteRow(e) \/ WriteFails(e) \/ DeadLetter(e)
  PROVE  \A n \in Nat : n <= snap[e] => Stored(n)'
  BY EventsAssumption DEF WriteRow, StoreRow, WriteFails, DeadLetter, Stored, TypeOK

\* A step that is not the end of an emit leaves every emit under way.
LEMMA StaysUnderWay ==
  ASSUME TypeOK, NEW e \in Emitter, NEW n \in Nat, UnderWay(n), num[e] # n \/ pc[e] = "idle",
         \A q \in Emitter : q # e => pc'[q] = pc[q] /\ num'[q] = num[q]
  PROVE  UnderWay(n)'
  BY DEF UnderWay

AccountedFor(n) == Stored(n) \/ n \in quit \/ UnderWay(n)

LEMMA AccountStep ==
  ASSUME PubInv, TypeOK', row <= row', [Next]_vars
  PROVE  SavedKept' /\ Accounted'
  <1> USE EventsAssumption
  <1>0. /\ TypeOK /\ SnapFresh /\ Bounded
        /\ Stored(saved)
        /\ \A n \in 1..seq : AccountedFor(n)
    BY DEF PubInv, SavedKept, Accounted, Stored, AccountedFor
  <1>1. \A n \in Nat : Stored(n) => Stored(n)'
    BY <1>0, StoredStays
  <1> SUFFICES Stored(saved)' /\ \A n \in 1..seq' : AccountedFor(n)'
    BY DEF SavedKept, Accounted, Stored, AccountedFor
  <1>2. CASE UNCHANGED vars
    BY <1>0, <1>2 DEF vars, AccountedFor, Stored, UnderWay
  <1>3. ASSUME NEW e \in Emitter, AddEvent(e)
        PROVE  Stored(saved)' /\ \A n \in 1..seq' : AccountedFor(n)'
    <2>1. Stored(saved)'
      BY <1>0, <1>1, <1>3 DEF AddEvent, TypeOK
    <2>2. ASSUME NEW n \in Nat, n = seq + 1 PROVE AccountedFor(n)'
      BY <1>0, <1>3, <2>2 DEF AddEvent, Goto, AccountedFor, UnderWay, TypeOK
    <2>3. ASSUME NEW n \in 1..seq PROVE AccountedFor(n)'
      <3>1. pc[e] = "idle" /\ quit' = quit
            /\ \A q \in Emitter : q # e => pc'[q] = pc[q] /\ num'[q] = num[q]
        BY <1>0, <1>3 DEF AddEvent, Goto, TypeOK
      <3>2. UnderWay(n) => UnderWay(n)'
        BY <1>0, <3>1, StaysUnderWay DEF TypeOK
      <3> QED BY <1>0, <1>1, <3>1, <3>2 DEF AccountedFor, TypeOK
    <2>4. seq \in Nat /\ seq' = seq + 1
      BY <1>0, <1>3 DEF AddEvent, TypeOK
    <2> QED BY <2>1, <2>2, <2>3, <2>4
  <1>4. ASSUME NEW e \in Emitter, Published(e) \/ RetryLater(e) \/ Retry(e) \/ GiveUp(e)
        PROVE  Stored(saved)' /\ \A n \in 1..seq' : AccountedFor(n)'
    <2>1. UNCHANGED <<seq, saved, quit, num>>
          /\ \A q \in Emitter : pc[q] # "idle" => pc'[q] # "idle"
      BY <1>0, <1>4 DEF Published, RetryLater, Retry, GiveUp, Goto, TypeOK
    <2> QED BY <1>0, <1>1, <2>1 DEF AccountedFor, UnderWay, TypeOK
  <1>5. ASSUME NEW e \in Emitter, AcquireLock(e)
        PROVE  Stored(saved)' /\ \A n \in 1..seq' : AccountedFor(n)'
    <2>1. UNCHANGED <<seq, saved, quit, row, dead, lost>>
      BY <1>5 DEF AcquireLock
    <2>2. CASE saved < num[e]
      <3>1. num' = num /\ \A q \in Emitter : pc[q] # "idle" => pc'[q] # "idle"
        BY <1>0, <1>5, <2>2 DEF AcquireLock, Goto, TypeOK
      <3> QED BY <1>0, <1>1, <2>1, <3>1 DEF AccountedFor, UnderWay, TypeOK
    <2>3. CASE ~(saved < num[e])
      <3>1. \A q \in Emitter : q # e => pc'[q] = pc[q] /\ num'[q] = num[q]
        BY <1>0, <1>5, <2>3 DEF AcquireLock, Forget, Goto, TypeOK
      <3>2. Stored(num[e])
        BY <1>0, <2>3 DEF Stored, TypeOK
      <3>3. ASSUME NEW n \in 1..seq PROVE AccountedFor(n)'
        <4>1. CASE n = num[e]
          BY <1>0, <1>1, <3>2, <4>1 DEF AccountedFor, TypeOK
        <4>2. CASE n # num[e]
          <5>1. UnderWay(n) => UnderWay(n)'
            BY <1>0, <3>1, <4>2, StaysUnderWay DEF TypeOK
          <5> QED BY <1>0, <1>1, <2>1, <5>1 DEF AccountedFor, TypeOK
        <4> QED BY <4>1, <4>2
      <3> QED BY <1>0, <1>1, <2>1, <3>3 DEF TypeOK
    <2> QED BY <2>2, <2>3
  <1>6. ASSUME NEW e \in Emitter, WriteRow(e) \/ WriteFails(e) \/ DeadLetter(e)
        PROVE  Stored(saved)' /\ \A n \in 1..seq' : AccountedFor(n)'
    <2>1. EndSave(e) /\ pc[e] \in Saving
      BY <1>6 DEF WriteRow, WriteFails, DeadLetter
    <2>2. /\ saved' = snap[e] /\ UNCHANGED <<seq, quit>>
          /\ \A q \in Emitter : q # e => pc'[q] = pc[q] /\ num'[q] = num[q]
      BY <1>0, <2>1 DEF EndSave, Covered, Forget, Goto, TypeOK
    <2>3. \A n \in Nat : n <= snap[e] => Stored(n)'
      BY <1>0, <1>6, SaveStores
    <2>4. Stored(saved)'
      <3>1. PICK m \in Nat : m = snap[e]
        BY <1>0 DEF TypeOK
      <3>2. Stored(m)' /\ saved' = m
        BY <2>2, <2>3, <3>1
      <3> QED BY <3>2 DEF Stored
    <2>5. ASSUME NEW n \in 1..seq PROVE AccountedFor(n)'
      <3>1. CASE n = num[e]
        <4>1. n <= snap[e]
          BY <1>0, <2>1, <3>1 DEF SnapFresh
        <4> QED BY <2>3, <4>1 DEF AccountedFor
      <3>2. CASE n # num[e]
        <4>1. UnderWay(n) => UnderWay(n)'
          BY <1>0, <2>2, <3>2, StaysUnderWay DEF TypeOK
        <4> QED BY <1>0, <1>1, <2>2, <4>1 DEF AccountedFor, TypeOK
      <3> QED BY <3>1, <3>2
    <2> QED BY <2>2, <2>4, <2>5
  <1>7. ASSUME NEW e \in Emitter, Quit(e)
        PROVE  Stored(saved)' /\ \A n \in 1..seq' : AccountedFor(n)'
    <2>1. /\ UNCHANGED <<seq, saved>> /\ quit' = quit \cup {num[e]}
          /\ \A q \in Emitter : q # e => pc'[q] = pc[q] /\ num'[q] = num[q]
      BY <1>0, <1>7 DEF Quit, Forget, Goto, TypeOK
    <2>2. ASSUME NEW n \in 1..seq, n # num[e] PROVE UnderWay(n) => UnderWay(n)'
      BY <1>0, <2>1, <2>2, StaysUnderWay DEF TypeOK
    <2> QED BY <1>0, <1>1, <2>1, <2>2 DEF AccountedFor, TypeOK
  <1>8. ASSUME JobStep PROVE Stored(saved)' /\ \A n \in 1..seq' : AccountedFor(n)'
    <2>1. UNCHANGED emits
      BY <1>8 DEF JobStep, LoadForCompaction, SaveCompacted, SkipCompaction
    <2> QED BY <1>0, <1>1, <2>1 DEF AccountedFor, UnderWay, TypeOK
  <1> QED BY <1>2, <1>3, <1>4, <1>5, <1>6, <1>7, <1>8 DEF Next, EmitStep

-----------------------------------------------------------------------------

LEMMA InvStep == ASSUME PubInv, [Next]_vars PROVE PubInv' /\ row' >= row
  <1>1. TypeOK'
    BY TypeStep DEF PubInv
  <1>2. LockHeld'
    BY LockStep DEF PubInv
  <1>3. SnapFresh' /\ Bounded' /\ Stamped' /\ row <= row'
    BY NumbersStep, StampStep DEF PubInv
  <1>4. SavedKept' /\ Accounted'
    BY <1>1, <1>3, AccountStep
  <1>5. row' >= row
    BY <1>1, <1>3, EventsAssumption DEF TypeOK, PubInv
  <1> QED BY <1>1, <1>2, <1>3, <1>4, <1>5 DEF PubInv

\* The invariant holds in every state of the publisher.
THEOREM PublisherInvariant == Spec => []PubInv
  <1>1. PubInv /\ UNCHANGED vars => PubInv'
    BY InvStep
  <1>2. PubInv /\ [Next]_vars => PubInv'
    BY InvStep
  <1> QED BY InitInv, <1>2, PTL DEF Spec

\* Type correctness, for any number of emits, events and retries.
THEOREM PublisherTypes == Spec => []TypeOK
  <1>1. PubInv => TypeOK
    BY DEF PubInv
  <1> QED BY <1>1, PublisherInvariant, PTL

\* No event is dropped by an emit that skips its save, however the saves before
\* it went (emit's _saved_seq check).
THEOREM EventsAccounted == Spec => []Accounted
  <1>1. PubInv => Accounted
    BY DEF PubInv
  <1> QED BY <1>1, PublisherInvariant, PTL

\* A retried save never takes the row back to an older snapshot (emit's lock).
THEOREM OlderNeverOverwrites == Spec => RowGrows
  <1>1. PubInv /\ [Next]_vars => [row' >= row]_vars
    BY InvStep
  <1> QED BY <1>1, PublisherInvariant, PTL DEF Spec, RowGrows
=============================================================================
