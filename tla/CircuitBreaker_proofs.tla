----------------------- MODULE CircuitBreaker_proofs -----------------------
(***************************************************************************)
(* Theorems about CircuitBreaker, for every number of entities and callers *)
(* and every threshold, cooldown and jitter.                               *)
(***************************************************************************)
EXTENDS CircuitBreaker, TLAPS

\* What an entry says of itself: the state and the failure count agree.
Agrees(b) == b.st = "CLOSED" <=> b.failures < FailureThreshold

GoodEntry == {b \in Entry : Agrees(b)}

LEMMA WaitType == LongestWait \in Nat
  BY CooldownAssumption DEF LongestWait

LEMMA Bounds ==
  /\ 0 \in 0..LongestWait
  /\ 0 \in 0..SuccessThreshold
  /\ "OPEN" \in State /\ "HALF_OPEN" \in State
  BY WaitType, ThresholdAssumption DEF State

LEMMA FreshGood == Fresh \in GoodEntry
  BY ThresholdAssumption, CooldownAssumption
  DEF Fresh, GoodEntry, Entry, State, Agrees, LongestWait

LEMMA ProbingGood ==
  ASSUME NEW b \in GoodEntry, b.st = "OPEN"
  PROVE  Probing(b) \in GoodEntry
  <1>1. b \in Entry /\ ~(b.failures < FailureThreshold)
    BY DEF GoodEntry, Agrees
  <1>2. Probing(b) \in Entry
    BY <1>1, Bounds DEF Probing, Entry
  <1>3. Probing(b).st = "HALF_OPEN" /\ Probing(b).failures = b.failures
    BY <1>1 DEF Probing, Entry
  <1> QED BY <1>1, <1>2, <1>3 DEF GoodEntry, Agrees

LEMMA SucceededGood ==
  ASSUME NEW b \in GoodEntry
  PROVE  Succeeded(b) \in GoodEntry
  <1>1. CASE b.st = "HALF_OPEN" /\ b.successes + 1 >= SuccessThreshold
    <2>1. Succeeded(b) = Fresh
      BY <1>1 DEF Succeeded, Fresh
    <2> QED BY <2>1, FreshGood
  <1>2. CASE b.st = "HALF_OPEN" /\ ~(b.successes + 1 >= SuccessThreshold)
    <2>1. Succeeded(b) = [b EXCEPT !.successes = @ + 1]
      BY <1>2 DEF Succeeded
    <2> QED BY <2>1, <1>2, ThresholdAssumption DEF GoodEntry, Entry, Agrees
  <1>3. CASE b.st = "CLOSED"
    <2>1. Succeeded(b) = [b EXCEPT !.failures = 0]
      BY <1>3 DEF Succeeded
    <2> QED BY <2>1, <1>3, ThresholdAssumption DEF GoodEntry, Entry, Agrees
  <1>4. CASE b.st = "OPEN"
    BY <1>4 DEF Succeeded
  <1> QED BY <1>1, <1>2, <1>3, <1>4 DEF GoodEntry, Entry, State

LEMMA FailedGood ==
  ASSUME NEW b \in GoodEntry
  PROVE  Failed(b) \in GoodEntry
  <1> DEFINE n == Next1(b.failures, FailureThreshold)
             counted == [b EXCEPT !.failures = n]
             opens == \/ b.st = "HALF_OPEN"
                      \/ b.st = "CLOSED" /\ counted.failures >= FailureThreshold
  <1>1. /\ b \in Entry /\ Agrees(b) /\ b.failures \in 0..FailureThreshold
        /\ b.st \in State
    BY DEF GoodEntry, Entry
  <1>2. /\ n \in 0..FailureThreshold
        /\ b.failures >= FailureThreshold => n >= FailureThreshold
    BY <1>1, ThresholdAssumption DEF Next1
  <1>3. counted \in Entry /\ counted.failures = n /\ counted.st = b.st
    BY <1>1, <1>2 DEF Entry
  <1>4. Failed(b) = IF opens THEN [counted EXCEPT !.st = "OPEN", !.age = 0] ELSE counted
    BY DEF Failed
  <1>5. CASE opens
    <2>1. n >= FailureThreshold
      BY <1>1, <1>2, <1>3, <1>5, ThresholdAssumption DEF Agrees
    <2> HIDE DEF n, counted
    <2> DEFINE opened == [counted EXCEPT !.st = "OPEN", !.age = 0]
    <2>2. opened \in Entry
      BY <1>3, Bounds DEF Entry
    <2>3. opened.st = "OPEN" /\ opened.failures = n
      BY <1>3 DEF Entry
    <2>4. Agrees(opened)
      BY <2>1, <2>3, <1>2, ThresholdAssumption DEF Agrees
    <2> HIDE DEF opened
    <2>5. opened \in GoodEntry
      BY <2>2, <2>4 DEF GoodEntry
    <2> QED BY <2>5, <1>4, <1>5 DEF opened
  <1>6. CASE ~opens
    <2>1. Agrees(counted)
      BY <1>1, <1>2, <1>3, <1>6, ThresholdAssumption DEF Agrees, State
    <2> QED BY <2>1, <1>3, <1>4, <1>6 DEF GoodEntry
  <1> QED BY <1>5, <1>6

-----------------------------------------------------------------------------
(* Types, and the agreement of state and count *)

\* A stopped process has no callers.
DownIdle == ~up => \A c \in Caller : pc[c] = "idle"

LEMMA CooldownDrawn == Cooldown \in Draw
  BY CooldownAssumption DEF Draw

\* The entries of the process and of the file agree with themselves.
BreakerInv ==
  /\ TypeOK
  /\ DownIdle
  /\ entry \in [Entity -> GoodEntry]
  /\ file \in [Entity -> GoodEntry]

LEMMA GoodIsEntry == GoodEntry \subseteq Entry
  BY DEF GoodEntry

LEMMA InitInv == Init => BreakerInv
  <1> SUFFICES ASSUME Init PROVE BreakerInv
    OBVIOUS
  <1>1. on \in [Caller -> Entity]
    BY DEF Init
  <1> QED BY CooldownDrawn, <1>1, FreshGood, GoodIsEntry, LapseAssumption DEF Init, BreakerInv, DownIdle, TypeOK

LEMMA DecideInv ==
  ASSUME BreakerInv, NEW c \in Caller, NEW e \in Entity, NEW d \in Draw, Decide(c, e, d)
  PROVE  /\ entry' \in [Entity -> GoodEntry]
         /\ pc' \in [Caller -> {"idle", "staggering", "calling"}]
  <1>1. CASE Cooled(e, d)
    <2>1. Probing(entry[e]) \in GoodEntry
      BY <1>1, ProbingGood DEF BreakerInv, Cooled
    <2> QED BY <2>1, <1>1 DEF Decide, BreakerInv, DownIdle, TypeOK
  <1>2. CASE ~Cooled(e, d)
    BY <1>2 DEF Decide, BreakerInv, DownIdle, TypeOK
  <1> QED BY <1>1, <1>2

LEMMA StepInv == BreakerInv /\ [Next]_vars => BreakerInv'
  <1> SUFFICES ASSUME BreakerInv, [Next]_vars
               PROVE  BreakerInv'
    OBVIOUS
  <1> USE GoodIsEntry
  <1>1. CASE UNCHANGED vars
    BY <1>1 DEF vars, BreakerInv, DownIdle, TypeOK
  <1>2. ASSUME NEW c \in Caller, NEW e \in Entity, Evaluate(c, e)
        PROVE  BreakerInv'
    <2>1. PICK d \in Draw : /\ drawn' \in {drawn, [drawn EXCEPT ![c] = d]}
                            /\ on' = [on EXCEPT ![c] = e]
                            /\ \/ pc' = [pc EXCEPT ![c] = "staggering"] /\ UNCHANGED entry
                               \/ Decide(c, e, d)
      BY <1>2 DEF Evaluate
    <2>2. /\ entry' \in [Entity -> GoodEntry]
          /\ pc' \in [Caller -> {"idle", "staggering", "calling"}]
      BY <2>1, DecideInv DEF BreakerInv, DownIdle, TypeOK
    <2>3. drawn' \in [Caller -> Draw]
      BY <2>1 DEF BreakerInv, TypeOK
    <2>4. on' \in [Caller -> Entity]
      BY <2>1 DEF BreakerInv, TypeOK
    <2> QED BY <2>2, <2>3, <2>4, <1>2 DEF Evaluate, BreakerInv, DownIdle, TypeOK
  <1>3. ASSUME NEW c \in Caller, Wake(c)
        PROVE  BreakerInv'
    <2>1. on[c] \in Entity /\ drawn[c] \in Draw
      BY DEF BreakerInv, DownIdle, TypeOK
    <2>2. /\ entry' \in [Entity -> GoodEntry]
          /\ pc' \in [Caller -> {"idle", "staggering", "calling"}]
      BY <2>1, <1>3, DecideInv DEF Wake
    <2>3. up /\ up' = up
      BY <1>3 DEF Wake, BreakerInv, DownIdle, TypeOK
    <2>4. TypeOK'
      BY <2>2, <1>3, CooldownDrawn DEF Wake, BreakerInv, TypeOK
    <2>5. DownIdle'
      BY <2>3 DEF DownIdle
    <2> QED BY <2>2, <2>4, <2>5, <1>3 DEF Wake, BreakerInv
  <1>4. ASSUME NEW c \in Caller, NEW b \in GoodEntry, Report(c, b)
        PROVE  BreakerInv'
    BY <1>4 DEF Report, BreakerInv, DownIdle, TypeOK
  <1>5. ASSUME NEW c \in Caller,
               RecordSuccess(c) \/ RecordFailure(c) \/ RecordNothing(c)
        PROVE  BreakerInv'
    <2>1. entry[on[c]] \in GoodEntry
      BY DEF BreakerInv, DownIdle, TypeOK
    <2> QED BY <2>1, <1>4, <1>5, SucceededGood, FailedGood
            DEF RecordSuccess, RecordFailure, RecordNothing
  <1>6. ASSUME NEW e \in Entity, Reset(e)
        PROVE  BreakerInv'
    BY <1>6, FreshGood, LapseAssumption DEF Reset, BreakerInv, DownIdle, TypeOK
  <1>7. CASE Shutdown \/ Crash
    <2>1. entry' \in [Entity -> GoodEntry]
      BY <1>7, FreshGood DEF Shutdown, Crash, Stopped
    <2>2. file' \in [Entity -> GoodEntry]
      BY <1>7 DEF Shutdown, Crash, BreakerInv
    <2>3. lapses' \in 0..MaxLapses
      BY <1>7, LapseAssumption DEF Shutdown, Crash, BreakerInv, DownIdle, TypeOK
    <2>4. /\ pc' \in [Caller -> {"idle", "staggering", "calling"}]
          /\ on' \in [Caller -> Entity] /\ drawn' \in [Caller -> Draw] /\ up' \in BOOLEAN
      BY <1>7, CooldownDrawn DEF Shutdown, Crash, Stopped, BreakerInv, DownIdle, TypeOK
    <2>5. TypeOK'
      BY <2>1, <2>2, <2>3, <2>4 DEF TypeOK
    <2>6. DownIdle'
      BY <1>7 DEF Shutdown, Crash, Stopped, DownIdle
    <2> QED BY <2>1, <2>2, <2>5, <2>6 DEF BreakerInv
  <1>8. CASE Startup
    BY <1>8 DEF Startup, Restored, BreakerInv, DownIdle, TypeOK
  <1>9. CASE Tick
    <2>1. ASSUME NEW b \in GoodEntry
          PROVE  [b EXCEPT !.age = Next1(@, LongestWait)] \in GoodEntry
      BY <2>1, CooldownAssumption DEF GoodEntry, Entry, Agrees, Next1, LongestWait
    <2>2. \A e \in Entity : entry'[e] \in GoodEntry
      BY <2>1, <1>9 DEF Tick, BreakerInv
    <2>3. entry' \in [Entity -> GoodEntry]
      BY <2>2, <1>9 DEF Tick
    <2> QED BY <2>3, <1>9 DEF Tick, BreakerInv, DownIdle, TypeOK
  <1>10. CASE Persist
    BY <1>10 DEF Persist, BreakerInv, DownIdle, TypeOK
  <1> QED
    BY <1>1, <1>2, <1>3, <1>5, <1>6, <1>7, <1>8, <1>9, <1>10 DEF Next, CallerStep

\* The types, as a theorem.
THEOREM BreakerTypes == Spec => []TypeOK
  <1>1. BreakerInv => TypeOK
    BY DEF BreakerInv
  <1> QED BY <1>1, InitInv, StepInv, PTL DEF Spec

\* Late outcomes, probes, resets and restarts never separate the state from the
\* failure count: a breaker at its threshold is not CLOSED, one below it is.
THEOREM CountsAgree == Spec => []CountAgrees
  <1>1. BreakerInv => CountAgrees
    BY DEF BreakerInv, CountAgrees, GoodEntry, Agrees
  <1> QED BY <1>1, InitInv, StepInv, PTL DEF Spec

-----------------------------------------------------------------------------
(* The gate *)

\* No caller is let through an entry that is OPEN when it decides, in particular
\* none that slept on an earlier look at it.
THEOREM OpenIsRefused == Spec => OpenRefuses
  <1> DEFINE Refuses == \A c \in Caller :
               pc[c] # "calling" /\ pc'[c] = "calling" => entry'[on'[c]].st # "OPEN"
  <1>1. ASSUME TypeOK, NEW c \in Caller, NEW e \in Entity, NEW d, Decide(c, e, d),
               on'[c] = e
        PROVE  Refuses
    <2>1. Probing(entry[e]).st = "HALF_OPEN"
      BY <1>1 DEF TypeOK, Entry, Probing
    <2>2. Cooled(e, d) => entry'[e].st = "HALF_OPEN"
      BY <1>1, <2>1 DEF Decide, TypeOK
    <2>3. ~Cooled(e, d) => entry' = entry
      BY <1>1 DEF Decide
    <2>4. \A x \in Caller : x # c => pc'[x] = pc[x]
      BY <1>1 DEF Decide, TypeOK
    <2>5. pc'[c] = "calling" => ~(entry[e].st = "OPEN" /\ ~Cooled(e, d))
      BY <1>1 DEF Decide, TypeOK
    <2> QED BY <1>1, <2>2, <2>3, <2>4, <2>5
  <1>2. ASSUME TypeOK, [Next]_vars
        PROVE  Refuses
    <2>1. CASE pc' = [c \in Caller |-> "idle"] \/ UNCHANGED pc
      BY <2>1
    <2>2. ASSUME NEW c \in Caller, NEW e \in Entity, Evaluate(c, e)
          PROVE  Refuses
      <3>1. PICK d \in Draw : /\ on' = [on EXCEPT ![c] = e]
                              /\ \/ pc' = [pc EXCEPT ![c] = "staggering"]
                                 \/ Decide(c, e, d)
        BY <2>2 DEF Evaluate
      <3>2. on'[c] = e
        BY <3>1, <1>2 DEF TypeOK
      <3>3. CASE pc' = [pc EXCEPT ![c] = "staggering"]
        BY <3>3, <1>2 DEF TypeOK
      <3> QED BY <3>1, <3>2, <3>3, <1>1, <1>2
    <2>3. ASSUME NEW c \in Caller, Wake(c)
          PROVE  Refuses
      BY <2>3, <1>1, <1>2 DEF Wake, TypeOK
    <2>4. ASSUME NEW c \in Caller, NEW b, Report(c, b)
          PROVE  Refuses
      BY <2>4, <1>2 DEF Report, TypeOK
    <2> QED
      BY <1>2, <2>1, <2>2, <2>3, <2>4
      DEF Next, CallerStep, vars, RecordSuccess, RecordFailure, RecordNothing,
          Reset, Persist, Shutdown, Crash, Stopped, Startup, Tick
  <1>3. TypeOK /\ [Next]_vars => [Refuses]_vars
    BY <1>2
  <1> QED BY <1>3, BreakerTypes, PTL DEF Spec, OpenRefuses

-----------------------------------------------------------------------------
(* The refinement *)

\* The two halves of the mapping, named.
ShownState == [e \in Entity |-> Memory(e).st]
ShownWait(b) ==
  IF b.st # "OPEN" THEN 0 ELSE IF b.age < MinWait THEN b.age ELSE MinWait
ShownWaited == [e \in Entity |-> ShownWait(Memory(e))]

LEMMA MinWaitType == MinWait \in Nat /\ MinWait <= LongestWait
  BY CooldownAssumption DEF MinWait, LongestWait

LEMMA ShownWaitType ==
  ASSUME NEW b \in Entry
  PROVE  ShownWait(b) \in 0..MinWait
  <1>1. b.age \in Nat
    BY WaitType DEF Entry
  <1> QED BY <1>1, MinWaitType DEF ShownWait

\* One entry changes in a running process: the gate makes one turn, or none.
LEMMA OneTurn ==
  ASSUME TypeOK, up, up' = up, UNCHANGED lapses, NEW e \in Entity, NEW b,
         entry' = [entry EXCEPT ![e] = b],
         \/ b.st = entry[e].st /\ ShownWait(b) = ShownWait(entry[e])
         \/ /\ ShownWait(b) = 0
            /\ \/ entry[e].st = "CLOSED" /\ b.st = "OPEN"
               \/ entry[e].st = "OPEN" /\ b.st = "HALF_OPEN" /\ ShownWait(entry[e]) = MinWait
               \/ entry[e].st = "HALF_OPEN" /\ b.st = "OPEN"
               \/ entry[e].st = "HALF_OPEN" /\ b.st = "CLOSED"
  PROVE  [Gate!GateNext]_(Gate!gateVars)
  <1> DEFINE gate == ShownState
             waited == ShownWaited
  <1>1. /\ gate = [x \in Entity |-> entry[x].st]
        /\ gate' = [x \in Entity |-> IF x = e THEN b.st ELSE entry[x].st]
        /\ waited = [x \in Entity |-> ShownWait(entry[x])]
        /\ waited' = [x \in Entity |-> IF x = e THEN ShownWait(b) ELSE ShownWait(entry[x])]
    BY DEF ShownState, ShownWaited, Memory, TypeOK
  <1>2. CASE b.st = entry[e].st /\ ShownWait(b) = ShownWait(entry[e])
    <2>1. gate' = gate /\ waited' = waited
      BY <1>1, <1>2
    <2> QED BY <2>1 DEF Gate!gateVars, ShownState, ShownWaited, ShownWait
  <1>3. CASE ~(b.st = entry[e].st /\ ShownWait(b) = ShownWait(entry[e]))
    <2>1. gate' = [gate EXCEPT ![e] = b.st] /\ waited' = [waited EXCEPT ![e] = 0]
      BY <1>1, <1>3
    <2>2. gate[e] = entry[e].st /\ waited[e] = ShownWait(entry[e])
      BY <1>1
    <2>3. Gate!Trip(e) \/ Gate!Probe(e) \/ Gate!Relapse(e) \/ Gate!Recover(e)
      BY <2>1, <2>2, <1>3
      DEF Gate!Trip, Gate!Probe, Gate!Relapse, Gate!Recover, Gate!Turn,
          ShownState, ShownWaited, ShownWait
    <2> QED BY <2>3 DEF Gate!GateNext
  <1> QED BY <1>2, <1>3

LEMMA GateInitially == Init => Gate!GateInit
  <1> SUFFICES ASSUME Init PROVE Gate!GateInit
    OBVIOUS
  <1>1. \A e \in Entity : Memory(e) = Fresh
    BY DEF Init, Memory
  <1> QED BY <1>1 DEF Init, Gate!GateInit, Fresh

\* What the outcomes do to the gate's view of an entry.
LEMMA ProbingTurns ==
  ASSUME NEW b \in Entry, NEW d \in Draw, b.st = "OPEN", b.age >= d
  PROVE  /\ Probing(b).st = "HALF_OPEN" /\ ShownWait(Probing(b)) = 0
         /\ ShownWait(b) = MinWait
  <1>1. Probing(b).st = "HALF_OPEN"
    BY DEF Probing, Entry
  <1>2. d >= MinWait /\ d \in Nat /\ b.age \in Nat
    BY CooldownAssumption, WaitType DEF Draw, MinWait, Entry
  <1> QED BY <1>1, <1>2, MinWaitType DEF ShownWait

LEMMA SucceededTurns ==
  ASSUME NEW b \in Entry
  PROVE  \/ Succeeded(b).st = b.st /\ ShownWait(Succeeded(b)) = ShownWait(b)
         \/ /\ ShownWait(Succeeded(b)) = 0
            /\ b.st = "HALF_OPEN" /\ Succeeded(b).st = "CLOSED"
  <1>1. b.st \in State
    BY DEF Entry
  <1>2. CASE b.st = "HALF_OPEN" /\ b.successes + 1 >= SuccessThreshold
    <2>1. Succeeded(b) = Fresh
      BY <1>2 DEF Succeeded
    <2> QED BY <2>1, <1>2 DEF Fresh, ShownWait
  <1>3. CASE b.st = "HALF_OPEN" /\ ~(b.successes + 1 >= SuccessThreshold)
    <2>1. Succeeded(b) = [b EXCEPT !.successes = @ + 1]
      BY <1>3 DEF Succeeded
    <2>2. Succeeded(b).st = b.st
      BY <2>1 DEF Entry
    <2> QED BY <2>2, <1>3 DEF ShownWait
  <1>4. CASE b.st = "CLOSED"
    <2>1. Succeeded(b) = [b EXCEPT !.failures = 0]
      BY <1>4 DEF Succeeded
    <2>2. Succeeded(b).st = b.st
      BY <2>1 DEF Entry
    <2> QED BY <2>2, <1>4 DEF ShownWait
  <1>5. CASE b.st = "OPEN"
    BY <1>5 DEF Succeeded
  <1> QED BY <1>1, <1>2, <1>3, <1>4, <1>5 DEF State

LEMMA FailedTurns ==
  ASSUME NEW b \in Entry
  PROVE  \/ Failed(b).st = b.st /\ ShownWait(Failed(b)) = ShownWait(b)
         \/ /\ ShownWait(Failed(b)) = 0
            /\ b.st \in {"CLOSED", "HALF_OPEN"} /\ Failed(b).st = "OPEN"
  <1> DEFINE counted == [b EXCEPT !.failures = Next1(@, FailureThreshold)]
             opens == \/ b.st = "HALF_OPEN"
                      \/ b.st = "CLOSED" /\ counted.failures >= FailureThreshold
  <1>1. counted.st = b.st /\ counted.age = b.age
    BY DEF Entry
  <1>2. CASE opens
    <2>1. Failed(b) = [counted EXCEPT !.st = "OPEN", !.age = 0]
      BY <1>2 DEF Failed
    <2>2. Failed(b).st = "OPEN" /\ Failed(b).age = 0
      BY <2>1 DEF Entry
    <2> QED BY <2>2, <1>2, MinWaitType DEF ShownWait
  <1>3. CASE ~opens
    <2>1. Failed(b) = counted
      BY <1>3 DEF Failed
    <2> QED BY <2>1, <1>1 DEF ShownWait
  <1> QED BY <1>2, <1>3

LEMMA DecideTurns ==
  ASSUME TypeOK, up, up' = up, UNCHANGED lapses,
         NEW c \in Caller, NEW e \in Entity, NEW d \in Draw, Decide(c, e, d)
  PROVE  [Gate!GateNext]_(Gate!gateVars)
  <1>1. entry[e] \in Entry /\ entry = [entry EXCEPT ![e] = entry[e]]
    BY DEF TypeOK
  <1>2. CASE Cooled(e, d)
    <2>1. entry' = [entry EXCEPT ![e] = Probing(entry[e])]
      BY <1>2 DEF Decide
    <2>2. /\ entry[e].st = "OPEN" /\ ShownWait(entry[e]) = MinWait
          /\ Probing(entry[e]).st = "HALF_OPEN" /\ ShownWait(Probing(entry[e])) = 0
      BY <1>1, <1>2, ProbingTurns DEF Cooled
    <2> QED BY <2>1, <2>2, OneTurn
  <1>3. CASE ~Cooled(e, d)
    <2>1. entry' = [entry EXCEPT ![e] = entry[e]]
      BY <1>1, <1>3 DEF Decide
    <2> QED BY <2>1, OneTurn
  <1> QED BY <1>2, <1>3

\* A reset and a crash are lapses.
LEMMA LapseTurns ==
  ASSUME TypeOK, TypeOK', lapses' = lapses + 1
  PROVE  Gate!Lapse
  <1>1. \A e \in Entity : Memory(e)' \in Entry
    BY DEF Memory, TypeOK
  <1>2. \A e \in Entity : Memory(e)'.st \in Gate!GateState
    BY <1>1 DEF Entry, State, Gate!GateState
  <1>3. ShownWaited' \in [Entity -> 0..MinWait]
    BY <1>1, ShownWaitType DEF ShownWaited
  <1>4. ShownState' \in [Entity -> Gate!GateState]
    BY <1>2 DEF ShownState
  <1> QED BY <1>3, <1>4 DEF Gate!Lapse, ShownState, ShownWaited, ShownWait

\* Time: every open entry waits one tick longer, up to MinWait.
LEMMA TickTurns ==
  ASSUME TypeOK, Tick
  PROVE  Gate!Elapse
  <1>1. \A e \in Entity : Memory(e) = entry[e] /\ Memory(e)' = entry'[e]
    BY DEF Tick, Memory
  <1>2. ASSUME NEW e \in Entity
        PROVE  /\ entry'[e].st = entry[e].st
               /\ ShownWait(entry'[e]) =
                    IF entry[e].st = "OPEN" /\ ShownWait(entry[e]) < MinWait
                      THEN ShownWait(entry[e]) + 1 ELSE ShownWait(entry[e])
    <2>1. entry[e] \in Entry /\ entry[e].age \in 0..LongestWait
      BY DEF TypeOK, Entry
    <2>2. CASE entry[e].st = "OPEN"
      <3>1. entry'[e] = [entry[e] EXCEPT !.age = Next1(@, LongestWait)]
        BY <2>2 DEF Tick
      <3>2. entry'[e].st = "OPEN" /\ entry'[e].age = Next1(entry[e].age, LongestWait)
        BY <3>1, <2>1, <2>2 DEF Entry
      <3> QED BY <3>2, <2>1, <2>2, MinWaitType, WaitType DEF ShownWait, Next1
    <2>3. CASE entry[e].st # "OPEN"
      <3>1. entry'[e] = entry[e]
        BY <2>3 DEF Tick
      <3> QED BY <3>1, <2>3
    <2> QED BY <2>2, <2>3
  <1>3. ShownState' = ShownState /\ UNCHANGED lapses
    BY <1>1, <1>2 DEF ShownState, Tick
  <1>4. ShownWaited' = [e \in Entity |->
                          IF ShownState[e] = "OPEN" /\ ShownWaited[e] < MinWait
                            THEN ShownWaited[e] + 1 ELSE ShownWaited[e]]
    BY <1>1, <1>2 DEF ShownState, ShownWaited
  <1> QED BY <1>3, <1>4 DEF Gate!Elapse, ShownState, ShownWaited, ShownWait

\* The breaker implements its gate: whatever the callers report, and when, an
\* entry that opened refuses for MinWait, is left only through a probe and closed
\* only by a probe's success - through graceful restarts too.
THEOREM GateImplemented == Spec => ImplementsGate
  <1>1. ASSUME TypeOK, TypeOK', DownIdle, [Next]_vars
        PROVE  [Gate!GateNext]_(Gate!gateVars)
    <2>1. ASSUME NEW c \in Caller, NEW e \in Entity, Evaluate(c, e)
          PROVE  [Gate!GateNext]_(Gate!gateVars)
      <3>1. PICK d \in Draw : UNCHANGED entry \/ Decide(c, e, d)
        BY <2>1 DEF Evaluate
      <3>2. entry = [entry EXCEPT ![e] = entry[e]]
        BY <1>1 DEF TypeOK
      <3>3. CASE UNCHANGED entry
        BY <3>2, <3>3, <1>1, <2>1, OneTurn DEF Evaluate
      <3> QED BY <3>1, <3>3, <1>1, <2>1, DecideTurns DEF Evaluate
    <2>2. ASSUME NEW c \in Caller, Wake(c)
          PROVE  [Gate!GateNext]_(Gate!gateVars)
      <3>1. up
        BY <1>1, <2>2 DEF Wake, DownIdle
      <3> QED BY <3>1, <1>1, <2>2, DecideTurns DEF Wake, TypeOK
    <2>3. ASSUME NEW c \in Caller, NEW b, Report(c, b),
                 \/ b.st = entry[on[c]].st /\ ShownWait(b) = ShownWait(entry[on[c]])
                 \/ /\ ShownWait(b) = 0
                    /\ \/ entry[on[c]].st = "HALF_OPEN" /\ b.st = "CLOSED"
                       \/ entry[on[c]].st \in {"CLOSED", "HALF_OPEN"} /\ b.st = "OPEN"
          PROVE  [Gate!GateNext]_(Gate!gateVars)
      <3>1. up /\ up' = up /\ UNCHANGED lapses /\ on[c] \in Entity
        BY <1>1, <2>3 DEF Report, DownIdle, TypeOK
      <3>2. entry' = [entry EXCEPT ![on[c]] = b]
        BY <2>3 DEF Report
      <3> QED BY <3>1, <3>2, <1>1, <2>3, OneTurn
    <2>4. ASSUME NEW c \in Caller,
                 RecordSuccess(c) \/ RecordFailure(c) \/ RecordNothing(c)
          PROVE  [Gate!GateNext]_(Gate!gateVars)
      <3>1. entry[on[c]] \in Entry
        BY <1>1 DEF TypeOK
      <3> QED BY <3>1, <2>3, <2>4, SucceededTurns, FailedTurns
              DEF RecordSuccess, RecordFailure, RecordNothing
    <2>5. CASE Crash \/ \E e \in Entity : Reset(e)
      BY <2>5, <1>1, LapseTurns DEF Crash, Reset, Gate!GateNext
    <2>6. CASE Tick
      BY <2>6, <1>1, TickTurns DEF Gate!GateNext
    <2>7. ASSUME UNCHANGED lapses, \A e \in Entity : Memory(e)' = Memory(e)
          PROVE  [Gate!GateNext]_(Gate!gateVars)
      <3>1. ShownState' = ShownState /\ ShownWaited' = ShownWaited
        BY <2>7 DEF ShownState, ShownWaited
      <3> QED BY <3>1, <2>7 DEF Gate!gateVars, ShownState, ShownWaited, ShownWait
    <2>8. CASE Shutdown
      BY <2>7, <2>8 DEF Shutdown, Stopped, Memory
    <2>9. CASE Startup
      BY <2>7, <2>9, <1>1 DEF Startup, Restored, Memory, TypeOK
    <2>10. CASE UNCHANGED vars
      BY <2>7, <2>10 DEF vars, Memory
    <2>11. CASE Persist
      BY <2>7, <2>11 DEF Persist, Memory
    <2> QED
      BY <1>1, <2>1, <2>2, <2>4, <2>5, <2>6, <2>8, <2>9, <2>10, <2>11 DEF Next, CallerStep
  <1>2. BreakerInv => TypeOK /\ DownIdle
    BY DEF BreakerInv
  <1> QED
    BY <1>1, <1>2, GateInitially, InitInv, StepInv, PTL
    DEF Spec, ImplementsGate, Gate!GateSpec
=============================================================================
