--------------------------- MODULE CircuitBreaker ---------------------------
(***************************************************************************)
(* The per-entity circuit breaker (weebot/core/circuit_breaker.py), with   *)
(* the callers that ask it before a call and report the call's outcome     *)
(* after it, possibly much later and in any order.                         *)
(*                                                                         *)
(* Every critical section under the breaker's lock runs without suspending *)
(* (no product code gives the breaker an event broker to await), so each   *)
(* is one step; what is not atomic is evaluate: it looks at the entry,     *)
(* sleeps (the stagger), then decides.                                     *)
(*                                                                         *)
(* The clock appears only as how long an entry has been OPEN, counted up   *)
(* to the longest cooldown: no comparison in the code can tell longer      *)
(* waits apart.  In the same way the failure count stops at its threshold. *)
(***************************************************************************)
EXTENDS Naturals

CONSTANTS
  Entity,            \* entity ids
  Caller,            \* concurrent callers
  FailureThreshold,  \* failure_threshold
  SuccessThreshold,  \* success_threshold
  Cooldown,          \* cooldown_seconds, in clock ticks
  Jitter,            \* cooldown_seconds * jitter_percent
  Stagger,           \* enable_stagger
  MaxLapses          \* BOUND: resets and crashes in a behaviour

ASSUME ThresholdAssumption == /\ FailureThreshold \in Nat \ {0}
                              /\ SuccessThreshold \in Nat
ASSUME CooldownAssumption == /\ Cooldown \in Nat \ {0}
                             /\ Jitter \in 0..Cooldown
ASSUME StaggerAssumption == Stagger \in BOOLEAN
ASSUME LapseAssumption == MaxLapses \in Nat

VARIABLES
  entry,   \* _breakers
  pc,      \* where each caller is
  on,      \* the entity each caller asks for
  drawn,   \* the jittered cooldown each staggering caller drew
  file,    \* the persisted breaker state (breaker_state.json)
  up,      \* the process runs
  lapses   \* history: how many resets and crashes there were

vars == <<entry, pc, on, drawn, file, up, lapses>>

-----------------------------------------------------------------------------

State == {"CLOSED", "OPEN", "HALF_OPEN"}

LongestWait == Cooldown + Jitter
Draw == (Cooldown - Jitter)..(Cooldown + Jitter)

\* _BreakerEntry; age is the time since an OPEN entry opened.
Entry == [st : State, failures : 0..FailureThreshold,
          successes : 0..SuccessThreshold, age : 0..LongestWait]

\* An entity that has no entry behaves like this one, the entry
\* _get_or_create makes for it.
Fresh == [st |-> "CLOSED", failures |-> 0, successes |-> 0, age |-> 0]

TypeOK ==
  /\ entry \in [Entity -> Entry]
  /\ pc \in [Caller -> {"idle", "staggering", "calling"}]
  /\ on \in [Caller -> Entity]
  /\ drawn \in [Caller -> Draw]
  /\ file \in [Entity -> Entry]
  /\ up \in BOOLEAN
  /\ lapses \in 0..MaxLapses

Init ==
  /\ entry = [e \in Entity |-> Fresh]
  /\ pc = [c \in Caller |-> "idle"]
  /\ on \in {[c \in Caller |-> e] : e \in Entity}
  /\ drawn = [c \in Caller |-> Cooldown]
  /\ file = [e \in Entity |-> Fresh]
  /\ up = TRUE
  /\ lapses = 0

Next1(n, limit) == IF n < limit THEN n + 1 ELSE limit

-----------------------------------------------------------------------------
(* evaluate *)

\* Both reads of the entry compare the time it has been OPEN with the caller's
\* own draw.
Cooled(e, d) == entry[e].st = "OPEN" /\ entry[e].age >= d

Probing(b) == [b EXCEPT !.st = "HALF_OPEN", !.successes = 0, !.age = 0]

\* MUTANT: every refused request restarts the cooldown.
DecideRestarting(c, e, d) ==
  LET refused == entry[e].st = "OPEN" /\ ~Cooled(e, d)
  IN /\ entry' = [entry EXCEPT ![e] = IF Cooled(e, d) THEN Probing(@)
                                      ELSE IF refused THEN [@ EXCEPT !.age = 0] ELSE @]
     /\ pc' = [pc EXCEPT ![c] = IF refused THEN "idle" ELSE "calling"]

\* Phase 2, under the lock: OPEN turns HALF_OPEN when it has cooled down and
\* refuses otherwise; CLOSED and HALF_OPEN let every request pass.
Decide(c, e, d) ==
  /\ entry' = IF Cooled(e, d) THEN [entry EXCEPT ![e] = Probing(@)] ELSE entry
  /\ pc' = [pc EXCEPT ![c] =
              IF entry[e].st = "OPEN" /\ ~Cooled(e, d) THEN "idle" ELSE "calling"]

\* A call to evaluate: the cooldown is drawn once, and a caller that finds the
\* entry ready to probe sleeps before it decides.
Evaluate(c, e) ==
  /\ up
  /\ pc[c] = "idle"
  /\ \E d \in Draw :
       /\ on' = [on EXCEPT ![c] = e]
       /\ IF Stagger /\ Cooled(e, d)
            THEN /\ pc' = [pc EXCEPT ![c] = "staggering"]
                 /\ drawn' = [drawn EXCEPT ![c] = d]
                 /\ UNCHANGED entry
            ELSE Decide(c, e, d) /\ UNCHANGED drawn
  /\ UNCHANGED <<file, up, lapses>>

\* MUTANT: the stagger's caller acts on its dirty pre-check.
WakeTrusting(c) ==
  /\ pc[c] = "staggering"
  /\ pc' = [pc EXCEPT ![c] = "calling"]
  /\ drawn' = [drawn EXCEPT ![c] = Cooldown]
  /\ UNCHANGED <<entry, on, file, up, lapses>>

\* The end of the stagger.
Wake(c) ==
  /\ pc[c] = "staggering"
  /\ Decide(c, on[c], drawn[c])
  /\ drawn' = [drawn EXCEPT ![c] = Cooldown]
  /\ UNCHANGED <<on, file, up, lapses>>

-----------------------------------------------------------------------------
(* record_success, record_failure *)

\* MUTANT: closing keeps the failure count.
SucceededKeepingCount(b) ==
  CASE b.st = "HALF_OPEN" -> IF b.successes + 1 >= SuccessThreshold
                               THEN [Fresh EXCEPT !.failures = b.failures]
                               ELSE [b EXCEPT !.successes = @ + 1]
    [] b.st = "CLOSED"    -> [b EXCEPT !.failures = 0]
    [] b.st = "OPEN"      -> b

\* MUTANT: the success threshold is never compared.
SucceededWithoutEnd(b) ==
  CASE b.st = "HALF_OPEN" -> [b EXCEPT !.successes = @ + 1]
    [] b.st = "CLOSED"    -> [b EXCEPT !.failures = 0]
    [] b.st = "OPEN"      -> b

\* A success closes a probing entry once it has had enough of them, clears the
\* count of a closed one, and says nothing of an open one.
Succeeded(b) ==
  CASE b.st = "HALF_OPEN" -> IF b.successes + 1 >= SuccessThreshold
                               THEN Fresh ELSE [b EXCEPT !.successes = @ + 1]
    [] b.st = "CLOSED"    -> [b EXCEPT !.failures = 0]
    [] b.st = "OPEN"      -> b

\* A failure always counts; it reopens a probing entry and opens a closed one
\* at the threshold.
Failed(b) ==
  LET counted == [b EXCEPT !.failures = Next1(@, FailureThreshold)]
      opens == \/ b.st = "HALF_OPEN"
               \/ b.st = "CLOSED" /\ counted.failures >= FailureThreshold
  IN IF opens THEN [counted EXCEPT !.st = "OPEN", !.age = 0] ELSE counted

Report(c, b) ==
  /\ pc[c] = "calling"
  /\ entry' = [entry EXCEPT ![on[c]] = b]
  /\ pc' = [pc EXCEPT ![c] = "idle"]
  /\ UNCHANGED <<on, drawn, file, up, lapses>>

RecordSuccess(c) == Report(c, Succeeded(entry[on[c]]))
RecordFailure(c) == Report(c, Failed(entry[on[c]]))

\* A call that is never reported: rejected credentials, an error that is not
\* retryable, a cached answer, a cancelled caller.
RecordNothing(c) == Report(c, entry[on[c]])

-----------------------------------------------------------------------------
(* reset, persist_state, restore_state, time *)

Reset(e) ==
  /\ up
  /\ lapses < MaxLapses
  /\ entry' = [entry EXCEPT ![e] = Fresh]
  /\ lapses' = lapses + 1
  /\ UNCHANGED <<pc, on, drawn, file, up>>

\* MUTANT: the time is stored raw, and is long ago for the next process's clock.
RestoredRaw(b) == [b EXCEPT !.age = LongestWait]

\* What to_persistable keeps of an entry: the time since its last change is
\* stored as an offset, which load_from_persistable turns back into a time.
Restored(b) == b

Stopped ==
  /\ up' = FALSE
  /\ pc' = [c \in Caller |-> "idle"]
  /\ drawn' = [c \in Caller |-> Cooldown]
  /\ entry' = [e \in Entity |-> Fresh]
  /\ UNCHANGED on

\* persist_state, on the server's way down.
Persist ==
  /\ up
  /\ file' = entry
  /\ UNCHANGED <<entry, pc, on, drawn, up, lapses>>

\* A graceful shutdown: nothing changes between the file and the end.
Shutdown == up /\ file' = entry /\ Stopped /\ UNCHANGED lapses

\* A process that does more after its last persist, or never gets to one: the next
\* start restores an older file.
Crash ==
  /\ up
  /\ lapses < MaxLapses
  /\ lapses' = lapses + 1
  /\ Stopped
  /\ UNCHANGED file

Startup ==
  /\ ~up
  /\ up' = TRUE
  /\ entry' = [e \in Entity |-> Restored(file[e])]
  /\ UNCHANGED <<pc, on, drawn, file, lapses>>

Tick ==
  /\ up
  /\ entry' = [e \in Entity |->
                 IF entry[e].st = "OPEN"
                   THEN [entry[e] EXCEPT !.age = Next1(@, LongestWait)] ELSE entry[e]]
  /\ entry' # entry
  /\ UNCHANGED <<pc, on, drawn, file, up, lapses>>

CallerStep(c) ==
  \/ Wake(c) \/ RecordSuccess(c) \/ RecordFailure(c) \/ RecordNothing(c)

Next ==
  \/ \E c \in Caller : CallerStep(c) \/ \E e \in Entity : Evaluate(c, e)
  \/ \E e \in Entity : Reset(e)
  \/ Persist \/ Shutdown \/ Crash \/ Startup \/ Tick

Spec == Init /\ [][Next]_vars

\* Time passes, the event loop wakes a sleeping caller, a stopped server is
\* started again, and every call ends (it has a timeout), reported or not.
Fairness ==
  /\ WF_vars(Tick)
  /\ WF_vars(Startup)
  /\ \A c \in Caller : WF_vars(CallerStep(c))

FairSpec == Spec /\ Fairness

-----------------------------------------------------------------------------
(* Properties *)

\* The gate of BreakerGate: what the entries say, or what the file says while
\* the process is down.
Memory(e) == IF up THEN entry[e] ELSE file[e]

MinWait == Cooldown - Jitter

Gate == INSTANCE BreakerGate WITH
  gate   <- [e \in Entity |-> Memory(e).st],
  waited <- [e \in Entity |->
               IF Memory(e).st # "OPEN" THEN 0
               ELSE IF Memory(e).age < MinWait THEN Memory(e).age ELSE MinWait]

\* The breaker keeps the promise of BreakerGate: late successes do not close an
\* open entry, late failures do not restart a cooldown, and a restart keeps the
\* time an entry has waited.
ImplementsGate == Gate!GateSpec

\* The state and the failure count agree, over late outcomes, probes and
\* restarts: an entry that reached the threshold is not CLOSED, and one that has
\* not is not left OPEN.
CountAgrees ==
  \A e \in Entity : entry[e].st = "CLOSED" <=> entry[e].failures < FailureThreshold

\* "The authoritative state check happens in Phase 2 under the lock": a caller
\* that slept on its dirty pre-check is not let through a gate that reopened
\* meanwhile.
OpenRefuses ==
  [][\A c \in Caller : pc[c] # "calling" /\ pc'[c] = "calling"
                       => entry'[on'[c]].st # "OPEN"]_vars

\* An entity that callers keep asking for does not stay refused: neither asking
\* nor late failures push the probe away.
Asked(e) == SF_vars(\E c \in Caller : Evaluate(c, e))

AdmittedAgain ==
  \A e \in Entity : Asked(e) => (entry[e].st = "OPEN" ~> entry[e].st # "OPEN")
=============================================================================
