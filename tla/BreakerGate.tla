---------------------------- MODULE BreakerGate ----------------------------
(***************************************************************************)
(* What a circuit breaker promises, whatever the results of the calls, the *)
(* order they arrive in and their number: the abstract specification that  *)
(* CircuitBreaker implements.  A gate that opened stays OPEN for at least  *)
(* MinWait; it leaves OPEN only for a probe (HALF_OPEN), and only a probe  *)
(* that succeeded closes it.  A lapse (an operator's reset, or a crash     *)
(* that loses the breaker's memory) is the only exception, and is counted. *)
(***************************************************************************)
EXTENDS Naturals

CONSTANTS
  Entity,    \* what is guarded: models, providers, browser endpoints
  MinWait    \* the least time an open gate refuses every call

VARIABLES
  gate,      \* each entity's state
  waited,    \* for an OPEN gate: for how long, up to MinWait; otherwise 0
  lapses     \* how often the promise was suspended

gateVars == <<gate, waited, lapses>>

GateState == {"CLOSED", "OPEN", "HALF_OPEN"}

GateInit ==
  /\ gate = [e \in Entity |-> "CLOSED"]
  /\ waited = [e \in Entity |-> 0]
  /\ lapses = 0

Turn(e, from, to) ==
  /\ gate[e] = from
  /\ gate' = [gate EXCEPT ![e] = to]
  /\ waited' = [waited EXCEPT ![e] = 0]
  /\ UNCHANGED lapses

Trip(e)    == Turn(e, "CLOSED", "OPEN")
Probe(e)   == waited[e] = MinWait /\ Turn(e, "OPEN", "HALF_OPEN")
Relapse(e) == Turn(e, "HALF_OPEN", "OPEN")
Recover(e) == Turn(e, "HALF_OPEN", "CLOSED")

Elapse ==
  /\ waited' = [e \in Entity |->
                  IF gate[e] = "OPEN" /\ waited[e] < MinWait THEN waited[e] + 1
                                                             ELSE waited[e]]
  /\ UNCHANGED <<gate, lapses>>

Lapse ==
  /\ lapses' = lapses + 1
  /\ gate' \in [Entity -> GateState]
  /\ waited' \in [Entity -> 0..MinWait]

GateNext ==
  \/ \E e \in Entity : Trip(e) \/ Probe(e) \/ Relapse(e) \/ Recover(e)
  \/ Elapse
  \/ Lapse

GateSpec == GateInit /\ [][GateNext]_gateVars
=============================================================================
