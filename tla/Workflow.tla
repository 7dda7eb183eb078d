------------------------------- MODULE Workflow -------------------------------
(***************************************************************************)
(* WorkflowOrchestrator (weebot/core/workflow_orchestrator.py): concurrent *)
(* execute() calls of one orchestrator, each running the tasks of a graph. *)
(*                                                                         *)
(* One action is what runs between two awaits: a pass of the scheduling    *)
(* loop of an execution, or a stretch of a task's coroutine.  A handler    *)
(* answers, fails, times out or is cancelled; publishing an event may take *)
(* any time and does not raise, as the buses in use do not.                *)
(***************************************************************************)
EXTENDS TaskGraph

CONSTANTS
  Exec,         \* calls of execute()
  Id,           \* orchestrator ids; the default is the millisecond, so two calls may share one
  NoId,         \* before the call
  GraphsOf,     \* the graphs a call may be given: Exec -> set of functions task -> dependencies
  MaxParallel,  \* _max_parallel
  MaxCancels    \* BOUND: cancel() calls and cancelled callers

ASSUME ParallelAssumption == MaxParallel \in Nat \ {0}
ASSUME CancelsAssumption == MaxCancels \in Nat
ASSUME IdAssumption == NoId \notin Id
ASSUME GraphAssumption ==
  \A e \in Exec : \A deps \in GraphsOf[e] : /\ DOMAIN deps \subseteq Task
                                            /\ deps \in [DOMAIN deps -> SUBSET Task]

VARIABLES
  flags,    \* _cancelled_sessions
  ex,       \* the local state of each call
  co,       \* the coroutines of its tasks
  told,     \* history: calls in their loop when their id was cancelled
  cancels   \* cancellations spent

vars == <<flags, ex, co, told, cancels>>

TaskStatus == {"pending", "running", "completed", "failed", "cancelled"}

\* "created" is not begun; "handling" is in the handler, or publishes task_started before it;
\* "telling" publishes the outcome; "stopping" has a cancellation to receive; "thrown" ended by one nobody here asked for.
Co == {"none", "created", "handling", "telling", "stopping", "ended", "thrown"}

At == {"idle", "starting", "waiting", "gathering", "leaving", "finishing",
       "returned", "rejected", "raised"}

\* The local state is well-formed; the graph is one of the call's.
TypeOK ==
  /\ flags \in [Id -> {"none", "no", "yes"}]
  /\ \A e \in Exec :
       /\ ex[e].at \in At
       /\ ex[e].id \in Id \cup {NoId}
       /\ ex[e].graph.deps \in GraphsOf[e] \cup {<<>>}
       /\ \A d \in Task : ex[e].graph.rdeps[d] = {t \in Nodes(ex[e].graph) : d \in ex[e].graph.deps[t]}
       /\ ex[e].status \in [Task -> TaskStatus]
       /\ {ex[e].completed, ex[e].failed, ex[e].held} \subseteq SUBSET Nodes(ex[e].graph)
  /\ co \in [Exec -> [Task -> Co]]
  /\ told \subseteq Exec
  /\ cancels \in 0..MaxCancels

Init ==
  /\ flags = [i \in Id |-> "none"]
  /\ ex = [e \in Exec |->
             [at |-> "idle", id |-> NoId, graph |-> Built(<<>>),
              status |-> [t \in Task |-> "pending"],
              completed |-> {}, failed |-> {}, held |-> {}]]
  /\ co = [e \in Exec |-> [t \in Task |-> "none"]]
  /\ told = {}
  /\ cancels = 0

Over == {"returned", "rejected", "raised"}

Live == {"created", "handling", "telling", "stopping"}

\* MUTANT: the permit is not given back.
Entered(e) == {t \in Task : co[e][t] \notin {"none", "created"}}

\* The tasks whose coroutines hold a permit of the semaphore.
Inside(e) == {t \in Task : co[e][t] \in {"handling", "telling"}}

Ended(e) == {t \in ex[e].held : co[e][t] \in {"ended", "thrown"}}

Set(e, x) == ex' = [ex EXCEPT ![e] = x]

\* MUTANT: the flag is looked up when the loop is left only.
NotAsked(x) == FALSE

\* cancel() has set the flag.
Cancelled(x) == flags[x.id] = "yes"

\* The tasks that have ended are out of running_tasks.
Collected(e) == [ex[e] EXCEPT !.held = @ \ Ended(e)]

\* What is still marked running is marked cancelled; nothing stops it.
Abandoned(x) ==
  [x EXCEPT !.status = [t \in Task |-> IF @[t] = "running" THEN "cancelled" ELSE @[t]]]

-----------------------------------------------------------------------------
(* execute *)

\* The flag of the id is reset, whoever else uses the id; a graph with a cycle or an
\* unknown dependency is refused and the flag dropped.
Begin(e, id, deps) ==
  /\ ex[e].at = "idle"
  /\ LET valid == Valid(Built(deps))
     IN  /\ flags' = [flags EXCEPT ![id] = IF valid THEN "no" ELSE "none"]
         /\ Set(e, [ex[e] EXCEPT !.id = id, !.graph = Built(deps),
                                 !.at = IF valid THEN "starting" ELSE "rejected"])
  /\ UNCHANGED <<co, told, cancels>>

\* The finally clause: the flag is taken, and if it was set what runs is cancelled.
\* A cancelled task counts as failed, whatever it was doing.
Unwind(e, x, next) ==
  /\ flags' = [flags EXCEPT ![x.id] = "none"]
  /\ IF Cancelled(x) /\ x.held # {}
       THEN /\ Set(e, [x EXCEPT !.at = IF next = "raised" THEN "leaving" ELSE "gathering",
                                !.failed = @ \cup x.held,
                                !.status = [t \in Task |-> IF t \in x.held THEN "cancelled"
                                                           ELSE @[t]]])
            /\ co' = [co EXCEPT ![e] = [t \in Task |-> IF t \in x.held /\ @[t] \in Live
                                                         THEN "stopping" ELSE @[t]]]
       ELSE /\ Set(e, [x EXCEPT !.at = next])
            /\ UNCHANGED co

\* MUTANT: what runs already is started again.
StartableAgain(x) == Ready(x.graph, x.completed \cup x.failed)

\* Ready, settled by nobody and not running already.
Startable(x) ==
  {t \in Ready(x.graph, x.completed \cup x.failed) : x.status[t] # "running"}

AllSettled(x) ==
  Cardinality(x.completed) + Cardinality(x.failed) >= Cardinality(Nodes(x.graph))

\* MUTANT: one task more than the limit.
StartOneMore(e, x) ==
  \E S \in SUBSET Startable(x) :
    /\ Cardinality(x.held \cup S) <= MaxParallel + 1
    /\ S = Startable(x) \/ Cardinality(x.held \cup S) = MaxParallel + 1
    /\ Set(e, [x EXCEPT !.at = "waiting", !.held = @ \cup S,
                        !.status = [t \in Task |-> IF t \in S THEN "running" ELSE @[t]]])
    /\ co' = [co EXCEPT ![e] = [t \in Task |-> IF t \in S THEN "created" ELSE @[t]]]
    /\ UNCHANGED flags

\* Ready tasks are started until none is left or the limit is reached.
Start(e, x) ==
  \E S \in SUBSET Startable(x) :
    /\ Cardinality(x.held \cup S) <= MaxParallel
    /\ S = Startable(x) \/ Cardinality(x.held \cup S) = MaxParallel
    /\ Set(e, [x EXCEPT !.at = "waiting", !.held = @ \cup S,
                        !.status = [t \in Task |-> IF t \in S THEN "running" ELSE @[t]]])
    /\ co' = [co EXCEPT ![e] = [t \in Task |-> IF t \in S THEN "created" ELSE @[t]]]
    /\ UNCHANGED flags

\* A pass of the loop, after workflow_started or when a task has ended: the ended tasks are
\* collected and the loop is left, or more tasks are started.
Pass(e) ==
  LET x == Collected(e)
  IN  /\ ex[e].at = "starting" \/ (ex[e].at = "waiting" /\ Ended(e) # {})
      /\ \A t \in Ended(e) : co[e][t] # "thrown"
      /\ IF AllSettled(x) \/ Cancelled(x) \/ (Startable(x) = {} /\ x.held = {})
           THEN Unwind(e, x, "finishing")
           ELSE Start(e, x)
      /\ UNCHANGED <<told, cancels>>

\* Collecting a task that ended by a CancelledError raises it here.
PassThrown(e) ==
  /\ ex[e].at = "waiting"
  /\ \E t \in Ended(e) : co[e][t] = "thrown"
  /\ Unwind(e, Abandoned(Collected(e)), "raised")
  /\ UNCHANGED <<told, cancels>>

\* The gather after a cancelled run: every task has ended.
Gathered(e) ==
  /\ ex[e].at \in {"gathering", "leaving"}
  /\ ex[e].held = Ended(e)
  /\ Set(e, [ex[e] EXCEPT !.at = IF @ = "leaving" THEN "raised" ELSE "finishing", !.held = {}])
  /\ UNCHANGED <<flags, co, told, cancels>>

\* workflow_completed is published and the result returned.
Return(e) ==
  /\ ex[e].at = "finishing"
  /\ Set(e, [ex[e] EXCEPT !.at = "returned"])
  /\ UNCHANGED <<flags, co, told, cancels>>

\* The caller of execute() is cancelled, at whatever it awaits.  Only the loop is in the
\* try: before it the flag stays; in it the tasks are left running unless it was set.
Abort(e) ==
  /\ cancels < MaxCancels
  /\ cancels' = cancels + 1
  /\ \/ /\ ex[e].at \in {"starting", "gathering", "leaving", "finishing"}
        /\ Set(e, [ex[e] EXCEPT !.at = "raised"])
        /\ UNCHANGED <<flags, co>>
     \/ /\ ex[e].at = "waiting"
        /\ Unwind(e, Abandoned(ex[e]), "raised")
  /\ UNCHANGED told

\* cancel: of one id, or of all; an id with no flag is skipped.
Cancel(ids) ==
  /\ cancels < MaxCancels
  /\ cancels' = cancels + 1
  /\ flags' = [i \in Id |-> IF i \in ids /\ flags[i] # "none" THEN "yes" ELSE flags[i]]
  /\ told' = told \cup {e \in Exec : ex[e].at \in {"starting", "waiting"} /\ ex[e].id \in ids}
  /\ UNCHANGED <<ex, co>>

-----------------------------------------------------------------------------
(* _execute_task *)

Move(e, t, from, to) ==
  /\ co[e][t] = from
  /\ co' = [co EXCEPT ![e][t] = to]
  /\ UNCHANGED <<flags, told, cancels>>

Succeed(e, t) ==
  Set(e, [ex[e] EXCEPT !.status[t] = "completed", !.completed = @ \cup {t}])

Fail(e, t) ==
  Set(e, [ex[e] EXCEPT !.status[t] = "failed", !.failed = @ \cup {t}])

\* A permit of the semaphore, then the circuit breaker's word.
Enter(e, t) ==
  /\ Cardinality(Inside(e)) < MaxParallel
  /\ \/ Move(e, t, "created", "handling") /\ UNCHANGED ex
     \/ Move(e, t, "created", "telling") /\ Fail(e, t)

\* The handler answers, raises or times out, or lets a CancelledError through.
Handled(e, t) ==
  \/ Move(e, t, "handling", "telling") /\ (Succeed(e, t) \/ Fail(e, t))
  \/ Move(e, t, "handling", "thrown") /\ UNCHANGED ex

Published(e, t) == Move(e, t, "telling", "ended") /\ UNCHANGED ex

\* The cancellation arrives; what the task had settled stays settled.
Stopped(e, t) == Move(e, t, "stopping", "ended") /\ UNCHANGED ex

-----------------------------------------------------------------------------

Loop(e) == Pass(e) \/ PassThrown(e) \/ Gathered(e) \/ Return(e)

Turn(e, t) ==
  Enter(e, t) \/ Handled(e, t) \/ Published(e, t) \/ Stopped(e, t)

Next ==
  \/ \E e \in Exec : \/ \E id \in Id, deps \in GraphsOf[e] : Begin(e, id, deps)
                     \/ Pass(e)
                     \/ PassThrown(e)
                     \/ Gathered(e)
                     \/ Return(e)
                     \/ Abort(e)
  \/ \E id \in Id : Cancel({id})
  \/ Cancel(Id)
  \/ \E e \in Exec, t \in Task : \/ Enter(e, t)
                                 \/ Handled(e, t)
                                 \/ Published(e, t)
                                 \/ Stopped(e, t)

Spec == Init /\ [][Next]_vars

\* The event loop goes on with an execution that can go on, no matter with which of its
\* coroutines: a handler ends, by wait_for's timeout if not before, and a publish by the
\* buses' timeouts.
FairSpec ==
  Spec /\ \A e \in Exec : WF_vars(Loop(e) \/ \E t \in Task : Turn(e, t))

-----------------------------------------------------------------------------
(* Properties *)

\* A task is started when the handler of everything it depends on is over, however it
\* ended: it reads their outputs from the shared data.
DependenciesFirst ==
  \A e \in Exec : \A t \in Nodes(ex[e].graph) :
    co[e][t] # "none" =>
      \A d \in ex[e].graph.deps[t] : /\ d \in ex[e].completed \cup ex[e].failed
                                     /\ co[e][d] \notin {"none", "created", "handling"}

\* Never more coroutines at once than max_parallel_agents, those a cancelled caller left
\* behind included.
AtMostParallel ==
  \A e \in Exec : Cardinality({t \in Task : co[e][t] \in Live}) <= MaxParallel

\* No handler of the call is running, or about to; a publish may be.
HandlersOver(e) == \A t \in Task : co[e][t] \in {"none", "telling", "ended"}

\* When execute() returns none of its handlers is running; and unless it was cancelled every
\* task has been settled, once.  (A failed task does not keep its dependents from running.)
ReturnIsQuiet ==
  \A e \in Exec : ex[e].at = "returned" =>
    /\ HandlersOver(e)
    /\ e \notin told => /\ ex[e].completed \cup ex[e].failed = Nodes(ex[e].graph)
                        /\ ex[e].completed \cap ex[e].failed = {}

\* No other call has used the id.
Alone(e) == \A o \in Exec \ {e} : ex[o].id # ex[e].id

\* cancel() stops an execution that has its id to itself: from then on it starts no task.
NoneStarted ==
  \A e \in told : Alone(e) => \A t \in Task : co[e][t] = "none" => co'[e][t] = "none"

CancelStops == [][NoneStarted]_vars

\* How far a coroutine, and a call, is from its end; a held task still has to be collected.
CoLeft(c) ==
  CASE c = "none" -> 6 [] c = "created" -> 4 [] c = "handling" -> 3
    [] c = "telling" -> 2 [] c = "stopping" -> 1 [] OTHER -> 0

TaskLeft(e, t) == CoLeft(co[e][t]) + (IF t \in ex[e].held THEN 1 ELSE 0)

AtLeft(at) ==
  CASE at = "idle" -> 5 [] at = "starting" -> 4 [] at = "waiting" -> 3
    [] at \in {"gathering", "leaving"} -> 2 [] at = "finishing" -> 1 [] OTHER -> 0

CallLeft(e) == AtLeft(ex[e].at)

\* A step of the call brings it, or one of its tasks, nearer to its end and none further
\* from it.
Shrinks(e) ==
  <<ex[e], co[e]>>' # <<ex[e], co[e]>> =>
    /\ CallLeft(e)' <= CallLeft(e)
    /\ \A t \in Task : TaskLeft(e, t)' <= TaskLeft(e, t)
    /\ \/ CallLeft(e)' < CallLeft(e)
       \/ \E t \in Task : TaskLeft(e, t)' < TaskLeft(e, t)

\* Something of the call goes on by itself: its loop has an ended task to collect or
\* nothing left to wait for, or one of its coroutines is not waiting for a permit.
GoesOn(e) ==
  \/ ex[e].at \in {"starting", "finishing"}
  \/ ex[e].at = "waiting" /\ Ended(e) # {}
  \/ ex[e].at \in {"gathering", "leaving"} /\ ex[e].held = Ended(e)
  \/ \E t \in Task : \/ co[e][t] \in {"handling", "telling", "stopping"}
                     \/ co[e][t] = "created" /\ Cardinality(Inside(e)) < MaxParallel

\* Of a call that is not over, and of the tasks a cancelled caller left behind, something
\* goes on.
NeverStuck ==
  \A e \in Exec :
    ex[e].at \notin {"idle"} \cup Over \/ (\E t \in Task : co[e][t] \in Live) => GoesOn(e)

\* Nobody waits for a permit, a task or a result that cannot come, and no step is in vain:
\* no task is started twice, no pass of the loop is made for nothing, and a call makes at
\* most 5 steps and 6 for each task, whatever fails or is cancelled and in which order.
GetsOn == []NeverStuck /\ [][\A e \in Exec : Shrinks(e)]_vars

\* Every execution ends: with an acyclic graph a task is always running or ready, every
\* permit comes back, and a cancelled run waits only for tasks it has cancelled.
ExecuteEnds ==
  \A e \in Exec : (ex[e].at = "starting") ~> (ex[e].at \in Over)
=============================================================================
