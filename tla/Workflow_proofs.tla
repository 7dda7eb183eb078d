--------------------------- MODULE Workflow_proofs ---------------------------
(***************************************************************************)
(* Proofs about Workflow.  The invariant says of one call, its record x    *)
(* and its coroutines c, which tasks may be in which place at each point   *)
(* of execute(): what is alive is held while the loop runs, and what is    *)
(* settled has its handler behind it.  That every task is settled in the   *)
(* end needs what validate() says of the graph (TaskGraph_proofs).         *)
(***************************************************************************)
EXTENDS Workflow, TaskGraph_proofs

Graph == [deps : (UNION {GraphsOf[e] : e \in Exec}) \cup {<<>>}, rdeps : [Task -> SUBSET Task]]

Call ==
  [at : At, id : Id \cup {NoId}, graph : Graph, status : [Task -> TaskStatus],
   completed : SUBSET Task, failed : SUBSET Task, held : SUBSET Task]

Typed ==
  /\ flags \in [Id -> {"none", "no", "yes"}]
  /\ ex \in [Exec -> Call]
  /\ co \in [Exec -> [Task -> Co]]
  /\ told \subseteq Exec
  /\ cancels \in Nat

LiveOf(c) == {t \in Task : c[t] \in Live}

\* Nothing has happened yet.
Untouched(x, c) ==
  x.at \in {"idle", "starting", "rejected"} =>
    x.completed = {} /\ x.failed = {} /\ x.held = {} /\ \A t \in Task : c[t] = "none"

\* Only tasks of the graph are touched.
InGraph(x, c) ==
  /\ x.completed \cup x.failed \cup x.held \subseteq Nodes(x.graph)
  /\ Nodes(x.graph) \subseteq Task
  /\ \A t \in Task : c[t] # "none" => t \in Nodes(x.graph)

\* In the loop running_tasks holds what is alive or has thrown, and keeps the limit.
Holds(x, c) ==
  x.at = "waiting" =>
    /\ Cardinality(x.held) <= MaxParallel
    /\ \A t \in Task : c[t] \in Live \cup {"thrown"} => t \in x.held

\* In the loop a settled task is settled once and its handler is over.
Settles(x, c) ==
  x.at \in {"starting", "waiting"} =>
    /\ x.completed \cap x.failed = {}
    /\ \A t \in x.completed \cup x.failed : c[t] \in {"telling", "ended"}

\* In the gather of a cancelled call everything has been told to stop.
Stops(x, c) ==
  x.at = "gathering" =>
    \A t \in Task : c[t] \in {"none", "stopping", "ended"} /\ (c[t] = "stopping" => t \in x.held)

Quiet(x, c) ==
  x.at \in {"finishing", "returned"} => \A t \in Task : c[t] \in {"none", "telling", "ended"}

After(x, c) ==
  \A t \in Nodes(x.graph) : c[t] # "none" =>
    \A d \in x.graph.deps[t] : /\ d \in x.completed \cup x.failed
                               /\ c[d] \notin {"none", "created", "handling"}

Limit(c) == Cardinality(LiveOf(c)) <= MaxParallel

Local(x, c) ==
  /\ Untouched(x, c)
  /\ InGraph(x, c)
  /\ Holds(x, c)
  /\ Settles(x, c)
  /\ Stops(x, c)
  /\ Quiet(x, c)
  /\ After(x, c)
  /\ Limit(c)

\* A call that has its id to itself has a flag while it runs, and it is set once it is told.
Flagged ==
  \A e \in Exec :
    /\ ex[e].at = "idle" <=> ex[e].id = NoId
    /\ e \in told => ex[e].at # "idle"
    /\ (ex[e].at \in {"starting", "waiting"} /\ Alone(e)) =>
         /\ flags[ex[e].id] # "none"
         /\ e \in told => flags[ex[e].id] = "yes"

WInv == Typed /\ (\A e \in Exec : Local(ex[e], co[e])) /\ Flagged

-----------------------------------------------------------------------------
(* One call *)

LEMMA TaskFinite == IsFiniteSet(Task)
BY OrderAssumption

\* Fewer coroutines stay within the limit.
LEMMA FewerLive ==
  ASSUME NEW c, NEW d, Limit(c), LiveOf(d) \subseteq LiveOf(c)
  PROVE  Limit(d)
<1>1. IsFiniteSet(LiveOf(c))
  BY TaskFinite, FS_Subset DEF LiveOf
<1>2. Cardinality(LiveOf(d)) \in Nat /\ Cardinality(LiveOf(c)) \in Nat
      /\ Cardinality(LiveOf(d)) <= Cardinality(LiveOf(c))
  BY <1>1, FS_Subset, FS_CardinalityType
<1> QED
  BY <1>2, ParallelAssumption DEF Limit

\* completed and failed count all tasks only when they hold all tasks.
LEMMA CountedIsSettled ==
  ASSUME NEW x \in Call, NEW c, InGraph(x, c), x.completed \cap x.failed = {}, AllSettled(x)
  PROVE  x.completed \cup x.failed = Nodes(x.graph)
<1> DEFINE U == x.completed \cup x.failed
           N == Nodes(x.graph)
<1>1. IsFiniteSet(N) /\ IsFiniteSet(x.completed) /\ IsFiniteSet(x.failed)
  BY TaskFinite, FS_Subset DEF InGraph, Call
<1>2. Cardinality(U) = Cardinality(x.completed) + Cardinality(x.failed)
  <2>1. Cardinality(x.completed \cap x.failed) = 0
    BY FS_EmptySet
  <2>2. Cardinality(U) = Cardinality(x.completed) + Cardinality(x.failed)
                         - Cardinality(x.completed \cap x.failed)
    BY <1>1, FS_Union
  <2>3. Cardinality(x.completed) \in Nat /\ Cardinality(x.failed) \in Nat
    BY <1>1, FS_CardinalityType
  <2> QED
    BY <2>1, <2>2, <2>3
<1>3. U \subseteq N
  BY DEF InGraph
<1>4. Cardinality(U) >= Cardinality(N)
  BY <1>2 DEF AllSettled
<1>5. Cardinality(U) = Cardinality(N)
  <2>1. Cardinality(U) <= Cardinality(N) /\ Cardinality(U) \in Nat /\ Cardinality(N) \in Nat
    BY <1>1, <1>3, FS_Subset, FS_CardinalityType
  <2> QED
    BY <2>1, <1>4
<1> QED
  BY <1>1, <1>3, <1>5, FS_Subset

-----------------------------------------------------------------------------
(* Types *)

LEMMA CollectedType ==
  ASSUME Typed, NEW e \in Exec
  PROVE  /\ Collected(e) \in Call
         /\ Abandoned(Collected(e)) \in Call
         /\ Abandoned(ex[e]) \in Call
<1>1. ex[e] \in Call
  BY DEF Typed
<1>2. Collected(e) \in Call
  BY <1>1 DEF Collected, Call
<1>3. ASSUME NEW x \in Call PROVE Abandoned(x) \in Call
  BY DEF Abandoned, Call, TaskStatus
<1> QED
  BY <1>1, <1>2, <1>3

LEMMA UnwindType ==
  ASSUME Typed, NEW e \in Exec, NEW x \in Call, NEW next \in {"finishing", "raised"},
         Unwind(e, x, next), x.id \in Id
  PROVE  /\ flags' \in [Id -> {"none", "no", "yes"}]
         /\ ex' \in [Exec -> Call]
         /\ co' \in [Exec -> [Task -> Co]]
<1>1. flags' \in [Id -> {"none", "no", "yes"}]
  BY DEF Unwind, Typed
<1>2. CASE Cancelled(x) /\ x.held # {}
  <2>1. [x EXCEPT !.at = IF next = "raised" THEN "leaving" ELSE "gathering",
                  !.failed = @ \cup x.held,
                  !.status = [t \in Task |-> IF t \in x.held THEN "cancelled" ELSE @[t]]] \in Call
    BY DEF Call, At, TaskStatus
  <2>2. ex' \in [Exec -> Call]
    BY <1>2, <2>1 DEF Unwind, Set, Typed
  <2>3. co' \in [Exec -> [Task -> Co]]
    BY <1>2 DEF Unwind, Typed, Co
  <2> QED
    BY <1>1, <2>2, <2>3
<1>3. CASE ~(Cancelled(x) /\ x.held # {})
  <2>1. [x EXCEPT !.at = next] \in Call
    BY DEF Call, At
  <2>2. ex' \in [Exec -> Call] /\ co' \in [Exec -> [Task -> Co]]
    BY <1>3, <2>1 DEF Unwind, Set, Typed
  <2> QED
    BY <1>1, <2>2
<1> QED
  BY <1>2, <1>3

LEMMA StartType ==
  ASSUME Typed, NEW e \in Exec, NEW x \in Call, NEW S \in SUBSET Startable(x),
         Set(e, [x EXCEPT !.at = "waiting", !.held = @ \cup S,
                          !.status = [t \in Task |-> IF t \in S THEN "running" ELSE @[t]]]),
         co' = [co EXCEPT ![e] = [t \in Task |-> IF t \in S THEN "created" ELSE @[t]]],
         S \subseteq Task
  PROVE  /\ ex' \in [Exec -> Call]
         /\ co' \in [Exec -> [Task -> Co]]
<1>1. [x EXCEPT !.at = "waiting", !.held = @ \cup S,
                !.status = [t \in Task |-> IF t \in S THEN "running" ELSE @[t]]] \in Call
  BY DEF Call, At, TaskStatus
<1>2. ex' \in [Exec -> Call]
  BY <1>1 DEF Set, Typed
<1>3. co' \in [Exec -> [Task -> Co]]
  BY DEF Typed, Co
<1> QED
  BY <1>2, <1>3

LEMMA BuiltType ==
  ASSUME NEW e \in Exec, NEW deps \in GraphsOf[e]
  PROVE  Built(deps) \in Graph /\ Nodes(Built(deps)) \subseteq Task
BY GraphAssumption DEF Built, Graph, Nodes

LEMMA TurnType ==
  ASSUME Typed, NEW e \in Exec, NEW t \in Task, Turn(e, t)
  PROVE  Typed'
<1>1. ex[e] \in Call
  BY DEF Typed
<1>2. [ex[e] EXCEPT !.status[t] = "completed", !.completed = @ \cup {t}] \in Call
      /\ [ex[e] EXCEPT !.status[t] = "failed", !.failed = @ \cup {t}] \in Call
  BY <1>1 DEF Call, TaskStatus
<1>3. ASSUME Succeed(e, t) \/ Fail(e, t) \/ UNCHANGED ex
      PROVE  ex' \in [Exec -> Call]
  BY <1>2, <1>3 DEF Typed, Succeed, Fail, Set
<1>4. ASSUME NEW from, NEW to \in Co, Move(e, t, from, to)
      PROVE  co' \in [Exec -> [Task -> Co]] /\ UNCHANGED <<flags, told, cancels>>
  BY <1>4 DEF Typed, Move
<1>5. /\ co' \in [Exec -> [Task -> Co]] /\ UNCHANGED <<flags, told, cancels>>
      /\ Succeed(e, t) \/ Fail(e, t) \/ UNCHANGED ex
  <2>1. CASE Enter(e, t)
    BY <2>1, <1>4 DEF Enter, Co
  <2>2. CASE Handled(e, t)
    BY <2>2, <1>4 DEF Handled, Co
  <2>3. CASE Published(e, t)
    BY <2>3, <1>4 DEF Published, Co
  <2>4. CASE Stopped(e, t)
    BY <2>4, <1>4 DEF Stopped, Co
  <2> QED
    BY <2>1, <2>2, <2>3, <2>4 DEF Turn
<1> QED
  BY <1>3, <1>5 DEF Typed

-----------------------------------------------------------------------------
(* What a step leaves true of its call *)

\* A stretch of a coroutine: it moves on, and settles its task at most when it
\* had not been settled.
LEMMA MoveLocal ==
  ASSUME NEW x \in Call, NEW y \in Call, NEW c \in [Task -> Co], NEW d \in [Task -> Co],
         NEW t \in Task, NEW to \in {"handling", "telling", "thrown", "ended"},
         Local(x, c), d = [c EXCEPT ![t] = to],
         y.at = x.at, y.held = x.held, y.graph = x.graph,
         \/ /\ y.completed = x.completed /\ y.failed = x.failed
            /\ \/ c[t] = "created" /\ to = "handling"
               \/ c[t] = "handling" /\ to = "thrown"
               \/ c[t] \in {"telling", "stopping"} /\ to = "ended"
         \/ /\ c[t] \in {"created", "handling"} /\ to = "telling"
            /\ \/ y.completed = x.completed \cup {t} /\ y.failed = x.failed
               \/ y.completed = x.completed /\ y.failed = x.failed \cup {t}
  PROVE  Local(y, d)
<1> USE DEF Call
<1>1. Untouched(y, d)
  BY DEF Local, Untouched
<1>2. InGraph(y, d)
  BY DEF Local, InGraph
<1>3. Holds(y, d)
  BY DEF Local, Holds, Live
<1>4. Settles(y, d)
  BY DEF Local, Settles, Untouched
<1>5. Stops(y, d)
  BY DEF Local, Stops
<1>6. Quiet(y, d)
  BY DEF Local, Quiet
<1>7. After(y, d)
  BY DEF Local, After, InGraph
<1>8. Limit(d)
  <2>1. LiveOf(d) \subseteq LiveOf(c)
    BY DEF LiveOf, Live
  <2> QED
    BY <2>1, FewerLive DEF Local
<1> QED
  BY <1>1, <1>2, <1>3, <1>4, <1>5, <1>6, <1>7, <1>8 DEF Local

LEMMA TurnLocal ==
  ASSUME Typed, NEW e \in Exec, NEW t \in Task, Turn(e, t), Local(ex[e], co[e])
  PROVE  Local(ex'[e], co'[e])
<1>1. /\ ex[e] \in Call /\ co[e] \in [Task -> Co]
      /\ ex'[e] \in Call /\ co'[e] \in [Task -> Co]
  BY TurnType DEF Typed
<1>2. ASSUME NEW from, NEW to, Move(e, t, from, to)
      PROVE  co[e][t] = from /\ co'[e] = [co[e] EXCEPT ![t] = to]
  BY <1>2 DEF Move, Typed
<1>3. ASSUME Succeed(e, t) \/ Fail(e, t)
      PROVE  /\ ex'[e].at = ex[e].at /\ ex'[e].held = ex[e].held /\ ex'[e].graph = ex[e].graph
             /\ \/ ex'[e].completed = ex[e].completed \cup {t} /\ ex'[e].failed = ex[e].failed
                \/ ex'[e].completed = ex[e].completed /\ ex'[e].failed = ex[e].failed \cup {t}
  <2>1. CASE Succeed(e, t)
    <3>1. ex'[e] = [ex[e] EXCEPT !.status[t] = "completed", !.completed = @ \cup {t}]
      BY <2>1 DEF Succeed, Set, Typed
    <3> QED
      BY <1>1, <3>1 DEF Call
  <2>2. CASE Fail(e, t)
    <3>1. ex'[e] = [ex[e] EXCEPT !.status[t] = "failed", !.failed = @ \cup {t}]
      BY <2>2 DEF Fail, Set, Typed
    <3> QED
      BY <1>1, <3>1 DEF Call
  <2> QED
    BY <1>3, <2>1, <2>2
<1>4. CASE Enter(e, t)
  <2>1. CASE Move(e, t, "created", "handling") /\ UNCHANGED ex
    <3>1. co[e][t] = "created" /\ co'[e] = [co[e] EXCEPT ![t] = "handling"]
      BY <1>2, <2>1
    <3> QED
      BY <1>1, <2>1, <3>1, MoveLocal
  <2>2. CASE Move(e, t, "created", "telling") /\ Fail(e, t)
    <3>1. co[e][t] = "created" /\ co'[e] = [co[e] EXCEPT ![t] = "telling"]
      BY <1>2, <2>2
    <3> QED
      BY <1>1, <1>3, <2>2, <3>1, MoveLocal
  <2> QED
    BY <1>4, <2>1, <2>2 DEF Enter
<1>5. CASE Handled(e, t)
  <2>1. CASE Move(e, t, "handling", "telling") /\ (Succeed(e, t) \/ Fail(e, t))
    <3>1. co[e][t] = "handling" /\ co'[e] = [co[e] EXCEPT ![t] = "telling"]
      BY <1>2, <2>1
    <3> QED
      BY <1>1, <1>3, <2>1, <3>1, MoveLocal
  <2>2. CASE Move(e, t, "handling", "thrown") /\ UNCHANGED ex
    <3>1. co[e][t] = "handling" /\ co'[e] = [co[e] EXCEPT ![t] = "thrown"]
      BY <1>2, <2>2
    <3> QED
      BY <1>1, <2>2, <3>1, MoveLocal
  <2> QED
    BY <1>5, <2>1, <2>2 DEF Handled
<1>6. CASE Published(e, t)
  BY <1>1, <1>2, <1>6, MoveLocal DEF Published
<1>7. CASE Stopped(e, t)
  BY <1>1, <1>2, <1>7, MoveLocal DEF Stopped
<1> QED
  BY <1>4, <1>5, <1>6, <1>7 DEF Turn

\* Where the loop is left: what is held is stopped, or it only publishes still.
LEMMA UnwindLocal ==
  ASSUME Typed, NEW e \in Exec, NEW x \in Call, NEW next \in {"finishing", "raised"},
         Unwind(e, x, next), Local(ex[e], co[e]), ex[e].at \in {"starting", "waiting"},
         x.graph = ex[e].graph, x.completed = ex[e].completed, x.failed = ex[e].failed,
         x.held \subseteq ex[e].held,
         \A t \in ex[e].held \ x.held : co[e][t] \in {"ended", "thrown"},
         next = "finishing" =>
           /\ \A t \in Task : co[e][t] # "thrown"
           /\ ~(Cancelled(x) /\ x.held # {}) => \A t \in Task : co[e][t] \in {"none", "telling", "ended"}
  PROVE  Local(ex'[e], co'[e])
<1> DEFINE c == co[e]
           y == ex'[e]
           d == co'[e]
<1>1. c \in [Task -> Co] /\ ex[e] \in Call /\ ex[e].held \subseteq Nodes(x.graph)
      /\ x.held \subseteq Task
  BY DEF Typed, Local, InGraph, Call
<1>2. CASE Cancelled(x) /\ x.held # {}
  <2>1. /\ y = [x EXCEPT !.at = IF next = "raised" THEN "leaving" ELSE "gathering",
                         !.failed = @ \cup x.held,
                         !.status = [t \in Task |-> IF t \in x.held THEN "cancelled" ELSE @[t]]]
        /\ d = [t \in Task |-> IF t \in x.held /\ c[t] \in Live THEN "stopping" ELSE c[t]]
    BY <1>2 DEF Unwind, Set, Typed
  <2>2. /\ y.at = IF next = "raised" THEN "leaving" ELSE "gathering"
        /\ y.completed = ex[e].completed /\ y.failed = ex[e].failed \cup x.held
        /\ y.held = x.held /\ y.graph = ex[e].graph
    BY <2>1 DEF Call
  <2> HIDE DEF y, d
  <2>3. Untouched(y, d) /\ Holds(y, d) /\ Settles(y, d) /\ Quiet(y, d)
    BY <2>2 DEF Untouched, Holds, Settles, Quiet
  <2>4. InGraph(y, d)
    BY <1>1, <2>1, <2>2 DEF InGraph, Local, Live
  <2>5. Stops(y, d)
    <3> SUFFICES ASSUME next = "finishing", NEW t \in Task
                 PROVE  d[t] \in {"none", "stopping", "ended"} /\ (d[t] = "stopping" => t \in x.held)
      BY <2>2 DEF Stops
    <3>1. c[t] \in Live => t \in x.held
      BY <1>1 DEF Local, Untouched, Holds, Live
    <3>2. c[t] \in Live \cup {"none", "ended"}
      BY <1>1 DEF Co, Live
    <3> QED
      BY <2>1, <3>1, <3>2 DEF Live
  <2>6. After(y, d)
    BY <1>1, <2>1, <2>2 DEF Local, After, InGraph, Live
  <2>7. LiveOf(d) \subseteq LiveOf(c)
    BY <2>1 DEF LiveOf, Live
  <2>8. Limit(d)
    BY <2>7, FewerLive DEF Local
  <2> QED
    BY <2>3, <2>4, <2>5, <2>6, <2>8 DEF Local, y, d
<1>3. CASE ~(Cancelled(x) /\ x.held # {})
  <2>1. y = [x EXCEPT !.at = next] /\ d = c
    BY <1>3 DEF Unwind, Set, Typed
  <2>2. /\ y.at = next /\ y.held = x.held /\ y.graph = ex[e].graph
        /\ y.completed = ex[e].completed /\ y.failed = ex[e].failed
    BY <2>1 DEF Call
  <2> HIDE DEF y
  <2>3. Untouched(y, d) /\ Holds(y, d) /\ Settles(y, d) /\ Stops(y, d)
    BY <2>2 DEF Untouched, Holds, Settles, Stops
  <2>4. InGraph(y, d) /\ After(y, d) /\ Limit(d)
    BY <1>1, <2>1, <2>2 DEF InGraph, After, Local
  <2>5. Quiet(y, d)
    BY <1>3, <2>1, <2>2 DEF Quiet
  <2> QED
    BY <2>3, <2>4, <2>5 DEF Local, y
<1> QED
  BY <1>2, <1>3

\* Where the loop goes on: what is started is ready, unsettled and within the limit.
LEMMA StartLocal ==
  ASSUME Typed, NEW e \in Exec, Local(ex[e], co[e]), ex[e].at \in {"starting", "waiting"},
         \A t \in Ended(e) : co[e][t] # "thrown", Start(e, Collected(e))
  PROVE  Local(ex'[e], co'[e]) /\ ex' \in [Exec -> Call] /\ co' \in [Exec -> [Task -> Co]]
<1> DEFINE x == Collected(e)
           c == co[e]
           y == ex'[e]
           d == co'[e]
<1>1. PICK S \in SUBSET Startable(x) :
        /\ Cardinality(x.held \cup S) <= MaxParallel
        /\ Set(e, [x EXCEPT !.at = "waiting", !.held = @ \cup S,
                            !.status = [t \in Task |-> IF t \in S THEN "running" ELSE @[t]]])
        /\ co' = [co EXCEPT ![e] = [t \in Task |-> IF t \in S THEN "created" ELSE @[t]]]
  BY DEF Start
<1>2. /\ ex[e] \in Call /\ x \in Call /\ c \in [Task -> Co]
      /\ x.held = ex[e].held \ Ended(e) /\ x.graph = ex[e].graph /\ x.at = ex[e].at
      /\ x.completed = ex[e].completed /\ x.failed = ex[e].failed
  BY CollectedType DEF Typed, Collected, Call
<1> HIDE DEF x
<1>3. /\ S \subseteq Nodes(x.graph) /\ S \subseteq Task
      /\ \A t \in S : t \notin x.completed \cup x.failed
                      /\ x.graph.deps[t] \subseteq x.completed \cup x.failed
  BY <1>2 DEF Startable, Ready, Local, InGraph
<1>4. ex' \in [Exec -> Call] /\ co' \in [Exec -> [Task -> Co]]
  BY <1>1, <1>2, <1>3, StartType
<1>5. /\ y = [x EXCEPT !.at = "waiting", !.held = @ \cup S,
                       !.status = [t \in Task |-> IF t \in S THEN "running" ELSE @[t]]]
      /\ d = [t \in Task |-> IF t \in S THEN "created" ELSE c[t]]
  BY <1>1 DEF Set, Typed
<1>6. /\ y.at = "waiting" /\ y.held = x.held \cup S /\ y.graph = ex[e].graph
      /\ y.completed = ex[e].completed /\ y.failed = ex[e].failed
  BY <1>2, <1>5 DEF Call
<1> HIDE DEF y, d
<1>7. Untouched(y, d) /\ Stops(y, d) /\ Quiet(y, d)
  BY <1>6 DEF Untouched, Stops, Quiet
<1>8. InGraph(y, d)
  BY <1>2, <1>3, <1>5, <1>6 DEF InGraph, Local
<1>9. \A t \in Task : d[t] \in Live \cup {"thrown"} => t \in x.held \cup S
  <2> SUFFICES ASSUME NEW t \in Task, t \notin S, c[t] \in Live \cup {"thrown"}
               PROVE  t \in x.held
    BY <1>5
  <2>1. t \in ex[e].held
    BY DEF Local, Untouched, Holds, Live
  <2>2. t \notin Ended(e)
    BY <2>1 DEF Ended, Live
  <2> QED
    BY <1>2, <2>1, <2>2
<1>10. Holds(y, d)
  BY <1>1, <1>6, <1>9 DEF Holds
<1>11. Settles(y, d)
  BY <1>2, <1>3, <1>5, <1>6 DEF Settles, Local, Call
<1>12. After(y, d)
  <2> SUFFICES ASSUME NEW t \in Nodes(ex[e].graph), d[t] # "none", NEW u \in ex[e].graph.deps[t]
               PROVE  /\ u \in ex[e].completed \cup ex[e].failed
                      /\ d[u] \notin {"none", "created", "handling"}
    BY <1>6 DEF After
  <2>1. u \in ex[e].completed \cup ex[e].failed
    BY <1>2, <1>3, <1>5 DEF After, Local, InGraph
  <2>2. c[u] \in {"telling", "ended"}
    BY <2>1 DEF Settles, Local
  <2>3. d[u] = c[u]
    BY <1>2, <1>3, <1>5, <2>1 DEF Call
  <2> QED
    BY <2>1, <2>2, <2>3
<1>13. Limit(d)
  <2>1. IsFiniteSet(x.held \cup S)
    BY <1>2, <1>3, TaskFinite, FS_Subset DEF Call
  <2>2. LiveOf(d) \subseteq x.held \cup S
    BY <1>9 DEF LiveOf
  <2>3. Cardinality(LiveOf(d)) <= Cardinality(x.held \cup S)
        /\ Cardinality(LiveOf(d)) \in Nat /\ Cardinality(x.held \cup S) \in Nat
    BY <2>1, <2>2, FS_Subset, FS_CardinalityType
  <2> QED
    BY <1>1, <2>3, ParallelAssumption DEF Limit
<1> QED
  BY <1>4, <1>7, <1>8, <1>10, <1>11, <1>12, <1>13 DEF Local, y, d

LEMMA PassLocal ==
  ASSUME Typed, NEW e \in Exec, Pass(e), Local(ex[e], co[e]), ex[e].id \in Id
  PROVE  /\ Local(ex'[e], co'[e])
         /\ flags' \in [Id -> {"none", "no", "yes"}]
         /\ ex' \in [Exec -> Call] /\ co' \in [Exec -> [Task -> Co]]
<1> DEFINE x == Collected(e)
<1>1. /\ ex[e] \in Call /\ x \in Call /\ co[e] \in [Task -> Co]
      /\ x.held = ex[e].held \ Ended(e) /\ x.graph = ex[e].graph /\ x.id = ex[e].id
      /\ x.completed = ex[e].completed /\ x.failed = ex[e].failed
  BY CollectedType DEF Typed, Collected, Call
<1>2. ex[e].at \in {"starting", "waiting"} /\ \A t \in Ended(e) : co[e][t] # "thrown"
  BY DEF Pass
<1>3. CASE AllSettled(x) \/ Cancelled(x) \/ (Startable(x) = {} /\ x.held = {})
  <2>1. Unwind(e, x, "finishing")
    BY <1>3 DEF Pass
  <2>2. \A t \in Task : co[e][t] # "thrown"
    BY <1>2 DEF Local, Untouched, Holds, Ended
  <2>3. \A t \in Task : co[e][t] \in Live => t \in x.held
    BY <1>1, <1>2 DEF Local, Untouched, Holds, Ended, Live
  <2>4. ASSUME ~(Cancelled(x) /\ x.held # {}), NEW t \in Task
        PROVE  co[e][t] \in {"none", "telling", "ended"}
    <3>1. CASE x.held = {}
      BY <1>1, <2>2, <2>3, <3>1 DEF Co, Live
    <3>2. CASE x.held # {}
      <4>1. AllSettled(x)
        BY <1>3, <2>4, <3>2
      <4>2. InGraph(x, co[e]) /\ x.completed \cap x.failed = {}
        BY <1>1, <1>2 DEF Local, InGraph, Settles
      <4>3. x.completed \cup x.failed = Nodes(x.graph)
        BY <1>1, <4>1, <4>2, CountedIsSettled
      <4> QED
        BY <1>1, <1>2, <4>3 DEF Local, InGraph, Settles
    <3> QED
      BY <3>1, <3>2
  <2>5. \A t \in ex[e].held \ x.held : co[e][t] \in {"ended", "thrown"}
    BY <1>1 DEF Ended
  <2> HIDE DEF x
  <2>6. Local(ex'[e], co'[e])
    BY <1>1, <1>2, <2>1, <2>2, <2>4, <2>5, UnwindLocal
  <2> QED
    BY <1>1, <2>1, <2>6, UnwindType
<1>4. CASE ~(AllSettled(x) \/ Cancelled(x) \/ (Startable(x) = {} /\ x.held = {}))
  <2>1. Start(e, Collected(e))
    BY <1>4 DEF Pass
  <2>2. flags' = flags
    BY <2>1 DEF Start
  <2> QED
    BY <1>2, <2>1, <2>2, StartLocal DEF Typed
<1> QED
  BY <1>3, <1>4

LEMMA PassThrownLocal ==
  ASSUME Typed, NEW e \in Exec, PassThrown(e), Local(ex[e], co[e]), ex[e].id \in Id
  PROVE  /\ Local(ex'[e], co'[e])
         /\ flags' \in [Id -> {"none", "no", "yes"}]
         /\ ex' \in [Exec -> Call] /\ co' \in [Exec -> [Task -> Co]]
<1> DEFINE x == Abandoned(Collected(e))
<1>1. /\ ex[e] \in Call /\ x \in Call
      /\ x.held = ex[e].held \ Ended(e) /\ x.graph = ex[e].graph /\ x.id = ex[e].id
      /\ x.completed = ex[e].completed /\ x.failed = ex[e].failed
  BY CollectedType DEF Typed, Collected, Abandoned, Call
<1>2. ex[e].at = "waiting" /\ Unwind(e, x, "raised")
  BY DEF PassThrown
<1>3. \A t \in ex[e].held \ x.held : co[e][t] \in {"ended", "thrown"}
  BY <1>1 DEF Ended
<1> HIDE DEF x
<1>4. Local(ex'[e], co'[e])
  BY <1>1, <1>2, <1>3, UnwindLocal
<1> QED
  BY <1>1, <1>2, <1>4, UnwindType

LEMMA AbortLocal ==
  ASSUME Typed, NEW e \in Exec, Abort(e), Local(ex[e], co[e]), ex[e].id \in Id
  PROVE  /\ Local(ex'[e], co'[e])
         /\ flags' \in [Id -> {"none", "no", "yes"}]
         /\ ex' \in [Exec -> Call] /\ co' \in [Exec -> [Task -> Co]]
<1> DEFINE x == Abandoned(ex[e])
<1>1. /\ ex[e] \in Call /\ x \in Call
      /\ x.held = ex[e].held /\ x.graph = ex[e].graph /\ x.id = ex[e].id
      /\ x.completed = ex[e].completed /\ x.failed = ex[e].failed
  BY CollectedType DEF Typed, Abandoned, Call
<1>2. CASE ex[e].at = "waiting" /\ Unwind(e, x, "raised")
  <2> HIDE DEF x
  <2>1. Local(ex'[e], co'[e])
    BY <1>1, <1>2, UnwindLocal
  <2> QED
    BY <1>1, <1>2, <2>1, UnwindType
<1>3. CASE /\ ex[e].at \in {"starting", "gathering", "leaving", "finishing"}
           /\ Set(e, [ex[e] EXCEPT !.at = "raised"])
           /\ UNCHANGED <<flags, co>>
  <2>1. ex'[e] = [ex[e] EXCEPT !.at = "raised"] /\ co' = co /\ flags' = flags
    BY <1>3 DEF Set, Typed
  <2>2. ex' \in [Exec -> Call]
    BY <1>1, <1>3 DEF Set, Typed, Call, At
  <2>3. Local(ex'[e], co'[e])
    BY <1>1, <2>1 DEF Local, Untouched, InGraph, Holds, Settles, Stops, Quiet, After, Call
  <2> QED
    BY <2>1, <2>2, <2>3 DEF Typed
<1> QED
  BY <1>2, <1>3 DEF Abort

LEMMA GatheredLocal ==
  ASSUME Typed, NEW e \in Exec, Gathered(e), Local(ex[e], co[e])
  PROVE  /\ Local(ex'[e], co'[e])
         /\ ex' \in [Exec -> Call]
<1>1. ex[e] \in Call /\ co' = co /\ ex[e].held = Ended(e)
  BY DEF Typed, Gathered
<1>2. PICK next \in {"raised", "finishing"} :
        /\ next = IF ex[e].at = "leaving" THEN "raised" ELSE "finishing"
        /\ Set(e, [ex[e] EXCEPT !.at = next, !.held = {}])
  BY DEF Gathered
<1>3. ex' \in [Exec -> Call]
  BY <1>1, <1>2 DEF Set, Typed, Call, At
<1>4. ex'[e] = [ex[e] EXCEPT !.at = next, !.held = {}]
  BY <1>2 DEF Set, Typed
<1>5. next = "finishing" => \A t \in Task : co[e][t] \in {"none", "telling", "ended"}
  BY <1>1, <1>2 DEF Gathered, Local, Stops, Ended
<1> QED
  BY <1>1, <1>3, <1>4, <1>5
     DEF Local, Untouched, InGraph, Holds, Settles, Stops, Quiet, After, Call

LEMMA ReturnLocal ==
  ASSUME Typed, NEW e \in Exec, Return(e), Local(ex[e], co[e])
  PROVE  /\ Local(ex'[e], co'[e])
         /\ ex' \in [Exec -> Call]
<1>1. ex[e] \in Call /\ co' = co /\ ex[e].at = "finishing"
  BY DEF Typed, Return
<1>2. ex' \in [Exec -> Call]
  BY <1>1 DEF Return, Set, Typed, Call, At
<1>3. ex'[e] = [ex[e] EXCEPT !.at = "returned"]
  BY DEF Return, Set, Typed
<1> QED
  BY <1>1, <1>2, <1>3
     DEF Local, Untouched, InGraph, Holds, Settles, Stops, Quiet, After, Call

LEMMA BeginLocal ==
  ASSUME Typed, NEW e \in Exec, NEW id \in Id, NEW deps \in GraphsOf[e],
         Begin(e, id, deps), Local(ex[e], co[e])
  PROVE  /\ Local(ex'[e], co'[e])
         /\ flags' \in [Id -> {"none", "no", "yes"}]
         /\ ex' \in [Exec -> Call]
<1>1. ex[e] \in Call /\ co' = co /\ ex[e].at = "idle"
  BY DEF Typed, Begin
<1>2. PICK at \in {"starting", "rejected"} :
        Set(e, [ex[e] EXCEPT !.id = id, !.graph = Built(deps), !.at = at])
  BY DEF Begin
<1>3. ex' \in [Exec -> Call]
  BY <1>1, <1>2, BuiltType DEF Set, Typed, Call, At
<1>4. ex'[e] = [ex[e] EXCEPT !.id = id, !.graph = Built(deps), !.at = at]
  BY <1>2 DEF Set, Typed
<1>5. flags' \in [Id -> {"none", "no", "yes"}]
  BY DEF Begin, Typed
<1> HIDE DEF Built
<1>6. Local(ex'[e], co'[e])
  <2>1. /\ ex'[e].at = at /\ ex'[e].graph = Built(deps)
        /\ ex'[e].held = {} /\ ex'[e].completed = {} /\ ex'[e].failed = {}
        /\ \A t \in Task : co[e][t] = "none"
    BY <1>1, <1>4 DEF Call, Local, Untouched
  <2> QED
    BY <1>1, <2>1, BuiltType
       DEF Local, Untouched, InGraph, Holds, Settles, Stops, Quiet, After
<1> QED
  BY <1>3, <1>5, <1>6

-----------------------------------------------------------------------------
(* The flags *)

\* A step of call e that keeps the flags while the loop goes on, or drops e's own flag.
LEMMA FlagsKept ==
  ASSUME Typed, Flagged, NEW e \in Exec,
         \A o \in Exec \ {e} : ex'[o] = ex[o],
         ex'[e].id = ex[e].id, ex[e].at # "idle", ex'[e].at # "idle",
         told' = told,
         \/ flags' = flags /\ (ex'[e].at \in {"starting", "waiting"} =>
                                 ex[e].at \in {"starting", "waiting"})
         \/ flags' = [flags EXCEPT ![ex[e].id] = "none"] /\ ex'[e].at \notin {"starting", "waiting"}
  PROVE  Flagged'
<1>1. \A o \in Exec : ex'[o].id = ex[o].id
  OBVIOUS
<1>2. ASSUME NEW o \in Exec PROVE Alone(o)' => Alone(o)
  BY <1>1 DEF Alone
<1>3. ASSUME NEW o \in Exec
      PROVE  /\ ex'[o].at = "idle" <=> ex'[o].id = NoId
             /\ o \in told' => ex'[o].at # "idle"
  BY DEF Flagged
<1>4. ASSUME NEW o \in Exec, ex'[o].at \in {"starting", "waiting"}, Alone(o)'
      PROVE  /\ flags'[ex'[o].id] # "none"
             /\ o \in told' => flags'[ex'[o].id] = "yes"
  <2>1. flags'[ex[o].id] = flags[ex[o].id]
    <3>1. CASE flags' = flags
      BY <3>1
    <3>2. CASE flags' = [flags EXCEPT ![ex[e].id] = "none"] /\ ex'[e].at \notin {"starting", "waiting"}
      <4>1. o # e
        BY <1>4, <3>2
      <4>2. ex[o].id # ex[e].id
        BY <1>2, <1>4, <4>1 DEF Alone
      <4> QED
        BY <3>2, <4>2 DEF Typed
    <3> QED
      BY <3>1, <3>2
  <2>2. ex[o].at \in {"starting", "waiting"}
    BY <1>4
  <2>3. Alone(o)
    BY <1>2, <1>4
  <2> QED
    BY <1>1, <2>1, <2>2, <2>3 DEF Flagged
<1> QED
  BY <1>3, <1>4 DEF Flagged

LEMMA BeginFlags ==
  ASSUME Typed, Flagged, NEW e \in Exec, NEW id \in Id, NEW deps \in GraphsOf[e],
         Begin(e, id, deps)
  PROVE  Flagged'
<1>1. PICK at \in {"starting", "rejected"} :
        /\ ex' = [ex EXCEPT ![e] = [ex[e] EXCEPT !.id = id, !.graph = Built(deps), !.at = at]]
        /\ flags' = [flags EXCEPT ![id] = IF at = "starting" THEN "no" ELSE "none"]
  BY DEF Begin, Set
<1>2. ex[e] \in Call /\ ex[e].at = "idle" /\ told' = told /\ e \notin told /\ ex[e].id = NoId
  BY DEF Typed, Begin, Flagged
<1>3. ex'[e].at = at /\ ex'[e].id = id /\ \A o \in Exec \ {e} : ex'[o] = ex[o]
  BY <1>1, <1>2 DEF Typed, Call
<1> SUFFICES ASSUME NEW o \in Exec
             PROVE  /\ ex'[o].at = "idle" <=> ex'[o].id = NoId
                    /\ o \in told' => ex'[o].at # "idle"
                    /\ (ex'[o].at \in {"starting", "waiting"} /\ Alone(o)') =>
                         /\ flags'[ex'[o].id] # "none"
                         /\ o \in told' => flags'[ex'[o].id] = "yes"
  BY DEF Flagged
<1>4. CASE o = e
  BY <1>1, <1>2, <1>3, <1>4, IdAssumption DEF Typed
<1>5. CASE o # e
  <2>1. ex'[o] = ex[o]
    BY <1>3, <1>5
  <2>2. ASSUME ex'[o].at \in {"starting", "waiting"}, Alone(o)'
        PROVE  Alone(o) /\ flags'[ex[o].id] = flags[ex[o].id]
    <3>1. ex[o].id # NoId
      BY <2>1, <2>2 DEF Flagged
    <3>2. ex[o].id # id
      BY <1>3, <1>5, <2>1, <2>2 DEF Alone
    <3>3. Alone(o)
      BY <1>2, <1>3, <2>1, <2>2, <3>1 DEF Alone
    <3> QED
      BY <1>1, <3>2, <3>3 DEF Typed
  <2> QED
    BY <1>2, <2>1, <2>2 DEF Flagged
<1> QED
  BY <1>4, <1>5

LEMMA CancelFlags ==
  ASSUME Typed, Flagged, NEW ids \in SUBSET Id, Cancel(ids)
  PROVE  Typed' /\ Flagged'
<1>1. /\ flags' = [i \in Id |-> IF i \in ids /\ flags[i] # "none" THEN "yes" ELSE flags[i]]
      /\ told' = told \cup {e \in Exec : ex[e].at \in {"starting", "waiting"} /\ ex[e].id \in ids}
      /\ ex' = ex /\ co' = co /\ cancels' = cancels + 1
  BY DEF Cancel
<1>2. Typed'
  BY <1>1 DEF Typed
<1>3. \A o \in Exec : ex[o].at \in {"starting", "waiting"} => ex[o].id \in Id
  BY DEF Flagged, Typed, Call
<1>4. \A o \in Exec : Alone(o)' <=> Alone(o)
  BY <1>1 DEF Alone
<1>5. Flagged'
  BY <1>1, <1>3, <1>4 DEF Flagged
<1> QED
  BY <1>2, <1>5

\* Leaving the loop drops the call's own flag.
LEMMA UnwindFlags ==
  ASSUME Typed, Flagged, NEW e \in Exec, NEW x \in Call, NEW next \in {"finishing", "raised"},
         Unwind(e, x, next), x.id = ex[e].id, ex[e].at # "idle", told' = told
  PROVE  Flagged'
<1>1. PICK y \in {[x EXCEPT !.at = next],
                  [x EXCEPT !.at = IF next = "raised" THEN "leaving" ELSE "gathering",
                            !.failed = @ \cup x.held,
                            !.status = [t \in Task |-> IF t \in x.held THEN "cancelled" ELSE @[t]]]} :
        ex' = [ex EXCEPT ![e] = y]
  BY DEF Unwind, Set
<1>2. y.id = x.id /\ y.at \in {"finishing", "raised", "leaving", "gathering"}
  BY <1>1 DEF Call
<1>3. ex'[e] = y /\ \A o \in Exec \ {e} : ex'[o] = ex[o]
  BY <1>1 DEF Typed
<1>4. flags' = [flags EXCEPT ![ex[e].id] = "none"]
  BY DEF Unwind
<1> QED
  BY <1>2, <1>3, <1>4, FlagsKept

LEMMA PassFlags ==
  ASSUME Typed, Flagged, NEW e \in Exec, Pass(e)
  PROVE  Flagged'
<1> DEFINE x == Collected(e)
<1>1. /\ x \in Call /\ x.id = ex[e].id /\ ex[e] \in Call /\ told' = told
      /\ ex[e].at \in {"starting", "waiting"}
  BY CollectedType DEF Typed, Collected, Call, Pass
<1>2. CASE Unwind(e, x, "finishing")
  <2> HIDE DEF x
  <2> QED
    BY <1>1, <1>2, UnwindFlags
<1>3. CASE Start(e, x)
  <2>1. PICK S \in SUBSET Startable(x) :
          Set(e, [x EXCEPT !.at = "waiting", !.held = @ \cup S,
                           !.status = [t \in Task |-> IF t \in S THEN "running" ELSE @[t]]])
    BY <1>3 DEF Start
  <2>2. /\ ex'[e].at = "waiting" /\ ex'[e].id = ex[e].id /\ flags' = flags
        /\ \A o \in Exec \ {e} : ex'[o] = ex[o]
    BY <1>1, <1>3, <2>1 DEF Set, Typed, Start, Call
  <2> QED
    BY <1>1, <2>2, FlagsKept
<1> QED
  BY <1>2, <1>3 DEF Pass

-----------------------------------------------------------------------------
(* The invariant *)

LEMMA InitInv == Init => WInv
<1> SUFFICES ASSUME Init PROVE WInv
  OBVIOUS
<1>1. Built(<<>>) \in Graph /\ Nodes(Built(<<>>)) = {}
  BY DEF Built, Graph, Nodes
<1>2. Typed
  BY <1>1 DEF Init, Typed, Call, At, TaskStatus, Co
<1>3. ASSUME NEW e \in Exec PROVE Local(ex[e], co[e])
  <2>1. /\ ex[e].at = "idle" /\ ex[e].completed = {} /\ ex[e].failed = {} /\ ex[e].held = {}
        /\ Nodes(ex[e].graph) = {} /\ \A t \in Task : co[e][t] = "none"
    BY <1>1 DEF Init
  <2>2. LiveOf(co[e]) = {}
    BY <2>1 DEF LiveOf, Live
  <2>3. Limit(co[e])
    BY <2>2, FS_EmptySet, ParallelAssumption DEF Limit
  <2> QED
    BY <2>1, <2>3 DEF Local, Untouched, InGraph, Holds, Settles, Stops, Quiet, After
<1>4. Flagged
  BY DEF Init, Flagged
<1> QED
  BY <1>2, <1>3, <1>4 DEF WInv

\* A step is a step of one call, or a cancel().
LEMMA OneCall ==
  ASSUME Typed, NEW e \in Exec,
         \/ \E id \in Id, deps \in GraphsOf[e] : Begin(e, id, deps)
         \/ Loop(e) \/ Abort(e) \/ \E t \in Task : Turn(e, t)
  PROVE  \A o \in Exec \ {e} : ex'[o] = ex[o] /\ co'[o] = co[o]
<1>1. ASSUME NEW x, NEW next, Unwind(e, x, next)
      PROVE  \A o \in Exec \ {e} : ex'[o] = ex[o] /\ co'[o] = co[o]
  BY <1>1 DEF Unwind, Set, Typed
<1>2. CASE \E id \in Id, deps \in GraphsOf[e] : Begin(e, id, deps)
  BY <1>2 DEF Begin, Set, Typed
<1>3. CASE Pass(e)
  BY <1>1, <1>3 DEF Pass, Start, Set, Typed
<1>4. CASE PassThrown(e)
  BY <1>1, <1>4 DEF PassThrown
<1>5. CASE Gathered(e) \/ Return(e)
  BY <1>5 DEF Gathered, Return, Set, Typed
<1>6. CASE Abort(e)
  BY <1>1, <1>6 DEF Abort, Set, Typed
<1>7. CASE \E t \in Task : Turn(e, t)
  BY <1>7 DEF Turn, Enter, Handled, Published, Stopped, Move, Succeed, Fail, Set, Typed
<1> QED
  BY <1>2, <1>3, <1>4, <1>5, <1>6, <1>7 DEF Loop

\* The call that moved is not idle, so it has an id.
LEMMA HasId ==
  ASSUME Typed, Flagged, NEW e \in Exec, Loop(e) \/ Abort(e)
  PROVE  ex[e].at # "idle" /\ ex[e].id \in Id
<1>1. ex[e] \in Call
  BY DEF Typed
<1>2. ex[e].at # "idle"
  BY DEF Loop, Pass, PassThrown, Gathered, Return, Abort
<1> QED
  BY <1>1, <1>2 DEF Flagged, Call

LEMMA LoopInv ==
  ASSUME Typed, Flagged, NEW e \in Exec, Local(ex[e], co[e]), Loop(e) \/ Abort(e)
  PROVE  Typed' /\ Flagged' /\ Local(ex'[e], co'[e])
<1>1. ex[e].at # "idle" /\ ex[e].id \in Id /\ ex[e] \in Call
  BY HasId DEF Typed
<1>2. \A o \in Exec \ {e} : ex'[o] = ex[o]
  BY OneCall
<1>3. CASE Pass(e)
  BY <1>1, <1>3, PassLocal, PassFlags DEF Typed, Pass
<1>4. CASE PassThrown(e)
  <2>1. PICK x \in Call : x.id = ex[e].id /\ Unwind(e, x, "raised")
    BY <1>4, CollectedType DEF PassThrown, Collected, Abandoned, Call
  <2>2. Flagged'
    BY <1>1, <1>4, <2>1, UnwindFlags DEF PassThrown
  <2> QED
    BY <1>1, <1>4, <2>2, PassThrownLocal DEF Typed, PassThrown
<1>5. CASE Gathered(e)
  <2>1. Typed' /\ Local(ex'[e], co'[e])
    BY <1>5, GatheredLocal DEF Typed, Gathered
  <2>2. ex'[e].id = ex[e].id /\ ex'[e].at \in {"raised", "finishing"}
    BY <1>1, <1>5 DEF Gathered, Set, Typed, Call
  <2> QED
    BY <1>1, <1>2, <1>5, <2>1, <2>2, FlagsKept DEF Gathered
<1>6. CASE Return(e)
  <2>1. Typed' /\ Local(ex'[e], co'[e])
    BY <1>6, ReturnLocal DEF Typed, Return
  <2>2. ex'[e].id = ex[e].id /\ ex'[e].at = "returned"
    BY <1>1, <1>6 DEF Return, Set, Typed, Call
  <2> QED
    BY <1>1, <1>2, <1>6, <2>1, <2>2, FlagsKept DEF Return
<1>7. CASE Abort(e)
  <2>1. Typed' /\ Local(ex'[e], co'[e])
    <3>1. told' = told /\ cancels' = cancels + 1
      BY <1>7 DEF Abort
    <3>2. /\ Local(ex'[e], co'[e])
          /\ flags' \in [Id -> {"none", "no", "yes"}]
          /\ ex' \in [Exec -> Call] /\ co' \in [Exec -> [Task -> Co]]
      BY <1>1, <1>7, AbortLocal
    <3> QED
      BY <3>1, <3>2 DEF Typed
  <2>2. CASE ex[e].at = "waiting" /\ Unwind(e, Abandoned(ex[e]), "raised")
    <3>1. Abandoned(ex[e]) \in Call /\ Abandoned(ex[e]).id = ex[e].id
      BY <1>1, CollectedType DEF Abandoned, Call
    <3> QED
      BY <1>1, <1>7, <2>1, <2>2, <3>1, UnwindFlags DEF Abort
  <2>3. CASE Set(e, [ex[e] EXCEPT !.at = "raised"]) /\ UNCHANGED <<flags, co>>
    <3>1. ex'[e].id = ex[e].id /\ ex'[e].at = "raised"
      BY <1>1, <2>3 DEF Set, Typed, Call
    <3> QED
      BY <1>1, <1>2, <1>7, <2>1, <2>3, <3>1, FlagsKept DEF Abort
  <2> QED
    BY <1>7, <2>2, <2>3 DEF Abort
<1> QED
  BY <1>3, <1>4, <1>5, <1>6, <1>7 DEF Loop

LEMMA TurnInv ==
  ASSUME Typed, Flagged, NEW e \in Exec, NEW t \in Task, Local(ex[e], co[e]), Turn(e, t)
  PROVE  Typed' /\ Flagged' /\ Local(ex'[e], co'[e])
<1>1. Typed' /\ Local(ex'[e], co'[e])
  BY TurnType, TurnLocal
<1>2. /\ ex[e] \in Call /\ flags' = flags /\ told' = told
      /\ Succeed(e, t) \/ Fail(e, t) \/ UNCHANGED ex
      /\ co[e][t] # "none"
  BY DEF Typed, Turn, Enter, Handled, Published, Stopped, Move
<1>3. ex'[e].id = ex[e].id /\ ex'[e].at = ex[e].at
  <2>1. CASE Succeed(e, t)
    <3>1. ex'[e] = [ex[e] EXCEPT !.status[t] = "completed", !.completed = @ \cup {t}]
      BY <2>1 DEF Succeed, Set, Typed
    <3> QED
      BY <1>2, <3>1 DEF Call
  <2>2. CASE Fail(e, t)
    <3>1. ex'[e] = [ex[e] EXCEPT !.status[t] = "failed", !.failed = @ \cup {t}]
      BY <2>2 DEF Fail, Set, Typed
    <3> QED
      BY <1>2, <3>1 DEF Call
  <2> QED
    BY <1>2, <2>1, <2>2
<1>4. ex[e].at # "idle"
  BY <1>2 DEF Local, Untouched
<1>5. \A o \in Exec \ {e} : ex'[o] = ex[o]
  BY OneCall
<1> QED
  BY <1>1, <1>2, <1>3, <1>4, <1>5, FlagsKept

LEMMA NextInv == WInv /\ [Next]_vars => WInv'
<1> SUFFICES ASSUME WInv, [Next]_vars PROVE WInv'
  OBVIOUS
<1>1. Typed /\ Flagged /\ \A e \in Exec : Local(ex[e], co[e])
  BY DEF WInv
<1>2. ASSUME NEW e \in Exec, Typed', Flagged', Local(ex'[e], co'[e]),
             \A o \in Exec \ {e} : ex'[o] = ex[o] /\ co'[o] = co[o]
      PROVE  WInv'
  BY <1>1, <1>2 DEF WInv
<1>3. CASE \E e \in Exec : \E id \in Id, deps \in GraphsOf[e] : Begin(e, id, deps)
  <2>a. PICK e \in Exec : \E id \in Id, deps \in GraphsOf[e] : Begin(e, id, deps)
    BY <1>3
  <2>1. PICK id \in Id, deps \in GraphsOf[e] : Begin(e, id, deps)
    BY <2>a
  <2>2. Typed' /\ Local(ex'[e], co'[e])
    BY <1>1, <2>1, BeginLocal DEF Typed, Begin
  <2>3. Flagged'
    BY <1>1, <2>1, BeginFlags
  <2> QED
    BY <1>1, <1>2, <2>1, <2>2, <2>3, OneCall
<1>4. CASE \E e \in Exec : Loop(e) \/ Abort(e)
  BY <1>1, <1>2, <1>4, LoopInv, OneCall
<1>5. CASE \E e \in Exec, t \in Task : Turn(e, t)
  BY <1>1, <1>2, <1>5, TurnInv, OneCall
<1>6. CASE \E ids \in SUBSET Id : Cancel(ids)
  BY <1>1, <1>6, CancelFlags DEF WInv, Cancel
<1>7. CASE UNCHANGED vars
  BY <1>1, <1>7 DEF vars, WInv, Typed, Flagged, Alone
<1> QED
  BY <1>3, <1>4, <1>5, <1>6, <1>7 DEF Next, Loop, Turn

\* What every reachable state satisfies.
LEMMA SpecInv == Spec => []WInv
BY InitInv, NextInv, PTL DEF Spec

-----------------------------------------------------------------------------
(* The type invariant *)

\* A call's graph is empty or built from one it may be given: nothing changes it later.
Given(e) == ex[e].graph \in {Built(deps) : deps \in GraphsOf[e] \cup {<<>>}}

GraphsGiven == (\A e \in Exec : Given(e)) /\ cancels \in 0..MaxCancels

LEMMA UnwindGraph ==
  ASSUME Typed, NEW e \in Exec, NEW x \in Call, NEW next, Unwind(e, x, next)
  PROVE  ex'[e].graph = x.graph
<1>1. PICK y \in {[x EXCEPT !.at = next],
                  [x EXCEPT !.at = IF next = "raised" THEN "leaving" ELSE "gathering",
                            !.failed = @ \cup x.held,
                            !.status = [t \in Task |-> IF t \in x.held THEN "cancelled" ELSE @[t]]]} :
        ex' = [ex EXCEPT ![e] = y]
  BY DEF Unwind, Set
<1>2. y.graph = x.graph
  BY <1>1 DEF Call
<1> QED
  BY <1>1, <1>2 DEF Typed

LEMMA GraphKept ==
  ASSUME Typed, NEW e \in Exec, Loop(e) \/ Abort(e) \/ \E t \in Task : Turn(e, t)
  PROVE  ex'[e].graph = ex[e].graph
<1>1. /\ ex[e] \in Call /\ Collected(e) \in Call
      /\ Abandoned(Collected(e)) \in Call /\ Abandoned(ex[e]) \in Call
  BY CollectedType DEF Typed
<1>2. /\ Collected(e).graph = ex[e].graph
      /\ Abandoned(Collected(e)).graph = ex[e].graph
      /\ Abandoned(ex[e]).graph = ex[e].graph
  BY <1>1 DEF Collected, Abandoned, Call
<1>3. CASE Pass(e)
  <2>1. CASE Unwind(e, Collected(e), "finishing")
    BY <1>1, <1>2, <2>1, UnwindGraph
  <2>2. ASSUME NEW x \in Call, Start(e, x) PROVE ex'[e].graph = x.graph
    BY <2>2 DEF Start, Set, Typed, Call
  <2> QED
    BY <1>1, <1>2, <1>3, <2>1, <2>2 DEF Pass
<1>4. CASE PassThrown(e)
  BY <1>1, <1>2, <1>4, UnwindGraph DEF PassThrown
<1>5. CASE Gathered(e) \/ Return(e)
  <2>1. CASE Gathered(e)
    <3>1. ex'[e] = [ex[e] EXCEPT !.at = IF @ = "leaving" THEN "raised" ELSE "finishing",
                                 !.held = {}]
      BY <2>1 DEF Gathered, Set, Typed
    <3> QED
      BY <1>1, <3>1 DEF Call
  <2>2. CASE Return(e)
    BY <1>1, <2>2 DEF Return, Set, Typed, Call
  <2> QED
    BY <1>5, <2>1, <2>2
<1>6. CASE Abort(e)
  <2>1. CASE Set(e, [ex[e] EXCEPT !.at = "raised"])
    BY <1>1, <2>1 DEF Set, Typed, Call
  <2> QED
    BY <1>1, <1>2, <1>6, <2>1, UnwindGraph DEF Abort
<1>7. ASSUME NEW t \in Task, Succeed(e, t) \/ Fail(e, t)
      PROVE  ex'[e].graph = ex[e].graph
  <2>1. CASE Succeed(e, t)
    <3>1. ex'[e] = [ex[e] EXCEPT !.status[t] = "completed", !.completed = @ \cup {t}]
      BY <2>1 DEF Succeed, Set, Typed
    <3> QED
      BY <1>1, <3>1 DEF Call
  <2>2. CASE Fail(e, t)
    <3>1. ex'[e] = [ex[e] EXCEPT !.status[t] = "failed", !.failed = @ \cup {t}]
      BY <2>2 DEF Fail, Set, Typed
    <3> QED
      BY <1>1, <3>1 DEF Call
  <2> QED
    BY <1>7, <2>1, <2>2
<1>8. CASE \E t \in Task : Turn(e, t)
  BY <1>7, <1>8 DEF Turn, Enter, Handled, Published, Stopped
<1> QED
  BY <1>3, <1>4, <1>5, <1>6, <1>8 DEF Loop

LEMMA GraphsGivenNext == Typed /\ GraphsGiven /\ [Next]_vars => GraphsGiven'
<1> SUFFICES ASSUME Typed, GraphsGiven, [Next]_vars PROVE GraphsGiven'
  OBVIOUS
<1>1. cancels' \in 0..MaxCancels
  <2>1. cancels' = cancels \/ (cancels < MaxCancels /\ cancels' = cancels + 1)
    BY DEF Next, vars, Begin, Pass, PassThrown, Gathered, Return, Abort, Cancel,
           Enter, Handled, Published, Stopped, Move
  <2> QED
    BY <2>1, CancelsAssumption DEF GraphsGiven
<1>2. ASSUME NEW e \in Exec, Given(e)', \A o \in Exec \ {e} : ex'[o] = ex[o]
      PROVE  GraphsGiven'
  BY <1>1, <1>2 DEF GraphsGiven, Given
<1>3. CASE \E e \in Exec : \E id \in Id, deps \in GraphsOf[e] : Begin(e, id, deps)
  <2>a. PICK e \in Exec : \E id \in Id, deps \in GraphsOf[e] : Begin(e, id, deps)
    BY <1>3
  <2>1. PICK id \in Id, deps \in GraphsOf[e] : Begin(e, id, deps)
    BY <2>a
  <2>2. ex'[e].graph = Built(deps)
    BY <2>1 DEF Begin, Set, Typed, Call
  <2> QED
    BY <1>2, <2>1, <2>2, OneCall DEF Given
<1>4. CASE \E e \in Exec : Loop(e) \/ Abort(e) \/ \E t \in Task : Turn(e, t)
  <2>1. PICK e \in Exec : Loop(e) \/ Abort(e) \/ \E t \in Task : Turn(e, t)
    BY <1>4
  <2>2. Given(e)'
    BY <2>1, GraphKept DEF GraphsGiven, Given
  <2> QED
    BY <1>2, <2>1, <2>2, OneCall
<1>5. CASE (\E ids \in SUBSET Id : Cancel(ids)) \/ UNCHANGED vars
  BY <1>1, <1>5 DEF Cancel, vars, GraphsGiven, Given
<1> QED
  BY <1>3, <1>4, <1>5 DEF Next, Loop, Turn

\* Every variable keeps its type: a call's graph is one it was given, its two maps are
\* inverse, and what execute() holds, completes or fails are tasks of that graph.
THEOREM WorkflowTypes == Spec => []TypeOK
<1>1. Init => GraphsGiven
  BY CancelsAssumption DEF Init, GraphsGiven, Given
<1>2. Spec => []GraphsGiven
  <2>1. WInv => Typed
    BY DEF WInv
  <2> QED
    BY <1>1, <2>1, GraphsGivenNext, SpecInv, PTL DEF Spec
<1>3. WInv /\ GraphsGiven => TypeOK
  <2> SUFFICES ASSUME WInv, GraphsGiven PROVE TypeOK
    OBVIOUS
  <2>1. ASSUME NEW e \in Exec
        PROVE  /\ ex[e].at \in At /\ ex[e].id \in Id \cup {NoId}
               /\ ex[e].status \in [Task -> TaskStatus]
               /\ {ex[e].completed, ex[e].failed, ex[e].held} \subseteq SUBSET Nodes(ex[e].graph)
    BY DEF WInv, Typed, Call, Local, InGraph
  <2>2. ASSUME NEW e \in Exec
        PROVE  /\ ex[e].graph.deps \in GraphsOf[e] \cup {<<>>}
               /\ \A d \in Task : ex[e].graph.rdeps[d]
                                  = {t \in Nodes(ex[e].graph) : d \in ex[e].graph.deps[t]}
    BY DEF GraphsGiven, Given, Built, Nodes
  <2> QED
    BY <2>1, <2>2 DEF TypeOK, WInv, Typed, GraphsGiven
<1> QED
  BY <1>2, <1>3, SpecInv, PTL

-----------------------------------------------------------------------------
(* Theorems *)

\* For every graph, limit and number of calls, a task starts when the handlers of all it
\* depends on are over (get_ready_tasks and the update of completed and failed).
THEOREM StartsAfterDependencies == Spec => []DependenciesFirst
<1>1. WInv => DependenciesFirst
  BY DEF WInv, Local, After, DependenciesFirst
<1> QED
  BY <1>1, SpecInv, PTL

\* No call ever has more than max_parallel_agents coroutines, those a cancelled caller
\* left behind included.
THEOREM KeepsTheLimit == Spec => []AtMostParallel
<1>1. WInv => AtMostParallel
  BY DEF WInv, Local, Limit, LiveOf, AtMostParallel
<1> QED
  BY <1>1, SpecInv, PTL

LEMMA StepStartsNone ==
  ASSUME WInv, [Next]_vars
  PROVE  NoneStarted
<1> SUFFICES ASSUME NEW e \in Exec, e \in told, Alone(e), NEW t \in Task, co[e][t] = "none"
             PROVE  co'[e][t] = "none"
  BY DEF NoneStarted, WInv, Typed
<1>1. Typed /\ Flagged
  BY DEF WInv
<1>2. ASSUME NEW o \in Exec \ {e},
             \/ \E id \in Id, deps \in GraphsOf[o] : Begin(o, id, deps)
             \/ Loop(o) \/ Abort(o) \/ \E u \in Task : Turn(o, u)
      PROVE  co'[e][t] = "none"
  BY <1>1, <1>2, OneCall
<1>3. ASSUME NEW x, NEW next, Unwind(e, x, next) PROVE co'[e][t] = "none"
  BY <1>1, <1>3 DEF Unwind, Typed, Live
<1>4. CASE Pass(e)
  <2>1. /\ ex[e].at \in {"starting", "waiting"} /\ Collected(e).id = ex[e].id
    BY <1>1, <1>4 DEF Pass, Collected, Typed, Call
  <2>2. Cancelled(Collected(e))
    BY <1>1, <2>1 DEF Flagged, Cancelled
  <2> QED
    BY <1>3, <1>4, <2>2 DEF Pass
<1>5. CASE PassThrown(e) \/ Abort(e)
  BY <1>3, <1>5 DEF PassThrown, Abort
<1>6. CASE Gathered(e) \/ Return(e) \/ \E id \in Id, deps \in GraphsOf[e] : Begin(e, id, deps)
  BY <1>6 DEF Gathered, Return, Begin
<1>7. CASE \E u \in Task : Turn(e, u)
  BY <1>1, <1>7 DEF Turn, Enter, Handled, Published, Stopped, Move, Typed
<1>8. CASE (\E ids \in SUBSET Id : Cancel(ids)) \/ UNCHANGED vars
  BY <1>8 DEF Cancel, vars
<1> QED
  BY <1>1, <1>2, <1>4, <1>5, <1>6, <1>7, <1>8 DEF Next, Loop, Turn

\* From the moment cancel() is called, an execution that has its id to itself starts no
\* task, whatever ends or is cancelled meanwhile.
THEOREM CancelledStartsNone == Spec => CancelStops
BY SpecInv, StepStartsNone, PTL DEF CancelStops, Spec

-----------------------------------------------------------------------------
(* Every task is settled *)

InLoop(x) == x.at \in {"starting", "waiting"}

\* In the loop what is marked running is held and has not been settled.
Runs(x, c) ==
  (x.at = "idle" \/ InLoop(x)) =>
    \A t \in Task : x.status[t] = "running" =>
      t \in x.held /\ c[t] \in {"created", "handling", "thrown"}

\* The loop is entered with a graph that validate() has accepted.
Accepted(x) == InLoop(x) => WellFormed(x.graph) /\ Closed(x.graph) /\ Acyclic(x.graph)

\* The flag of a call in its loop is set by a cancel() that found it there.
Asked(e) ==
  ex[e].at = "gathering" \/ (InLoop(ex[e]) /\ flags[ex[e].id] = "yes") => e \in told

\* A call that was not cancelled leaves the loop with every task settled.
Whole(e) ==
  (ex[e].at \in {"finishing", "returned"} /\ e \notin told) =>
    /\ ex[e].completed \cup ex[e].failed = Nodes(ex[e].graph)
    /\ ex[e].completed \cap ex[e].failed = {}

Sound(e) == Runs(ex[e], co[e]) /\ Accepted(ex[e]) /\ Asked(e) /\ Whole(e)

AllSound == \A e \in Exec : Sound(e)

\* An acyclic graph always has a task that waits for nothing unsettled.
LEMMA SomeReady ==
  ASSUME NEW g, Closed(g), Acyclic(g), NEW settled, Ready(g, settled) = {}
  PROVE  Nodes(g) \subseteq settled
<1> DEFINE S == Nodes(g) \ settled
<1>1. ASSUME S # {} PROVE FALSE
  <2>1. S \in SUBSET Nodes(g)
    OBVIOUS
  <2>2. PICK t \in S : g.deps[t] \cap S = {}
    BY <1>1, <2>1 DEF Acyclic
  <2>3. g.deps[t] \subseteq settled
    BY <2>2 DEF Closed
  <2> QED BY <2>2, <2>3 DEF Ready
<1> QED BY <1>1

\* Where a pass of the loop of a call that was not cancelled ends it.
LEMMA AllAreSettled ==
  ASSUME Typed, NEW e \in Exec, Local(ex[e], co[e]), Sound(e), InLoop(ex[e]),
         \A t \in Ended(e) : co[e][t] # "thrown",
         LET x == Collected(e)
         IN  AllSettled(x) \/ (Startable(x) = {} /\ x.held = {})
  PROVE  /\ ex[e].completed \cup ex[e].failed = Nodes(ex[e].graph)
         /\ ex[e].completed \cap ex[e].failed = {}
<1> DEFINE x == Collected(e)
           c == co[e]
           U == ex[e].completed \cup ex[e].failed
<1>1. ex[e] \in Call /\ x \in Call
  BY CollectedType DEF Typed
<1>2. /\ x.completed = ex[e].completed /\ x.failed = ex[e].failed /\ x.graph = ex[e].graph
      /\ x.status = ex[e].status /\ x.at = ex[e].at /\ x.held = ex[e].held \ Ended(e)
  BY <1>1 DEF Collected, Call
<1>3. ex[e].completed \cap ex[e].failed = {} /\ U \subseteq Nodes(ex[e].graph)
      /\ Nodes(ex[e].graph) \subseteq Task
  BY DEF Local, Settles, InLoop, InGraph
<1> HIDE DEF x
<1>4. CASE AllSettled(x)
  <2>1. InGraph(x, c)
    BY <1>2 DEF Local, InGraph
  <2> QED BY <1>1, <1>2, <1>3, <1>4, <2>1, CountedIsSettled
<1>5. CASE Startable(x) = {} /\ x.held = {}
  <2>1. \A t \in Task : x.status[t] # "running"
    <3> SUFFICES ASSUME NEW t \in Task, x.status[t] = "running" PROVE FALSE
      OBVIOUS
    <3>1. t \in ex[e].held /\ c[t] \in {"created", "handling", "thrown"}
      BY <1>2 DEF Sound, Runs, InLoop
    <3>2. t \in Ended(e)
      BY <1>2, <1>5, <3>1
    <3> QED BY <3>1, <3>2 DEF Ended
  <2>2. Ready(ex[e].graph, U) = {}
    BY <1>2, <1>3, <1>5, <2>1 DEF Startable, Ready
  <2>3. Closed(ex[e].graph) /\ Acyclic(ex[e].graph)
    BY DEF Sound, Accepted
  <2>4. Nodes(ex[e].graph) \subseteq U
    BY <2>2, <2>3, SomeReady
  <2> QED BY <1>3, <2>4
<1> QED BY <1>4, <1>5 DEF x

-----------------------------------------------------------------------------
(* Steps *)

LEMMA BeginSound ==
  ASSUME Typed, NEW e \in Exec, NEW id \in Id, NEW deps \in GraphsOf[e], Sound(e),
         Begin(e, id, deps)
  PROVE  Sound(e)'
<1> DEFINE y == ex'[e]
           g == Built(deps)
<1>1. y = [ex[e] EXCEPT !.id = id, !.graph = g,
                        !.at = IF Valid(g) THEN "starting" ELSE "rejected"]
      /\ flags' = [flags EXCEPT ![id] = IF Valid(g) THEN "no" ELSE "none"]
      /\ co' = co /\ told' = told /\ ex[e].at = "idle"
  BY DEF Begin, Set, Typed
<1>2. /\ y.at = (IF Valid(g) THEN "starting" ELSE "rejected") /\ y.id = id /\ y.graph = g
      /\ y.status = ex[e].status /\ y.held = ex[e].held
  BY <1>1 DEF Typed, Call
<1>3. WellFormed(g)
  BY GraphAssumption, BuiltIsWellFormed
<1>4. Valid(g) => Closed(g) /\ Acyclic(g)
  BY <1>3, ValidMeans
<1> HIDE DEF y, g
<1>5. Runs(y, co'[e])
  BY <1>1, <1>2 DEF Sound, Runs, InLoop
<1>6. Accepted(y)
  BY <1>2, <1>3, <1>4 DEF Accepted, InLoop
<1>7. y.at # "gathering" /\ y.at \notin {"finishing", "returned"}
      /\ (InLoop(y) => flags'[y.id] = "no")
  BY <1>1, <1>2 DEF InLoop, Typed
<1> QED BY <1>5, <1>6, <1>7 DEF Sound, Asked, Whole, y

\* Leaving the loop.
LEMMA UnwindSound ==
  ASSUME Typed, NEW e \in Exec, Sound(e), InLoop(ex[e]),
         NEW x \in Call, NEW next \in {"finishing", "raised"}, Unwind(e, x, next),
         x.id = ex[e].id, ex[e].id \in Id, told' = told,
         (next = "finishing" /\ e \notin told) =>
           /\ x.completed \cup x.failed = Nodes(x.graph)
           /\ x.completed \cap x.failed = {}
  PROVE  Sound(e)'
<1> DEFINE y == ex'[e]
<1>1. CASE Cancelled(x) /\ x.held # {}
  <2>1. y = [x EXCEPT !.at = IF next = "raised" THEN "leaving" ELSE "gathering",
                      !.failed = @ \cup x.held,
                      !.status = [t \in Task |-> IF t \in x.held THEN "cancelled" ELSE @[t]]]
    BY <1>1 DEF Unwind, Set, Typed
  <2>2. y.at = IF next = "raised" THEN "leaving" ELSE "gathering"
    BY <2>1 DEF Call
  <2>3. e \in told
    BY <1>1 DEF Sound, Asked, Cancelled
  <2> HIDE DEF y
  <2> QED BY <2>2, <2>3 DEF Sound, Runs, Accepted, Asked, Whole, InLoop, y
<1>2. CASE ~(Cancelled(x) /\ x.held # {})
  <2>1. y = [x EXCEPT !.at = next]
    BY <1>2 DEF Unwind, Set, Typed
  <2>2. /\ y.at = next /\ y.completed = x.completed /\ y.failed = x.failed
        /\ y.graph = x.graph
    BY <2>1 DEF Call
  <2> HIDE DEF y
  <2> QED BY <2>2 DEF Sound, Runs, Accepted, Asked, Whole, InLoop, y
<1> QED BY <1>1, <1>2

LEMMA StartSound ==
  ASSUME Typed, NEW e \in Exec, Sound(e), Local(ex[e], co[e]), InLoop(ex[e]), told' = told,
         \A t \in Ended(e) : co[e][t] # "thrown", Start(e, Collected(e))
  PROVE  Sound(e)'
<1> DEFINE x == Collected(e)
           y == ex'[e]
           d == co'[e]
<1>1. ex[e] \in Call /\ x \in Call /\ co[e] \in [Task -> Co]
  BY CollectedType DEF Typed
<1>2. /\ x.id = ex[e].id /\ x.graph = ex[e].graph
      /\ x.status = ex[e].status /\ x.held = ex[e].held \ Ended(e)
  BY <1>1 DEF Collected, Call
<1> HIDE DEF x
<1>3. PICK S \in SUBSET Startable(x) :
        /\ Set(e, [x EXCEPT !.at = "waiting", !.held = @ \cup S,
                            !.status = [t \in Task |-> IF t \in S THEN "running" ELSE @[t]]])
        /\ co' = [co EXCEPT ![e] = [t \in Task |-> IF t \in S THEN "created" ELSE @[t]]]
        /\ flags' = flags
  BY DEF Start, x
<1>4. /\ y = [x EXCEPT !.at = "waiting", !.held = @ \cup S,
                       !.status = [t \in Task |-> IF t \in S THEN "running" ELSE @[t]]]
      /\ d = [t \in Task |-> IF t \in S THEN "created" ELSE co[e][t]]
  BY <1>3 DEF Set, Typed
<1>5. /\ y.at = "waiting" /\ y.held = x.held \cup S /\ y.id = x.id /\ y.graph = x.graph
      /\ \A t \in Task : y.status[t] = IF t \in S THEN "running" ELSE x.status[t]
  BY <1>1, <1>4 DEF Call
<1> HIDE DEF y, d
<1>6. Runs(y, d)
  <2> SUFFICES ASSUME NEW t \in Task, y.status[t] = "running"
               PROVE  t \in y.held /\ d[t] \in {"created", "handling", "thrown"}
    BY DEF Runs
  <2>1. CASE t \in S
    BY <2>1, <1>4, <1>5
  <2>2. CASE t \notin S
    <3>1. t \in ex[e].held /\ co[e][t] \in {"created", "handling", "thrown"}
      BY <2>2, <1>2, <1>5 DEF Sound, Runs
    <3>2. t \notin Ended(e)
      BY <3>1 DEF Ended
    <3> QED BY <2>2, <3>1, <3>2, <1>2, <1>4, <1>5
  <2> QED BY <2>1, <2>2
<1>7. Accepted(y)
  BY <1>2, <1>5 DEF Sound, Accepted
<1>8. y.at = "waiting" /\ y.id = ex[e].id
  BY <1>2, <1>5
<1> QED BY <1>3, <1>6, <1>7, <1>8 DEF Sound, Asked, Whole, InLoop, y, d

LEMMA LoopSound ==
  ASSUME Typed, Flagged, NEW e \in Exec, Sound(e), Local(ex[e], co[e]), Loop(e) \/ Abort(e)
  PROVE  Sound(e)'
<1>1. ex[e].at # "idle" /\ ex[e].id \in Id /\ ex[e] \in Call /\ Collected(e) \in Call
      /\ Abandoned(Collected(e)) \in Call /\ Abandoned(ex[e]) \in Call
  BY HasId, CollectedType DEF Typed
<1>2. /\ Collected(e).id = ex[e].id /\ Abandoned(Collected(e)).id = ex[e].id
      /\ Abandoned(ex[e]).id = ex[e].id
      /\ Collected(e).completed = ex[e].completed /\ Collected(e).failed = ex[e].failed
      /\ Collected(e).graph = ex[e].graph
  BY <1>1 DEF Collected, Abandoned, Call
<1>3. CASE Pass(e)
  <2>1. InLoop(ex[e]) /\ told' = told /\ \A t \in Ended(e) : co[e][t] # "thrown"
    BY <1>3 DEF Pass, InLoop
  <2>2. CASE Start(e, Collected(e))
    BY <2>1, <2>2, StartSound
  <2>3. CASE /\ Unwind(e, Collected(e), "finishing")
             /\ \/ AllSettled(Collected(e)) \/ Cancelled(Collected(e))
                \/ Startable(Collected(e)) = {} /\ Collected(e).held = {}
    <3>1. Cancelled(Collected(e)) => e \in told
      BY <1>2, <2>1 DEF Sound, Asked, Cancelled
    <3>2. e \notin told => /\ ex[e].completed \cup ex[e].failed = Nodes(ex[e].graph)
                           /\ ex[e].completed \cap ex[e].failed = {}
      BY <2>1, <2>3, <3>1, AllAreSettled
    <3> QED BY <1>1, <1>2, <2>1, <2>3, <3>2, UnwindSound
  <2> QED BY <1>3, <2>2, <2>3 DEF Pass
<1>4. CASE PassThrown(e)
  <2>1. InLoop(ex[e]) /\ told' = told /\ Unwind(e, Abandoned(Collected(e)), "raised")
    BY <1>4 DEF PassThrown, InLoop
  <2> QED BY <1>1, <1>2, <2>1, UnwindSound
<1>5. CASE Gathered(e)
  <2>1. ex'[e] = [ex[e] EXCEPT !.at = IF @ = "leaving" THEN "raised" ELSE "finishing",
                               !.held = {}]
    BY <1>5 DEF Gathered, Set, Typed
  <2>2. ex'[e].at = IF ex[e].at = "leaving" THEN "raised" ELSE "finishing"
    BY <1>1, <2>1 DEF Call
  <2>3. told' = told /\ (ex[e].at # "leaving" => e \in told)
    BY <1>5 DEF Gathered, Sound, Asked
  <2> QED BY <2>2, <2>3 DEF Sound, Runs, Accepted, Asked, Whole, InLoop
<1>6. CASE Return(e)
  <2>1. /\ ex'[e].at = "returned" /\ ex'[e].completed = ex[e].completed
        /\ ex'[e].failed = ex[e].failed /\ ex'[e].graph = ex[e].graph
        /\ told' = told /\ ex[e].at = "finishing"
    BY <1>1, <1>6 DEF Return, Set, Typed, Call
  <2> QED BY <2>1 DEF Sound, Runs, Accepted, Asked, Whole, InLoop
<1>7. CASE Abort(e)
  <2>1. CASE Set(e, [ex[e] EXCEPT !.at = "raised"])
    <3>1. ex'[e].at = "raised"
      BY <1>1, <2>1 DEF Set, Typed, Call
    <3> QED BY <3>1 DEF Sound, Runs, Accepted, Asked, Whole, InLoop
  <2>2. CASE ex[e].at = "waiting" /\ Unwind(e, Abandoned(ex[e]), "raised")
    <3>1. InLoop(ex[e]) /\ told' = told
      BY <1>7, <2>2 DEF Abort, InLoop
    <3> QED BY <1>1, <1>2, <2>2, <3>1, UnwindSound
  <2> QED BY <1>7, <2>1, <2>2 DEF Abort
<1> QED BY <1>3, <1>4, <1>5, <1>6, <1>7 DEF Loop

\* A stretch of a coroutine settles its task, which it does once, or leaves the call alone.
LEMMA TurnMoves ==
  ASSUME NEW e \in Exec, NEW t \in Task, Turn(e, t)
  PROVE  \/ \E from \in {"created", "handling"} :
              Move(e, t, from, "telling") /\ (Succeed(e, t) \/ Fail(e, t))
         \/ UNCHANGED ex /\ \E from \in {"created", "handling"}, to \in {"handling", "thrown"} :
                              Move(e, t, from, to)
         \/ UNCHANGED ex /\ \E from \in {"telling", "stopping"} : Move(e, t, from, "ended")
BY DEF Turn, Enter, Handled, Published, Stopped

LEMMA TurnSound ==
  ASSUME Typed, NEW e \in Exec, NEW t \in Task, Sound(e), Local(ex[e], co[e]), Turn(e, t)
  PROVE  Sound(e)'
<1> DEFINE x == ex[e]
           y == ex'[e]
<1>1. x \in Call /\ co[e] \in [Task -> Co] /\ flags' = flags /\ told' = told
  BY DEF Typed, Turn, Enter, Handled, Published, Stopped, Move
<1>2. ASSUME NEW from, NEW to, Move(e, t, from, to)
      PROVE  co[e][t] = from /\ co'[e] = [co[e] EXCEPT ![t] = to]
  BY <1>2 DEF Move, Typed
<1>3. CASE \E from \in {"created", "handling"} :
             Move(e, t, from, "telling") /\ (Succeed(e, t) \/ Fail(e, t))
  <2>1. \/ y = [x EXCEPT !.status[t] = "completed", !.completed = @ \cup {t}]
        \/ y = [x EXCEPT !.status[t] = "failed", !.failed = @ \cup {t}]
    BY <1>3 DEF Succeed, Fail, Set, Typed
  <2>2. /\ y.at = x.at /\ y.id = x.id /\ y.graph = x.graph /\ y.held = x.held
        /\ y.status[t] # "running" /\ \A u \in Task \ {t} : y.status[u] = x.status[u]
    <3>1. CASE y = [x EXCEPT !.status[t] = "completed", !.completed = @ \cup {t}]
      BY <1>1, <3>1 DEF Call
    <3>2. CASE y = [x EXCEPT !.status[t] = "failed", !.failed = @ \cup {t}]
      BY <1>1, <3>2 DEF Call
    <3> QED BY <2>1, <3>1, <3>2
  <2>3. co[e][t] \in {"created", "handling"} /\ \A u \in Task \ {t} : co'[e][u] = co[e][u]
    <3>1. PICK from \in {"created", "handling"} : Move(e, t, from, "telling")
      BY <1>3
    <3> QED BY <1>1, <1>2, <3>1
  <2>4. x.at \notin {"finishing", "returned"}
    BY <2>3 DEF Local, Quiet
  <2> HIDE DEF y
  <2>5. Runs(y, co'[e])
    BY <2>2, <2>3 DEF Sound, Runs, InLoop
  <2>6. Accepted(y)
    BY <2>2 DEF Sound, Accepted, InLoop
  <2> QED BY <1>1, <2>2, <2>4, <2>5, <2>6 DEF Sound, Asked, Whole, InLoop, y
<1>4. CASE /\ UNCHANGED ex
           /\ \E from \in {"created", "handling"}, to \in {"handling", "thrown"} : Move(e, t, from, to)
  <2>1. PICK from \in {"created", "handling"}, to \in {"handling", "thrown"} : Move(e, t, from, to)
    BY <1>4
  <2>2. co[e][t] = from /\ co'[e][t] = to /\ \A u \in Task \ {t} : co'[e][u] = co[e][u]
    BY <1>1, <1>2, <2>1
  <2>3. Runs(x, co'[e])
    BY <2>1, <2>2 DEF Sound, Runs, InLoop
  <2> QED BY <1>1, <1>4, <2>3 DEF Sound, Accepted, Asked, Whole
<1>5. CASE UNCHANGED ex /\ \E from \in {"telling", "stopping"} : Move(e, t, from, "ended")
  <2>1. PICK from \in {"telling", "stopping"} : Move(e, t, from, "ended")
    BY <1>5
  <2>2. co[e][t] = from /\ \A u \in Task \ {t} : co'[e][u] = co[e][u]
    BY <1>1, <1>2, <2>1
  <2>3. Runs(x, co'[e])
    BY <2>1, <2>2 DEF Sound, Runs, InLoop
  <2> QED BY <1>1, <1>5, <2>3 DEF Sound, Accepted, Asked, Whole
<1> QED BY <1>3, <1>4, <1>5, TurnMoves

\* Somebody else's step.
LEMMA OtherSound ==
  ASSUME Typed, NEW e \in Exec, Sound(e), ex'[e] = ex[e], co'[e] = co[e],
         told \subseteq told',
         InLoop(ex[e]) /\ flags'[ex[e].id] = "yes" => flags[ex[e].id] = "yes" \/ e \in told'
  PROVE  Sound(e)'
BY DEF Sound, Runs, Accepted, Asked, Whole, InLoop
LEMMA InitSound == Init => \A e \in Exec : Sound(e)
<1> SUFFICES ASSUME Init, NEW e \in Exec PROVE Sound(e)
  OBVIOUS
<1>1. ex[e].at = "idle" /\ \A t \in Task : ex[e].status[t] = "pending"
  BY DEF Init
<1> QED BY <1>1 DEF Sound, Runs, Accepted, Asked, Whole, InLoop

LEMMA NextSound ==
  ASSUME WInv, \A e \in Exec : Sound(e), [Next]_vars
  PROVE  \A e \in Exec : Sound(e)'
<1>1. Typed /\ Flagged /\ \A e \in Exec : Local(ex[e], co[e])
  BY DEF WInv
<1>2. ASSUME NEW o \in Exec, Sound(o)',
             \/ \E id \in Id, deps \in GraphsOf[o] : Begin(o, id, deps)
             \/ Loop(o) \/ Abort(o) \/ \E t \in Task : Turn(o, t)
      PROVE  \A e \in Exec : Sound(e)'
  <2>1. \A e \in Exec \ {o} : ex'[e] = ex[e] /\ co'[e] = co[e]
    BY <1>1, <1>2, OneCall
  <2>2. told' = told /\ \A i \in Id : flags'[i] = "yes" => flags[i] = "yes"
    <3>1. ASSUME NEW x, NEW next, Unwind(o, x, next)
          PROVE  \A i \in Id : flags'[i] = "yes" => flags[i] = "yes"
      BY <1>1, <3>1 DEF Unwind, Typed
    <3>2. CASE \E id \in Id, deps \in GraphsOf[o] : Begin(o, id, deps)
      BY <1>1, <3>2 DEF Begin, Typed
    <3>3. CASE Loop(o)
      BY <3>1, <3>3 DEF Loop, Pass, PassThrown, Gathered, Return, Start
    <3>4. CASE Abort(o)
      BY <3>1, <3>4 DEF Abort
    <3>5. CASE \E t \in Task : Turn(o, t)
      BY <3>5 DEF Turn, Enter, Handled, Published, Stopped, Move
    <3> QED BY <1>2, <3>2, <3>3, <3>4, <3>5
  <2>3. ASSUME NEW e \in Exec \ {o} PROVE Sound(e)'
    <3>1. InLoop(ex[e]) => ex[e].id \in Id
      BY <1>1 DEF InLoop, Flagged, Typed, Call
    <3>2. Sound(e)
      OBVIOUS
    <3> QED BY <1>1, <2>1, <2>2, <3>1, <3>2, OtherSound
  <2> QED BY <1>2, <2>3
<1>3. CASE \E e \in Exec : \E id \in Id, deps \in GraphsOf[e] : Begin(e, id, deps)
  <2>1. PICK e \in Exec : \E id \in Id, deps \in GraphsOf[e] : Begin(e, id, deps)
    BY <1>3
  <2>2. Sound(e)'
    BY <1>1, <2>1, BeginSound
  <2> QED BY <1>2, <2>1, <2>2
<1>4. CASE \E e \in Exec : Loop(e) \/ Abort(e)
  <2>1. PICK e \in Exec : Loop(e) \/ Abort(e)
    BY <1>4
  <2>2. Sound(e)'
    BY <1>1, <2>1, LoopSound
  <2> QED BY <1>2, <2>1, <2>2
<1>5. CASE \E e \in Exec, t \in Task : Turn(e, t)
  <2>1. PICK e \in Exec, t \in Task : Turn(e, t)
    BY <1>5
  <2>2. Sound(e)'
    BY <1>1, <2>1, TurnSound
  <2> QED BY <1>2, <2>1, <2>2
<1>6. CASE \E ids \in SUBSET Id : Cancel(ids)
  <2>1. PICK ids \in SUBSET Id : Cancel(ids)
    BY <1>6
  <2> SUFFICES ASSUME NEW e \in Exec PROVE Sound(e)'
    OBVIOUS
  <2>2. InLoop(ex[e]) => ex[e].id \in Id
    BY <1>1 DEF InLoop, Flagged, Typed, Call
  <2>3. /\ ex' = ex /\ co' = co /\ told \subseteq told'
        /\ InLoop(ex[e]) /\ ex[e].id \in ids => e \in told'
        /\ \A i \in Id \ ids : flags'[i] = flags[i]
    BY <2>1 DEF Cancel, InLoop
  <2>4. Sound(e)
    OBVIOUS
  <2> QED BY <1>1, <2>2, <2>3, <2>4, OtherSound
<1>7. CASE UNCHANGED vars
  BY <1>7 DEF vars, Sound, Runs, Accepted, Asked, Whole, InLoop
<1> QED
  BY <1>3, <1>4, <1>5, <1>6, <1>7 DEF Next, Loop, Turn

\* When execute() returns none of its handlers is running, and unless it was cancelled every
\* task of the graph is settled, once: with an acyclic graph a task is always ready or running
\* until all are settled, for any graph, limit and number of calls that share an id.
THEOREM ReturnsSettled == Spec => []ReturnIsQuiet
<1>1. Init => AllSound
  BY InitSound DEF AllSound
<1>2. WInv /\ AllSound /\ [Next]_vars => AllSound'
  BY NextSound DEF AllSound
<1>3. WInv /\ AllSound => ReturnIsQuiet
  BY DEF WInv, Local, Quiet, HandlersOver, AllSound, Sound, Whole, ReturnIsQuiet
<1> QED
  BY <1>1, <1>2, <1>3, SpecInv, PTL DEF Spec

-----------------------------------------------------------------------------
(* Every call gets on *)

\* What execute() waits for has been started, and it waits for something.
Awaits(x, c) ==
  /\ x.at \in {"waiting", "gathering", "leaving"} => \A t \in x.held : c[t] # "none"
  /\ x.at = "waiting" => x.held # {}

\* In the loop a task that has been started is marked running until it is settled.
Begun(x, c) ==
  InLoop(x) =>
    \A t \in Task : c[t] # "none" => x.status[t] = "running" \/ t \in x.completed \cup x.failed

Going(e) == Awaits(ex[e], co[e]) /\ Begun(ex[e], co[e])

AllGoing == \A e \in Exec : Going(e)

\* A task is started once.
LEMMA StartsOnce ==
  ASSUME NEW x, NEW c, InLoop(x), Begun(x, c), NEW t \in Startable(x), t \in Task
  PROVE  c[t] = "none"
BY DEF Startable, Ready, Begun

\* Where a pass of the loop starts tasks: x is what is left to wait for, y what is then.
LEMMA StartMoves ==
  ASSUME Typed, NEW e \in Exec, Local(ex[e], co[e]), Going(e), InLoop(ex[e]),
         Start(e, Collected(e))
  PROVE  \E S \in SUBSET Startable(Collected(e)) :
           /\ S \subseteq Task /\ \A t \in S : co[e][t] = "none" /\ t \notin ex[e].held
           /\ ex'[e].held = (ex[e].held \ Ended(e)) \cup S
           /\ S = Startable(Collected(e)) \/ Cardinality(ex'[e].held) = MaxParallel
           /\ ex'[e].at = "waiting"
           /\ ex'[e].completed = ex[e].completed /\ ex'[e].failed = ex[e].failed
           /\ \A t \in Task : ex'[e].status[t] = IF t \in S THEN "running" ELSE ex[e].status[t]
           /\ \A t \in Task : co'[e][t] = IF t \in S THEN "created" ELSE co[e][t]
<1> DEFINE x == Collected(e)
           y == ex'[e]
<1>1. ex[e] \in Call /\ x \in Call /\ co[e] \in [Task -> Co]
  BY CollectedType DEF Typed
<1>2. /\ x.at = ex[e].at /\ x.graph = ex[e].graph /\ x.completed = ex[e].completed
      /\ x.failed = ex[e].failed /\ x.status = ex[e].status /\ x.held = ex[e].held \ Ended(e)
  BY <1>1 DEF Collected, Call
<1>3. Nodes(x.graph) \subseteq Task
  BY <1>2 DEF Local, InGraph
<1> HIDE DEF x
<1>4. PICK S \in SUBSET Startable(x) :
        /\ S = Startable(x) \/ Cardinality(x.held \cup S) = MaxParallel
        /\ Set(e, [x EXCEPT !.at = "waiting", !.held = @ \cup S,
                            !.status = [t \in Task |-> IF t \in S THEN "running" ELSE @[t]]])
        /\ co' = [co EXCEPT ![e] = [t \in Task |-> IF t \in S THEN "created" ELSE @[t]]]
  BY Zenon DEF Start, x
<1>5. /\ y = [x EXCEPT !.at = "waiting", !.held = @ \cup S,
                       !.status = [t \in Task |-> IF t \in S THEN "running" ELSE @[t]]]
      /\ co'[e] = [t \in Task |-> IF t \in S THEN "created" ELSE co[e][t]]
  BY <1>4 DEF Set, Typed
<1>6. /\ y.at = "waiting" /\ y.held = x.held \cup S
      /\ y.completed = x.completed /\ y.failed = x.failed
      /\ \A t \in Task : y.status[t] = IF t \in S THEN "running" ELSE x.status[t]
  BY <1>1, <1>5 DEF Call
<1> HIDE DEF y
<1>7. S \subseteq Task
  BY <1>3 DEF Startable, Ready
<1>8. \A t \in S : co[e][t] = "none"
  <2> SUFFICES ASSUME NEW t \in S PROVE co[e][t] = "none"
    OBVIOUS
  <2>1. Begun(x, co[e]) /\ InLoop(x)
    BY <1>2 DEF Going, Begun, InLoop
  <2> QED BY <1>7, <2>1, StartsOnce
<1>9. \A t \in S : t \notin ex[e].held
  BY <1>8 DEF Going, Awaits, InLoop, Local, Untouched
<1> QED BY <1>2, <1>4, <1>5, <1>6, <1>7, <1>8, <1>9 DEF x, y

LEMMA StartGoing ==
  ASSUME Typed, NEW e \in Exec, Local(ex[e], co[e]), Going(e), InLoop(ex[e]),
         ~(Startable(Collected(e)) = {} /\ Collected(e).held = {}), Start(e, Collected(e))
  PROVE  Going(e)'
<1> DEFINE y == ex'[e]
           d == co'[e]
<1>1. PICK S \in SUBSET Startable(Collected(e)) :
        /\ S \subseteq Task /\ \A t \in S : co[e][t] = "none" /\ t \notin ex[e].held
        /\ y.held = (ex[e].held \ Ended(e)) \cup S
        /\ S = Startable(Collected(e)) \/ Cardinality(y.held) = MaxParallel
        /\ y.at = "waiting"
        /\ y.completed = ex[e].completed /\ y.failed = ex[e].failed
        /\ \A t \in Task : y.status[t] = IF t \in S THEN "running" ELSE ex[e].status[t]
        /\ \A t \in Task : d[t] = IF t \in S THEN "created" ELSE co[e][t]
  BY StartMoves
<1>2. ex[e].held \subseteq Task /\ Collected(e).held = ex[e].held \ Ended(e)
  BY CollectedType DEF Typed, Call, Collected
<1> HIDE DEF y, d
<1>3. y.held # {}
  <2>1. CASE S = Startable(Collected(e))
    BY <1>1, <1>2, <2>1
  <2>2. CASE Cardinality(y.held) = MaxParallel
    BY <2>2, FS_EmptySet, ParallelAssumption
  <2> QED BY <1>1, <2>1, <2>2
<1>4. \A t \in y.held : d[t] # "none"
  <2> SUFFICES ASSUME NEW t \in y.held PROVE d[t] # "none"
    OBVIOUS
  <2>1. CASE t \in S
    BY <1>1, <2>1
  <2>2. CASE t \in ex[e].held /\ t \notin S
    BY <1>1, <1>2, <2>2 DEF Going, Awaits, InLoop, Local, Untouched
  <2> QED BY <1>1, <2>1, <2>2
<1>5. Awaits(y, d)
  BY <1>1, <1>3, <1>4 DEF Awaits
<1>6. Begun(y, d)
  BY <1>1 DEF Begun, Going
<1> QED BY <1>5, <1>6 DEF Going, y, d

\* Where the loop is left.
LEMMA UnwindMoves ==
  ASSUME Typed, NEW e \in Exec, NEW x \in Call, NEW next \in {"finishing", "raised"},
         Unwind(e, x, next)
  PROVE  /\ ex'[e].held = x.held
         /\ ex'[e].at \in {next} \cup {"gathering", "leaving"}
         /\ \A t \in Task : \/ co'[e][t] = co[e][t]
                            \/ co[e][t] \in Live /\ co'[e][t] = "stopping"
<1>1. CASE Cancelled(x) /\ x.held # {}
  <2>1. ex'[e] = [x EXCEPT !.at = IF next = "raised" THEN "leaving" ELSE "gathering",
                           !.failed = @ \cup x.held,
                           !.status = [t \in Task |-> IF t \in x.held THEN "cancelled" ELSE @[t]]]
    BY <1>1 DEF Unwind, Set, Typed
  <2>2. ex'[e].held = x.held /\ ex'[e].at = IF next = "raised" THEN "leaving" ELSE "gathering"
    BY <2>1 DEF Call
  <2>3. co'[e] = [t \in Task |-> IF t \in x.held /\ co[e][t] \in Live THEN "stopping" ELSE co[e][t]]
    BY <1>1 DEF Unwind, Typed
  <2> QED BY <2>2, <2>3
<1>2. CASE ~(Cancelled(x) /\ x.held # {})
  <2>1. ex'[e] = [x EXCEPT !.at = next] /\ co' = co
    BY <1>2 DEF Unwind, Set, Typed
  <2>2. ex'[e].held = x.held /\ ex'[e].at = next
    BY <2>1 DEF Call
  <2> QED BY <2>1, <2>2
<1> QED BY <1>1, <1>2

LEMMA UnwindGoing ==
  ASSUME Typed, NEW e \in Exec, Local(ex[e], co[e]), Going(e), InLoop(ex[e]),
         NEW x \in Call, NEW next \in {"finishing", "raised"}, Unwind(e, x, next),
         x.held \subseteq ex[e].held
  PROVE  Going(e)'
<1>1. \A t \in ex[e].held : co[e][t] # "none" /\ t \in Task
  BY DEF Going, Awaits, InLoop, Local, Untouched, Typed, Call
<1> QED BY <1>1, UnwindMoves DEF Going, Awaits, Begun, InLoop

LEMMA LoopGoing ==
  ASSUME Typed, NEW e \in Exec, Local(ex[e], co[e]), Going(e), Loop(e) \/ Abort(e)
  PROVE  Going(e)'
<1>1. ex[e] \in Call /\ Collected(e) \in Call /\ Abandoned(Collected(e)) \in Call
      /\ Abandoned(ex[e]) \in Call
  BY CollectedType DEF Typed
<1>2. /\ Collected(e).held \subseteq ex[e].held /\ Abandoned(Collected(e)).held \subseteq ex[e].held
      /\ Abandoned(ex[e]).held \subseteq ex[e].held
  <2>1. Collected(e).held = ex[e].held \ Ended(e)
    BY <1>1 DEF Collected, Call
  <2>2. ASSUME NEW x \in Call PROVE Abandoned(x).held = x.held
    BY DEF Abandoned, Call
  <2> QED BY <1>1, <2>1, <2>2
<1>3. CASE Pass(e)
  <2>1. InLoop(ex[e])
    BY <1>3 DEF Pass, InLoop
  <2>2. CASE Unwind(e, Collected(e), "finishing")
    BY <1>1, <1>2, <2>1, <2>2, UnwindGoing
  <2>3. CASE /\ ~(Startable(Collected(e)) = {} /\ Collected(e).held = {})
             /\ Start(e, Collected(e))
    BY <2>1, <2>3, StartGoing
  <2> QED BY <1>3, <2>2, <2>3 DEF Pass
<1>4. CASE PassThrown(e)
  <2>1. InLoop(ex[e]) /\ Unwind(e, Abandoned(Collected(e)), "raised")
    BY <1>4 DEF PassThrown, InLoop
  <2> QED BY <1>1, <1>2, <2>1, UnwindGoing
<1>5. CASE Gathered(e) \/ Return(e) \/ Set(e, [ex[e] EXCEPT !.at = "raised"])
  <2>1. ex'[e].at \in {"raised", "finishing", "returned"}
    <3>1. CASE Gathered(e)
      <4>1. ex'[e] = [ex[e] EXCEPT !.at = IF @ = "leaving" THEN "raised" ELSE "finishing",
                                   !.held = {}]
        BY <3>1 DEF Gathered, Set, Typed
      <4> QED BY <1>1, <4>1 DEF Call
    <3>2. CASE Return(e) \/ Set(e, [ex[e] EXCEPT !.at = "raised"])
      BY <1>1, <3>2 DEF Return, Set, Typed, Call
    <3> QED BY <1>5, <3>1, <3>2
  <2> QED BY <2>1 DEF Going, Awaits, Begun, InLoop
<1>6. CASE ex[e].at = "waiting" /\ Unwind(e, Abandoned(ex[e]), "raised")
  <2>1. InLoop(ex[e])
    BY <1>6 DEF InLoop
  <2> QED BY <1>1, <1>2, <1>6, <2>1, UnwindGoing
<1> QED BY <1>3, <1>4, <1>5, <1>6 DEF Loop, Abort

\* What a stretch of a coroutine leaves of its call.
LEMMA TurnKeeps ==
  ASSUME Typed, NEW e \in Exec, NEW t \in Task, Turn(e, t)
  PROVE  /\ ex'[e].at = ex[e].at /\ ex'[e].held = ex[e].held
         /\ ex[e].completed \cup ex[e].failed \subseteq ex'[e].completed \cup ex'[e].failed
         /\ \A u \in Task \ {t} : /\ ex'[e].status[u] = ex[e].status[u]
                                  /\ co'[e][u] = co[e][u]
         /\ ex'[e].status[t] = ex[e].status[t] \/ t \in ex'[e].completed \cup ex'[e].failed
         /\ co[e][t] \in Live
         /\ \/ co[e][t] = "created" /\ co'[e][t] \in {"handling", "telling"}
            \/ co[e][t] = "handling" /\ co'[e][t] \in {"telling", "thrown"}
            \/ co[e][t] \in {"telling", "stopping"} /\ co'[e][t] = "ended"
<1>1. ex[e] \in Call
  BY DEF Typed
<1>2. /\ ex'[e].at = ex[e].at /\ ex'[e].held = ex[e].held
      /\ ex[e].completed \cup ex[e].failed \subseteq ex'[e].completed \cup ex'[e].failed
      /\ \A u \in Task \ {t} : ex'[e].status[u] = ex[e].status[u]
      /\ ex'[e].status[t] = ex[e].status[t] \/ t \in ex'[e].completed \cup ex'[e].failed
  <2>1. CASE ex'[e] = [ex[e] EXCEPT !.status[t] = "completed", !.completed = @ \cup {t}]
    BY <1>1, <2>1 DEF Call
  <2>2. CASE ex'[e] = [ex[e] EXCEPT !.status[t] = "failed", !.failed = @ \cup {t}]
    BY <1>1, <2>2 DEF Call
  <2>3. CASE UNCHANGED ex
    BY <2>3
  <2>4. Succeed(e, t) \/ Fail(e, t) \/ UNCHANGED ex
    BY DEF Turn, Enter, Handled, Published, Stopped
  <2> QED BY <2>1, <2>2, <2>3, <2>4 DEF Succeed, Fail, Set, Typed
<1>3. ASSUME NEW from, NEW to, Move(e, t, from, to)
      PROVE  /\ co[e][t] = from /\ co'[e][t] = to
             /\ \A u \in Task \ {t} : co'[e][u] = co[e][u]
  BY <1>3 DEF Move, Typed
<1>4. /\ \A u \in Task \ {t} : co'[e][u] = co[e][u]
      /\ \/ co[e][t] = "created" /\ co'[e][t] \in {"handling", "telling"}
         \/ co[e][t] = "handling" /\ co'[e][t] \in {"telling", "thrown"}
         \/ co[e][t] \in {"telling", "stopping"} /\ co'[e][t] = "ended"
  <2>1. CASE Enter(e, t)
    BY <1>3, <2>1 DEF Enter
  <2>2. CASE Handled(e, t)
    BY <1>3, <2>2 DEF Handled
  <2>3. CASE Published(e, t) \/ Stopped(e, t)
    BY <1>3, <2>3 DEF Published, Stopped
  <2> QED BY <2>1, <2>2, <2>3 DEF Turn
<1> QED BY <1>2, <1>4 DEF Live

LEMMA TurnGoing ==
  ASSUME Typed, NEW e \in Exec, NEW t \in Task, Going(e), Turn(e, t)
  PROVE  Going(e)'
<1>1. ex[e] \in Call
  BY DEF Typed
<1> DEFINE x == ex[e]
           y == ex'[e]
           c == co[e]
           d == co'[e]
<1>2. /\ y.at = x.at /\ y.held = x.held /\ x.held \subseteq Task
      /\ x.completed \cup x.failed \subseteq y.completed \cup y.failed
      /\ \A u \in Task \ {t} : y.status[u] = x.status[u] /\ d[u] = c[u]
      /\ y.status[t] = x.status[t] \/ t \in y.completed \cup y.failed
      /\ c[t] # "none" /\ d[t] # "none"
  BY <1>1, TurnKeeps DEF Call, Live
<1>3. Awaits(x, c) /\ Begun(x, c)
  BY DEF Going
<1> HIDE DEF x, y, c, d
<1>4. Awaits(y, d)
  BY <1>2, <1>3 DEF Awaits
<1>5. Begun(y, d)
  BY <1>2, <1>3 DEF Begun, InLoop
<1> QED BY <1>4, <1>5 DEF Going, x, y, c, d

LEMMA BeginGoing ==
  ASSUME Typed, NEW e \in Exec, NEW id \in Id, NEW deps \in GraphsOf[e],
         Local(ex[e], co[e]), Begin(e, id, deps)
  PROVE  Going(e)'
<1>1. co' = co /\ \A t \in Task : co[e][t] = "none"
  BY DEF Begin, Local, Untouched
<1>2. ex'[e].at \in {"starting", "rejected"}
  BY DEF Begin, Set, Typed, Call
<1> QED BY <1>1, <1>2 DEF Going, Awaits, Begun

LEMMA NextGoing ==
  ASSUME WInv, AllGoing, [Next]_vars
  PROVE  AllGoing'
<1>1. Typed /\ \A e \in Exec : Local(ex[e], co[e]) /\ Going(e)
  BY DEF WInv, AllGoing
<1>2. ASSUME NEW e \in Exec, Going(e)',
             \A o \in Exec \ {e} : ex'[o] = ex[o] /\ co'[o] = co[o]
      PROVE  AllGoing'
  BY <1>1, <1>2 DEF AllGoing, Going
<1>3. CASE \E e \in Exec : \E id \in Id, deps \in GraphsOf[e] : Begin(e, id, deps)
  <2>1. PICK e \in Exec : \E id \in Id, deps \in GraphsOf[e] : Begin(e, id, deps)
    BY <1>3
  <2>2. Going(e)'
    BY <1>1, <2>1, BeginGoing
  <2> QED BY <1>1, <1>2, <2>1, <2>2, OneCall
<1>4. CASE \E e \in Exec : Loop(e) \/ Abort(e)
  <2>1. PICK e \in Exec : Loop(e) \/ Abort(e)
    BY <1>4
  <2>2. Going(e)'
    BY <1>1, <2>1, LoopGoing
  <2> QED BY <1>1, <1>2, <2>1, <2>2, OneCall
<1>5. CASE \E e \in Exec, t \in Task : Turn(e, t)
  <2>1. PICK e \in Exec, t \in Task : Turn(e, t)
    BY <1>5
  <2>2. Going(e)'
    BY <1>1, <2>1, TurnGoing
  <2> QED BY <1>1, <1>2, <2>1, <2>2, OneCall
<1>6. CASE (\E ids \in SUBSET Id : Cancel(ids)) \/ UNCHANGED vars
  BY <1>1, <1>6 DEF Cancel, vars, AllGoing, Going
<1> QED BY <1>3, <1>4, <1>5, <1>6 DEF Next, Loop, Turn

LEMMA InitGoing == Init => AllGoing
<1> SUFFICES ASSUME Init, NEW e \in Exec PROVE Going(e)
  BY DEF AllGoing
<1>1. ex[e].at = "idle"
  BY DEF Init
<1> QED BY <1>1 DEF Going, Awaits, Begun, InLoop

LEMMA SpecGoing == Spec => []AllGoing
BY InitGoing, NextGoing, SpecInv, PTL DEF Spec

LEMMA GoingGoesOn ==
  ASSUME WInv, AllGoing
  PROVE  NeverStuck
<1> SUFFICES ASSUME NEW e \in Exec,
                    ex[e].at \notin {"idle"} \cup Over \/ \E t \in Task : co[e][t] \in Live
             PROVE  GoesOn(e)
  BY DEF NeverStuck
<1>1. /\ ex[e] \in Call /\ co[e] \in [Task -> Co] /\ Going(e)
  BY DEF WInv, Typed, AllGoing
<1>2. CASE \E t \in Task : co[e][t] \in Live
  <2>1. CASE \A t \in Task : co[e][t] \notin {"handling", "telling", "stopping"}
    <3>1. Inside(e) = {}
      BY <2>1 DEF Inside
    <3>2. Cardinality(Inside(e)) < MaxParallel
      BY <3>1, FS_EmptySet, ParallelAssumption
    <3> QED BY <1>2, <2>1, <3>2 DEF GoesOn, Live
  <2> QED BY <2>1 DEF GoesOn
<1>3. CASE ~\E t \in Task : co[e][t] \in Live
  <2>1. \A t \in ex[e].held : t \in Task /\ co[e][t] \in {"none", "ended", "thrown"}
    BY <1>1, <1>3 DEF Call, Co, Live
  <2>2. CASE ex[e].at = "waiting"
    BY <1>1, <2>1, <2>2 DEF Going, Awaits, Ended, GoesOn
  <2>3. CASE ex[e].at \in {"gathering", "leaving"}
    <3>1. ex[e].held = Ended(e)
      BY <1>1, <2>1, <2>3 DEF Going, Awaits, Ended
    <3> QED BY <2>3, <3>1 DEF GoesOn
  <2>4. CASE ex[e].at \in {"starting", "finishing"}
    BY <2>4 DEF GoesOn
  <2> QED BY <1>1, <1>3, <2>2, <2>3, <2>4 DEF Call, At, Over
<1> QED BY <1>2, <1>3

-----------------------------------------------------------------------------
(* No step is in vain *)

LEMMA AtLeftIs ==
  /\ AtLeft("idle") = 5 /\ AtLeft("starting") = 4 /\ AtLeft("waiting") = 3
  /\ AtLeft("gathering") = 2 /\ AtLeft("leaving") = 2 /\ AtLeft("finishing") = 1
  /\ AtLeft("returned") = 0 /\ AtLeft("rejected") = 0 /\ AtLeft("raised") = 0
BY DEF AtLeft

LEMMA CoLeftIs ==
  /\ CoLeft("none") = 6 /\ CoLeft("created") = 4 /\ CoLeft("handling") = 3
  /\ CoLeft("telling") = 2 /\ CoLeft("stopping") = 1
  /\ CoLeft("ended") = 0 /\ CoLeft("thrown") = 0
BY DEF CoLeft

\* A call that is not concerned is where it was.
LEMMA SameShrinks ==
  ASSUME NEW e \in Exec, ex'[e] = ex[e], co'[e] = co[e]
  PROVE  Shrinks(e)
BY DEF Shrinks

LEMMA TurnShrinks ==
  ASSUME Typed, NEW e \in Exec, NEW t \in Task, Turn(e, t)
  PROVE  Shrinks(e)
<1>1. CallLeft(e)' = CallLeft(e) /\ CallLeft(e) \in Nat
  BY TurnKeeps DEF CallLeft, AtLeft
<1>2. TaskLeft(e, t)' < TaskLeft(e, t) /\ TaskLeft(e, t)' \in Nat /\ TaskLeft(e, t) \in Nat
  <2>1. CoLeft(co'[e][t]) < CoLeft(co[e][t]) /\ CoLeft(co'[e][t]) \in Nat /\ CoLeft(co[e][t]) \in Nat
    BY TurnKeeps, CoLeftIs
  <2>2. ex'[e].held = ex[e].held
    BY TurnKeeps
  <2> QED BY <2>1, <2>2 DEF TaskLeft
<1>3. ASSUME NEW u \in Task \ {t}
      PROVE  TaskLeft(e, u)' = TaskLeft(e, u) /\ TaskLeft(e, u) \in Nat
  <2>1. co[e][u] \in Co
    BY DEF Typed
  <2>2. co'[e][u] = co[e][u] /\ ex'[e].held = ex[e].held
    BY TurnKeeps
  <2> QED BY <2>1, <2>2, CoLeftIs DEF TaskLeft, Co
<1> QED BY <1>1, <1>2, <1>3 DEF Shrinks

\* The call itself gets on, and no task is further from its end than it was.
LEMMA CallShrinks ==
  ASSUME Typed, NEW e \in Exec, AtLeft(ex'[e].at) < AtLeft(ex[e].at),
         AtLeft(ex'[e].at) \in Nat, AtLeft(ex[e].at) \in Nat, ex'[e].held \subseteq ex[e].held,
         \A t \in Task : \/ co'[e][t] = co[e][t]
                         \/ co[e][t] \in Live /\ co'[e][t] = "stopping"
  PROVE  Shrinks(e)
<1>1. ASSUME NEW t \in Task PROVE TaskLeft(e, t)' <= TaskLeft(e, t)
  <2>1. co[e][t] \in Co
    BY DEF Typed
  <2>2. CoLeft(co'[e][t]) <= CoLeft(co[e][t]) /\ CoLeft(co'[e][t]) \in Nat /\ CoLeft(co[e][t]) \in Nat
    BY <2>1, CoLeftIs DEF Co, Live
  <2> QED BY <2>2 DEF TaskLeft
<1> QED BY <1>1 DEF Shrinks, CallLeft

LEMMA UnwindShrinks ==
  ASSUME Typed, NEW e \in Exec, InLoop(ex[e]), NEW x \in Call,
         NEW next \in {"finishing", "raised"}, Unwind(e, x, next), x.held \subseteq ex[e].held
  PROVE  Shrinks(e)
<1>1. /\ AtLeft(ex'[e].at) < AtLeft(ex[e].at)
      /\ AtLeft(ex'[e].at) \in Nat /\ AtLeft(ex[e].at) \in Nat
  <2>1. ex'[e].at \in {next, "gathering", "leaving"}
    BY UnwindMoves
  <2> QED BY <2>1, AtLeftIs DEF InLoop
<1> QED BY <1>1, UnwindMoves, CallShrinks

\* A pass that starts tasks has collected one, or is the first.
LEMMA StartShrinks ==
  ASSUME Typed, NEW e \in Exec, Local(ex[e], co[e]), Going(e), Pass(e), Start(e, Collected(e))
  PROVE  Shrinks(e)
<1>1. InLoop(ex[e]) /\ (ex[e].at = "waiting" => Ended(e) # {})
  BY DEF Pass, InLoop
<1>2. PICK S \in SUBSET Startable(Collected(e)) :
        /\ S \subseteq Task /\ \A t \in S : co[e][t] = "none" /\ t \notin ex[e].held
        /\ ex'[e].held = (ex[e].held \ Ended(e)) \cup S
        /\ ex'[e].at = "waiting"
        /\ \A t \in Task : co'[e][t] = IF t \in S THEN "created" ELSE co[e][t]
  BY <1>1, StartMoves
<1>3. /\ CallLeft(e)' <= CallLeft(e)
      /\ ex[e].at = "starting" => CallLeft(e)' < CallLeft(e)
  BY <1>1, <1>2, AtLeftIs DEF CallLeft, InLoop
<1>4. ASSUME NEW t \in Task
      PROVE  /\ TaskLeft(e, t)' <= TaskLeft(e, t)
             /\ t \in Ended(e) => TaskLeft(e, t)' < TaskLeft(e, t)
  <2>1. co[e][t] \in Co
    BY DEF Typed
  <2>2. CoLeft(co[e][t]) \in Nat
    BY <2>1, CoLeftIs DEF Co
  <2>3. CASE t \in S
    <3>1. co[e][t] = "none" /\ t \notin ex[e].held /\ co'[e][t] = "created" /\ t \notin Ended(e)
      BY <1>2, <2>3 DEF Ended
    <3> QED BY <3>1, CoLeftIs DEF TaskLeft
  <2>4. CASE t \notin S
    <3>1. co'[e][t] = co[e][t] /\ (t \in ex'[e].held <=> t \in ex[e].held \ Ended(e))
      BY <1>2, <2>4
    <3>2. t \in Ended(e) => t \in ex[e].held
      BY DEF Ended
    <3> QED BY <2>2, <3>1, <3>2 DEF TaskLeft
  <2> QED BY <2>3, <2>4
<1>5. ex[e].at = "starting" \/ \E t \in Task : t \in Ended(e)
  BY <1>1 DEF InLoop, Ended, Typed, Call
<1> QED BY <1>3, <1>4, <1>5 DEF Shrinks

LEMMA LoopShrinks ==
  ASSUME Typed, NEW e \in Exec, Local(ex[e], co[e]), Going(e), Loop(e) \/ Abort(e)
  PROVE  Shrinks(e)
<1>1. ex[e] \in Call /\ Collected(e) \in Call /\ Abandoned(Collected(e)) \in Call
      /\ Abandoned(ex[e]) \in Call
  BY CollectedType DEF Typed
<1>2. /\ Collected(e).held \subseteq ex[e].held /\ Abandoned(Collected(e)).held \subseteq ex[e].held
      /\ Abandoned(ex[e]).held \subseteq ex[e].held
  <2>1. Collected(e).held = ex[e].held \ Ended(e)
    BY <1>1 DEF Collected, Call
  <2>2. ASSUME NEW x \in Call PROVE Abandoned(x).held = x.held
    BY DEF Abandoned, Call
  <2> QED BY <1>1, <2>1, <2>2
<1>3. CASE Pass(e)
  <2>1. CASE Unwind(e, Collected(e), "finishing")
    <3>1. InLoop(ex[e])
      BY <1>3 DEF Pass, InLoop
    <3> QED BY <1>1, <1>2, <2>1, <3>1, UnwindShrinks
  <2>2. CASE Start(e, Collected(e))
    BY <1>3, <2>2, StartShrinks
  <2> QED BY <1>3, <2>1, <2>2 DEF Pass
<1>4. CASE PassThrown(e)
  <2>1. InLoop(ex[e]) /\ Unwind(e, Abandoned(Collected(e)), "raised")
    BY <1>4 DEF PassThrown, InLoop
  <2> QED BY <1>1, <1>2, <2>1, UnwindShrinks
<1>5. CASE Gathered(e)
  <2>1. ex'[e] = [ex[e] EXCEPT !.at = IF @ = "leaving" THEN "raised" ELSE "finishing",
                               !.held = {}]
    BY <1>5 DEF Gathered, Set, Typed
  <2>2. ex'[e].at \in {"raised", "finishing"} /\ ex'[e].held = {} /\ co' = co
    BY <1>1, <1>5, <2>1 DEF Gathered, Call
  <2>3. /\ AtLeft(ex'[e].at) < AtLeft(ex[e].at)
        /\ AtLeft(ex'[e].at) \in Nat /\ AtLeft(ex[e].at) \in Nat
    BY <1>5, <2>2, AtLeftIs DEF Gathered
  <2> QED BY <2>2, <2>3, CallShrinks
<1>6. CASE Return(e)
  <2>1. ex[e].at = "finishing" /\ ex'[e].at = "returned" /\ ex'[e].held = ex[e].held /\ co' = co
    BY <1>1, <1>6 DEF Return, Set, Typed, Call
  <2>2. /\ AtLeft(ex'[e].at) < AtLeft(ex[e].at)
        /\ AtLeft(ex'[e].at) \in Nat /\ AtLeft(ex[e].at) \in Nat
    BY <2>1, AtLeftIs
  <2> QED BY <2>1, <2>2, CallShrinks
<1>7. CASE /\ ex[e].at \in {"starting", "gathering", "leaving", "finishing"}
           /\ Set(e, [ex[e] EXCEPT !.at = "raised"])
           /\ UNCHANGED co
  <2>1. ex'[e].at = "raised" /\ ex'[e].held = ex[e].held /\ co' = co
    BY <1>1, <1>7 DEF Set, Typed, Call
  <2>2. /\ AtLeft(ex'[e].at) < AtLeft(ex[e].at)
        /\ AtLeft(ex'[e].at) \in Nat /\ AtLeft(ex[e].at) \in Nat
    BY <1>7, <2>1, AtLeftIs
  <2> QED BY <2>1, <2>2, CallShrinks
<1>8. CASE ex[e].at = "waiting" /\ Unwind(e, Abandoned(ex[e]), "raised")
  <2>1. InLoop(ex[e])
    BY <1>8 DEF InLoop
  <2> QED BY <1>1, <1>2, <1>8, <2>1, UnwindShrinks
<1> QED BY <1>3, <1>4, <1>5, <1>6, <1>7, <1>8 DEF Loop, Abort

LEMMA BeginShrinks ==
  ASSUME Typed, NEW e \in Exec, NEW id \in Id, NEW deps \in GraphsOf[e], Begin(e, id, deps)
  PROVE  Shrinks(e)
<1>1. ex[e].at = "idle" /\ co' = co
  BY DEF Begin
<1>2. ex'[e].at \in {"starting", "rejected"} /\ ex'[e].held = ex[e].held
  BY DEF Begin, Set, Typed, Call
<1>3. /\ AtLeft(ex'[e].at) < AtLeft(ex[e].at)
      /\ AtLeft(ex'[e].at) \in Nat /\ AtLeft(ex[e].at) \in Nat
  BY <1>1, <1>2, AtLeftIs
<1> QED BY <1>1, <1>2, <1>3, CallShrinks

LEMMA NextShrinks ==
  ASSUME WInv, AllGoing, [Next]_vars
  PROVE  \A e \in Exec : Shrinks(e)
<1>1. Typed /\ \A e \in Exec : Local(ex[e], co[e]) /\ Going(e)
  BY DEF WInv, AllGoing
<1>2. ASSUME NEW e \in Exec, Shrinks(e),
             \A o \in Exec \ {e} : ex'[o] = ex[o] /\ co'[o] = co[o]
      PROVE  \A o \in Exec : Shrinks(o)
  BY <1>1, <1>2, SameShrinks
<1>3. CASE \E e \in Exec : \E id \in Id, deps \in GraphsOf[e] : Begin(e, id, deps)
  <2>1. PICK e \in Exec : \E id \in Id, deps \in GraphsOf[e] : Begin(e, id, deps)
    BY <1>3
  <2>2. Shrinks(e)
    BY <1>1, <2>1, BeginShrinks
  <2> QED BY <1>1, <1>2, <2>1, <2>2, OneCall
<1>4. CASE \E e \in Exec : Loop(e) \/ Abort(e)
  <2>1. PICK e \in Exec : Loop(e) \/ Abort(e)
    BY <1>4
  <2>2. Shrinks(e)
    BY <1>1, <2>1, LoopShrinks
  <2> QED BY <1>1, <1>2, <2>1, <2>2, OneCall
<1>5. CASE \E e \in Exec, t \in Task : Turn(e, t)
  <2>1. PICK e \in Exec, t \in Task : Turn(e, t)
    BY <1>5
  <2>2. Shrinks(e)
    BY <1>1, <2>1, TurnShrinks
  <2> QED BY <1>1, <1>2, <2>1, <2>2, OneCall
<1>6. CASE (\E ids \in SUBSET Id : Cancel(ids)) \/ UNCHANGED vars
  BY <1>1, <1>6, SameShrinks DEF Cancel, vars
<1> QED BY <1>3, <1>4, <1>5, <1>6 DEF Next, Loop, Turn

\* For every graph and limit, whatever fails, throws or is cancelled: a call that has not
\* ended, and a coroutine that has not, can go on (the semaphore of _execute_task, the waits of
\* execute()), and every step lowers a measure of 5 for the call and 6 for each task.
THEOREM AlwaysGetsOn == Spec => GetsOn
<1>1. WInv /\ AllGoing => NeverStuck
  BY GoingGoesOn
<1>2. WInv /\ AllGoing /\ [Next]_vars => \A e \in Exec : Shrinks(e)
  BY NextShrinks
<1> QED
  BY <1>1, <1>2, SpecInv, SpecGoing, PTL DEF GetsOn, Spec
==============================================================================
