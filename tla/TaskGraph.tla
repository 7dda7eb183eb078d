------------------------------ MODULE TaskGraph ------------------------------
(***************************************************************************)
(* The operations of weebot/core/dependency_graph.py on a graph            *)
(*   [deps |-> node -> what it depends on, rdeps |-> task -> dependents].  *)
(*                                                                         *)
(* The loops are recursive functions on the number of turns taken.  Where  *)
(* Python iterates over a set, Order says which element comes first.       *)
(***************************************************************************)
EXTENDS Naturals, Sequences, FiniteSets

CONSTANTS
  Task,   \* task ids, those nobody adds included
  Order   \* the tasks in the order in which sets are iterated

ASSUME OrderAssumption ==
  /\ IsFiniteSet(Task)
  /\ Order \in Seq(Task)
  /\ \A t \in Task : \E i \in DOMAIN Order : Order[i] = t
  /\ \A i, j \in DOMAIN Order : Order[i] = Order[j] => i = j

InOrder(S) ==
  LET taken[n \in 0..Len(Order)] ==
        IF n = 0 THEN <<>>
        ELSE IF Order[n] \in S THEN Append(taken[n - 1], Order[n]) ELSE taken[n - 1]
  IN  taken[Len(Order)]

First(S) == InOrder(S)[1]

Turns == Cardinality(Task)

-----------------------------------------------------------------------------
(* Construction *)

NoTasks == [deps |-> [t \in {} |-> {}], rdeps |-> [t \in Task |-> {}]]

Nodes(g) == DOMAIN g.deps

\* add_task: an id that is there already gets a new node.
Added(g, t, ds) ==
  [deps  |-> [u \in Nodes(g) \cup {t} |-> IF u = t THEN ds ELSE g.deps[u]],
   rdeps |-> [d \in Task |-> IF d \in ds THEN g.rdeps[d] \cup {t} ELSE g.rdeps[d]]]

\* MUTANT: the dependents of a removed task keep the dependency.
Unlinked(g, t) ==
  [deps  |-> [u \in Nodes(g) \ {t} |-> g.deps[u]],
   rdeps |-> [d \in Task |->
                IF d = t THEN {} ELSE IF d \in g.deps[t] THEN g.rdeps[d] \ {t} ELSE g.rdeps[d]]]

\* remove_task, for an id that is there.
Removed(g, t) ==
  [deps  |-> [u \in Nodes(g) \ {t} |->
                IF u \in g.rdeps[t] THEN g.deps[u] \ {t} ELSE g.deps[u]],
   rdeps |-> [d \in Task |->
                IF d = t THEN {} ELSE IF d \in g.deps[t] THEN g.rdeps[d] \ {t} ELSE g.rdeps[d]]]

\* MUTANT: the dependents are not recorded.
BuiltForward(deps) == [deps |-> deps, rdeps |-> [d \in Task |-> {}]]

\* The constructor: every task of the dict once.
Built(deps) == [deps |-> deps, rdeps |-> [d \in Task |-> {t \in DOMAIN deps : d \in deps[t]}]]

-----------------------------------------------------------------------------
(* validate, topological_sort *)

\* _find_missing_dependencies finds none.
Closed(g) == \A t \in Nodes(g) : g.deps[t] \subseteq Nodes(g)

InDegree(g) == [t \in Nodes(g) |-> Cardinality(g.deps[t])]

Lowered(g, degree, done) ==
  [t \in Nodes(g) |-> degree[t] - Cardinality({d \in done : t \in g.rdeps[d]})]

\* MUTANT: a dependent is queued with its first dependency.
Touched(g, degree, done) == {t \in Nodes(g) : t \in UNION {g.rdeps[d] : d \in done}}

\* The dependents whose in-degree falls to zero with these tasks done.
Freed(g, degree, done) ==
  {t \in Nodes(g) : /\ t \in UNION {g.rdeps[d] : d \in done}
                    /\ Lowered(g, degree, done)[t] = 0}

\* One turn of Kahn's loop: the head of the queue is done.
KahnTurn(g, k) ==
  IF k.queue = <<>> THEN k
  ELSE LET done == {Head(k.queue)}
       IN  [degree |-> Lowered(g, k.degree, done),
            queue  |-> Tail(k.queue) \o InOrder(Freed(g, k.degree, done)),
            order  |-> Append(k.order, Head(k.queue))]

Kahn(g) ==
  LET run[n \in 0..Turns] ==
        IF n = 0 THEN [degree |-> InDegree(g), order |-> <<>>,
                       queue  |-> InOrder({t \in Nodes(g) : InDegree(g)[t] = 0})]
                 ELSE KahnTurn(g, run[n - 1])
  IN  run[Turns].order

\* MUTANT: cycles are not looked for.
AcceptsCycles(g) == Closed(g)

\* validate() raises neither error.
Valid(g) == Closed(g) /\ Len(Kahn(g)) = Cardinality(Nodes(g))

-----------------------------------------------------------------------------
(* Queries *)

\* MUTANT: one dependency is enough.
ReadyEarly(g, settled) ==
  {t \in Nodes(g) \ settled : g.deps[t] = {} \/ g.deps[t] \cap settled # {}}

\* get_ready_tasks
Ready(g, settled) == {t \in Nodes(g) \ settled : g.deps[t] \subseteq settled}

Dependencies(g, t) == IF t \in Nodes(g) THEN g.deps[t] ELSE {}

\* MUTANT: what a dependency depends on is forgotten.
OneLevel(g, w) ==
  IF w.todo = <<>> THEN w
  ELSE [seen |-> w.seen \cup {w.todo[Len(w.todo)]}, todo |-> SubSeq(w.todo, 1, Len(w.todo) - 1)]

\* One turn of get_all_dependencies: the last task to process is looked into.
Visited(g, w) ==
  IF w.todo = <<>> THEN w ELSE
  LET last == w.todo[Len(w.todo)]
      rest == SubSeq(w.todo, 1, Len(w.todo) - 1)
  IN  IF last \in w.seen THEN [w EXCEPT !.todo = rest]
      ELSE [seen |-> w.seen \cup {last}, todo |-> rest \o InOrder(Dependencies(g, last))]

AllDependencies(g, t) ==
  LET run[n \in 0..(Turns * (Turns + 1))] ==
        IF n = 0 THEN [seen |-> {}, todo |-> InOrder(Dependencies(g, t))]
                 ELSE Visited(g, run[n - 1])
  IN  run[Turns * (Turns + 1)].seen

IsParallelizable(g, a, b) ==
  /\ {a, b} \subseteq Nodes(g)
  /\ a \notin AllDependencies(g, b)
  /\ b \notin AllDependencies(g, a)

\* One turn of parallel_groups: everything of in-degree zero is a group.
GroupTurn(g, p) ==
  LET ready == {t \in p.left : p.degree[t] = 0}
  IN  IF ready = {} THEN p
      ELSE [degree |-> Lowered(g, p.degree, ready), left |-> p.left \ ready,
            groups |-> Append(p.groups, ready)]

ParallelGroups(g) ==
  LET run[n \in 0..Turns] ==
        IF n = 0 THEN [degree |-> InDegree(g), left |-> Nodes(g), groups |-> <<>>]
                 ELSE GroupTurn(g, run[n - 1])
  IN  run[Turns].groups

Longer(a, b) == IF a > b THEN a ELSE b

Stretched(g, dist, done) ==
  [t \in Nodes(g) |->
     IF t \in g.rdeps[done] THEN Longer(dist[t], dist[done] + 1) ELSE dist[t]]

\* critical_path: the distance of every task from a task without dependencies.
Distances(g) ==
  LET order == Kahn(g)
      run[n \in 0..Len(order)] ==
        IF n = 0 THEN [t \in Nodes(g) |-> 0] ELSE Stretched(g, run[n - 1], order[n])
  IN  run[Len(order)]

\* MUTANT: back over any dependency.
AnyOf(dist, S) == First(S)

Farthest(dist, S) == First({t \in S : \A u \in S : dist[u] <= dist[t]})

Extended(g, dist, path) ==
  IF g.deps[path[1]] = {} THEN path ELSE <<Farthest(dist, g.deps[path[1]])>> \o path

\* critical_path, of a valid graph with a task: back from the farthest task.
CriticalPath(g) ==
  LET dist == Distances(g)
      path[n \in 0..Turns] ==
        IF n = 0 THEN <<Farthest(dist, Nodes(g))>> ELSE Extended(g, dist, path[n - 1])
  IN  path[Turns]

-----------------------------------------------------------------------------
(* What the answers mean *)

\* The tasks are closed under what they depend on.
DownClosed(g, S) == \A t \in S : Dependencies(g, t) \subseteq S

\* No set of tasks in which each depends on another one of the set.
Acyclic(g) ==
  \A S \in SUBSET Nodes(g) : S # {} => \E t \in S : g.deps[t] \cap S = {}
=============================================================================
