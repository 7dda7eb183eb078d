----------------------- MODULE DependencyGraph_proofs -----------------------
(***************************************************************************)
(* Theorems about DependencyGraph: the map of dependents stays the inverse *)
(* of the dependencies.  Nothing more is needed for the induction than     *)
(* the types, and that a task's dependents are tasks of the graph.  What   *)
(* the queries answer then follows from the lemmas of TaskGraph_proofs.    *)
(***************************************************************************)
EXTENDS DependencyGraph, TaskGraph_proofs

GInv ==
  /\ graph = [deps |-> graph.deps, rdeps |-> graph.rdeps]
  /\ WellFormed(graph)

\* An added task is the dependent of what it depends on, and of nothing else.
LEMMA AddInv ==
  ASSUME GInv, NEW t \in Task, NEW ds \in SUBSET Task, AddTask(t, ds)
  PROVE  GInv'
<1>1. /\ graph'.deps = [u \in Nodes(graph) \cup {t} |-> IF u = t THEN ds ELSE graph.deps[u]]
      /\ graph'.rdeps = [d \in Task |-> IF d \in ds THEN graph.rdeps[d] \cup {t}
                                                    ELSE graph.rdeps[d]]
      /\ graph' = [deps |-> graph'.deps, rdeps |-> graph'.rdeps]
      /\ t \notin Nodes(graph)
  BY DEF AddTask, Added
<1>2. Nodes(graph)' = Nodes(graph) \cup {t}
  BY <1>1 DEF Nodes
<1>3. /\ Nodes(graph)' \subseteq Task
      /\ graph'.deps \in [Nodes(graph)' -> SUBSET Task]
      /\ graph'.rdeps \in [Task -> SUBSET Task]
  BY <1>1, <1>2 DEF GInv, WellFormed
<1>4. DependentsInverse(graph)'
  BY <1>1, <1>2 DEF GInv, WellFormed, DependentsInverse
<1> QED
  BY <1>1, <1>3, <1>4 DEF GInv, WellFormed

\* A removed task is in nobody's dependencies and in nobody's dependents.
LEMMA RemoveInv ==
  ASSUME GInv, NEW t \in Task, RemoveTask(t)
  PROVE  GInv'
<1>1. /\ graph'.deps = [u \in Nodes(graph) \ {t} |->
                          IF u \in graph.rdeps[t] THEN graph.deps[u] \ {t} ELSE graph.deps[u]]
      /\ graph'.rdeps = [d \in Task |-> IF d = t THEN {}
                                        ELSE IF d \in graph.deps[t] THEN graph.rdeps[d] \ {t}
                                        ELSE graph.rdeps[d]]
      /\ graph' = [deps |-> graph'.deps, rdeps |-> graph'.rdeps]
      /\ t \in Nodes(graph)
  BY DEF RemoveTask, Removed
<1>2. Nodes(graph)' = Nodes(graph) \ {t}
  BY <1>1 DEF Nodes
<1>3. /\ Nodes(graph)' \subseteq Task
      /\ graph'.deps \in [Nodes(graph)' -> SUBSET Task]
      /\ graph'.rdeps \in [Task -> SUBSET Task]
  BY <1>1, <1>2 DEF GInv, WellFormed
<1>4. DependentsInverse(graph)'
  BY <1>1, <1>2 DEF GInv, WellFormed, DependentsInverse
<1> QED
  BY <1>1, <1>3, <1>4 DEF GInv, WellFormed

LEMMA GraphStaysWellFormed == Spec => []GInv
<1>1. Init => GInv
  BY DEF Init, NoTasks, GInv, WellFormed, DependentsInverse, Nodes
<1>2. GInv /\ [Next]_graph => GInv'
  <2>1. GInv /\ UNCHANGED graph => GInv'
    BY DEF GInv, WellFormed, DependentsInverse, Nodes
  <2> QED
    BY <2>1, AddInv, RemoveInv DEF Next
<1> QED
  BY <1>1, <1>2, PTL DEF Spec

\* After any sequence of additions and removals the dependents are the inverse of the
\* dependencies: Kahn's loops walk the one map and count by the other.
THEOREM DependentsStayInverse == Spec => []DependentsAreInverse
<1>1. GInv => DependentsAreInverse
  BY DEF GInv, WellFormed, DependentsInverse, DependentsAreInverse
<1> QED
  BY <1>1, GraphStaysWellFormed, PTL

\* validate() and topological_sort() are right about every graph any sequence of additions
\* and removals makes, with any number of tasks: it accepts exactly the graphs without a cycle
\* or an unknown id, and lists their tasks once, each after all it depends on.
THEOREM SortStaysTopological == Spec => []SortIsTopological
<1>1. ASSUME GInv PROVE SortIsTopological
  <2> DEFINE order == Kahn(graph)
  <2>1. /\ WellFormed(graph)
        /\ Valid(graph) <=> (Closed(graph) /\ Acyclic(graph))
        /\ Valid(graph) => Lists(order, Nodes(graph)) /\ Sorted(graph, order)
    BY <1>1, ValidMeans DEF GInv
  <2>2. ASSUME Valid(graph)
        PROVE  /\ {order[i] : i \in DOMAIN order} = Nodes(graph)
               /\ \A t \in Nodes(graph) : \A d \in graph.deps[t] :
                    Position(order, d) < Position(order, t)
    <3>1. /\ DOMAIN order = 1..Len(order) /\ Len(order) \in Nat
          /\ \A i \in 1..Len(order) : order[i] \in Nodes(graph)
          /\ \A t \in Nodes(graph) : \E i \in 1..Len(order) : order[i] = t
          /\ \A i, j \in 1..Len(order) : order[i] = order[j] => i = j
      BY <2>1, <2>2 DEF Lists
    <3> HIDE DEF order
    <3>2. \A i \in 1..Len(order) : Position(order, order[i]) = i
      BY <3>1 DEF Position
    <3>3. ASSUME NEW t \in Nodes(graph), NEW d \in graph.deps[t]
          PROVE  Position(order, d) < Position(order, t)
      <4>1. PICK i \in 1..Len(order) : order[i] = t
        BY <3>1
      <4>2. PICK j \in 1..(i - 1) : order[j] = d
        BY <2>1, <2>2, <4>1 DEF Sorted
      <4>3. j \in 1..Len(order) /\ j < i
        BY <3>1
      <4> QED
        BY <3>2, <4>1, <4>2, <4>3
    <3> QED
      BY <3>1, <3>3
  <2> QED
    BY <2>1, <2>2 DEF SortIsTopological
<1> QED
  BY <1>1, GraphStaysWellFormed, PTL

\* get_all_dependencies answers with the transitive closure, on cyclic graphs and with
\* unknown ids too, for any number of tasks: the walk ends and finds no more and no less.
THEOREM AllDependenciesStayClosure == Spec => []AllDependenciesIsClosure
<1>1. ASSUME GInv PROVE AllDependenciesIsClosure
  <2> SUFFICES ASSUME NEW t \in Nodes(graph)
               PROVE  /\ graph.deps[t] \subseteq AllDependencies(graph, t)
                      /\ DownClosed(graph, AllDependencies(graph, t))
                      /\ \A S \in SUBSET Task :
                           (graph.deps[t] \subseteq S /\ DownClosed(graph, S))
                             => AllDependencies(graph, t) \subseteq S
    BY DEF AllDependenciesIsClosure
  <2>1. WellFormed(graph) /\ Dependencies(graph, t) = graph.deps[t]
    BY <1>1 DEF GInv, Dependencies
  <2> QED
    BY <2>1, AllDependenciesMeans
<1> QED
  BY <1>1, GraphStaysWellFormed, PTL

\* critical_path() finds a longest chain and parallel_groups() the ranks, on every valid
\* graph: the chain starts at a task without dependencies, there are as many groups as it has
\* tasks, each group is what is ready after the ones before, and no chain joins two of a group.
THEOREM CriticalPathStaysLongest == Spec => []CriticalPathIsLongest
<1>1. ASSUME GInv PROVE CriticalPathIsLongest
  <2> SUFFICES ASSUME Valid(graph), Nodes(graph) # {}
               PROVE  LET path   == CriticalPath(graph)
                          groups == ParallelGroups(graph)
                      IN  /\ graph.deps[path[1]] = {}
                          /\ \A i \in 1..(Len(path) - 1) : path[i] \in graph.deps[path[i + 1]]
                          /\ Len(path) = Len(groups)
                          /\ \A i \in DOMAIN groups :
                               groups[i] = Ready(graph, UNION {groups[j] : j \in 1..(i - 1)})
                          /\ \A i \in DOMAIN groups : \A a, b \in groups[i] :
                               IsParallelizable(graph, a, b)
    BY DEF CriticalPathIsLongest
  <2> DEFINE dist   == Distances(graph)
             top    == Farthest(dist, Nodes(graph))
             path   == CriticalPath(graph)
             groups == ParallelGroups(graph)
             N      == dist[top] + 1
  <2>1. WellFormed(graph) /\ Ranked(graph, dist)
    BY <1>1, DistancesRank DEF GInv
  <2>2. PathInv(graph, dist, path) /\ graph.deps[path[1]] = {} /\ path[1] \in Nodes(graph)
    BY <2>1, CriticalPathMeans
  <2> HIDE DEF path
  <2>3. top \in Nodes(graph) /\ \A t \in Nodes(graph) : dist[t] <= dist[top]
    BY <2>1, FarthestMeans
  <2>4. groups = [i \in 1..N |-> Level(graph, dist, i - 1)]
    BY <2>1, <2>3, ParallelGroupsMeans
  <2> HIDE DEF groups
  <2>5. N \in Nat /\ dist[path[1]] = 0 /\ Len(path) \in Nat
    <3>1. dist \in [Nodes(graph) -> Nat]
      BY <2>1 DEF Ranked
    <3>2. dist[path[1]] # 0 => \E d \in graph.deps[path[1]] : TRUE
      BY <2>1, <2>2 DEF Ranked
    <3>3. Len(path) \in Nat
      BY <2>2 DEF PathInv
    <3> QED BY <2>2, <2>3, <3>1, <3>2, <3>3
  <2>6. Len(path) = N
    <3>1. Len(path) + dist[path[1]] = dist[top] + 1
      BY <2>2 DEF PathInv
    <3> QED BY <2>5, <3>1
  <2> HIDE DEF dist, top, N
  <2>7. DOMAIN groups = 1..N /\ Len(groups) = N
    <3>1. groups \in Seq(SUBSET Nodes(graph))
      BY <2>4, <2>5 DEF Level
    <3>2. DOMAIN groups = 1..N
      BY <2>4
    <3> QED BY <3>1, <3>2, <2>5, LenProperties
  <2>8. ASSUME NEW i \in 1..N
        PROVE  /\ groups[i] = Level(graph, dist, i - 1) /\ i - 1 \in Nat
               /\ UNION {groups[j] : j \in 1..(i - 1)} = Below(graph, dist, i - 1)
    <3>1. i - 1 \in Nat /\ \A j \in 1..(i - 1) : j \in 1..N /\ groups[j] = Level(graph, dist, j - 1)
      BY <2>4, <2>5
    <3>2. ASSUME NEW t \in Nodes(graph), dist[t] < i - 1
          PROVE  \E j \in 1..(i - 1) : t \in groups[j]
      <4>1. dist[t] \in Nat
        BY <2>1 DEF Ranked
      <4>2. dist[t] + 1 \in 1..(i - 1) /\ (dist[t] + 1) - 1 = dist[t]
        BY <3>1, <3>2, <4>1
      <4>3. t \in groups[dist[t] + 1]
        BY <3>1, <4>2 DEF Level
      <4> QED BY <4>2, <4>3
    <3>3. ASSUME NEW j \in 1..(i - 1), NEW t \in groups[j]
          PROVE  t \in Nodes(graph) /\ dist[t] < i - 1
      <4>1. t \in Nodes(graph) /\ dist[t] = j - 1
        BY <3>1 DEF Level
      <4> QED BY <4>1, <3>1
    <3> QED BY <2>4, <3>1, <3>2, <3>3 DEF Below
  <2>9. \A i \in 1..N : groups[i] = Ready(graph, UNION {groups[j] : j \in 1..(i - 1)})
    BY <2>1, <2>8, LevelIsReady
  <2>10. ASSUME NEW i \in 1..N, NEW a \in groups[i], NEW b \in groups[i]
         PROVE  IsParallelizable(graph, a, b)
    <3> DEFINE below == Below(graph, dist, i - 1)
    <3>1. /\ a \in Level(graph, dist, i - 1) /\ b \in Level(graph, dist, i - 1)
          /\ i - 1 \in Nat
      BY <2>8
    <3>2. a \in Nodes(graph) /\ b \in Nodes(graph) /\ a \notin below /\ b \notin below
      BY <3>1 DEF Level, Below
    <3>3. DownClosed(graph, below) /\ graph.deps[a] \subseteq below /\ graph.deps[b] \subseteq below
      BY <2>1, <3>1, LevelIsReady
    <3>4. below \in SUBSET Task
      BY <2>1 DEF Below, WellFormed
    <3> HIDE DEF below
    <3>5. AllDependencies(graph, a) \subseteq below
      BY <2>1, <3>2, <3>3, <3>4, AllDependenciesMeans DEF Dependencies
    <3>6. AllDependencies(graph, b) \subseteq below
      BY <2>1, <3>2, <3>3, <3>4, AllDependenciesMeans DEF Dependencies
    <3> QED BY <3>2, <3>5, <3>6 DEF IsParallelizable
  <2>11. \A i \in 1..(Len(path) - 1) : path[i] \in graph.deps[path[i + 1]]
    BY <2>2 DEF PathInv
  <2> QED
    BY <2>2, <2>6, <2>7, <2>9, <2>10, <2>11 DEF path, groups
<1> QED
  BY <1>1, GraphStaysWellFormed, PTL
=============================================================================
