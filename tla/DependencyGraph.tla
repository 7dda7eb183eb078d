--------------------------- MODULE DependencyGraph ---------------------------
(***************************************************************************)
(* A DependencyGraph (weebot/core/dependency_graph.py) under any sequence  *)
(* of add_task and remove_task, and what its queries must then answer.     *)
(***************************************************************************)
EXTENDS TaskGraph

VARIABLE graph

Init == graph = NoTasks

\* A task is added once: the dict of a workflow has each id once.
AddTask(t, ds) ==
  /\ t \notin Nodes(graph)
  /\ graph' = Added(graph, t, ds)

RemoveTask(t) ==
  /\ t \in Nodes(graph)
  /\ graph' = Removed(graph, t)

Next ==
  \/ \E t \in Task, ds \in SUBSET Task : AddTask(t, ds)
  \/ \E t \in Task : RemoveTask(t)

Spec == Init /\ [][Next]_graph

-----------------------------------------------------------------------------
(* What the answers mean *)

Position(order, t) == CHOOSE i \in DOMAIN order : order[i] = t

-----------------------------------------------------------------------------
(* Properties *)

\* The map of dependents is the inverse of the dependencies after any sequence of
\* additions and removals: every algorithm below walks it in place of them.
DependentsAreInverse ==
  \A d \in Task : graph.rdeps[d] = {t \in Nodes(graph) : d \in graph.deps[t]}

\* validate() accepts exactly the graphs without a cycle or an unknown id, and
\* topological_sort() lists their tasks once, each after all it depends on.
SortIsTopological ==
  /\ Valid(graph) <=> (Closed(graph) /\ Acyclic(graph))
  /\ Valid(graph) =>
       LET order == Kahn(graph)
       IN  /\ {order[i] : i \in DOMAIN order} = Nodes(graph)
           /\ \A t \in Nodes(graph) : \A d \in graph.deps[t] :
                Position(order, d) < Position(order, t)

\* get_all_dependencies is the smallest closed set that holds the direct ones, on cyclic
\* graphs and with unknown ids too.
AllDependenciesIsClosure ==
  \A t \in Nodes(graph) :
    /\ graph.deps[t] \subseteq AllDependencies(graph, t)
    /\ DownClosed(graph, AllDependencies(graph, t))
    /\ \A S \in SUBSET Task :
         (graph.deps[t] \subseteq S /\ DownClosed(graph, S)) => AllDependencies(graph, t) \subseteq S

\* The critical path is a chain from a task without dependencies, and no chain is longer:
\* there are exactly as many parallel groups, each independent and ready after the ones before.
CriticalPathIsLongest ==
  (Valid(graph) /\ Nodes(graph) # {}) =>
    LET path   == CriticalPath(graph)
        groups == ParallelGroups(graph)
    IN  /\ graph.deps[path[1]] = {}
        /\ \A i \in 1..(Len(path) - 1) : path[i] \in graph.deps[path[i + 1]]
        /\ Len(path) = Len(groups)
        /\ \A i \in DOMAIN groups :
             groups[i] = Ready(graph, UNION {groups[j] : j \in 1..(i - 1)})
        /\ \A i \in DOMAIN groups : \A a, b \in groups[i] : IsParallelizable(graph, a, b)
=============================================================================
