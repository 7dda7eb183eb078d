--------------------------- MODULE TaskGraph_proofs ---------------------------
(***************************************************************************)
(* What the operations of TaskGraph compute, for every finite set of       *)
(* tasks and every graph.  Each loop is a recursive function on the number *)
(* of turns taken: first it is shown to exist, then an invariant of its    *)
(* state is shown turn by turn (ByTurns), and a measure says that the      *)
(* turns are enough.                                                       *)
(***************************************************************************)
EXTENDS TaskGraph, FiniteSetTheorems, FunctionTheorems, SequenceTheorems, TLAPS

-----------------------------------------------------------------------------
(* Induction and recursion on the turns of a loop *)

\* A set of numbers has a least one.
LEMMA LeastNumber ==
  ASSUME NEW S \in SUBSET Nat, S # {}
  PROVE  \E n \in S : \A m \in S : n <= m
<1> DEFINE T == {0..n : n \in S}
<1>1. T \subseteq FiniteSubsetsOf(Nat)
  <2>1. \A n \in S : IsFiniteSet(0..n) /\ 0..n \subseteq Nat
    BY FS_Interval
  <2> QED BY <2>1 DEF FiniteSubsetsOf
<1>2. IsWellFoundedOn(StrictSubsetOrdering(Nat), FiniteSubsetsOf(Nat))
  BY FS_StrictSubsetOrderingWellFounded
<1>3. T # {}
  OBVIOUS
<1>4. PICK x \in T : \A y \in T : ~ (<<y, x>> \in StrictSubsetOrdering(Nat))
  <2> HIDE DEF T
  <2> QED BY <1>1, <1>2, <1>3, WFMin
<1>5. PICK n \in S : x = 0..n
  BY <1>4
<1>6. ASSUME NEW m \in S, m < n PROVE FALSE
  <2>1. 0..m \in T /\ 0..m \subseteq 0..n /\ 0..m # 0..n /\ 0..n \subseteq Nat
    BY <1>6
  <2>2. <<0..m, 0..n>> \in StrictSubsetOrdering(Nat)
    BY <2>1 DEF StrictSubsetOrdering
  <2> QED BY <2>1, <2>2, <1>4, <1>5
<1> QED BY <1>6

\* What holds at the start and is kept by a turn holds after any number of turns.
LEMMA ByTurns ==
  ASSUME NEW N \in Nat, NEW S, 0 \in S, \A n \in 1..N : n - 1 \in S => n \in S
  PROVE  0..N \subseteq S
<1> SUFFICES ASSUME (0..N) \ S # {} PROVE FALSE
  OBVIOUS
<1>1. (0..N) \ S \in SUBSET Nat
  OBVIOUS
<1>2. PICK n \in (0..N) \ S : \A m \in (0..N) \ S : n <= m
  BY <1>1, LeastNumber
<1> QED BY <1>2

\* A loop whose turns map V to V has a run of any length.
LEMMA RunExists ==
  ASSUME NEW V, NEW a \in V, NEW N \in Nat, NEW step \in [1..N -> [V -> V]]
  PROVE  \E f \in [0..N -> V] : f[0] = a /\ \A n \in 1..N : f[n] = step[n][f[n - 1]]
<1> DEFINE IsRun(f, m) == f[0] = a /\ \A n \in 1..m : f[n] = step[n][f[n - 1]]
           S == {m \in 0..N : \E f \in [0..m -> V] : IsRun(f, m)}
<1>1. 0 \in S
  <2> DEFINE f == [n \in 0..0 |-> a]
  <2>1. f \in [0..0 -> V] /\ IsRun(f, 0)
    OBVIOUS
  <2> HIDE DEF f, IsRun
  <2> QED BY <2>1
<1>2. ASSUME NEW m \in 1..N, m - 1 \in S PROVE m \in S
  <2>1. PICK f \in [0..(m - 1) -> V] : IsRun(f, m - 1)
    BY <1>2
  <2> DEFINE h == [n \in 0..m |-> IF n = m THEN step[m][f[m - 1]] ELSE f[n]]
  <2>2. step[m][f[m - 1]] \in V
    OBVIOUS
  <2>3. h \in [0..m -> V]
    BY <2>2
  <2>4. /\ \A n \in 0..(m - 1) : h[n] = f[n]
        /\ h[m] = step[m][h[m - 1]]
    BY m - 1 \in 0..m, m # m - 1
  <2>5. IsRun(h, m)
    <3> HIDE DEF h
    <3> QED BY <2>1, <2>4
  <2> HIDE DEF h, IsRun
  <2> QED BY <2>3, <2>5
<1>3. N \in S
  <2> HIDE DEF S
  <2>1. 0..N \subseteq S
    BY <1>1, <1>2, ByTurns
  <2> QED BY <2>1
<1> QED BY <1>3

-----------------------------------------------------------------------------
(* Sequences that list a set *)

\* Every element of S is in q once, and nothing else is.
Lists(q, S) ==
  /\ q \in Seq(S)
  /\ \A t \in S : \E i \in 1..Len(q) : q[i] = t
  /\ \A i, j \in 1..Len(q) : q[i] = q[j] => i = j

LEMMA ListLength ==
  ASSUME NEW S, NEW q, Lists(q, S)
  PROVE  IsFiniteSet(S) /\ Cardinality(S) = Len(q) /\ Len(q) \in Nat
<1>1. q \in [1..Len(q) -> S] /\ Len(q) \in Nat
  BY DEF Lists
<1>2. ExistsBijection(1..Len(q), S)
  <2>1. q \in Injection(1..Len(q), S)
    BY <1>1, Fun_IsInj DEF Lists
  <2>2. q \in Surjection(1..Len(q), S)
    BY <1>1, Fun_IsSurj DEF Lists
  <2> QED BY <2>1, <2>2 DEF ExistsBijection, Bijection
<1>3. IsFiniteSet(1..Len(q)) /\ Cardinality(1..Len(q)) = Len(q)
  <2>1. 1 \in Int /\ Len(q) \in Int
    BY <1>1
  <2>2. /\ IsFiniteSet(1..Len(q))
        /\ Cardinality(1..Len(q)) = IF 1 > Len(q) THEN 0 ELSE Len(q) - 1 + 1
    BY <2>1, FS_Interval
  <2> QED BY <2>2, <1>1
<1> QED BY <1>1, <1>2, <1>3, FS_Bijection

LEMMA ListNothing == Lists(<<>>, {})
BY DEF Lists

LEMMA ListAppend ==
  ASSUME NEW S, NEW q, Lists(q, S), NEW t, t \notin S
  PROVE  Lists(Append(q, t), S \cup {t})
<1>1. q \in Seq(S \cup {t}) /\ Len(q) \in Nat /\ \A i \in 1..Len(q) : q[i] \in S
  BY DEF Lists
<1> DEFINE r == Append(q, t)
<1>2. /\ r \in Seq(S \cup {t}) /\ Len(r) = Len(q) + 1 /\ r[Len(q) + 1] = t
      /\ \A i \in 1..Len(q) : r[i] = q[i]
  BY <1>1, AppendProperties
<1> HIDE DEF r
<1>3. \A u \in S \cup {t} : \E i \in 1..Len(r) : r[i] = u
  <2>1. ASSUME NEW u \in S PROVE \E i \in 1..Len(r) : r[i] = u
    <3>1. PICK i \in 1..Len(q) : q[i] = u
      BY DEF Lists
    <3> QED BY <3>1, <1>1, <1>2, i \in 1..Len(r)
  <2>2. Len(q) + 1 \in 1..Len(r)
    BY <1>1, <1>2
  <2> QED BY <2>1, <2>2, <1>2
<1>4. \A i, j \in 1..Len(r) : r[i] = r[j] => i = j
  <2>1. \A i \in 1..Len(r) : i \in 1..Len(q) \/ i = Len(q) + 1
    BY <1>1, <1>2
  <2>2. \A i \in 1..Len(q) : r[i] # t
    BY <1>1, <1>2
  <2>3. \A i, j \in 1..Len(q) : r[i] = r[j] => i = j
    BY <1>2 DEF Lists
  <2> QED BY <2>1, <2>2, <2>3, <1>2
<1> QED BY <1>2, <1>3, <1>4 DEF Lists, r

LEMMA ListConcat ==
  ASSUME NEW S, NEW T, NEW q, NEW r, Lists(q, S), Lists(r, T), S \cap T = {}
  PROVE  Lists(q \o r, S \cup T)
<1>1. /\ q \in Seq(S \cup T) /\ Len(q) \in Nat /\ \A i \in 1..Len(q) : q[i] \in S
      /\ r \in Seq(S \cup T) /\ Len(r) \in Nat /\ \A i \in 1..Len(r) : r[i] \in T
  BY DEF Lists
<1> DEFINE c == q \o r
<1>2. /\ c \in Seq(S \cup T) /\ Len(c) = Len(q) + Len(r)
      /\ \A i \in 1..Len(c) : c[i] = IF i <= Len(q) THEN q[i] ELSE r[i - Len(q)]
  BY <1>1, ConcatProperties
<1>3. /\ \A i \in 1..Len(q) : c[i] = q[i]
      /\ \A i \in 1..Len(r) : c[i + Len(q)] = r[i]
  BY <1>1, <1>2
<1> HIDE DEF c
<1>4. \A u \in S \cup T : \E i \in 1..Len(c) : c[i] = u
  <2>1. ASSUME NEW u \in S PROVE \E i \in 1..Len(c) : c[i] = u
    <3>1. PICK i \in 1..Len(q) : q[i] = u
      BY DEF Lists
    <3> QED BY <3>1, <1>1, <1>2, <1>3, i \in 1..Len(c)
  <2>2. ASSUME NEW u \in T PROVE \E i \in 1..Len(c) : c[i] = u
    <3>1. PICK i \in 1..Len(r) : r[i] = u
      BY DEF Lists
    <3> QED BY <3>1, <1>1, <1>2, <1>3, i + Len(q) \in 1..Len(c)
  <2> QED BY <2>1, <2>2
<1>5. \A i, j \in 1..Len(c) : c[i] = c[j] => i = j
  <2> SUFFICES ASSUME NEW i \in 1..Len(c), NEW j \in 1..Len(c), c[i] = c[j] PROVE i = j
    OBVIOUS
  <2>1. CASE i <= Len(q) /\ j <= Len(q)
    <3>1. i \in 1..Len(q) /\ j \in 1..Len(q) /\ q[i] = q[j]
      BY <2>1, <1>1, <1>2
    <3> QED BY <3>1 DEF Lists
  <2>2. CASE ~(i <= Len(q)) /\ ~(j <= Len(q))
    <3>1. i - Len(q) \in 1..Len(r) /\ j - Len(q) \in 1..Len(r)
      BY <2>2, <1>1, <1>2
    <3>2. r[i - Len(q)] = r[j - Len(q)]
      BY <2>2, <1>2
    <3>3. i - Len(q) = j - Len(q)
      BY <3>1, <3>2 DEF Lists
    <3> QED BY <3>3, <1>1
  <2>3. CASE i <= Len(q) /\ ~(j <= Len(q))
    <3>1. i \in 1..Len(q) /\ j - Len(q) \in 1..Len(r) /\ q[i] = r[j - Len(q)]
      BY <2>3, <1>1, <1>2
    <3> QED BY <3>1, <1>1
  <2>4. CASE ~(i <= Len(q)) /\ j <= Len(q)
    <3>1. j \in 1..Len(q) /\ i - Len(q) \in 1..Len(r) /\ q[j] = r[i - Len(q)]
      BY <2>4, <1>1, <1>2
    <3> QED BY <3>1, <1>1
  <2> QED BY <2>1, <2>2, <2>3, <2>4
<1> QED BY <1>2, <1>4, <1>5 DEF Lists, c

LEMMA ListTail ==
  ASSUME NEW S, NEW q, Lists(q, S), q # <<>>
  PROVE  Head(q) \in S /\ Head(q) = q[1] /\ Lists(Tail(q), S \ {Head(q)})
<1>1. /\ q \in Seq(S) /\ Len(q) \in Nat \ {0} /\ Head(q) = q[1] /\ q[1] \in S
      /\ \A i \in 1..Len(q) : q[i] \in S
  BY DEF Lists
<1> DEFINE r == Tail(q)
<1>2. r \in Seq(S) /\ Len(r) = Len(q) - 1 /\ \A i \in 1..Len(r) : r[i] = q[i + 1]
  BY <1>1, HeadTailProperties
<1> HIDE DEF r
<1>3. \A i \in 1..Len(r) : r[i] \in S \ {Head(q)}
  <2> SUFFICES ASSUME NEW i \in 1..Len(r) PROVE r[i] \in S \ {Head(q)}
    OBVIOUS
  <2>1. i + 1 \in 1..Len(q) /\ 1 \in 1..Len(q) /\ i + 1 # 1 /\ r[i] = q[i + 1]
    BY <1>1, <1>2
  <2>2. q[i + 1] # q[1]
    BY <2>1 DEF Lists
  <2> QED BY <2>1, <2>2, <1>1
<1>4. r \in Seq(S \ {Head(q)})
  BY <1>2, <1>3
<1>5. \A u \in S \ {Head(q)} : \E i \in 1..Len(r) : r[i] = u
  <2> SUFFICES ASSUME NEW u \in S \ {Head(q)} PROVE \E i \in 1..Len(r) : r[i] = u
    OBVIOUS
  <2>1. PICK i \in 1..Len(q) : q[i] = u
    BY DEF Lists
  <2>2. i - 1 \in 1..Len(r) /\ (i - 1) + 1 = i
    BY <2>1, <1>1, <1>2
  <2>3. r[i - 1] = u
    BY <2>1, <2>2, <1>2
  <2> QED BY <2>2, <2>3
<1>6. \A i, j \in 1..Len(r) : r[i] = r[j] => i = j
  <2> SUFFICES ASSUME NEW i \in 1..Len(r), NEW j \in 1..Len(r), r[i] = r[j] PROVE i = j
    OBVIOUS
  <2>1. i + 1 \in 1..Len(q) /\ j + 1 \in 1..Len(q) /\ q[i + 1] = q[j + 1]
    BY <1>1, <1>2
  <2>2. i + 1 = j + 1
    BY <2>1 DEF Lists
  <2> QED BY <2>2
<1> QED BY <1>1, <1>4, <1>5, <1>6 DEF Lists, r

\* Iterating over a set meets each of its elements once.
LEMMA InOrderLists ==
  ASSUME NEW S \in SUBSET Task
  PROVE  Lists(InOrder(S), S)
<1> DEFINE N == Len(Order)
           IsTaken(f) == f = [n \in 0..N |->
                               IF n = 0 THEN <<>>
                               ELSE IF Order[n] \in S THEN Append(f[n - 1], Order[n]) ELSE f[n - 1]]
           taken == CHOOSE f : IsTaken(f)
           V == Seq(S)
           step == [n \in 1..N |-> [q \in V |-> IF Order[n] \in S THEN Append(q, Order[n]) ELSE q]]
<1>1. N \in Nat /\ \A i \in 1..N : Order[i] \in Task
  BY OrderAssumption
<1>2. IsTaken(taken)
  <2>1. \A n \in 1..N : \A q \in V : step[n][q] \in V
    OBVIOUS
  <2>2. step \in [1..N -> [V -> V]]
    BY <2>1
  <2>3. <<>> \in V
    OBVIOUS
  <2>4. PICK f \in [0..N -> V] : f[0] = <<>> /\ \A n \in 1..N : f[n] = step[n][f[n - 1]]
    <3> HIDE DEF V, step, N
    <3> QED BY <2>2, <2>3, <1>1, RunExists
  <2>5. ASSUME NEW n \in 0..N, n # 0
        PROVE  f[n] = IF Order[n] \in S THEN Append(f[n - 1], Order[n]) ELSE f[n - 1]
    <3>1. n \in 1..N /\ f[n - 1] \in V
      BY <1>1, <2>5
    <3>2. f[n] = step[n][f[n - 1]]
      BY <2>4, <3>1
    <3> HIDE DEF V, N
    <3> QED BY <3>1, <3>2
  <2>6. f = [n \in 0..N |-> f[n]] /\ f[0] = <<>>
    BY <1>1, <2>4
  <2>7. IsTaken(f)
    <3> HIDE DEF N
    <3> QED BY <2>5, <2>6
  <2> HIDE DEF IsTaken
  <2> QED BY <2>7
<1> DEFINE Upto(n) == {t \in S : \E i \in 1..n : Order[i] = t}
           Good == {n \in 0..N : Lists(taken[n], Upto(n))}
<1> HIDE DEF taken
<1>3. 0 \in Good
  <2>1. taken[0] = <<>> /\ Upto(0) = {}
    BY <1>1, <1>2
  <2>2. Lists(taken[0], Upto(0))
    BY <2>1, ListNothing
  <2>3. 0 \in 0..N
    BY <1>1
  <2> HIDE DEF Upto, N
  <2> QED BY <2>2, <2>3
<1>4. ASSUME NEW n \in 1..N, n - 1 \in Good PROVE n \in Good
  <2>1. taken[n] = IF Order[n] \in S THEN Append(taken[n - 1], Order[n]) ELSE taken[n - 1]
    <3>1. n \in 0..N /\ n # 0
      BY <1>1
    <3> HIDE DEF N
    <3> QED BY <3>1, <1>2
  <2>2. CASE Order[n] \in S
    <3>1. Upto(n) = Upto(n - 1) \cup {Order[n]}
      BY <1>1, <2>2
    <3>2. Order[n] \notin Upto(n - 1)
      <4> SUFFICES ASSUME NEW i \in 1..(n - 1), Order[i] = Order[n] PROVE FALSE
        BY <2>2
      <4>1. i \in DOMAIN Order /\ n \in DOMAIN Order
        BY <1>1, OrderAssumption
      <4> QED BY <4>1, OrderAssumption
    <3> HIDE DEF Upto
    <3>3. Lists(taken[n], Upto(n))
      BY <3>1, <3>2, <2>1, <2>2, <1>4, ListAppend
    <3> QED BY <3>3, <1>1
  <2>3. CASE Order[n] \notin S
    <3>1. Upto(n) = Upto(n - 1)
      BY <1>1, <2>3
    <3> HIDE DEF Upto
    <3>2. Lists(taken[n], Upto(n))
      BY <3>1, <2>1, <2>3, <1>4
    <3> QED BY <3>2, <1>1
  <2> QED BY <2>2, <2>3
<1>5. N \in Good
  <2> HIDE DEF Good, N
  <2>1. 0..N \subseteq Good
    BY <1>1, <1>3, <1>4, ByTurns
  <2> QED BY <2>1, <1>1
<1>6. Upto(N) = S
  BY <1>1, OrderAssumption
<1>7. InOrder(S) = taken[N]
  BY DEF InOrder, taken
<1> HIDE DEF Upto, N
<1> QED BY <1>5, <1>6, <1>7

-----------------------------------------------------------------------------
(* Graphs *)

DependentsInverse(g) == \A d \in Task : g.rdeps[d] = {t \in Nodes(g) : d \in g.deps[t]}

\* What any sequence of additions and removals leaves.
WellFormed(g) ==
  /\ Nodes(g) \subseteq Task
  /\ g.deps \in [Nodes(g) -> SUBSET Task]
  /\ g.rdeps \in [Task -> SUBSET Task]
  /\ DependentsInverse(g)

\* The constructor of a workflow's graph records the dependents of every task, so that all
\* of the above holds of the graph of a workflow too.
THEOREM BuiltIsWellFormed ==
  ASSUME NEW deps, DOMAIN deps \subseteq Task, deps \in [DOMAIN deps -> SUBSET Task]
  PROVE  WellFormed(Built(deps))
BY DEF Built, WellFormed, DependentsInverse, Nodes

LEMMA FiniteTasks ==
  ASSUME NEW S \in SUBSET Task
  PROVE  IsFiniteSet(S) /\ Cardinality(S) \in Nat /\ Cardinality(S) <= Turns /\ Turns \in Nat
BY OrderAssumption, FS_Subset, FS_CardinalityType DEF Turns

\* How many of its dependencies are not done.
Missing(g, done) == [t \in Nodes(g) |-> Cardinality(g.deps[t] \ done)]

LEMMA NothingMissing ==
  ASSUME NEW g, WellFormed(g), NEW t \in Nodes(g), NEW done
  PROVE  Missing(g, done)[t] = 0 <=> g.deps[t] \subseteq done
<1>1. g.deps[t] \ done \in SUBSET Task
  BY DEF WellFormed
<1>2. Cardinality(g.deps[t] \ done) = 0 <=> g.deps[t] \ done = {}
  BY <1>1, FiniteTasks, FS_EmptySet
<1> QED BY <1>2 DEF Missing

LEMMA MissingType ==
  ASSUME NEW g, WellFormed(g), NEW done
  PROVE  Missing(g, done) \in [Nodes(g) -> Int]
<1>1. \A t \in Nodes(g) : g.deps[t] \ done \in SUBSET Task
  BY DEF WellFormed
<1>2. \A t \in Nodes(g) : Cardinality(g.deps[t] \ done) \in Int
  BY <1>1, FiniteTasks
<1> QED BY <1>2 DEF Missing

\* Counting down along the dependents counts what is missing.
LEMMA LoweredCounts ==
  ASSUME NEW g, WellFormed(g), NEW done \in SUBSET Task, NEW more \in SUBSET Task,
         done \cap more = {}
  PROVE  Lowered(g, Missing(g, done), more) = Missing(g, done \cup more)
<1> SUFFICES ASSUME NEW t \in Nodes(g)
             PROVE  Cardinality(g.deps[t] \ done) - Cardinality({d \in more : t \in g.rdeps[d]})
                      = Cardinality(g.deps[t] \ (done \cup more))
  BY DEF Lowered, Missing
<1> DEFINE left == g.deps[t] \ done
<1>1. left \in SUBSET Task
  BY DEF WellFormed
<1>2. Cardinality(left \ more) = Cardinality(left) - Cardinality(left \cap more)
  <2>1. IsFiniteSet(left)
    BY <1>1, FiniteTasks
  <2> QED BY <2>1, FS_Difference
<1>3. {d \in more : t \in g.rdeps[d]} = left \cap more
  BY DEF WellFormed, DependentsInverse
<1>4. left \ more = g.deps[t] \ (done \cup more)
  OBVIOUS
<1> QED BY <1>2, <1>3, <1>4

LEMMA FreedAre ==
  ASSUME NEW g, WellFormed(g), NEW done \in SUBSET Task, NEW more \in SUBSET Task,
         done \cap more = {}
  PROVE  Freed(g, Missing(g, done), more)
           = {t \in Nodes(g) : g.deps[t] \cap more # {} /\ g.deps[t] \subseteq done \cup more}
<1>1. \A t \in Nodes(g) : Lowered(g, Missing(g, done), more)[t] = 0
                            <=> g.deps[t] \subseteq done \cup more
  <2>1. Lowered(g, Missing(g, done), more) = Missing(g, done \cup more)
    BY LoweredCounts
  <2> QED BY <2>1, NothingMissing
<1>2. \A t \in Nodes(g) : t \in UNION {g.rdeps[d] : d \in more} <=> g.deps[t] \cap more # {}
  BY DEF WellFormed, DependentsInverse
<1> QED BY <1>1, <1>2 DEF Freed

-----------------------------------------------------------------------------
(* Kahn's loop *)

KahnState(g) == [degree : [Nodes(g) -> Int], queue : Seq(Task), order : Seq(Task)]

KahnStart(g) ==
  [degree |-> InDegree(g), order |-> <<>>,
   queue  |-> InOrder({t \in Nodes(g) : InDegree(g)[t] = 0})]

IsKahnRun(g, run) ==
  run = [n \in 0..Turns |-> IF n = 0 THEN KahnStart(g) ELSE KahnTurn(g, run[n - 1])]

\* Each task after all it depends on.
Sorted(g, order) ==
  \A i \in 1..Len(order) : \A d \in g.deps[order[i]] : \E j \in 1..(i - 1) : order[j] = d

\* What is listed and what is queued are exactly the tasks with nothing left to wait for.
KahnInv(g, k, done, queued) ==
  /\ done \subseteq Nodes(g) /\ queued \subseteq Nodes(g) /\ done \cap queued = {}
  /\ k = [degree |-> Missing(g, done), queue |-> k.queue, order |-> k.order]
  /\ Lists(k.order, done)
  /\ Lists(k.queue, queued)
  /\ \A t \in Nodes(g) : t \in done \cup queued <=> g.deps[t] \subseteq done
  /\ Sorted(g, k.order)

LEMMA ListIsSeq ==
  ASSUME NEW S, S \subseteq Task, NEW q, Lists(q, S)
  PROVE  q \in Seq(Task)
BY DEF Lists

LEMMA KahnTurnType ==
  ASSUME NEW g, WellFormed(g), NEW k \in KahnState(g)
  PROVE  KahnTurn(g, k) \in KahnState(g)
<1>1. CASE k.queue = <<>>
  BY <1>1 DEF KahnTurn
<1>2. CASE k.queue # <<>>
  <2> DEFINE h == Head(k.queue)
             freed == Freed(g, k.degree, {h})
  <2>1. h \in Task /\ Tail(k.queue) \in Seq(Task)
    BY <1>2 DEF KahnState
  <2>2. freed \in SUBSET Task
    BY DEF Freed, WellFormed
  <2>3. InOrder(freed) \in Seq(Task)
    BY <2>2, InOrderLists, ListIsSeq
  <2>4. Lowered(g, k.degree, {h}) \in [Nodes(g) -> Int]
    <3> SUFFICES ASSUME NEW t \in Nodes(g)
                 PROVE  k.degree[t] - Cardinality({d \in {h} : t \in g.rdeps[d]}) \in Int
      BY DEF Lowered
    <3>1. {d \in {h} : t \in g.rdeps[d]} \in SUBSET Task
      BY <2>1
    <3>2. Cardinality({d \in {h} : t \in g.rdeps[d]}) \in Int
      BY <3>1, FiniteTasks
    <3> QED BY <3>2 DEF KahnState
  <2>5. Append(k.order, h) \in Seq(Task)
    BY <2>1 DEF KahnState
  <2>6. Tail(k.queue) \o InOrder(freed) \in Seq(Task)
    BY <2>1, <2>3
  <2>7. KahnTurn(g, k) = [degree |-> Lowered(g, k.degree, {h}),
                          queue |-> Tail(k.queue) \o InOrder(freed), order |-> Append(k.order, h)]
    BY <1>2 DEF KahnTurn
  <2> DEFINE degree == Lowered(g, k.degree, {h})
             queue == Tail(k.queue) \o InOrder(freed)
             order == Append(k.order, h)
  <2> HIDE DEF degree, queue, order
  <2>8. [degree |-> degree, queue |-> queue, order |-> order] \in KahnState(g)
    BY <2>4, <2>5, <2>6 DEF KahnState, degree, queue, order
  <2> QED BY <2>7, <2>8 DEF degree, queue, order
<1> QED BY <1>1, <1>2

LEMMA KahnStarts ==
  ASSUME NEW g, WellFormed(g)
  PROVE  LET queued == {t \in Nodes(g) : InDegree(g)[t] = 0}
         IN  KahnInv(g, KahnStart(g), {}, queued) /\ KahnStart(g) \in KahnState(g)
<1> DEFINE queued == {t \in Nodes(g) : InDegree(g)[t] = 0}
<1>1. InDegree(g) = Missing(g, {})
  BY DEF InDegree, Missing
<1>2. \A t \in Nodes(g) : t \in {} \cup queued <=> g.deps[t] \subseteq {}
  BY <1>1, NothingMissing
<1>3. queued \in SUBSET Task
  BY DEF WellFormed
<1>4. Lists(InOrder(queued), queued) /\ InOrder(queued) \in Seq(Task)
  BY <1>3, InOrderLists, ListIsSeq
<1>5. Sorted(g, <<>>)
  BY DEF Sorted
<1>6. KahnStart(g) = [degree |-> Missing(g, {}), order |-> <<>>, queue |-> InOrder(queued)]
  BY <1>1 DEF KahnStart
<1>7. queued \subseteq Nodes(g)
  OBVIOUS
<1> HIDE DEF queued
<1>8. KahnInv(g, KahnStart(g), {}, queued)
  BY <1>2, <1>4, <1>5, <1>6, <1>7, ListNothing DEF KahnInv
<1>9. KahnStart(g) \in KahnState(g)
  BY <1>4, <1>6, MissingType DEF KahnState
<1> QED BY <1>8, <1>9 DEF queued

LEMMA KahnTurns ==
  ASSUME NEW g, WellFormed(g), NEW k, NEW done, NEW queued, KahnInv(g, k, done, queued),
         k.queue # <<>>
  PROVE  \E more : /\ KahnInv(g, KahnTurn(g, k), done \cup {Head(k.queue)}, more)
                   /\ Len(KahnTurn(g, k).order) = Len(k.order) + 1
<1> DEFINE h == Head(k.queue)
           now == done \cup {h}
           freed == Freed(g, Missing(g, done), {h})
           rest == queued \ {h}
           order == Append(k.order, h)
<1>1. /\ done \subseteq Nodes(g) /\ queued \subseteq Nodes(g) /\ done \cap queued = {}
      /\ k = [degree |-> Missing(g, done), queue |-> k.queue, order |-> k.order]
      /\ Lists(k.order, done) /\ Lists(k.queue, queued)
      /\ \A t \in Nodes(g) : t \in done \cup queued <=> g.deps[t] \subseteq done
      /\ Sorted(g, k.order)
  BY DEF KahnInv
<1>2. h \in queued /\ Lists(Tail(k.queue), rest)
  BY <1>1, ListTail
<1>3. done \in SUBSET Task /\ {h} \in SUBSET Task /\ done \cap {h} = {} /\ h \notin done
  BY <1>1, <1>2 DEF WellFormed
<1>4. freed = {t \in Nodes(g) : g.deps[t] \cap {h} # {} /\ g.deps[t] \subseteq now}
  BY <1>3, FreedAre
<1>5. Lowered(g, Missing(g, done), {h}) = Missing(g, now)
  BY <1>3, LoweredCounts
<1>6. freed \in SUBSET Task /\ Lists(InOrder(freed), freed)
  BY <1>4, InOrderLists DEF WellFormed
<1>7. freed \cap (done \cup queued) = {}
  <2> SUFFICES ASSUME NEW t \in freed PROVE t \notin done \cup queued
    OBVIOUS
  <2>1. t \in Nodes(g) /\ h \in g.deps[t]
    BY <1>4
  <2> QED BY <2>1, <1>1, <1>3
<1>8. Lists(Tail(k.queue) \o InOrder(freed), rest \cup freed)
  BY <1>2, <1>6, <1>7, ListConcat
<1>9. Lists(order, now)
  BY <1>1, <1>3, ListAppend
<1>10. \A t \in Nodes(g) : t \in now \cup (rest \cup freed) <=> g.deps[t] \subseteq now
  <2> SUFFICES ASSUME NEW t \in Nodes(g)
               PROVE  t \in done \cup queued \cup freed <=> g.deps[t] \subseteq now
    BY <1>2
  <2>1. g.deps[t] \subseteq now <=> (g.deps[t] \subseteq done \/ t \in freed)
    BY <1>4
  <2> QED BY <2>1, <1>1
<1>11. /\ k.order \in Seq(Task) /\ Len(k.order) \in Nat
       /\ Len(order) = Len(k.order) + 1 /\ order[Len(k.order) + 1] = h
       /\ \A i \in 1..Len(k.order) : order[i] = k.order[i]
  <2>1. k.order \in Seq(Task) /\ h \in Task
    BY <1>1, <1>3, ListIsSeq
  <2> QED BY <2>1, AppendProperties, LenProperties
<1>12. Sorted(g, order)
  <2> SUFFICES ASSUME NEW i \in 1..Len(order), NEW d \in g.deps[order[i]]
               PROVE  \E j \in 1..(i - 1) : order[j] = d
    BY DEF Sorted
  <2> HIDE DEF order
  <2>1. CASE i \in 1..Len(k.order)
    <3>1. PICK j \in 1..(i - 1) : k.order[j] = d
      BY <2>1, <1>1, <1>11 DEF Sorted
    <3> QED BY <3>1, <2>1, <1>11
  <2>2. CASE i = Len(k.order) + 1
    <3>1. d \in done
      BY <2>2, <1>1, <1>2, <1>11
    <3>2. PICK j \in 1..Len(k.order) : k.order[j] = d
      BY <3>1, <1>1 DEF Lists
    <3> QED BY <3>2, <2>2, <1>11
  <2> QED BY <2>1, <2>2, <1>11
<1>13. KahnTurn(g, k) = [degree |-> Missing(g, now), queue |-> Tail(k.queue) \o InOrder(freed),
                         order |-> order]
  <2>1. k.degree = Missing(g, done)
    BY <1>1
  <2> QED BY <2>1, <1>5 DEF KahnTurn
<1>14. now \subseteq Nodes(g) /\ rest \cup freed \subseteq Nodes(g) /\ now \cap (rest \cup freed) = {}
  BY <1>1, <1>2, <1>4, <1>7
<1> HIDE DEF h, now, freed, rest, order
<1>15. KahnInv(g, KahnTurn(g, k), now, rest \cup freed)
  BY <1>8, <1>9, <1>10, <1>12, <1>13, <1>14 DEF KahnInv
<1>16. Len(KahnTurn(g, k).order) = Len(k.order) + 1
  BY <1>11, <1>13
<1> QED BY <1>15, <1>16 DEF now, h

LEMMA KahnRuns ==
  ASSUME NEW g, WellFormed(g)
  PROVE  \E run : IsKahnRun(g, run) /\ Kahn(g) = run[Turns].order
<1> DEFINE V == KahnState(g)
           step == [n \in 1..Turns |-> [k \in V |-> KahnTurn(g, k)]]
<1>1. \A k \in V : KahnTurn(g, k) \in V
  BY KahnTurnType
<1>2. step \in [1..Turns -> [V -> V]] /\ \A n \in 1..Turns : \A k \in V : step[n][k] = KahnTurn(g, k)
  <2> HIDE DEF V
  <2> QED BY <1>1
<1>3. KahnStart(g) \in V /\ Turns \in Nat
  BY KahnStarts, FiniteTasks
<1>4. PICK f \in [0..Turns -> V] :
        f[0] = KahnStart(g) /\ \A n \in 1..Turns : f[n] = step[n][f[n - 1]]
  <2> DEFINE start == KahnStart(g)
  <2>1. start \in V /\ step \in [1..Turns -> [V -> V]] /\ Turns \in Nat
    BY <1>2, <1>3
  <2> HIDE DEF V, step, start
  <2>2. \E f \in [0..Turns -> V] : f[0] = start /\ \A n \in 1..Turns : f[n] = step[n][f[n - 1]]
    BY <2>1, RunExists, SMT
  <2> QED BY <2>2 DEF start
<1>5. \A n \in 0..Turns : n # 0 => f[n] = KahnTurn(g, f[n - 1])
  <2> SUFFICES ASSUME NEW n \in 0..Turns, n # 0 PROVE f[n] = KahnTurn(g, f[n - 1])
    OBVIOUS
  <2>1. n \in 1..Turns /\ f[n - 1] \in V
    BY <1>3
  <2>2. f[n] = step[n][f[n - 1]]
    BY <1>4, <2>1
  <2> HIDE DEF V, step
  <2> QED BY <2>1, <2>2, <1>2
<1>6. IsKahnRun(g, f)
  <2>1. f = [n \in 0..Turns |-> f[n]] /\ f[0] = KahnStart(g)
    BY <1>3, <1>4
  <2> QED BY <2>1, <1>5 DEF IsKahnRun
<1> DEFINE run == CHOOSE r : IsKahnRun(g, r)
<1>7. IsKahnRun(g, run)
  BY <1>6
<1>8. Kahn(g) = run[Turns].order
  BY DEF Kahn, IsKahnRun, KahnStart
<1> QED BY <1>7, <1>8

LEMMA ListEmpty ==
  ASSUME NEW S, NEW q, Lists(q, S)
  PROVE  q = <<>> <=> S = {}
BY DEF Lists

\* The loop is over when every task has had its turn.
LEMMA KahnEnds ==
  ASSUME NEW g, WellFormed(g)
  PROVE  \E done \in SUBSET Nodes(g) :
           /\ Lists(Kahn(g), done)
           /\ Sorted(g, Kahn(g))
           /\ \A t \in Nodes(g) : t \in done <=> g.deps[t] \subseteq done
<1>1. PICK run : IsKahnRun(g, run) /\ Kahn(g) = run[Turns].order
  BY KahnRuns
<1>2. Turns \in Nat
  BY FiniteTasks
<1> DEFINE Reached(n, done, queued) ==
             KahnInv(g, run[n], done, queued) /\ (queued # {} => Len(run[n].order) = n)
           Good == {n \in 0..Turns : \E done, queued : Reached(n, done, queued)}
<1>3. 0 \in Good
  <2> DEFINE queued == {t \in Nodes(g) : InDegree(g)[t] = 0}
  <2>1. run[0] = KahnStart(g)
    BY <1>1, <1>2 DEF IsKahnRun
  <2>2. KahnInv(g, run[0], {}, queued)
    BY <2>1, KahnStarts
  <2>3. Len(run[0].order) = 0
    BY <2>1 DEF KahnStart
  <2> HIDE DEF queued
  <2> QED BY <2>2, <2>3, <1>2
<1>4. ASSUME NEW n \in 1..Turns, n - 1 \in Good PROVE n \in Good
  <2>1. PICK done, queued : Reached(n - 1, done, queued)
    BY <1>4
  <2> DEFINE k == run[n - 1]
  <2>2. run[n] = KahnTurn(g, k)
    BY <1>1, <1>2 DEF IsKahnRun
  <2>3. KahnInv(g, k, done, queued) /\ Lists(k.queue, queued)
    BY <2>1 DEF KahnInv
  <2> HIDE DEF k
  <2>4. CASE k.queue = <<>>
    <3>1. queued = {} /\ run[n] = k
      BY <2>2, <2>3, <2>4, ListEmpty DEF KahnTurn
    <3>2. Reached(n, done, queued)
      BY <3>1, <2>3
    <3> QED BY <3>2, <1>2
  <2>5. CASE k.queue # <<>>
    <3>1. PICK more : /\ KahnInv(g, KahnTurn(g, k), done \cup {Head(k.queue)}, more)
                      /\ Len(KahnTurn(g, k).order) = Len(k.order) + 1
      BY <2>3, <2>5, KahnTurns
    <3>2. queued # {}
      BY <2>3, <2>5, ListEmpty
    <3>3. Len(k.order) = n - 1
      BY <2>1, <3>2 DEF k
    <3>4. Reached(n, done \cup {Head(k.queue)}, more)
      BY <3>1, <3>3, <2>2
    <3> QED BY <3>4, <1>2
  <2> QED BY <2>4, <2>5
<1>5. Turns \in Good
  <2> HIDE DEF Good
  <2>1. 0..Turns \subseteq Good
    BY <1>2, <1>3, <1>4, ByTurns
  <2> QED BY <2>1, <1>2
<1>6. PICK done, queued : Reached(Turns, done, queued)
  BY <1>5
<1>7. /\ done \in SUBSET Nodes(g) /\ queued \subseteq Nodes(g) /\ done \cap queued = {}
      /\ Lists(Kahn(g), done) /\ Sorted(g, Kahn(g))
      /\ \A t \in Nodes(g) : t \in done \cup queued <=> g.deps[t] \subseteq done
  BY <1>1, <1>6 DEF KahnInv
<1>8. queued = {}
  <2> SUFFICES ASSUME queued # {} PROVE FALSE
    OBVIOUS
  <2>1. Cardinality(done) = Turns
    BY <1>1, <1>6, <1>7, ListLength
  <2>2. done \in SUBSET Task /\ queued \subseteq Task
    BY <1>7 DEF WellFormed
  <2>3. done = Task
    BY <2>1, <2>2, OrderAssumption, FS_Subset DEF Turns
  <2> QED BY <2>2, <2>3, <1>7
<1> QED BY <1>7, <1>8

\* validate() accepts exactly the graphs without a cycle or an unknown id, and the loop
\* lists the tasks of those, each after all it depends on.
LEMMA ValidMeans ==
  ASSUME NEW g, WellFormed(g)
  PROVE  /\ Valid(g) <=> (Closed(g) /\ Acyclic(g))
         /\ Valid(g) => Lists(Kahn(g), Nodes(g)) /\ Sorted(g, Kahn(g))
<1>1. PICK done \in SUBSET Nodes(g) :
        /\ Lists(Kahn(g), done) /\ Sorted(g, Kahn(g))
        /\ \A t \in Nodes(g) : t \in done <=> g.deps[t] \subseteq done
  BY KahnEnds
<1> DEFINE order == Kahn(g)
<1>2. Len(order) = Cardinality(Nodes(g)) <=> done = Nodes(g)
  <2>1. Cardinality(done) = Len(order)
    BY <1>1, ListLength
  <2>2. IsFiniteSet(Nodes(g))
    BY FiniteTasks DEF WellFormed
  <2> QED BY <2>1, <2>2, <1>1, FS_Subset
<1>3. Valid(g) <=> Closed(g) /\ done = Nodes(g)
  BY <1>2 DEF Valid
<1>4. ASSUME done = Nodes(g) PROVE Acyclic(g)
  <2> SUFFICES ASSUME NEW S \in SUBSET Nodes(g), S # {}
               PROVE  \E t \in S : g.deps[t] \cap S = {}
    BY DEF Acyclic
  <2> DEFINE places == {i \in 1..Len(order) : order[i] \in S}
  <2>1. places \in SUBSET Nat /\ places # {}
    BY <1>1, <1>4 DEF Lists
  <2>2. PICK i \in places : \A j \in places : i <= j
    BY <2>1, LeastNumber
  <2>3. ASSUME NEW d \in g.deps[order[i]] \cap S PROVE FALSE
    <3>1. PICK j \in 1..(i - 1) : order[j] = d
      BY <1>1 DEF Sorted
    <3>2. Len(order) \in Nat
      BY <1>1, ListLength
    <3>3. j \in places /\ j < i
      BY <2>3, <3>1, <3>2
    <3> QED BY <3>3, <2>2
  <2> QED BY <2>2, <2>3
<1>5. ASSUME Closed(g), Acyclic(g) PROVE done = Nodes(g)
  <2> DEFINE S == Nodes(g) \ done
  <2> SUFFICES ASSUME S # {} PROVE FALSE
    OBVIOUS
  <2>1. PICK t \in S : g.deps[t] \cap S = {}
    BY <1>5 DEF Acyclic
  <2>2. g.deps[t] \subseteq Nodes(g)
    BY <1>5 DEF Closed
  <2> QED BY <2>1, <2>2, <1>1
<1> QED BY <1>1, <1>3, <1>4, <1>5

-----------------------------------------------------------------------------
(* get_all_dependencies *)

Members(q) == {q[i] : i \in 1..Len(q)}

LEMMA MembersOfList ==
  ASSUME NEW S, NEW q, Lists(q, S)
  PROVE  Members(q) = S
BY DEF Lists, Members

LEMMA MembersOfConcat ==
  ASSUME NEW S, NEW q \in Seq(S), NEW r \in Seq(S)
  PROVE  Members(q \o r) = Members(q) \cup Members(r)
<1> DEFINE c == q \o r
<1>1. /\ Len(q) \in Nat /\ Len(r) \in Nat /\ Len(c) = Len(q) + Len(r)
      /\ \A i \in 1..Len(c) : c[i] = IF i <= Len(q) THEN q[i] ELSE r[i - Len(q)]
  BY ConcatProperties, LenProperties
<1> HIDE DEF c
<1>2. ASSUME NEW i \in 1..Len(c) PROVE c[i] \in Members(q) \cup Members(r)
  <2>1. CASE i <= Len(q)
    BY <2>1, <1>1 DEF Members
  <2>2. CASE ~(i <= Len(q))
    <3>1. i - Len(q) \in 1..Len(r) /\ c[i] = r[i - Len(q)]
      BY <2>2, <1>1
    <3> QED BY <3>1 DEF Members
  <2> QED BY <2>1, <2>2
<1>3. ASSUME NEW i \in 1..Len(q) PROVE q[i] \in Members(c)
  <2>1. i \in 1..Len(c) /\ c[i] = q[i]
    BY <1>1
  <2> QED BY <2>1 DEF Members
<1>4. ASSUME NEW i \in 1..Len(r) PROVE r[i] \in Members(c)
  <2>1. i + Len(q) \in 1..Len(c) /\ c[i + Len(q)] = r[i]
    BY <1>1
  <2> QED BY <2>1 DEF Members
<1> QED BY <1>2, <1>3, <1>4 DEF Members, c

\* Taking the last element off.
LEMMA WithoutLast ==
  ASSUME NEW S, NEW q \in Seq(S), q # <<>>
  PROVE  LET rest == SubSeq(q, 1, Len(q) - 1)
         IN  /\ rest \in Seq(S) /\ Len(rest) = Len(q) - 1 /\ q[Len(q)] \in S
             /\ Members(q) = Members(rest) \cup {q[Len(q)]}
<1> DEFINE rest == SubSeq(q, 1, Len(q) - 1)
<1>1. Len(q) \in Nat \ {0} /\ \A i \in 1..Len(q) : q[i] \in S
  OBVIOUS
<1>2. /\ rest \in Seq(S) /\ Len(rest) = Len(q) - 1
      /\ \A i \in 1..(Len(q) - 1) : rest[i] = q[i]
  BY <1>1, SubSeqProperties
<1> HIDE DEF rest
<1>3. Members(q) = Members(rest) \cup {q[Len(q)]}
  <2>1. 1..Len(q) = 1..Len(rest) \cup {Len(q)}
    BY <1>1, <1>2
  <2> QED BY <2>1, <1>1, <1>2 DEF Members
<1> QED BY <1>1, <1>2, <1>3 DEF rest

Visits == Turns * (Turns + 1)

VisitState == [seen : SUBSET Task, todo : Seq(Task)]

VisitStart(g, t) == [seen |-> {}, todo |-> InOrder(Dependencies(g, t))]

IsVisitRun(g, t, run) ==
  run = [n \in 0..Visits |-> IF n = 0 THEN VisitStart(g, t) ELSE Visited(g, run[n - 1])]

\* What a task leads to is found or still to be processed, and nothing else is; every task
\* seen has put at most Turns tasks on the list, and each visit takes one off.
VisitInv(g, t, w, n) ==
  /\ w \in VisitState
  /\ Dependencies(g, t) \subseteq w.seen \cup Members(w.todo)
  /\ \A s \in w.seen : Dependencies(g, s) \subseteq w.seen \cup Members(w.todo)
  /\ \A S \in SUBSET Task : Dependencies(g, t) \subseteq S /\ DownClosed(g, S)
                              => w.seen \cup Members(w.todo) \subseteq S
  /\ w.todo # <<>> => n + Len(w.todo) <= Turns + Turns * Cardinality(w.seen)

LEMMA DependenciesType ==
  ASSUME NEW g, WellFormed(g), NEW t
  PROVE  LET q == InOrder(Dependencies(g, t))
         IN  /\ Dependencies(g, t) \in SUBSET Task
             /\ q \in Seq(Task) /\ Members(q) = Dependencies(g, t) /\ Len(q) <= Turns
             /\ Len(q) \in Nat
<1>1. Dependencies(g, t) \in SUBSET Task
  BY DEF WellFormed, Dependencies
<1>2. Lists(InOrder(Dependencies(g, t)), Dependencies(g, t))
  BY <1>1, InOrderLists
<1> QED BY <1>1, <1>2, ListIsSeq, MembersOfList, ListLength, FiniteTasks

LEMMA VisitStarts ==
  ASSUME NEW g, WellFormed(g), NEW t
  PROVE  VisitInv(g, t, VisitStart(g, t), 0)
<1> DEFINE q == InOrder(Dependencies(g, t))
<1>1. /\ Dependencies(g, t) \in SUBSET Task /\ q \in Seq(Task)
      /\ Members(q) = Dependencies(g, t) /\ Len(q) <= Turns /\ Len(q) \in Nat
  BY DependenciesType
<1>2. Turns \in Nat /\ Cardinality({}) = 0
  BY FiniteTasks, FS_EmptySet
<1>3. VisitStart(g, t) = [seen |-> {}, todo |-> q]
  BY DEF VisitStart
<1> HIDE DEF q
<1> QED BY <1>1, <1>2, <1>3 DEF VisitInv, VisitState

\* A visit, when there is one more to make.
LEMMA VisitTurns ==
  ASSUME NEW g, WellFormed(g), NEW t, NEW w, NEW n \in Nat, VisitInv(g, t, w, n)
  PROVE  VisitInv(g, t, Visited(g, w), n + 1)
<1>1. Turns \in Nat
  BY FiniteTasks
<1>2. CASE w.todo = <<>>
  <2>1. Visited(g, w) = w
    BY <1>2 DEF Visited
  <2> QED BY <2>1, <1>2 DEF VisitInv
<1>3. CASE w.todo # <<>>
  <2> DEFINE last == w.todo[Len(w.todo)]
             rest == SubSeq(w.todo, 1, Len(w.todo) - 1)
             q == InOrder(Dependencies(g, last))
  <2>1. /\ w.seen \in SUBSET Task /\ w.todo \in Seq(Task)
        /\ w = [seen |-> w.seen, todo |-> w.todo] /\ Len(w.todo) \in Nat
    BY DEF VisitInv, VisitState
  <2>2. /\ rest \in Seq(Task) /\ Len(rest) = Len(w.todo) - 1 /\ last \in Task
        /\ Members(w.todo) = Members(rest) \cup {last}
    BY <2>1, <1>3, WithoutLast
  <2>3. /\ Dependencies(g, last) \in SUBSET Task
        /\ q \in Seq(Task) /\ Members(q) = Dependencies(g, last) /\ Len(q) <= Turns
        /\ Len(q) \in Nat
    BY DependenciesType
  <2>4. n + Len(w.todo) <= Turns + Turns * Cardinality(w.seen)
    BY <1>3 DEF VisitInv
  <2>5. IsFiniteSet(w.seen) /\ Cardinality(w.seen) \in Nat
    BY <2>1, FiniteTasks
  <2> HIDE DEF last, rest, q
  <2>6. CASE last \in w.seen
    <3>1. Visited(g, w) = [seen |-> w.seen, todo |-> rest]
      BY <1>3, <2>1, <2>6 DEF Visited, last, rest
    <3>2. w.seen \cup Members(w.todo) = w.seen \cup Members(rest)
      BY <2>2, <2>6
    <3>3. (n + 1) + Len(rest) <= Turns + Turns * Cardinality(w.seen)
      BY <2>2, <2>4, <2>1
    <3> DEFINE v == [seen |-> w.seen, todo |-> rest]
    <3>4. v \in VisitState /\ v.seen = w.seen /\ v.todo = rest
      BY <2>1, <2>2 DEF VisitState
    <3> HIDE DEF v
    <3>5. VisitInv(g, t, v, n + 1)
      BY <3>2, <3>3, <3>4 DEF VisitInv
    <3>6. Visited(g, w) = v
      BY <3>1 DEF v
    <3> QED BY <3>5, <3>6
  <2>7. CASE last \notin w.seen
    <3> DEFINE seen == w.seen \cup {last}
               todo == rest \o q
    <3>1. Visited(g, w) = [seen |-> seen, todo |-> todo]
      BY <1>3, <2>1, <2>7 DEF Visited, last, rest, q
    <3>2. todo \in Seq(Task) /\ Len(todo) = Len(rest) + Len(q)
      BY <2>2, <2>3, ConcatProperties
    <3>3. Members(todo) = Members(rest) \cup Dependencies(g, last)
      BY <2>2, <2>3, MembersOfConcat
    <3>4. seen \cup Members(todo) = (w.seen \cup Members(w.todo)) \cup Dependencies(g, last)
      BY <3>3, <2>2
    <3>5. (n + 1) + Len(todo) <= Turns + Turns * Cardinality(seen)
      <4>1. Cardinality(seen) = Cardinality(w.seen) + 1
        BY <2>5, <2>7, FS_AddElement
      <4>2. Turns * (Cardinality(w.seen) + 1) = Turns * Cardinality(w.seen) + Turns
        BY <1>1, <2>5
      <4>3. Turns * Cardinality(w.seen) \in Nat
        BY <1>1, <2>5
      <4> HIDE DEF seen, todo
      <4> QED BY <4>1, <4>2, <4>3, <3>2, <2>1, <2>2, <2>3, <2>4, <1>1
    <3>6. seen \in SUBSET Task
      BY <2>1, <2>2
    <3>7. \A s \in seen : Dependencies(g, s) \subseteq seen \cup Members(todo)
      BY <3>4 DEF VisitInv
    <3>8. ASSUME NEW S \in SUBSET Task, Dependencies(g, t) \subseteq S, DownClosed(g, S)
          PROVE  seen \cup Members(todo) \subseteq S
      <4>1. w.seen \cup Members(w.todo) \subseteq S
        BY <3>8 DEF VisitInv
      <4>2. Dependencies(g, last) \subseteq S
        BY <4>1, <2>2, <3>8 DEF DownClosed
      <4> QED BY <4>1, <4>2, <3>4
    <3>9. Dependencies(g, t) \subseteq seen \cup Members(todo)
      BY <3>4 DEF VisitInv
    <3> HIDE DEF seen, todo
    <3> DEFINE v == [seen |-> seen, todo |-> todo]
    <3>10. v \in VisitState /\ v.seen = seen /\ v.todo = todo
      BY <3>2, <3>6 DEF VisitState
    <3> HIDE DEF v
    <3>11. VisitInv(g, t, v, n + 1)
      BY <3>5, <3>7, <3>8, <3>9, <3>10 DEF VisitInv
    <3>12. Visited(g, w) = v
      BY <3>1 DEF v
    <3> QED BY <3>11, <3>12
  <2> QED BY <2>6, <2>7
<1> QED BY <1>2, <1>3

LEMMA VisitedType ==
  ASSUME NEW g, WellFormed(g), NEW w \in VisitState
  PROVE  Visited(g, w) \in VisitState
<1>1. CASE w.todo = <<>>
  BY <1>1 DEF Visited
<1>2. CASE w.todo # <<>>
  <2> DEFINE last == w.todo[Len(w.todo)]
             rest == SubSeq(w.todo, 1, Len(w.todo) - 1)
             q == InOrder(Dependencies(g, last))
  <2>1. w.seen \in SUBSET Task /\ w.todo \in Seq(Task)
    BY DEF VisitState
  <2>2. rest \in Seq(Task) /\ last \in Task
    BY <2>1, <1>2, WithoutLast
  <2>3. q \in Seq(Task)
    BY DependenciesType
  <2>4. Visited(g, w) = IF last \in w.seen THEN [w EXCEPT !.todo = rest]
                        ELSE [seen |-> w.seen \cup {last}, todo |-> rest \o q]
    BY <1>2 DEF Visited
  <2> HIDE DEF last, rest, q
  <2>5. [w EXCEPT !.todo = rest] \in VisitState
    BY <2>2 DEF VisitState
  <2>6. [seen |-> w.seen \cup {last}, todo |-> rest \o q] \in VisitState
    BY <2>1, <2>2, <2>3, ConcatProperties DEF VisitState
  <2> QED BY <2>4, <2>5, <2>6
<1> QED BY <1>1, <1>2

LEMMA VisitRuns ==
  ASSUME NEW g, WellFormed(g), NEW t
  PROVE  \E run : IsVisitRun(g, t, run) /\ AllDependencies(g, t) = run[Visits].seen
<1> DEFINE V == VisitState
           step == [n \in 1..Visits |-> [w \in V |-> Visited(g, w)]]
           start == VisitStart(g, t)
<1>1. \A w \in V : Visited(g, w) \in V
  BY VisitedType
<1>2. step \in [1..Visits -> [V -> V]] /\ \A n \in 1..Visits : \A w \in V : step[n][w] = Visited(g, w)
  <2> HIDE DEF V
  <2> QED BY <1>1
<1>3. start \in V /\ Visits \in Nat
  <2>1. start \in V
    BY VisitStarts DEF VisitInv
  <2>2. Turns \in Nat
    BY FiniteTasks
  <2> QED BY <2>1, <2>2 DEF Visits
<1>4. PICK f \in [0..Visits -> V] :
        f[0] = start /\ \A n \in 1..Visits : f[n] = step[n][f[n - 1]]
  <2>1. start \in V /\ step \in [1..Visits -> [V -> V]] /\ Visits \in Nat
    BY <1>2, <1>3
  <2> HIDE DEF V, step, start
  <2> QED BY <2>1, RunExists, SMT
<1>5. \A n \in 0..Visits : n # 0 => f[n] = Visited(g, f[n - 1])
  <2> SUFFICES ASSUME NEW n \in 0..Visits, n # 0 PROVE f[n] = Visited(g, f[n - 1])
    OBVIOUS
  <2>1. n \in 1..Visits /\ f[n - 1] \in V
    BY <1>3
  <2>2. f[n] = step[n][f[n - 1]]
    BY <1>4, <2>1
  <2> HIDE DEF V, step
  <2> QED BY <2>1, <2>2, <1>2
<1>6. IsVisitRun(g, t, f)
  <2>1. f = [n \in 0..Visits |-> f[n]] /\ f[0] = start
    BY <1>3, <1>4
  <2> QED BY <2>1, <1>5 DEF IsVisitRun
<1> DEFINE run == CHOOSE r : IsVisitRun(g, t, r)
<1>7. IsVisitRun(g, t, run)
  BY <1>6
<1>8. AllDependencies(g, t) = run[Visits].seen
  BY DEF AllDependencies, IsVisitRun, VisitStart, Visits
<1> QED BY <1>7, <1>8

\* get_all_dependencies is the smallest closed set that holds the direct ones: the list is
\* empty after the visits the model gives it.
LEMMA AllDependenciesMeans ==
  ASSUME NEW g, WellFormed(g), NEW t
  PROVE  LET all == AllDependencies(g, t)
         IN  /\ all \in SUBSET Task
             /\ Dependencies(g, t) \subseteq all
             /\ DownClosed(g, all)
             /\ \A S \in SUBSET Task : Dependencies(g, t) \subseteq S /\ DownClosed(g, S)
                                         => all \subseteq S
<1>1. PICK run : IsVisitRun(g, t, run) /\ AllDependencies(g, t) = run[Visits].seen
  BY VisitRuns
<1>2. Turns \in Nat /\ Visits \in Nat
  <2>1. Turns \in Nat
    BY FiniteTasks
  <2> QED BY <2>1 DEF Visits
<1> DEFINE Good == {n \in 0..Visits : VisitInv(g, t, run[n], n)}
<1>3. 0 \in Good
  <2>1. run[0] = VisitStart(g, t)
    BY <1>1, <1>2 DEF IsVisitRun
  <2> QED BY <2>1, <1>2, VisitStarts
<1>4. ASSUME NEW n \in 1..Visits, n - 1 \in Good PROVE n \in Good
  <2>1. run[n] = Visited(g, run[n - 1]) /\ n - 1 \in Nat /\ (n - 1) + 1 = n
    BY <1>1, <1>2 DEF IsVisitRun
  <2>2. VisitInv(g, t, Visited(g, run[n - 1]), (n - 1) + 1)
    BY <1>4, <2>1, VisitTurns
  <2> QED BY <2>1, <2>2, <1>2
<1>5. Visits \in Good
  <2> HIDE DEF Good
  <2>1. 0..Visits \subseteq Good
    BY <1>2, <1>3, <1>4, ByTurns
  <2> QED BY <2>1, <1>2
<1> DEFINE w == run[Visits]
<1>6. VisitInv(g, t, w, Visits)
  BY <1>5
<1> HIDE DEF w
<1>7. w.seen \in SUBSET Task /\ w.todo \in Seq(Task)
  BY <1>6 DEF VisitInv, VisitState
<1>8. w.todo = <<>>
  <2> SUFFICES ASSUME w.todo # <<>> PROVE FALSE
    OBVIOUS
  <2>1. Visits + Len(w.todo) <= Turns + Turns * Cardinality(w.seen)
    BY <1>6 DEF VisitInv
  <2>2. Cardinality(w.seen) \in Nat /\ Cardinality(w.seen) <= Turns
    BY <1>7, FiniteTasks
  <2>3. Turns * Cardinality(w.seen) <= Turns * Turns /\ Turns * Cardinality(w.seen) \in Nat
    BY <2>2, <1>2
  <2>4. Visits = Turns * Turns + Turns /\ Turns * Turns \in Nat
    BY <1>2 DEF Visits
  <2>5. Len(w.todo) \in Nat /\ Len(w.todo) # 0
    BY <1>7
  <2> DEFINE used == Turns * Cardinality(w.seen)
             square == Turns * Turns
             length == Len(w.todo)
  <2>6. /\ Visits + length <= Turns + used /\ used <= square /\ Visits = square + Turns
        /\ used \in Nat /\ square \in Nat /\ length \in Nat /\ length # 0 /\ Turns \in Nat
    BY <2>1, <2>3, <2>4, <2>5, <1>2
  <2> HIDE DEF used, square, length
  <2> QED BY <2>6
<1>9. Members(w.todo) = {}
  BY <1>8 DEF Members
<1>10. AllDependencies(g, t) = w.seen
  BY <1>1 DEF w
<1> QED BY <1>6, <1>7, <1>9, <1>10 DEF VisitInv, DownClosed

-----------------------------------------------------------------------------
(* critical_path and parallel_groups *)

\* A task's rank is the length of the longest chain that ends in it.
Ranked(g, dist) ==
  /\ dist \in [Nodes(g) -> Nat]
  /\ \A t \in Nodes(g) :
       /\ g.deps[t] \subseteq Nodes(g)
       /\ \A d \in g.deps[t] : dist[d] < dist[t]
       /\ dist[t] # 0 => \E d \in g.deps[t] : dist[t] = dist[d] + 1

DistanceStart(g) == [t \in Nodes(g) |-> 0]

IsDistanceRun(g, run) ==
  run = [n \in 0..Len(Kahn(g)) |->
           IF n = 0 THEN DistanceStart(g) ELSE Stretched(g, run[n - 1], Kahn(g)[n])]

LEMMA StretchedType ==
  ASSUME NEW g, NEW dist \in [Nodes(g) -> Nat], NEW h \in Nodes(g)
  PROVE  Stretched(g, dist, h) \in [Nodes(g) -> Nat]
BY DEF Stretched, Longer

LEMMA DistanceRuns ==
  ASSUME NEW g, WellFormed(g), Valid(g)
  PROVE  \E run : IsDistanceRun(g, run) /\ Distances(g) = run[Len(Kahn(g))]
<1> DEFINE order == Kahn(g)
           N == Len(order)
           V == [Nodes(g) -> Nat]
           step == [n \in 1..N |-> [dist \in V |-> Stretched(g, dist, order[n])]]
           start == DistanceStart(g)
<1>1. N \in Nat /\ \A n \in 1..N : order[n] \in Nodes(g)
  BY ValidMeans DEF Lists
<1>2. \A n \in 1..N : \A dist \in V : Stretched(g, dist, order[n]) \in V
  BY <1>1, StretchedType
<1>3. /\ step \in [1..N -> [V -> V]]
      /\ \A n \in 1..N : \A dist \in V : step[n][dist] = Stretched(g, dist, order[n])
  <2> HIDE DEF V, N, order
  <2> QED BY <1>2
<1>4. start \in V
  BY DEF DistanceStart
<1>5. PICK f \in [0..N -> V] : f[0] = start /\ \A n \in 1..N : f[n] = step[n][f[n - 1]]
  <2>1. start \in V /\ step \in [1..N -> [V -> V]] /\ N \in Nat
    BY <1>1, <1>3, <1>4
  <2> HIDE DEF V, N, step, start
  <2> QED BY <2>1, RunExists, SMT
<1>6. \A n \in 0..N : n # 0 => f[n] = Stretched(g, f[n - 1], order[n])
  <2> SUFFICES ASSUME NEW n \in 0..N, n # 0 PROVE f[n] = Stretched(g, f[n - 1], order[n])
    OBVIOUS
  <2> HIDE DEF V, N, step, start, order
  <2>1. n \in 1..N /\ n - 1 \in 0..N
    BY <1>1
  <2>2. f[n] = step[n][f[n - 1]] /\ f[n - 1] \in V
    BY <1>5, <2>1
  <2> QED BY <2>1, <2>2, <1>3
<1>7. IsDistanceRun(g, f)
  <2>1. f = [n \in 0..N |-> f[n]] /\ f[0] = start
    BY <1>1, <1>5
  <2> QED BY <2>1, <1>6 DEF IsDistanceRun
<1> DEFINE run == CHOOSE r : IsDistanceRun(g, r)
<1>8. IsDistanceRun(g, run)
  BY <1>7
<1>9. Distances(g) = run[N]
  BY DEF Distances, IsDistanceRun, DistanceStart
<1> QED BY <1>8, <1>9

\* When the loop has come to a task, its distance is settled.
LEMMA DistancesRank ==
  ASSUME NEW g, WellFormed(g), Valid(g)
  PROVE  Ranked(g, Distances(g))
<1> DEFINE order == Kahn(g)
           N == Len(order)
           past(n) == {order[i] : i \in 1..n}
           Good(dist, n) ==
             /\ dist \in [Nodes(g) -> Nat]
             /\ \A t \in Nodes(g) :
                  /\ \A d \in g.deps[t] \cap past(n) : dist[d] < dist[t]
                  /\ dist[t] # 0 => \E d \in g.deps[t] \cap past(n) : dist[t] = dist[d] + 1
<1>1. PICK run : IsDistanceRun(g, run) /\ Distances(g) = run[N]
  BY DistanceRuns
<1>2. /\ N \in Nat /\ \A n \in 1..N : order[n] \in Nodes(g)
      /\ \A t \in Nodes(g) : \E i \in 1..N : order[i] = t
      /\ \A i, j \in 1..N : order[i] = order[j] => i = j
  BY ValidMeans DEF Lists
<1>3. \A i \in 1..N : \A d \in g.deps[order[i]] : \E j \in 1..(i - 1) : order[j] = d
  BY ValidMeans DEF Sorted
<1>4. \A t \in Nodes(g) : g.deps[t] \subseteq Nodes(g)
  BY DEF Valid, Closed
<1> HIDE DEF order, N
<1>5. ASSUME NEW n \in 1..N, NEW dist, Good(dist, n - 1)
      PROVE  Good(Stretched(g, dist, order[n]), n)
  <2> DEFINE h == order[n]
             next == Stretched(g, dist, h)
  <2>1. h \in Nodes(g) /\ past(n) = past(n - 1) \cup {h} /\ past(n) \subseteq Nodes(g)
    BY <1>2
  <2>2. /\ dist \in [Nodes(g) -> Nat]
        /\ \A t \in Nodes(g) :
             /\ \A d \in g.deps[t] \cap past(n - 1) : dist[d] < dist[t]
             /\ dist[t] # 0 => \E d \in g.deps[t] \cap past(n - 1) : dist[t] = dist[d] + 1
    BY <1>5
  <2>3. next \in [Nodes(g) -> Nat]
    BY <2>1, <2>2, StretchedType
  <2>4. \A d \in past(n) : h \notin g.deps[d]
    <3> SUFFICES ASSUME NEW i \in 1..n, h \in g.deps[order[i]] PROVE FALSE
      OBVIOUS
    <3>1. i \in 1..N
      BY <1>2
    <3>2. PICK j \in 1..(i - 1) : order[j] = h
      BY <1>3, <3>1
    <3>3. j \in 1..N /\ j # n
      BY <1>2, <3>1
    <3> QED BY <3>2, <3>3, <1>2
  <2> HIDE DEF past, h
  <2>5. \A t \in Nodes(g) : t \in g.rdeps[h] <=> h \in g.deps[t]
    BY <2>1 DEF WellFormed, DependentsInverse
  <2>6. \A t \in Nodes(g) : next[t] = IF h \in g.deps[t] THEN Longer(dist[t], dist[h] + 1) ELSE dist[t]
    BY <2>5 DEF Stretched
  <2> HIDE DEF next
  <2>7. \A d \in past(n) : next[d] = dist[d]
    BY <2>1, <2>4, <2>6
  <2>8. ASSUME NEW t \in Nodes(g)
        PROVE  /\ \A d \in g.deps[t] \cap past(n) : next[d] < next[t]
               /\ next[t] # 0 => \E d \in g.deps[t] \cap past(n) : next[t] = next[d] + 1
    <3>0. next[t] \in Nat /\ dist[t] \in Nat /\ dist[h] \in Nat /\ \A d \in past(n) : dist[d] \in Nat
      BY <2>1, <2>2, <2>3
    <3>1. CASE h \notin g.deps[t]
      BY <3>0, <3>1, <2>1, <2>2, <2>6, <2>7
    <3>2. CASE h \in g.deps[t]
      <4>1. next[t] = Longer(dist[t], dist[h] + 1)
        BY <3>2, <2>6
      <4>2. next[t] >= dist[t] /\ next[t] > dist[h] /\ (next[t] = dist[t] \/ next[t] = dist[h] + 1)
        BY <4>1, <3>0 DEF Longer
      <4>3. ASSUME NEW d \in g.deps[t] \cap past(n) PROVE next[d] < next[t]
        <5>1. CASE d = h
          BY <5>1, <4>2, <2>1, <2>7
        <5>2. CASE d # h
          <6>1. dist[d] < dist[t]
            BY <5>2, <2>1, <2>2
          <6> QED BY <6>1, <4>2, <3>0, <2>7
        <5> QED BY <5>1, <5>2
      <4>4. ASSUME next[t] # 0 PROVE \E d \in g.deps[t] \cap past(n) : next[t] = next[d] + 1
        <5>1. CASE next[t] = dist[h] + 1
          BY <5>1, <3>2, <2>1, <2>7
        <5>2. CASE next[t] = dist[t]
          <6>1. PICK d \in g.deps[t] \cap past(n - 1) : dist[t] = dist[d] + 1
            BY <4>4, <5>2, <2>2
          <6> QED BY <6>1, <5>2, <2>1, <2>7
        <5> QED BY <5>1, <5>2, <4>2
      <4> QED BY <4>3, <4>4
    <3> QED BY <3>1, <3>2
  <2> QED BY <2>3, <2>8 DEF next, h
<1> DEFINE Reached == {n \in 0..N : Good(run[n], n)}
<1>6. 0 \in Reached
  <2>1. run[0] = [t \in Nodes(g) |-> 0]
    BY <1>1, <1>2 DEF IsDistanceRun, DistanceStart, N
  <2>2. past(0) = {}
    OBVIOUS
  <2> HIDE DEF past
  <2>3. Good(run[0], 0)
    BY <2>1, <2>2
  <2> QED BY <2>3, <1>2
<1>7. ASSUME NEW n \in 1..N, n - 1 \in Reached PROVE n \in Reached
  <2>0. n \in 0..N /\ n # 0
    BY <1>2
  <2>1. run[n] = Stretched(g, run[n - 1], order[n])
    <3>1. run = [i \in 0..N |-> IF i = 0 THEN DistanceStart(g)
                                ELSE Stretched(g, run[i - 1], order[i])]
      BY <1>1 DEF IsDistanceRun, N, order
    <3> QED BY <2>0, <3>1
  <2> HIDE DEF Good
  <2>2. Good(run[n], n)
    BY <2>1, <1>5, <1>7
  <2> QED BY <2>2, <1>2
<1>8. N \in Reached
  <2> HIDE DEF Reached
  <2>1. 0..N \subseteq Reached
    BY <1>2, <1>6, <1>7, ByTurns
  <2> QED BY <2>1, <1>2
<1>9. past(N) = Nodes(g)
  BY <1>2
<1>10. Good(Distances(g), N)
  BY <1>1, <1>8
<1> HIDE DEF past
<1> QED BY <1>4, <1>9, <1>10 DEF Ranked

\* Below a rank every rank occurs, so ranks stay below the number of tasks.
LEMMA RanksOccur ==
  ASSUME NEW g, WellFormed(g), NEW dist, Ranked(g, dist), NEW t \in Nodes(g)
  PROVE  /\ \A n \in 0..dist[t] : \E u \in Nodes(g) : dist[u] = n
         /\ dist[t] \in Nat /\ dist[t] < Turns
<1> DEFINE m == dist[t]
           W == {dist[u] : u \in Nodes(g)}
           Good == {i \in 0..m : m - i \in W}
<1>1. m \in Nat /\ dist \in [Nodes(g) -> Nat]
  BY DEF Ranked
<1>2. 0 \in Good
  BY <1>1
<1>3. ASSUME NEW i \in 1..m, i - 1 \in Good PROVE i \in Good
  <2>1. PICK u \in Nodes(g) : dist[u] = m - (i - 1)
    BY <1>3
  <2>2. dist[u] # 0
    BY <2>1, <1>1
  <2>3. PICK d \in g.deps[u] : dist[u] = dist[d] + 1
    BY <2>2 DEF Ranked
  <2>4. d \in Nodes(g) /\ dist[d] = m - i
    BY <2>1, <2>3, <1>1 DEF Ranked
  <2>5. m - i \in W
    BY <2>4
  <2> HIDE DEF W
  <2> QED BY <2>5, <1>1
<1>4. 0..m \subseteq Good
  <2> HIDE DEF Good
  <2> QED BY <1>1, <1>2, <1>3, ByTurns
<1>5. 0..m \subseteq W
  <2> SUFFICES ASSUME NEW n \in 0..m PROVE n \in W
    OBVIOUS
  <2>1. m - n \in 0..m /\ m - (m - n) = n
    BY <1>1
  <2>2. m - n \in Good
    BY <2>1, <1>4
  <2> QED BY <2>1, <2>2
<1>6. IsFiniteSet(W) /\ Cardinality(W) <= Cardinality(Nodes(g)) /\ Cardinality(W) \in Nat
  <2>1. IsFiniteSet(Nodes(g))
    BY FiniteTasks DEF WellFormed
  <2>2. dist \in Surjection(Nodes(g), W)
    <3>1. dist \in [Nodes(g) -> W]
      BY <1>1
    <3>2. \A w \in W : \E u \in Nodes(g) : dist[u] = w
      OBVIOUS
    <3> HIDE DEF W
    <3> QED BY <3>1, <3>2, Fun_IsSurj
  <2> HIDE DEF W
  <2> QED BY <2>1, <2>2, FS_Surjection, FS_CardinalityType
<1>7. Cardinality(0..m) = m + 1
  <2>1. 0 \in Int /\ m \in Int
    BY <1>1
  <2>2. Cardinality(0..m) = IF 0 > m THEN 0 ELSE m - 0 + 1
    BY <2>1, FS_Interval
  <2> QED BY <2>2, <1>1
<1>8. m + 1 <= Cardinality(W)
  <2> HIDE DEF W, m
  <2>1. 0..m \in SUBSET W
    BY <1>5
  <2>2. Cardinality(0..m) <= Cardinality(W)
    BY <2>1, <1>6, FS_Subset
  <2> QED BY <2>2, <1>7
<1>9. Cardinality(Nodes(g)) <= Turns /\ Cardinality(Nodes(g)) \in Nat /\ Turns \in Nat
  BY FiniteTasks DEF WellFormed
<1>10. m < Turns
  <2> HIDE DEF W, m
  <2> QED BY <1>1, <1>6, <1>8, <1>9
<1> QED BY <1>1, <1>5, <1>10

\* Some task of a set is the farthest of it.
LEMMA FarthestMeans ==
  ASSUME NEW g, WellFormed(g), NEW dist, Ranked(g, dist),
         NEW S, S \subseteq Nodes(g), S # {}
  PROVE  Farthest(dist, S) \in S /\ \A u \in S : dist[u] <= dist[Farthest(dist, S)]
<1> DEFINE T == {t \in S : \A u \in S : dist[u] <= dist[t]}
           above == {n \in Nat : \A u \in S : dist[u] <= n}
<1>1. dist \in [Nodes(g) -> Nat] /\ \A u \in S : dist[u] \in Nat /\ dist[u] < Turns
  <2>1. \A u \in Nodes(g) : dist[u] \in Nat /\ dist[u] < Turns
    BY RanksOccur
  <2> QED BY <2>1 DEF Ranked
<1>2. Turns \in Nat
  BY FiniteTasks
<1>3. Turns \in above
  BY <1>1, <1>2
<1>4. PICK m \in above : \A n \in above : m <= n
  <2>1. above \in SUBSET Nat /\ above # {}
    BY <1>3
  <2> HIDE DEF above
  <2> QED BY <2>1, LeastNumber
<1>5. T # {}
  <2>1. CASE m = 0
    BY <2>1, <1>1, <1>4
  <2>2. CASE m # 0
    <3>1. m - 1 \in Nat /\ m - 1 \notin above
      BY <2>2, <1>4
    <3>2. PICK u \in S : ~ (dist[u] <= m - 1)
      BY <3>1
    <3>3. dist[u] = m
      BY <3>2, <1>1, <1>4
    <3> QED BY <3>3, <1>4
  <2> QED BY <2>1, <2>2
<1>6. Lists(InOrder(T), T)
  <2>1. T \in SUBSET Task
    BY DEF WellFormed
  <2> QED BY <2>1, InOrderLists
<1>7. InOrder(T)[1] \in T
  <2> HIDE DEF T
  <2>1. InOrder(T) \in Seq(T) /\ Len(InOrder(T)) # 0
    BY <1>5, <1>6 DEF Lists
  <2> QED BY <2>1
<1>8. Farthest(dist, S) \in T
  BY <1>7 DEF Farthest, First
<1> QED BY <1>8

LEMMA Prepended ==
  ASSUME NEW S, NEW q \in Seq(S), NEW t \in S
  PROVE  LET r == <<t>> \o q
         IN  /\ r \in Seq(S) /\ Len(r) = Len(q) + 1 /\ Len(q) \in Nat /\ r[1] = t
             /\ \A i \in 1..Len(q) : r[i + 1] = q[i]
<1>1. <<t>> \in Seq(S) /\ Len(<<t>>) = 1 /\ Len(q) \in Nat
  OBVIOUS
<1> DEFINE r == <<t>> \o q
<1>2. /\ r \in Seq(S) /\ Len(r) = 1 + Len(q)
      /\ \A i \in 1..Len(r) : r[i] = IF i <= 1 THEN <<t>>[i] ELSE q[i - 1]
  BY <1>1, ConcatProperties
<1> HIDE DEF r
<1>3. r[1] = t
  <2>1. 1 \in 1..Len(r)
    BY <1>1, <1>2
  <2> QED BY <2>1, <1>2
<1>4. \A i \in 1..Len(q) : r[i + 1] = q[i]
  <2> SUFFICES ASSUME NEW i \in 1..Len(q) PROVE r[i + 1] = q[i]
    OBVIOUS
  <2>1. i + 1 \in 1..Len(r) /\ ~(i + 1 <= 1) /\ (i + 1) - 1 = i
    BY <1>1, <1>2
  <2> QED BY <2>1, <1>2
<1> QED BY <1>1, <1>2, <1>3, <1>4 DEF r

\* The part of the path that is found, back to its first task.
PathInv(g, dist, path) ==
  /\ path \in Seq(Nodes(g)) /\ Len(path) # 0
  /\ \A i \in 1..(Len(path) - 1) : path[i] \in g.deps[path[i + 1]]
  /\ Len(path) + dist[path[1]] = dist[Farthest(dist, Nodes(g))] + 1

IsPathRun(g, dist, run) ==
  run = [n \in 0..Turns |->
           IF n = 0 THEN <<Farthest(dist, Nodes(g))>> ELSE Extended(g, dist, run[n - 1])]

LEMMA ExtendedKeeps ==
  ASSUME NEW g, WellFormed(g), NEW dist, Ranked(g, dist), NEW path, PathInv(g, dist, path)
  PROVE  /\ PathInv(g, dist, Extended(g, dist, path))
         /\ g.deps[path[1]] = {} => Extended(g, dist, path) = path
         /\ g.deps[path[1]] # {} => Len(Extended(g, dist, path)) = Len(path) + 1
<1>1. CASE g.deps[path[1]] = {}
  BY <1>1 DEF Extended
<1>2. CASE g.deps[path[1]] # {}
  <2> DEFINE h == path[1]
             t == Farthest(dist, g.deps[h])
             m == dist[Farthest(dist, Nodes(g))]
             long == Extended(g, dist, path)
  <2>1. /\ path \in Seq(Nodes(g)) /\ Len(path) # 0 /\ Len(path) \in Nat
        /\ \A i \in 1..(Len(path) - 1) : path[i] \in g.deps[path[i + 1]]
        /\ Len(path) + dist[h] = m + 1
    BY DEF PathInv
  <2>2. h \in Nodes(g)
    BY <2>1
  <2> HIDE DEF h
  <2>3. /\ g.deps[h] \subseteq Nodes(g) /\ dist \in [Nodes(g) -> Nat]
        /\ \A d \in g.deps[h] : dist[d] < dist[h]
        /\ dist[h] # 0 => \E d \in g.deps[h] : dist[h] = dist[d] + 1
    BY <2>2 DEF Ranked
  <2>4. t \in g.deps[h] /\ \A u \in g.deps[h] : dist[u] <= dist[t]
    <3>1. g.deps[h] # {}
      BY <1>2 DEF h
    <3> QED BY <3>1, <2>3, FarthestMeans
  <2> HIDE DEF t, m
  <2>5. dist[h] = dist[t] + 1
    <3>1. dist[t] \in Nat /\ dist[h] \in Nat /\ dist[t] < dist[h]
      BY <2>2, <2>3, <2>4
    <3>2. PICK d \in g.deps[h] : dist[h] = dist[d] + 1
      BY <3>1, <2>3
    <3>3. dist[d] <= dist[t] /\ dist[d] \in Nat
      BY <3>2, <2>3, <2>4
    <3> QED BY <3>1, <3>2, <3>3
  <2>6. long = <<t>> \o path
    BY <1>2 DEF Extended, t, h
  <2> HIDE DEF long
  <2>7. /\ long \in Seq(Nodes(g)) /\ Len(long) = Len(path) + 1 /\ long[1] = t
        /\ \A i \in 1..Len(path) : long[i + 1] = path[i]
    <3>1. t \in Nodes(g)
      BY <2>3, <2>4
    <3> QED BY <2>1, <2>6, <3>1, Prepended
  <2>8. \A i \in 1..(Len(long) - 1) : long[i] \in g.deps[long[i + 1]]
    <3> SUFFICES ASSUME NEW i \in 1..(Len(long) - 1) PROVE long[i] \in g.deps[long[i + 1]]
      OBVIOUS
    <3>1. i \in 1..Len(path) /\ long[i + 1] = path[i]
      BY <2>1, <2>7
    <3>2. CASE i = 1
      BY <3>1, <3>2, <2>4, <2>7 DEF h
    <3>3. CASE i # 1
      <4>1. i - 1 \in 1..(Len(path) - 1) /\ i - 1 \in 1..Len(path) /\ (i - 1) + 1 = i
        BY <3>1, <3>3, <2>1
      <4>2. long[i] = path[i - 1]
        BY <4>1, <2>7
      <4>3. path[i - 1] \in g.deps[path[i]]
        BY <4>1, <2>1
      <4> QED BY <4>2, <4>3, <3>1
    <3> QED BY <3>2, <3>3
  <2>9. Len(long) + dist[long[1]] = m + 1
    <3>1. dist[t] \in Nat /\ dist[h] \in Nat
      BY <2>2, <2>3, <2>4
    <3>2. Len(path) + (dist[t] + 1) = m + 1
      BY <2>1, <2>5
    <3> QED BY <2>1, <2>7, <3>1, <3>2
  <2>10. PathInv(g, dist, long) /\ Len(long) = Len(path) + 1
    BY <2>1, <2>7, <2>8, <2>9 DEF PathInv, m
  <2> QED BY <1>2, <2>10 DEF long
<1> QED BY <1>1, <1>2

LEMMA PathStarts ==
  ASSUME NEW g, WellFormed(g), Nodes(g) # {}, NEW dist, Ranked(g, dist)
  PROVE  PathInv(g, dist, <<Farthest(dist, Nodes(g))>>)
<1> DEFINE t == Farthest(dist, Nodes(g))
           path == <<t>>
<1>1. t \in Nodes(g)
  BY FarthestMeans
<1>2. dist[t] \in Nat
  BY <1>1 DEF Ranked
<1> HIDE DEF t
<1>3. path \in Seq(Nodes(g)) /\ Len(path) = 1 /\ path[1] = t
  BY <1>1
<1> HIDE DEF path
<1>4. PathInv(g, dist, path)
  BY <1>2, <1>3 DEF PathInv, t
<1> QED BY <1>4 DEF path, t

LEMMA PathRuns ==
  ASSUME NEW g, WellFormed(g), Nodes(g) # {}, NEW dist, Ranked(g, dist)
  PROVE  \E run : IsPathRun(g, dist, run) /\ (dist = Distances(g) => CriticalPath(g) = run[Turns])
<1> DEFINE V == {path \in Seq(Nodes(g)) : PathInv(g, dist, path)}
           step == [n \in 1..Turns |-> [path \in V |-> Extended(g, dist, path)]]
           start == <<Farthest(dist, Nodes(g))>>
<1>1. start \in V /\ Turns \in Nat
  BY PathStarts, FiniteTasks DEF PathInv
<1>2. \A path \in V : Extended(g, dist, path) \in V
  BY ExtendedKeeps DEF PathInv
<1>3. /\ step \in [1..Turns -> [V -> V]]
      /\ \A n \in 1..Turns : \A path \in V : step[n][path] = Extended(g, dist, path)
  <2> HIDE DEF V
  <2> QED BY <1>2
<1>4. PICK f \in [0..Turns -> V] :
        f[0] = start /\ \A n \in 1..Turns : f[n] = step[n][f[n - 1]]
  <2>1. start \in V /\ step \in [1..Turns -> [V -> V]] /\ Turns \in Nat
    BY <1>1, <1>3
  <2> HIDE DEF V, step, start
  <2> QED BY <2>1, RunExists, SMT
<1>5. \A n \in 0..Turns : n # 0 => f[n] = Extended(g, dist, f[n - 1])
  <2> SUFFICES ASSUME NEW n \in 0..Turns, n # 0 PROVE f[n] = Extended(g, dist, f[n - 1])
    OBVIOUS
  <2> HIDE DEF V, step, start
  <2>1. n \in 1..Turns /\ n - 1 \in 0..Turns
    BY <1>1
  <2>2. f[n] = step[n][f[n - 1]] /\ f[n - 1] \in V
    BY <1>4, <2>1
  <2> QED BY <2>1, <2>2, <1>3
<1>6. IsPathRun(g, dist, f)
  <2>1. f = [n \in 0..Turns |-> f[n]] /\ f[0] = start
    BY <1>1, <1>4
  <2> QED BY <2>1, <1>5 DEF IsPathRun
<1> DEFINE run == CHOOSE r : IsPathRun(g, dist, r)
<1>7. IsPathRun(g, dist, run)
  BY <1>6
<1>8. dist = Distances(g) => CriticalPath(g) = run[Turns]
  BY DEF CriticalPath, IsPathRun
<1> QED BY <1>7, <1>8

\* The path is a chain from a task that depends on nothing to the farthest task.
LEMMA CriticalPathMeans ==
  ASSUME NEW g, WellFormed(g), Valid(g), Nodes(g) # {}
  PROVE  LET path == CriticalPath(g)
             dist == Distances(g)
         IN  PathInv(g, dist, path) /\ g.deps[path[1]] = {} /\ path[1] \in Nodes(g)
<1> DEFINE dist == Distances(g)
           t == Farthest(dist, Nodes(g))
           m == dist[t]
<1>1. Ranked(g, dist)
  BY DistancesRank
<1> HIDE DEF dist
<1>2. t \in Nodes(g) /\ m \in Nat /\ m < Turns /\ Turns \in Nat
  BY <1>1, FarthestMeans, RanksOccur, FiniteTasks
<1>3. PICK run : IsPathRun(g, dist, run) /\ CriticalPath(g) = run[Turns]
  BY <1>1, PathRuns DEF dist
<1> DEFINE Whole(path) == g.deps[path[1]] = {}
           Good == {n \in 0..Turns : /\ PathInv(g, dist, run[n])
                                     /\ Len(run[n]) = n + 1 \/ Whole(run[n])}
<1>4. 0 \in Good
  <2>1. run[0] = <<t>>
    BY <1>2, <1>3 DEF IsPathRun
  <2>2. PathInv(g, dist, run[0]) /\ Len(run[0]) = 1
    BY <1>1, <2>1, PathStarts
  <2> QED BY <2>2, <1>2
<1>5. ASSUME NEW n \in 1..Turns, n - 1 \in Good PROVE n \in Good
  <2> DEFINE path == run[n - 1]
  <2>1. run[n] = Extended(g, dist, path)
    <3>1. n \in 0..Turns /\ n # 0
      BY <1>2
    <3> QED BY <3>1, <1>3 DEF IsPathRun
  <2>2. PathInv(g, dist, path) /\ (Len(path) = (n - 1) + 1 \/ Whole(path))
    BY <1>5
  <2> HIDE DEF path
  <2>3. /\ PathInv(g, dist, run[n])
        /\ Whole(path) => run[n] = path
        /\ ~Whole(path) => Len(run[n]) = Len(path) + 1
    <3> DEFINE long == Extended(g, dist, path)
    <3>1. /\ PathInv(g, dist, long)
          /\ g.deps[path[1]] = {} => long = path
          /\ g.deps[path[1]] # {} => Len(long) = Len(path) + 1
      BY <1>1, <2>2, ExtendedKeeps
    <3> HIDE DEF long
    <3>2. run[n] = long
      BY <2>1 DEF long
    <3> QED BY <3>1, <3>2
  <2>4. Len(run[n]) = n + 1 \/ Whole(run[n])
    <3> HIDE DEF Whole
    <3> QED BY <2>2, <2>3
  <2> QED BY <2>3, <2>4, <1>2
<1>6. Turns \in Good
  <2> HIDE DEF Good
  <2>1. 0..Turns \subseteq Good
    BY <1>2, <1>4, <1>5, ByTurns
  <2> QED BY <2>1, <1>2
<1> DEFINE path == CriticalPath(g)
<1>7. PathInv(g, dist, path) /\ (Len(path) = Turns + 1 \/ g.deps[path[1]] = {})
  BY <1>3, <1>6
<1> HIDE DEF path
<1>8. path[1] \in Nodes(g) /\ dist[path[1]] \in Nat /\ Len(path) \in Nat
      /\ Len(path) + dist[path[1]] = m + 1
  <2>1. path \in Seq(Nodes(g)) /\ Len(path) # 0 /\ Len(path) + dist[path[1]] = m + 1
    BY <1>7 DEF PathInv
  <2>2. path[1] \in Nodes(g) /\ Len(path) \in Nat
    BY <2>1
  <2> QED BY <2>1, <2>2, <1>1 DEF Ranked
<1>9. Len(path) # Turns + 1
  <2> HIDE DEF m
  <2> QED BY <1>2, <1>8
<1> QED BY <1>7, <1>8, <1>9 DEF path, dist

Below(g, dist, n) == {t \in Nodes(g) : dist[t] < n}

Level(g, dist, n) == {t \in Nodes(g) : dist[t] = n}

\* The tasks of a rank are those that are ready when all of lower rank are settled.
LEMMA LevelIsReady ==
  ASSUME NEW g, WellFormed(g), NEW dist, Ranked(g, dist), NEW n \in Nat
  PROVE  /\ Level(g, dist, n) = Ready(g, Below(g, dist, n))
         /\ Below(g, dist, n + 1) = Below(g, dist, n) \cup Level(g, dist, n)
         /\ DownClosed(g, Below(g, dist, n))
         /\ \A t \in Level(g, dist, n) : g.deps[t] \subseteq Below(g, dist, n)
<1>1. /\ dist \in [Nodes(g) -> Nat]
      /\ \A t \in Nodes(g) :
           /\ g.deps[t] \subseteq Nodes(g)
           /\ \A d \in g.deps[t] : dist[d] < dist[t]
           /\ dist[t] # 0 => \E d \in g.deps[t] : dist[t] = dist[d] + 1
  BY DEF Ranked
<1>2. \A t \in Nodes(g) : dist[t] <= n => g.deps[t] \subseteq Below(g, dist, n)
  <2> SUFFICES ASSUME NEW t \in Nodes(g), dist[t] <= n, NEW d \in g.deps[t]
               PROVE  d \in Nodes(g) /\ dist[d] < n
    BY DEF Below
  <2>1. d \in Nodes(g) /\ dist[d] < dist[t]
    BY <1>1
  <2> QED BY <2>1, <1>1
<1>3. ASSUME NEW t \in Nodes(g), g.deps[t] \subseteq Below(g, dist, n), ~(dist[t] < n)
      PROVE  dist[t] = n
  <2>1. CASE dist[t] = 0
    BY <2>1, <1>1, <1>3
  <2>2. CASE dist[t] # 0
    <3>1. PICK d \in g.deps[t] : dist[t] = dist[d] + 1
      BY <2>2, <1>1
    <3>2. d \in Nodes(g) /\ dist[d] < n
      BY <3>1, <1>3 DEF Below
    <3> QED BY <3>1, <3>2, <1>1, <1>3
  <2> QED BY <2>1, <2>2
<1>4. Level(g, dist, n) = Ready(g, Below(g, dist, n))
  <2>1. ASSUME NEW t \in Nodes(g)
        PROVE  dist[t] = n <=> ~(dist[t] < n) /\ g.deps[t] \subseteq Below(g, dist, n)
    <3>1. dist[t] \in Nat
      BY <1>1
    <3>2. dist[t] = n => g.deps[t] \subseteq Below(g, dist, n)
      BY <1>2, <3>1
    <3> QED BY <1>3, <3>1, <3>2
  <2>2. Level(g, dist, n)
          = {t \in Nodes(g) : ~(dist[t] < n) /\ g.deps[t] \subseteq Below(g, dist, n)}
    BY <2>1 DEF Level
  <2>3. Nodes(g) \ Below(g, dist, n) = {t \in Nodes(g) : ~(dist[t] < n)}
    BY DEF Below
  <2> QED BY <2>2, <2>3 DEF Ready
<1>5. Below(g, dist, n + 1) = Below(g, dist, n) \cup Level(g, dist, n)
  <2>1. \A t \in Nodes(g) : dist[t] < n + 1 <=> dist[t] < n \/ dist[t] = n
    BY <1>1
  <2> QED BY <2>1 DEF Below, Level
<1>6. DownClosed(g, Below(g, dist, n))
  <2>1. ASSUME NEW t \in Below(g, dist, n) PROVE Dependencies(g, t) \subseteq Below(g, dist, n)
    <3>1. t \in Nodes(g) /\ dist[t] <= n
      BY <1>1 DEF Below
    <3> QED BY <3>1, <1>2 DEF Dependencies
  <2> QED BY <2>1 DEF DownClosed
<1>7. \A t \in Level(g, dist, n) : g.deps[t] \subseteq Below(g, dist, n)
  BY <1>2 DEF Level
<1> QED BY <1>4, <1>5, <1>6, <1>7

\* The state of the loop when the groups of the ranks below n are out.
GroupsAt(g, dist, n) ==
  [degree |-> Missing(g, Below(g, dist, n)),
   left   |-> Nodes(g) \ Below(g, dist, n),
   groups |-> [i \in 1..n |-> Level(g, dist, i - 1)]]

IsGroupRun(g, run) ==
  run = [n \in 0..Turns |->
           IF n = 0 THEN [degree |-> InDegree(g), left |-> Nodes(g), groups |-> <<>>]
           ELSE GroupTurn(g, run[n - 1])]

LEMMA GroupsStart ==
  ASSUME NEW g, WellFormed(g), NEW dist, Ranked(g, dist)
  PROVE  [degree |-> InDegree(g), left |-> Nodes(g), groups |-> <<>>] = GroupsAt(g, dist, 0)
<1>1. Below(g, dist, 0) = {}
  BY DEF Below, Ranked
<1>2. InDegree(g) = Missing(g, {})
  BY DEF InDegree, Missing
<1>3. [i \in 1..0 |-> Level(g, dist, i - 1)] = <<>>
  OBVIOUS
<1> QED BY <1>1, <1>2, <1>3 DEF GroupsAt

\* A turn puts out the next rank, until nothing is left.
LEMMA GroupsTurn ==
  ASSUME NEW g, WellFormed(g), NEW dist, Ranked(g, dist), NEW n \in Nat
  PROVE  /\ Level(g, dist, n) # {} =>
              GroupTurn(g, GroupsAt(g, dist, n)) = GroupsAt(g, dist, n + 1)
         /\ Level(g, dist, n) = {} =>
              GroupTurn(g, GroupsAt(g, dist, n)) = GroupsAt(g, dist, n)
<1> DEFINE p == GroupsAt(g, dist, n)
           below == Below(g, dist, n)
           level == Level(g, dist, n)
           ready == {t \in p.left : p.degree[t] = 0}
<1>1. p.left = Nodes(g) \ below /\ p.degree = Missing(g, below)
      /\ p.groups = [i \in 1..n |-> Level(g, dist, i - 1)]
  BY DEF GroupsAt
<1>2. ready = level
  <2>1. \A t \in Nodes(g) : Missing(g, below)[t] = 0 <=> g.deps[t] \subseteq below
    BY NothingMissing
  <2>2. level = Ready(g, below)
    BY LevelIsReady
  <2> HIDE DEF below, level, p
  <2> QED BY <1>1, <2>1, <2>2 DEF Ready
<1>3. CASE level = {}
  BY <1>2, <1>3 DEF GroupTurn
<1>4. CASE level # {}
  <2>1. GroupTurn(g, p) = [degree |-> Lowered(g, p.degree, level), left |-> p.left \ level,
                           groups |-> Append(p.groups, level)]
    <3> HIDE DEF p, level
    <3> QED BY <1>2, <1>4 DEF GroupTurn
  <2>2. Lowered(g, p.degree, level) = Missing(g, Below(g, dist, n + 1))
    <3>1. below \in SUBSET Task /\ level \in SUBSET Task /\ below \cap level = {}
      BY DEF Below, Level, WellFormed, Ranked
    <3>2. Below(g, dist, n + 1) = below \cup level
      BY LevelIsReady
    <3> HIDE DEF p, below, level
    <3> QED BY <1>1, <3>1, <3>2, LoweredCounts
  <2>3. p.left \ level = Nodes(g) \ Below(g, dist, n + 1)
    <3>1. Below(g, dist, n + 1) = below \cup level
      BY LevelIsReady
    <3> HIDE DEF p, below, level
    <3> QED BY <1>1, <3>1
  <2>4. Append(p.groups, level) = [i \in 1..(n + 1) |-> Level(g, dist, i - 1)]
    <3> DEFINE q == [i \in 1..n |-> Level(g, dist, i - 1)]
               r == [i \in 1..(n + 1) |-> Level(g, dist, i - 1)]
    <3>1. q \in Seq(SUBSET Nodes(g)) /\ Len(q) = n
      BY DEF Level
    <3>2. \A i \in 1..n : q[i] = r[i]
      OBVIOUS
    <3>3. r[n + 1] = level /\ level \in SUBSET Nodes(g)
      BY DEF Level
    <3>4. r = [i \in 1..(n + 1) |-> r[i]]
      OBVIOUS
    <3> HIDE DEF q, r, level
    <3>5. /\ Append(q, level) \in Seq(SUBSET Nodes(g)) /\ Len(Append(q, level)) = n + 1
          /\ \A i \in 1..n : Append(q, level)[i] = q[i]
          /\ Append(q, level)[n + 1] = level
      BY <3>1, <3>3, AppendProperties
    <3> DEFINE s == Append(q, level)
    <3> HIDE DEF s
    <3>6. s = [i \in 1..(n + 1) |-> s[i]]
      BY <3>5, LenProperties DEF s
    <3>7. \A i \in 1..(n + 1) : s[i] = r[i]
      BY <3>2, <3>3, <3>5 DEF s
    <3>8. s = r
      BY <3>4, <3>6, <3>7
    <3> QED BY <3>8, <1>1 DEF s, r, q
  <2> HIDE DEF p
  <2>5. GroupTurn(g, p) = GroupsAt(g, dist, n + 1)
    BY <2>1, <2>2, <2>3, <2>4 DEF GroupsAt
  <2> QED BY <1>4, <2>5 DEF p
<1> QED BY <1>3, <1>4

LEMMA GroupRuns ==
  ASSUME NEW g, WellFormed(g), NEW dist, Ranked(g, dist)
  PROVE  \E run : /\ IsGroupRun(g, run) /\ ParallelGroups(g) = run[Turns].groups
                  /\ run[0] = GroupsAt(g, dist, 0)
                  /\ \A n \in 1..Turns : run[n] = GroupTurn(g, run[n - 1])
<1> DEFINE V == {GroupsAt(g, dist, n) : n \in Nat}
           step == [n \in 1..Turns |-> [p \in V |-> GroupTurn(g, p)]]
           start == GroupsAt(g, dist, 0)
<1>1. start \in V /\ Turns \in Nat
  BY FiniteTasks
<1>2. \A p \in V : GroupTurn(g, p) \in V
  <2> SUFFICES ASSUME NEW n \in Nat PROVE GroupTurn(g, GroupsAt(g, dist, n)) \in V
    OBVIOUS
  <2>1. GroupTurn(g, GroupsAt(g, dist, n)) \in {GroupsAt(g, dist, n + 1), GroupsAt(g, dist, n)}
    BY GroupsTurn
  <2> QED BY <2>1
<1>3. /\ step \in [1..Turns -> [V -> V]]
      /\ \A n \in 1..Turns : \A p \in V : step[n][p] = GroupTurn(g, p)
  <2> HIDE DEF V
  <2> QED BY <1>2
<1>4. PICK f \in [0..Turns -> V] :
        f[0] = start /\ \A n \in 1..Turns : f[n] = step[n][f[n - 1]]
  <2>1. start \in V /\ step \in [1..Turns -> [V -> V]] /\ Turns \in Nat
    BY <1>1, <1>3
  <2> HIDE DEF V, step, start
  <2> QED BY <2>1, RunExists, SMT
<1>5. \A n \in 0..Turns : n # 0 => f[n] = GroupTurn(g, f[n - 1])
  <2> SUFFICES ASSUME NEW n \in 0..Turns, n # 0 PROVE f[n] = GroupTurn(g, f[n - 1])
    OBVIOUS
  <2> HIDE DEF V, step, start
  <2>1. n \in 1..Turns /\ n - 1 \in 0..Turns
    BY <1>1
  <2>2. f[n] = step[n][f[n - 1]] /\ f[n - 1] \in V
    BY <1>4, <2>1
  <2> QED BY <2>1, <2>2, <1>3
<1>6. IsGroupRun(g, f)
  <2>1. f = [n \in 0..Turns |-> f[n]] /\ f[0] = start
    BY <1>1, <1>4
  <2>2. start = [degree |-> InDegree(g), left |-> Nodes(g), groups |-> <<>>]
    BY GroupsStart
  <2> HIDE DEF start, step, V
  <2> QED BY <2>1, <2>2, <1>5 DEF IsGroupRun
<1> DEFINE run == CHOOSE r : IsGroupRun(g, r)
<1>7. IsGroupRun(g, run)
  BY <1>6
<1>8. ParallelGroups(g) = run[Turns].groups
  BY DEF ParallelGroups, IsGroupRun
<1> HIDE DEF run
<1>9. run[0] = start /\ \A n \in 1..Turns : run[n] = GroupTurn(g, run[n - 1])
  <2>1. \A n \in 1..Turns : n \in 0..Turns /\ n # 0
    BY <1>1
  <2>2. start = [degree |-> InDegree(g), left |-> Nodes(g), groups |-> <<>>]
    BY GroupsStart
  <2> HIDE DEF start
  <2> QED BY <2>1, <2>2, <1>1, <1>7 DEF IsGroupRun
<1> QED BY <1>7, <1>8, <1>9

\* The groups are the ranks, in order.
LEMMA ParallelGroupsMeans ==
  ASSUME NEW g, WellFormed(g), NEW dist, Ranked(g, dist), NEW top \in Nodes(g),
         \A t \in Nodes(g) : dist[t] <= dist[top]
  PROVE  ParallelGroups(g) = [i \in 1..(dist[top] + 1) |-> Level(g, dist, i - 1)]
<1> DEFINE N == dist[top] + 1
           at(n) == IF n <= N THEN n ELSE N
<1>1. /\ N \in Nat /\ N <= Turns /\ Turns \in Nat
      /\ \A n \in Nat : n < N => Level(g, dist, n) # {}
      /\ Level(g, dist, N) = {}
  <2>1. dist[top] \in Nat /\ dist[top] < Turns /\ Turns \in Nat
    BY RanksOccur, FiniteTasks
  <2>2. \A n \in 0..dist[top] : \E u \in Nodes(g) : dist[u] = n
    BY RanksOccur
  <2>3. \A t \in Nodes(g) : dist[t] # N
    BY <2>1 DEF Ranked
  <2> QED BY <2>1, <2>2, <2>3 DEF Level
<1>2. PICK run : /\ ParallelGroups(g) = run[Turns].groups
                 /\ run[0] = GroupsAt(g, dist, 0)
                 /\ \A n \in 1..Turns : run[n] = GroupTurn(g, run[n - 1])
  BY GroupRuns
<1> HIDE DEF N
<1> DEFINE Good == {n \in 0..Turns : run[n] = GroupsAt(g, dist, at(n))}
<1>3. 0 \in Good
  BY <1>1, <1>2
<1>4. ASSUME NEW n \in 1..Turns, n - 1 \in Good PROVE n \in Good
  <2>1. run[n] = GroupTurn(g, GroupsAt(g, dist, at(n - 1)))
    BY <1>2, <1>4
  <2>2. CASE n <= N
    <3>1. at(n - 1) = n - 1 /\ at(n) = n /\ n - 1 \in Nat /\ n - 1 < N /\ (n - 1) + 1 = n
      BY <2>2, <1>1
    <3>2. run[n] = GroupsAt(g, dist, n)
      BY <2>1, <3>1, <1>1, GroupsTurn
    <3> QED BY <3>1, <3>2, <1>1
  <2>3. CASE ~(n <= N)
    <3>1. at(n - 1) = N /\ at(n) = N
      BY <2>3, <1>1
    <3>2. run[n] = GroupsAt(g, dist, N)
      BY <2>1, <3>1, <1>1, GroupsTurn
    <3> QED BY <3>1, <3>2, <1>1
  <2> QED BY <2>2, <2>3
<1>5. Turns \in Good
  <2> HIDE DEF Good
  <2>1. 0..Turns \subseteq Good
    BY <1>1, <1>3, <1>4, ByTurns
  <2> QED BY <2>1, <1>1
<1>6. run[Turns] = GroupsAt(g, dist, N)
  BY <1>1, <1>5
<1> QED BY <1>2, <1>6 DEF GroupsAt, N
=============================================================================
