------------------------- MODULE PlanActFlow_proofs -------------------------
(* Theorems about PlanActFlow, for any plans, steps, bounds and faults.       *)
EXTENDS PlanActFlow, FiniteSetTheorems, SequenceTheorems, TLAPS

(* Sequences, and what becomes of a plan *)

\* A set of numbers has a least one.
LEMMA LeastNumber ==
  ASSUME NEW S \in SUBSET Nat, S # {}
  PROVE  \E n \in S : \A m \in S : n <= m
<1> DEFINE T == {0..n : n \in S}
<1>1. T \subseteq FiniteSubsetsOf(Nat)
  <2>1. \A n \in S : IsFiniteSet(0..n) /\ 0..n \subseteq Nat
    BY FS_Interval
  <2> QED BY <2>1 DEF FiniteSubsetsOf
<1>2. IsWellFoundedOn(StrictSubsetOrdering(Nat), FiniteSubsetsOf(Nat))
  BY FS_StrictSubsetOrderingWellFounded
<1>3. T # {}
  OBVIOUS
<1>4. PICK x \in T : \A y \in T : ~ (<<y, x>> \in StrictSubsetOrdering(Nat))
  <2> HIDE DEF T
  <2> QED BY <1>1, <1>2, <1>3, WFMin
<1>5. PICK n \in S : x = 0..n
  BY <1>4
<1>6. ASSUME NEW m \in S, m < n PROVE FALSE
  <2>1. 0..m \in T /\ 0..m \subseteq 0..n /\ 0..m # 0..n /\ 0..n \subseteq Nat
    BY <1>6
  <2>2. <<0..m, 0..n>> \in StrictSubsetOrdering(Nat)
    BY <2>1 DEF StrictSubsetOrdering
  <2> QED BY <2>1, <2>2, <1>4, <1>5
<1> QED BY <1>6

\* What holds at the start and is kept by a turn holds after any number of turns.
LEMMA ByTurns ==
  ASSUME NEW N \in Nat, NEW S, 0 \in S, \A n \in 1..N : n - 1 \in S => n \in S
  PROVE  0..N \subseteq S
<1> SUFFICES ASSUME (0..N) \ S # {} PROVE FALSE
  OBVIOUS
<1>1. (0..N) \ S \in SUBSET Nat
  OBVIOUS
<1>2. PICK n \in (0..N) \ S : \A m \in (0..N) \ S : n <= m
  BY <1>1, LeastNumber
<1> QED BY <1>2

\* A loop whose turns map V to V has a run of any length.
LEMMA RunExists ==
  ASSUME NEW V, NEW a \in V, NEW N \in Nat, NEW step \in [1..N -> [V -> V]]
  PROVE  \E f \in [0..N -> V] : f[0] = a /\ \A n \in 1..N : f[n] = step[n][f[n - 1]]
<1> DEFINE IsRun(f, m) == f[0] = a /\ \A n \in 1..m : f[n] = step[n][f[n - 1]]
           S == {m \in 0..N : \E f \in [0..m -> V] : IsRun(f, m)}
<1>1. 0 \in S
  <2> DEFINE f == [n \in 0..0 |-> a]
  <2>1. f \in [0..0 -> V] /\ IsRun(f, 0)
    OBVIOUS
  <2> HIDE DEF f, IsRun
  <2> QED BY <2>1
<1>2. ASSUME NEW m \in 1..N, m - 1 \in S PROVE m \in S
  <2>1. PICK f \in [0..(m - 1) -> V] : IsRun(f, m - 1)
    BY <1>2
  <2> DEFINE h == [n \in 0..m |-> IF n = m THEN step[m][f[m - 1]] ELSE f[n]]
  <2>2. step[m][f[m - 1]] \in V
    OBVIOUS
  <2>3. h \in [0..m -> V]
    BY <2>2
  <2>4. /\ \A n \in 0..(m - 1) : h[n] = f[n]
        /\ h[m] = step[m][h[m - 1]]
    BY m - 1 \in 0..m, m # m - 1
  <2>5. IsRun(h, m)
    <3> HIDE DEF h
    <3> QED BY <2>1, <2>4
  <2> HIDE DEF h, IsRun
  <2> QED BY <2>3, <2>5
<1>3. N \in S
  <2> HIDE DEF S
  <2>1. 0..N \subseteq S
    BY <1>1, <1>2, ByTurns
  <2> QED BY <2>1
<1> QED BY <1>3

-----------------------------------------------------------------------------
(* Types of the operators on plans *)

LEMMA OnlyType ==
  ASSUME NEW T, NEW q \in Seq(T), NEW S
  PROVE  Only(q, S) \in Seq(T)
<1> DEFINE N == Len(q)
           V == Seq(T)
           IsTaken(f) == f = [n \in 0..N |->
                               IF n = 0 THEN <<>>
                               ELSE IF q[n] \in S THEN Append(f[n - 1], q[n]) ELSE f[n - 1]]
           taken == CHOOSE f : IsTaken(f)
           step == [n \in 1..N |-> [r \in V |-> IF q[n] \in S THEN Append(r, q[n]) ELSE r]]
<1>1. N \in Nat /\ <<>> \in V /\ \A n \in 1..N : q[n] \in T
  OBVIOUS
<1>2. \A n \in 1..N : \A r \in V : (IF q[n] \in S THEN Append(r, q[n]) ELSE r) \in V
  BY <1>1
<1>3. /\ step \in [1..N -> [V -> V]]
      /\ \A n \in 1..N : \A r \in V : step[n][r] = IF q[n] \in S THEN Append(r, q[n]) ELSE r
  <2> HIDE DEF V, N
  <2> QED BY <1>2
<1> DEFINE start == <<>>
<1>4. PICK f \in [0..N -> V] : f[0] = start /\ \A n \in 1..N : f[n] = step[n][f[n - 1]]
  <2>1. start \in V /\ step \in [1..N -> [V -> V]] /\ N \in Nat
    BY <1>1, <1>3
  <2> HIDE DEF V, N, step, start
  <2> QED BY <2>1, RunExists, SMT
<1>5. \A n \in 0..N : n # 0 =>
         f[n] = IF q[n] \in S THEN Append(f[n - 1], q[n]) ELSE f[n - 1]
  <2> SUFFICES ASSUME NEW n \in 0..N, n # 0
               PROVE  f[n] = IF q[n] \in S THEN Append(f[n - 1], q[n]) ELSE f[n - 1]
    OBVIOUS
  <2> HIDE DEF V, N, step, start
  <2>1. n \in 1..N /\ n - 1 \in 0..N
    BY <1>1
  <2>2. f[n] = step[n][f[n - 1]] /\ f[n - 1] \in V
    BY <1>4, <2>1
  <2> QED BY <2>1, <2>2, <1>3
<1>6. IsTaken(f)
  <2>1. f = [n \in 0..N |-> f[n]] /\ f[0] = <<>>
    BY <1>1, <1>4
  <2> QED BY <2>1, <1>5
<1>7. IsTaken(taken)
  BY <1>6
<1>8. Only(q, S) = taken[N]
  BY DEF Only
<1> DEFINE Good == {n \in 0..N : taken[n] \in V}
<1> HIDE DEF taken, V
<1>9. taken[0] = <<>>
  BY <1>1, <1>7
<1>10. \A n \in 1..N : taken[n] = IF q[n] \in S THEN Append(taken[n - 1], q[n]) ELSE taken[n - 1]
  <2>1. \A n \in 1..N : n \in 0..N /\ n # 0
    BY <1>1
  <2> HIDE DEF N
  <2> QED BY <2>1, <1>7
<1>11. 0 \in Good
  BY <1>1, <1>9
<1>12. ASSUME NEW n \in 1..N, n - 1 \in Good PROVE n \in Good
  BY <1>1, <1>10, <1>12, <1>2
<1>13. N \in Good
  <2> HIDE DEF Good
  <2>1. 0..N \subseteq Good
    BY <1>1, <1>11, <1>12, ByTurns
  <2> QED BY <2>1, <1>1
<1> QED BY <1>8, <1>13 DEF V

\* A function over the places of a sequence is a sequence of its values.
LEMMA PlacedType ==
  ASSUME NEW T, NEW q \in Seq(T), NEW S, NEW f, DOMAIN f = DOMAIN q,
         f = [i \in DOMAIN q |-> f[i]], \A i \in DOMAIN q : f[i] \in S
  PROVE  f \in Seq(S)
<1>1. DOMAIN q = 1..Len(q) /\ Len(q) \in Nat
  OBVIOUS
<1>2. f \in [1..Len(q) -> S]
  BY <1>1
<1> QED BY <1>1, <1>2

LEMMA FreshPlanType ==
  ASSUME NEW ids \in Seq(Id)
  PROVE  FreshPlan(ids) \in Seq(Step)
<1>1. \A i \in DOMAIN ids : ids[i] \in Id
  OBVIOUS
<1>2. \A id \in Id : Fresh(id) \in Step
  BY DEF Fresh, Step, StepStatus
<1>3. /\ DOMAIN FreshPlan(ids) = DOMAIN ids
      /\ FreshPlan(ids) = [i \in DOMAIN ids |-> FreshPlan(ids)[i]]
      /\ \A i \in DOMAIN ids : FreshPlan(ids)[i] = Fresh(ids[i])
  BY DEF FreshPlan
<1>4. \A i \in DOMAIN ids : FreshPlan(ids)[i] \in Step
  BY <1>1, <1>2, <1>3
<1> QED BY <1>3, <1>4, PlacedType

LEMMA MarkType ==
  ASSUME NEW p \in Seq(Step), NEW id, NEW st \in StepStatus
  PROVE  Mark(p, id, st) \in Seq(Step) /\ Ids(Mark(p, id, st)) = Ids(p)
<1>1. \A i \in DOMAIN p : p[i] \in Step
  OBVIOUS
<1>2. \A s \in Step : [s EXCEPT !.st = st] \in Step /\ [s EXCEPT !.st = st].id = s.id
  BY DEF Step
<1>3. /\ DOMAIN Mark(p, id, st) = DOMAIN p
      /\ Mark(p, id, st) = [i \in DOMAIN p |-> Mark(p, id, st)[i]]
      /\ \A i \in DOMAIN p :
           Mark(p, id, st)[i] = IF p[i].id = id THEN [p[i] EXCEPT !.st = st] ELSE p[i]
  BY DEF Mark
<1>4. \A i \in DOMAIN p : Mark(p, id, st)[i] \in Step /\ Mark(p, id, st)[i].id = p[i].id
  BY <1>1, <1>2, <1>3
<1>5. Mark(p, id, st) \in Seq(Step)
  BY <1>3, <1>4, PlacedType
<1> QED BY <1>3, <1>4, <1>5 DEF Ids

LEMMA PutType ==
  ASSUME NEW p \in Seq(Step), NEW id, NEW new \in Step
  PROVE  Put(p, id, new) \in Seq(Step)
BY DEF Put

LEMMA MergeType ==
  ASSUME NEW p \in Seq(Step), NEW ids \in Seq(Id)
  PROVE  Merge(p, ids) \in Seq(Step)
<1> DEFINE retained == Only(p, {s \in Step : s.st \in Done \cup {"unverified"}})
           fresh == Only(ids, Id \ Ids(retained))
<1>1. retained \in Seq(Step)
  BY OnlyType
<1>2. fresh \in Seq(Id)
  <2> HIDE DEF retained
  <2> QED BY OnlyType
<1>3. FreshPlan(fresh) \in Seq(Step)
  BY <1>2, FreshPlanType
<1> HIDE DEF retained, fresh
<1>4. retained \o FreshPlan(fresh) \in Seq(Step)
  BY <1>1, <1>3
<1> QED BY <1>4 DEF Merge, retained, fresh

LEMMA EditedType ==
  ASSUME NEW p \in Seq(Step), NEW ids \in Seq(Id)
  PROVE  Edited(p, ids) \in Seq(Step)
<1>1. ASSUME NEW i \in DOMAIN ids
      PROVE  (IF ids[i] \in Ids(p) THEN CHOOSE s \in {p[j] : j \in DOMAIN p} : s.id = ids[i]
                                   ELSE Fresh(ids[i])) \in Step
  <2>1. CASE ids[i] \in Ids(p)
    <3>1. \E s \in {p[j] : j \in DOMAIN p} : s.id = ids[i]
      BY <2>1 DEF Ids
    <3>2. (CHOOSE s \in {p[j] : j \in DOMAIN p} : s.id = ids[i]) \in {p[j] : j \in DOMAIN p}
      BY <3>1
    <3>3. \A j \in DOMAIN p : p[j] \in Step
      OBVIOUS
    <3> QED BY <2>1, <3>2, <3>3
  <2>2. CASE ids[i] \notin Ids(p)
    BY <2>2 DEF Fresh, Step, StepStatus
  <2> QED BY <2>1, <2>2
<1>2. /\ DOMAIN Edited(p, ids) = DOMAIN ids
      /\ Edited(p, ids) = [i \in DOMAIN ids |-> Edited(p, ids)[i]]
      /\ \A i \in DOMAIN ids : Edited(p, ids)[i] \in Step
  BY <1>1 DEF Edited
<1> QED BY <1>2, PlacedType

\* There is a next step while one is open.
LEMMA NextStepType ==
  ASSUME NEW p \in Seq(Step), Open(p) # {}
  PROVE  NextStep(p) \in Step /\ NextStep(p).id \in Ids(p) /\ Ids(p) \subseteq Id
<1>1. Open(p) \in SUBSET Nat /\ Open(p) \subseteq DOMAIN p /\ \A i \in DOMAIN p : p[i] \in Step
  BY DEF Open
<1>2. \E i \in Open(p) : \A j \in Open(p) : i <= j
  <2> HIDE DEF Open
  <2> QED BY <1>1, LeastNumber
<1>3. (CHOOSE i \in Open(p) : \A j \in Open(p) : i <= j) \in Open(p)
  BY <1>2
<1>4. NextStep(p) \in {p[i] : i \in DOMAIN p}
  BY <1>1, <1>3 DEF NextStep
<1> QED BY <1>1, <1>4 DEF Ids, Step

-----------------------------------------------------------------------------
(* TypeOK *)

\* Until its plan is approved, the flow's copy of the session holds it.
ReviewShows ==
  flow.at \in {"critiquing", "premortem", "reviewing_plan"} => flow.ses.plan = flow.plan

USE DEF ReviewShows

\* A copy of the session; one whose plan waits for approval has a plan.
GoodSes(s) == s \in Session /\ (s.review => s.plan # NoPlan)

\* Where the flow cannot be without a plan.
Planned ==
  {"critiquing", "premortem", "reviewing_plan", "executing", "updating", "reviewing", "stepped"}

\* The flow has the plan, and the step of it, that its state works on.
FlowOK ==
  /\ flow \in Flow
  /\ GoodSes(flow.ses)
  /\ flow.at \in Planned => flow.plan # NoPlan
  /\ flow.at \in {"stepped", "reviewing"} => flow.step \in Ids(flow.plan)
  /\ ReviewShows

RestOK ==
  /\ asked \in Question
  /\ cancel \in BOOLEAN
  /\ streak \in Nat
  /\ faults \in 0..MaxFaults
  /\ runs \in 0..MaxRuns

TypeInv == GoodSes(row) /\ FlowOK /\ RestOK

FlowAt == LoopState \cup {"none", "stepped", "over"}

LEMMA FlowFacts ==
  ASSUME NEW f \in Flow
  PROVE  /\ f.at \in FlowAt /\ f.plan \in Plan /\ f.ses \in Session /\ f.iter \in 0..(MaxIter + 1)
         /\ f.step \in Id \cup {"none"} /\ f.out \in Result /\ f.auto \in BOOLEAN
         /\ f.counts \in [Id -> 0..MaxRepeat]
BY DEF Flow, FlowAt

LEMMA NoFlowType ==
  /\ GoodSes(NewSession)
  /\ NoFlow \in Flow /\ NoFlow.at = "none" /\ NoFlow.ses = NewSession
<1>1. NewSession \in Session /\ ~NewSession.review
  BY DEF NewSession, Session, Plan, Gate
<1>2. 0 \in 0..(MaxIter + 1) /\ 0 \in 0..MaxRepeat
  BY BoundAssumption
<1>3. [i \in Id |-> 0] \in [Id -> 0..MaxRepeat] /\ NoPlan \in Plan
  BY <1>2 DEF Plan
<1> QED BY <1>1, <1>2, <1>3 DEF NoFlow, Flow, Result, GoodSes

LEMMA InitType == Init => TypeInv
<1> SUFFICES ASSUME Init PROVE TypeInv
  OBVIOUS
<1>1. GoodSes(row) /\ FlowOK
  BY NoFlowType DEF Init, FlowOK, Planned
<1>2. RestOK
  <2>1. 0 \in 0..MaxFaults /\ 0 \in 0..MaxRuns /\ 0 \in Nat
    BY BoundAssumption
  <2> QED BY <2>1 DEF Init, RestOK, Question
<1> QED BY <1>1, <1>2 DEF TypeInv

LEMMA FaultType ==
  ASSUME RestOK, NEW kind, Fault(kind) \/ NoFault
  PROVE  faults' \in 0..MaxFaults
BY BoundAssumption DEF RestOK, NoFault, Fault

LEMMA EmittedType ==
  ASSUME RestOK, GoodSes(row), NEW s, GoodSes(s), Emitted(s)
  PROVE  GoodSes(row') /\ faults' \in 0..MaxFaults
<1>1. row' \in {row, s} /\ (Fault("save") \/ NoFault)
  BY DEF Emitted
<1> QED BY <1>1, FaultType

\* The flow at its end, with the session s.
Left(s) == [flow EXCEPT !.at = "over", !.ses = s]

\* The flow ends with a session, or is gone.
LEMMA OverType ==
  ASSUME FlowOK, NEW s, GoodSes(s),
         flow' = NoFlow \/ flow' = Left(s)
  PROVE  FlowOK'
<1>1. CASE flow' = NoFlow
  BY <1>1, NoFlowType DEF FlowOK, Planned
<1>2. CASE flow' = Left(s)
  <2>1. flow' \in Flow /\ flow'.at = "over" /\ flow'.ses = s
    BY <1>2 DEF FlowOK, GoodSes, Flow, Left
  <2> QED BY <2>1 DEF FlowOK, Planned
<1> QED BY <1>1, <1>2

LEMMA StatusType ==
  ASSUME NEW s, GoodSes(s), NEW st \in {"pending", "running", "waiting", "completed", "failed"}
  PROVE  GoodSes([s EXCEPT !.st = st])
BY DEF GoodSes, Session

LEMMA RaiseType ==
  ASSUME FlowOK, NEW s, GoodSes(s), Raise(s)
  PROVE  FlowOK'
<1>1. GoodSes([s EXCEPT !.st = "failed"])
  BY StatusType
<1>2. flow' = NoFlow \/ flow' = Left([s EXCEPT !.st = "failed"])
  BY DEF Raise, Left
<1> QED BY <1>1, <1>2, OverType

\* A sequence of steps is not "no plan".
LEMMA NotAPlan == \A p \in Seq(Step) : p # NoPlan
BY PlanAssumption

LEMMA PlanType ==
  ASSUME NEW s, GoodSes(s), NEW plan \in Plan, plan # NoPlan \/ ~s.review
  PROVE  GoodSes([s EXCEPT !.plan = plan]) /\ [s EXCEPT !.plan = plan].plan = plan
         /\ [s EXCEPT !.plan = plan].st = s.st
BY DEF GoodSes, Session

LEMMA ReplacedType ==
  ASSUME NEW s, GoodSes(s), NEW plan \in Plan, plan # NoPlan, NEW kept
  PROVE  GoodSes(Replaced(s, plan, kept)) /\ Replaced(s, plan, kept).plan = plan
         /\ Replaced(s, plan, kept).st = s.st
BY DEF Replaced, GoodSes, Session

\* A pass that leaves the flow in the state at.
LEMMA GotoType ==
  ASSUME FlowOK, InLoop \/ flow.at = "stepped",
         NEW at \in LoopState \cup {"over"}, NEW plan \in Plan, NEW s, GoodSes(s),
         Goto(at, plan, s),
         at \in Planned => plan # NoPlan,
         at = "reviewing" => flow.step \in Ids(plan),
         at \in {"critiquing", "premortem", "reviewing_plan"} => s.plan = plan
  PROVE  FlowOK'
<1> DEFINE step == IF at = "reviewing" THEN flow.step ELSE "none"
           iter == IF flow.at = "stepped" THEN flow.iter ELSE flow.iter + 1
<1>1. flow' = [flow EXCEPT !.at = at, !.plan = plan, !.ses = s, !.iter = iter,
                           !.counts = flow.counts, !.step = step, !.out = "none"]
  BY DEF Goto, FlowOK, Flow
<1>2. /\ flow \in Flow /\ at \in FlowAt /\ s \in Session /\ step \in Id \cup {"none"}
      /\ "none" \in Result /\ flow.counts \in [Id -> 0..MaxRepeat]
  BY FlowFacts DEF FlowOK, FlowAt, GoodSes, Result
<1>3. iter \in 0..(MaxIter + 1)
  BY FlowFacts, BoundAssumption DEF FlowOK, InLoop, LoopState
<1>4. /\ flow' \in Flow /\ flow'.at = at /\ flow'.plan = plan /\ flow'.ses = s
      /\ flow'.step = step
  <2> HIDE DEF step, iter
  <2> QED BY <1>1, <1>2, <1>3 DEF Flow, FlowAt
<1>5. flow'.at # "stepped"
  BY <1>4 DEF LoopState
<1> QED BY <1>4, <1>5 DEF FlowOK

LEMMA ContinueType ==
  ASSUME FlowOK, InLoop \/ flow.at = "stepped",
         NEW at \in LoopState \cup {"over"}, NEW plan \in Plan, NEW s, GoodSes(s),
         Continue(at, plan, s),
         at \in Planned => plan # NoPlan,
         at = "reviewing" => flow.step \in Ids(plan),
         at \in {"critiquing", "premortem", "reviewing_plan"} => s.plan = plan
  PROVE  FlowOK'
<1>1. CASE s.st \in {"completed", "waiting", "failed"}
  <2>1. Goto("over", plan, s)
    BY <1>1 DEF Continue
  <2> QED BY <2>1, GotoType DEF Planned
<1>2. CASE s.st \notin {"completed", "waiting", "failed"}
  <2>1. Goto(at, plan, s)
    BY <1>2 DEF Continue
  <2> QED BY <2>1, GotoType
<1> QED BY <1>1, <1>2

LEMMA PauseDurablyType ==
  ASSUME TypeInv, NEW s, GoodSes(s), NEW question \in Question, PauseDurably(s, question)
  PROVE  GoodSes(row') /\ FlowOK' /\ faults' \in 0..MaxFaults /\ asked' \in Question
<1>1. CASE /\ row' = s /\ NoFault /\ asked' = question
           /\ IF Breaks THEN flow' = NoFlow
                        ELSE flow' = [flow EXCEPT !.at = "over", !.ses = s]
  <2>1. flow' = NoFlow \/ flow' = Left(s)
    BY <1>1 DEF Left
  <2> QED BY <1>1, <2>1, OverType, FaultType DEF TypeInv
<1>2. CASE Fault("save") /\ row' \in {row, s} /\ Raise(s) /\ UNCHANGED asked
  BY <1>2, RaiseType, FaultType DEF TypeInv, RestOK
<1> QED BY <1>1, <1>2 DEF PauseDurably

LEMMA PauseType ==
  ASSUME TypeInv, NEW s, GoodSes(s), NEW question \in Question, Pause(s, question)
  PROVE  TypeInv'
<1>1. GoodSes([s EXCEPT !.st = "waiting"])
  BY StatusType
<1>2. PauseDurably([s EXCEPT !.st = "waiting"], question) /\ UNCHANGED <<cancel, streak, runs>>
  BY DEF Pause
<1> QED BY <1>1, <1>2, PauseDurablyType DEF TypeInv, RestOK

-----------------------------------------------------------------------------

LEMMA TakeCancelType == TypeInv /\ TakeCancel => TypeInv'
<1> SUFFICES ASSUME TypeInv, TakeCancel PROVE TypeInv'
  OBVIOUS
<1> DEFINE s == [flow.ses EXCEPT !.st = "failed"]
<1>1. GoodSes(s)
  BY StatusType DEF TypeInv, FlowOK
<1>2. Emitted(s) /\ flow' = Left(s) /\ cancel' = FALSE /\ UNCHANGED <<asked, streak, runs>>
  BY DEF TakeCancel, Left
<1> HIDE DEF s
<1> QED BY <1>1, <1>2, EmittedType, OverType DEF TypeInv, RestOK

LEMMA PassesSpentType == TypeInv /\ PassesSpent => TypeInv'
<1> SUFFICES ASSUME TypeInv, PassesSpent PROVE TypeInv'
  OBVIOUS
<1>1. flow' = Left(flow.ses)
  BY DEF PassesSpent, Left, TypeInv, FlowOK, Flow
<1>2. UNCHANGED <<row, asked, cancel, streak, faults, runs>> /\ GoodSes(flow.ses)
  BY DEF PassesSpent, TypeInv, FlowOK
<1> QED BY <1>1, <1>2, OverType DEF TypeInv, RestOK

LEMMA EndRunType == TypeInv /\ EndRun => TypeInv'
<1> SUFFICES ASSUME TypeInv, EndRun PROVE TypeInv'
  OBVIOUS
<1>1. GoodSes(flow.ses) /\ GoodSes([flow.ses EXCEPT !.st = "waiting"])
  BY StatusType DEF TypeInv, FlowOK
<1>2. GoodSes(Settled(flow.ses))
  BY <1>1 DEF Settled
<1>3. Emitted(Settled(flow.ses)) /\ flow' = NoFlow /\ UNCHANGED <<asked, cancel, streak, runs>>
  BY DEF EndRun
<1> QED BY <1>1, <1>2, <1>3, EmittedType, OverType DEF TypeInv, RestOK

LEMMA CrashType == TypeInv /\ Crash => TypeInv'
<1> SUFFICES ASSUME TypeInv, Crash PROVE TypeInv'
  OBVIOUS
<1>1. Fault("crash") /\ flow' = NoFlow /\ UNCHANGED <<row, asked, cancel, streak, runs>>
  BY DEF Crash
<1> QED BY <1>1, FaultType, OverType DEF TypeInv, RestOK, FlowOK

LEMMA RequestCancelType == TypeInv /\ RequestCancel => TypeInv'
BY DEF TypeInv, RequestCancel, RestOK, FlowOK

LEMMA BudgetPauseType == TypeInv /\ BudgetPause => TypeInv'
<1> SUFFICES ASSUME TypeInv, BudgetPause PROVE TypeInv'
  OBVIOUS
<1> DEFINE s == [flow.ses EXCEPT !.st = "waiting"]
<1>1. GoodSes(s)
  BY StatusType DEF TypeInv, FlowOK
<1>2. /\ Emitted(s) /\ (flow' = NoFlow \/ flow' = Left(s))
      /\ asked' = "budget" /\ UNCHANGED <<cancel, streak, runs>>
  BY DEF BudgetPause, Left
<1> HIDE DEF s
<1> QED BY <1>1, <1>2, EmittedType, OverType DEF TypeInv, RestOK, Question

\* What the flow holds in a state of the loop.
LEMMA PassFacts ==
  ASSUME TypeInv
  PROVE  /\ GoodSes(row) /\ GoodSes(flow.ses) /\ flow.plan \in Plan /\ FlowOK /\ RestOK
         /\ flow.at \in Planned => flow.plan \in Seq(Step) /\ flow.plan # NoPlan
BY FlowFacts DEF TypeInv, FlowOK, Plan

\* A pass that changes the flow only.
LEMMA OnlyFlow ==
  ASSUME TypeInv, FlowOK', UNCHANGED <<row, asked, cancel, faults, runs>>,
         streak' \in {0, streak, streak + 1}
  PROVE  TypeInv'
BY DEF TypeInv, RestOK

\* A pass that saves a session, or tries to.
LEMMA FlowAndRow ==
  ASSUME TypeInv, FlowOK', GoodSes(row'), faults' \in 0..MaxFaults,
         UNCHANGED <<asked, cancel, streak, runs>>
  PROVE  TypeInv'
BY DEF TypeInv, RestOK

LEMMA PlanRefusedType == TypeInv /\ PlanRefused => TypeInv'
<1> SUFFICES ASSUME TypeInv, PlanRefused PROVE TypeInv'
  OBVIOUS
<1> DEFINE s == [flow.ses EXCEPT !.st = "failed"]
<1>1. GoodSes(Unasked) /\ GoodSes(s)
  BY StatusType, PassFacts DEF Unasked
<1>2. /\ Goto("over", flow.plan, s) /\ InLoop
      /\ row' \in {row, Unasked} /\ (NoFault \/ Fault("save"))
      /\ UNCHANGED <<asked, cancel, streak, runs>>
  BY DEF PlanRefused, Pass
<1> HIDE DEF s
<1>3. FlowOK'
  BY <1>1, <1>2, PassFacts, GotoType DEF Planned
<1> QED BY <1>1, <1>2, <1>3, PassFacts, FaultType, FlowAndRow

LEMMA IntentBlockedType == TypeInv /\ IntentBlocked => TypeInv'
<1> SUFFICES ASSUME TypeInv, IntentBlocked PROVE TypeInv'
  OBVIOUS
<1>1. /\ Continue("planning", flow.plan, flow.ses) /\ InLoop
      /\ UNCHANGED <<row, asked, cancel, streak, faults, runs>>
  BY DEF IntentBlocked, Pass
<1>2. FlowOK'
  BY <1>1, PassFacts, ContinueType DEF Planned, LoopState
<1> QED BY <1>1, <1>2, OnlyFlow

LEMMA IntentQuestionType == TypeInv /\ IntentQuestion => TypeInv'
<1> SUFFICES ASSUME TypeInv, IntentQuestion PROVE TypeInv'
  OBVIOUS
<1>1. GoodSes(Unasked) /\ "intent" \in Question
  BY StatusType, PassFacts DEF Unasked, Question
<1>2. PauseDurably(Unasked, "intent") /\ UNCHANGED <<cancel, streak, runs>>
  BY DEF IntentQuestion
<1> QED BY <1>1, <1>2, PauseDurablyType DEF TypeInv, RestOK

LEMMA CreatePlanType ==
  ASSUME TypeInv, NEW ids \in Plans, NEW merged \in Plans, CreatePlan(ids, merged)
  PROVE  TypeInv'
<1> DEFINE plan == FreshPlan(merged)
           s == Replaced(flow.ses, plan, {})
           handled == Replaced(row, FreshPlan(ids), {})
<1>1. plan \in Seq(Step) /\ FreshPlan(ids) \in Seq(Step)
  BY StepsAssumption, FreshPlanType
<1>2. plan \in Plan /\ FreshPlan(ids) \in Plan /\ plan # NoPlan /\ FreshPlan(ids) # NoPlan
  BY <1>1, NotAPlan DEF Plan
<1>3. GoodSes(s) /\ s.plan = plan /\ GoodSes(handled)
  <2> HIDE DEF plan
  <2> QED BY <1>2, ReplacedType, PassFacts
<1>4. /\ \/ row' = s /\ NoFault
         \/ Fault("save") /\ row' = handled
      /\ UNCHANGED <<asked, cancel, streak, runs>> /\ InLoop
  BY DEF CreatePlan, Recorded, Pass
<1>5. \E at \in LoopState : at # "reviewing" /\ Continue(at, plan, s)
  <2>1. CASE ids = <<>>
    <3>1. "summarizing" \in LoopState /\ "summarizing" # "reviewing"
      BY DEF LoopState
    <3> QED BY <2>1, <3>1 DEF CreatePlan, Recorded
  <2>2. CASE ids # <<>>
    <3>1. AfterPlan \cup {"critiquing"} \subseteq LoopState \ {"reviewing"}
      BY DEF LoopState, AfterPlan
    <3>2. \E at \in AfterPlan \cup {"critiquing"} : Continue(at, plan, s)
      BY <2>2 DEF CreatePlan, Recorded
    <3> QED BY <3>1, <3>2
  <2> QED BY <2>1, <2>2
<1> HIDE DEF s, handled, plan
<1>6. FlowOK'
  BY <1>2, <1>3, <1>4, <1>5, PassFacts, ContinueType
<1> QED BY <1>3, <1>4, <1>6, PassFacts, FaultType, FlowAndRow

LEMMA PlanUnaskedType ==
  ASSUME TypeInv, NEW ids \in Plans, PlanUnasked(ids) PROVE TypeInv'
<1> DEFINE s == Replaced(Unasked, FreshPlan(ids), {})
<1>1. FreshPlan(ids) \in Plan /\ FreshPlan(ids) # NoPlan
  BY StepsAssumption, FreshPlanType, NotAPlan DEF Plan
<1>2. GoodSes(s)
  <2>1. GoodSes(Unasked)
    BY StatusType, PassFacts DEF Unasked
  <2> QED BY <1>1, <2>1, ReplacedType
<1>3. /\ Goto("over", FreshPlan(ids), s) /\ InLoop /\ row' = s /\ Fault("save")
      /\ UNCHANGED <<asked, cancel, streak, runs>>
  BY DEF PlanUnasked, Pass
<1> HIDE DEF s
<1>4. FlowOK'
  BY <1>1, <1>2, <1>3, PassFacts, GotoType DEF Planned
<1> QED BY <1>2, <1>3, <1>4, PassFacts, FaultType, FlowAndRow

LEMMA PlanStuckType ==
  ASSUME TypeInv, NEW ids \in Plans, PlanStuck(ids) PROVE TypeInv'
<1> DEFINE s == Replaced(flow.ses, FreshPlan(ids), {})
<1>1. FreshPlan(ids) \in Plan /\ FreshPlan(ids) # NoPlan
  BY StepsAssumption, FreshPlanType, NotAPlan DEF Plan
<1>2. GoodSes(s)
  BY <1>1, PassFacts, ReplacedType
<1>3. /\ Goto("over", FreshPlan(ids), s) /\ InLoop /\ row' = s /\ NoFault
      /\ UNCHANGED <<asked, cancel, streak, runs>>
  BY DEF PlanStuck, Pass
<1> HIDE DEF s
<1>4. FlowOK'
  BY <1>1, <1>2, <1>3, PassFacts, GotoType DEF Planned
<1> QED BY <1>2, <1>3, <1>4, PassFacts, FaultType, FlowAndRow

LEMMA CritiqueType == TypeInv /\ Critique => TypeInv'
<1> SUFFICES ASSUME TypeInv, Critique PROVE TypeInv'
  OBVIOUS
<1>1. PICK at \in {"premortem", "planning"} : Goto(at, flow.plan, flow.ses)
  BY DEF Critique
<1>2. /\ InLoop /\ flow.at = "critiquing" /\ flow.plan # NoPlan /\ flow.ses.plan = flow.plan
      /\ UNCHANGED <<row, asked, cancel, streak, faults, runs>>
  BY DEF Critique, Pass, TypeInv, FlowOK, Planned
<1>3. at \in LoopState \cup {"over"} /\ at # "reviewing"
  BY DEF LoopState
<1>4. FlowOK'
  BY <1>1, <1>2, <1>3, PassFacts, GotoType
<1> QED BY <1>2, <1>4, OnlyFlow

LEMMA PremortemType == TypeInv /\ Premortem => TypeInv'
<1> SUFFICES ASSUME TypeInv, Premortem PROVE TypeInv'
  OBVIOUS
<1> DEFINE t == [flow.ses EXCEPT !.plan = flow.plan]
<1>1. PICK s \in {flow.ses, t}, at \in AfterPlan :
        Goto(at, flow.plan, s) /\ (Emitted(s) \/ UNCHANGED <<row, faults>>)
  BY DEF Premortem
<1>2. /\ InLoop /\ flow.at = "premortem" /\ flow.plan # NoPlan /\ flow.ses.plan = flow.plan
      /\ UNCHANGED <<asked, cancel, streak, runs>>
  BY DEF Premortem, Pass, TypeInv, FlowOK, Planned
<1>3. at \in LoopState \cup {"over"} /\ at # "reviewing"
  BY DEF LoopState, AfterPlan
<1>4. GoodSes(t) /\ t.plan = flow.plan /\ GoodSes(flow.ses)
  BY <1>2, PassFacts, PlanType
<1> HIDE DEF t
<1>5. GoodSes(s) /\ s.plan = flow.plan
  BY <1>2, <1>4
<1>6. FlowOK'
  BY <1>1, <1>2, <1>3, <1>5, PassFacts, GotoType
<1>7. GoodSes(row') /\ faults' \in 0..MaxFaults
  BY <1>1, <1>5, PassFacts, EmittedType DEF RestOK
<1> QED BY <1>2, <1>6, <1>7, FlowAndRow

LEMMA SkipReviewType == TypeInv /\ SkipReview => TypeInv'
<1> SUFFICES ASSUME TypeInv, SkipReview PROVE TypeInv'
  OBVIOUS
<1>1. /\ InLoop /\ flow.plan # NoPlan /\ Goto("executing", flow.plan, flow.ses)
      /\ UNCHANGED <<row, asked, cancel, streak, faults, runs>>
  BY DEF SkipReview, Pass, TypeInv, FlowOK, Planned
<1>2. "executing" \in LoopState \cup {"over"}
  BY DEF LoopState
<1>3. FlowOK'
  BY <1>1, <1>2, PassFacts, GotoType
<1> QED BY <1>1, <1>3, OnlyFlow

LEMMA ReviewPlanType == TypeInv /\ ReviewPlan => TypeInv'
<1> SUFFICES ASSUME TypeInv, ReviewPlan PROVE TypeInv'
  OBVIOUS
<1> DEFINE s == [flow.ses EXCEPT !.review = TRUE]
<1>1. flow.ses.plan # NoPlan /\ flow.ses \in Session /\ "review" \in Question
  BY DEF ReviewPlan, Pass, TypeInv, FlowOK, GoodSes, Planned, Question
<1>2. GoodSes(s)
  BY <1>1 DEF GoodSes, Session
<1>3. Pause(s, "review")
  BY DEF ReviewPlan
<1> HIDE DEF s
<1> QED BY <1>1, <1>2, <1>3, PauseType

-----------------------------------------------------------------------------

LEMMA NothingLeftType == TypeInv /\ NothingLeft => TypeInv'
<1> SUFFICES ASSUME TypeInv, NothingLeft PROVE TypeInv'
  OBVIOUS
<1>1. /\ InLoop /\ Continue("verifying", flow.plan, flow.ses)
      /\ UNCHANGED <<row, asked, cancel, streak, faults, runs>>
  BY DEF NothingLeft, Pass
<1>2. "verifying" \in LoopState \cup {"over"} /\ "verifying" \notin Planned
  BY DEF LoopState, Planned
<1>3. FlowOK'
  BY <1>1, <1>2, PassFacts, ContinueType
<1> QED BY <1>1, <1>3, OnlyFlow

\* The step that is due is a step of the plan.
LEMMA DueFacts ==
  ASSUME TypeInv, StepDue
  PROVE  /\ InLoop /\ DueId \in Id /\ DueId \in Ids(flow.plan) /\ flow.plan \in Seq(Step)
         /\ flow.plan # NoPlan
<1>1. InLoop /\ flow.at = "executing" /\ Open(flow.plan) # {}
  BY DEF StepDue, Pass
<1>2. flow.plan \in Seq(Step) /\ flow.plan # NoPlan
  BY <1>1, PassFacts DEF Planned
<1>3. DueId \in Ids(flow.plan) /\ Ids(flow.plan) \subseteq Id
  BY <1>1, <1>2, NextStepType DEF DueId
<1> QED BY <1>1, <1>2, <1>3

LEMMA MailGateType == TypeInv /\ MailGate => TypeInv'
<1> SUFFICES ASSUME TypeInv, MailGate PROVE TypeInv'
  OBVIOUS
<1> DEFINE s == [flow.ses EXCEPT !.mail = FALSE, !.gate = "mail"]
<1>1. GoodSes(s) /\ "mail" \in Question
  BY PassFacts DEF GoodSes, Session, Gate, Question
<1>2. Pause(s, "mail")
  BY DEF MailGate
<1> HIDE DEF s
<1> QED BY <1>1, <1>2, PauseType

LEMMA ConstraintGateType == TypeInv /\ ConstraintGate => TypeInv'
<1> SUFFICES ASSUME TypeInv, ConstraintGate PROVE TypeInv'
  OBVIOUS
<1> DEFINE s == [flow.ses EXCEPT !.acks = @ \cup {DueId}, !.gate = "constraint"]
<1>1. GoodSes(s) /\ "constraint" \in Question
  <2>1. DueId \in Id
    BY DueFacts DEF ConstraintGate
  <2> QED BY <2>1, PassFacts DEF GoodSes, Session, Gate, Question
<1>2. Pause(s, "constraint")
  BY DEF ConstraintGate
<1> HIDE DEF s
<1> QED BY <1>1, <1>2, PauseType

LEMMA PassedType ==
  ASSUME TypeInv, NEW id \in Id
  PROVE  GoodSes(Passed(id))
<1>1. GoodSes(flow.ses)
  BY PassFacts
<1>2. CASE flow.auto
  BY <1>1, <1>2 DEF Passed, GoodSes, Session
<1>3. CASE ~flow.auto
  BY <1>1, <1>3 DEF Passed
<1> QED BY <1>2, <1>3

LEMMA RepetitionType == TypeInv /\ Repetition => TypeInv'
<1> SUFFICES ASSUME TypeInv, Repetition PROVE TypeInv'
  OBVIOUS
<1>1. /\ StepDue /\ Goto("verifying", flow.plan, Passed(DueId))
      /\ UNCHANGED <<row, asked, cancel, streak, faults, runs>>
  BY DEF Repetition
<1>2. "verifying" \in LoopState \cup {"over"} /\ "verifying" \notin Planned
  BY DEF LoopState, Planned
<1>3. GoodSes(Passed(DueId)) /\ InLoop
  BY <1>1, DueFacts, PassedType
<1>4. FlowOK'
  BY <1>1, <1>2, <1>3, PassFacts, GotoType DEF Planned
<1> QED BY <1>1, <1>4, OnlyFlow

LEMMA ReconciledType ==
  ASSUME NEW s, GoodSes(s), NEW id \in Id, NEW st \in StepStatus
  PROVE  GoodSes(Reconciled(s, id, st))
<1>1. CASE s.plan = NoPlan
  BY <1>1 DEF Reconciled
<1>2. CASE s.plan # NoPlan
  <2>1. s.plan \in Seq(Step)
    BY <1>2 DEF GoodSes, Session, Plan
  <2>2. Mark(s.plan, id, st) \in Plan /\ Mark(s.plan, id, st) # NoPlan
    BY <2>1, MarkType, NotAPlan DEF Plan
  <2>3. GoodSes([s EXCEPT !.plan = Mark(s.plan, id, st)])
    BY <2>2, PlanType
  <2> QED BY <1>2, <2>3 DEF Reconciled
<1> QED BY <1>1, <1>2

LEMMA StepEventsType ==
  ASSUME NEW s, GoodSes(s), NEW id \in Id, NEW out
  PROVE  GoodSes(StepEvents(s, id, out))
<1> DEFINE st == CASE out \in {"done"} -> "completed"
                   [] out \in {"failed", "tripped", "aborted"} -> "failed"
                   [] OTHER -> "running"
<1>1. st \in StepStatus
  BY DEF StepStatus
<1> HIDE DEF st
<1>2. GoodSes(Reconciled(s, id, st))
  BY <1>1, ReconciledType
<1>3. GoodSes([Reconciled(s, id, st) EXCEPT
                 !.gate = IF out \in {"approval", "floor"} THEN "tool" ELSE @])
  <2> DEFINE r == Reconciled(s, id, st)
  <2>1. GoodSes(r)
    BY <1>2
  <2> HIDE DEF r
  <2>2. GoodSes([r EXCEPT !.gate = IF out \in {"approval", "floor"} THEN "tool" ELSE @])
    BY <2>1 DEF GoodSes, Session, Gate
  <2> QED BY <2>2 DEF r
<1> QED BY <1>3 DEF StepEvents, st

LEMMA ExecuteStepType ==
  ASSUME TypeInv, NEW out \in Result, NEW fetched \in BOOLEAN, ExecuteStep(out, fetched)
  PROVE  TypeInv'
<1> DEFINE before == Passed(DueId)
           s == StepEvents(before, DueId, out)
           after == IF out \in {"refused", "raised"} THEN before
                    ELSE [s EXCEPT !.mail = @ \/ fetched, !.unread = @ \/ fetched]
           plan == Mark(flow.plan, DueId, "running")
           r == Reconciled(before, DueId, "running")
           id == DueId
           count == flow.counts[id] + 1
           counts == [flow.counts EXCEPT ![id] = count]
           iter == flow.iter + 1
<1>1. /\ StepDue /\ UNCHANGED <<asked, cancel, streak, runs>>
      /\ row' \in {row, s, r} /\ (NoFault \/ Fault("save"))
  BY DEF ExecuteStep
<1>a. flow' = [flow EXCEPT !.at = "stepped", !.plan = plan, !.ses = after, !.iter = iter,
                           !.counts = counts, !.step = id, !.out = out]
  BY DEF ExecuteStep
<1>b. ~(count > MaxRepeat)
  BY DEF ExecuteStep, TooOften
<1>2. /\ InLoop /\ id \in Id /\ id \in Ids(flow.plan) /\ flow.plan \in Seq(Step)
  BY <1>1, DueFacts
<1>3. "running" \in StepStatus
  BY DEF StepStatus
<1>4. /\ plan \in Seq(Step) /\ plan # NoPlan /\ Ids(plan) = Ids(flow.plan)
  BY <1>2, <1>3, MarkType, NotAPlan
<1>5. GoodSes(before)
  BY <1>2, PassedType
<1>6. GoodSes(s) /\ GoodSes(r)
  <2> HIDE DEF before
  <2> QED BY <1>2, <1>3, <1>5, StepEventsType, ReconciledType
<1>7. GoodSes(after)
  <2> HIDE DEF before, s
  <2> QED BY <1>5, <1>6 DEF GoodSes, Session
<1>8. iter \in 0..(MaxIter + 1) /\ flow \in Flow /\ flow.counts \in [Id -> 0..MaxRepeat]
  BY <1>2, FlowFacts, BoundAssumption DEF TypeInv, FlowOK, InLoop
<1>9. count \in 0..MaxRepeat
  <2>1. flow.counts[id] \in 0..MaxRepeat
    BY <1>2, <1>8
  <2> HIDE DEF id
  <2> QED BY <1>b, <2>1, BoundAssumption
<1> HIDE DEF before, s, after, plan, r, id, count, iter
<1>10. counts \in [Id -> 0..MaxRepeat]
  BY <1>8, <1>9
<1> HIDE DEF counts
<1>11. /\ flow' \in Flow /\ flow'.at = "stepped" /\ flow'.plan = plan /\ flow'.ses = after
       /\ flow'.step = id
  <2>1. /\ after \in Session /\ plan \in Plan
    BY <1>4, <1>7 DEF GoodSes, Plan
  <2> QED BY <1>a, <1>2, <1>8, <1>10, <2>1 DEF Flow
<1>12. FlowOK'
  BY <1>2, <1>4, <1>7, <1>11 DEF FlowOK
<1> QED BY <1>1, <1>6, <1>12, PassFacts, FaultType, FlowAndRow

-----------------------------------------------------------------------------

\* The step at hand is a step of the plan.
LEMMA StepHeld ==
  ASSUME TypeInv, flow.at \in {"stepped", "reviewing"}
  PROVE  /\ flow.plan \in Seq(Step) /\ flow.plan # NoPlan /\ flow.step \in Ids(flow.plan)
         /\ Ran \in Step
<1>1. flow.plan \in Seq(Step) /\ flow.plan # NoPlan /\ flow.step \in Ids(flow.plan)
  BY PassFacts DEF TypeInv, FlowOK, Planned
<1>2. \E s \in {flow.plan[i] : i \in DOMAIN flow.plan} : s.id = flow.step
  BY <1>1 DEF Ids
<1>3. Ran \in {flow.plan[i] : i \in DOMAIN flow.plan}
  BY <1>2 DEF Ran
<1> QED BY <1>1, <1>3

LEMMA AgainType ==
  ASSUME TypeInv, flow.at \in {"stepped", "reviewing"}
  PROVE  Again \in Seq(Step) /\ Again \in Plan /\ Again # NoPlan
<1> DEFINE more == Ran.retry + 1
           new == [Ran EXCEPT !.st = "pending", !.retry = more]
<1>1. flow.plan \in Seq(Step) /\ Ran \in Step
  BY StepHeld
<1>2. new \in Step
  <2>1. more \in Nat /\ "pending" \in StepStatus
    BY <1>1 DEF Step, StepStatus
  <2> HIDE DEF more
  <2> QED BY <1>1, <2>1 DEF Step
<1>3. Again = Put(flow.plan, flow.step, new)
  BY DEF Again
<1> HIDE DEF new
<1> QED BY <1>1, <1>2, <1>3, PutType, NotAPlan DEF Plan

LEMMA MarkedType ==
  ASSUME TypeInv, flow.at \in {"stepped", "reviewing"}, NEW st \in StepStatus
  PROVE  LET plan == Mark(flow.plan, flow.step, st)
         IN  plan \in Plan /\ plan # NoPlan /\ flow.step \in Ids(plan)
BY StepHeld, MarkType, NotAPlan DEF Plan

\* A pass that changes the flow only, after a step or a review.
LEMMA StepOn ==
  ASSUME TypeInv, flow.at = "stepped" \/ InLoop, NEW at \in LoopState \cup {"over"},
         at \notin {"critiquing", "premortem", "reviewing_plan"},
         NEW plan \in Plan, plan # NoPlan, NEW s, GoodSes(s),
         Goto(at, plan, s) \/ Continue(at, plan, s),
         at = "reviewing" => flow.step \in Ids(plan),
         UNCHANGED <<row, asked, cancel, faults, runs>>, streak' \in {0, streak, streak + 1}
  PROVE  TypeInv'
<1>1. FlowOK'
  BY PassFacts, GotoType, ContinueType
<1> QED BY <1>1, OnlyFlow

LEMMA ReplansType ==
  ASSUME NEW s, GoodSes(s), NEW n \in Nat
  PROVE  GoodSes([s EXCEPT !.replans = n])
BY DEF GoodSes, Session

LEMMA SteppedFacts ==
  ASSUME TypeInv, flow.at = "stepped"
  PROVE  /\ flow.plan \in Plan /\ flow.plan # NoPlan /\ GoodSes(flow.ses)
         /\ GoodSes(ReplansReset(flow.ses)) /\ flow.ses.replans \in Nat
<1>1. flow.plan \in Plan /\ flow.plan # NoPlan /\ GoodSes(flow.ses)
  BY PassFacts DEF Planned
<1>2. GoodSes(ReplansReset(flow.ses))
  BY <1>1, ReplansType DEF ReplansReset
<1> QED BY <1>1, <1>2 DEF GoodSes, Session

LEMMA RejectedType == TypeInv /\ Rejected => TypeInv'
<1> SUFFICES ASSUME TypeInv, Rejected PROVE TypeInv'
  OBVIOUS
<1>1. /\ flow.at = "stepped" /\ Goto("updating", flow.plan, flow.ses)
      /\ UNCHANGED <<row, asked, cancel, streak, faults, runs>>
  BY DEF Rejected, Stepped
<1>2. "updating" \in LoopState \cup {"over"}
  BY DEF LoopState
<1> QED BY <1>1, <1>2, SteppedFacts, StepOn

LEMMA AskUserType == TypeInv /\ AskUser => TypeInv'
<1> SUFFICES ASSUME TypeInv, AskUser PROVE TypeInv'
  OBVIOUS
<1> DEFINE s == [flow.ses EXCEPT !.st = "waiting"]
<1>1. /\ flow.at = "stepped" /\ asked' = "step" /\ UNCHANGED <<row, cancel, streak, faults, runs>>
      /\ flow' = NoFlow \/ Goto("over", flow.plan, s)
  BY DEF AskUser, Paused
<1>2. GoodSes(s)
  BY PassFacts, StatusType
<1> HIDE DEF s
<1>3. FlowOK'
  <2>1. CASE flow' = NoFlow
    BY <1>2, <2>1, PassFacts, OverType
  <2>2. CASE Goto("over", flow.plan, s)
    BY <1>1, <1>2, <2>2, PassFacts, GotoType DEF Planned
  <2> QED BY <1>1, <2>1, <2>2
<1> QED BY <1>1, <1>3 DEF TypeInv, RestOK, Question

LEMMA CompleteStepType == TypeInv /\ CompleteStep => TypeInv'
<1> SUFFICES ASSUME TypeInv, CompleteStep PROVE TypeInv'
  OBVIOUS
<1> DEFINE plan == Mark(flow.plan, flow.step, "completed")
<1>1. /\ flow.at = "stepped" /\ streak' = 0 /\ UNCHANGED <<row, asked, cancel, faults, runs>>
  BY DEF CompleteStep, Stepped, Paused
<1>2. PICK at \in {"verifying", "executing", "reviewing"} :
        Continue(at, plan, ReplansReset(flow.ses))
  BY DEF CompleteStep
<1>3. /\ at \in LoopState \cup {"over"} /\ at \notin {"critiquing", "premortem", "reviewing_plan"}
  BY DEF LoopState
<1>4. "completed" \in StepStatus
  BY DEF StepStatus
<1>5. plan \in Plan /\ plan # NoPlan /\ flow.step \in Ids(plan)
  BY <1>1, <1>4, MarkedType
<1> HIDE DEF plan
<1> QED BY <1>1, <1>2, <1>3, <1>5, SteppedFacts, StepOn

LEMMA MinorRetryType == TypeInv /\ MinorRetry => TypeInv'
<1> SUFFICES ASSUME TypeInv, MinorRetry PROVE TypeInv'
  OBVIOUS
<1>1. /\ flow.at = "stepped" /\ Continue("executing", Again, flow.ses)
      /\ UNCHANGED <<row, asked, cancel, streak, faults, runs>>
  BY DEF MinorRetry, Stepped
<1>2. "executing" \in LoopState \cup {"over"}
  BY DEF LoopState
<1>3. Again \in Plan /\ Again # NoPlan
  BY <1>1, AgainType
<1> QED BY <1>1, <1>2, <1>3, SteppedFacts, StepOn

LEMMA AllTrippedType == TypeInv /\ AllTripped => TypeInv'
<1> SUFFICES ASSUME TypeInv, AllTripped PROVE TypeInv'
  OBVIOUS
<1> DEFINE plan == Mark(flow.plan, flow.step, "unverified")
<1>1. /\ flow.at = "stepped" /\ Continue("verifying", plan, flow.ses)
      /\ UNCHANGED <<row, asked, cancel, streak, faults, runs>>
  BY DEF AllTripped, Stepped
<1>2. "verifying" \in LoopState \cup {"over"} /\ "unverified" \in StepStatus
  BY DEF LoopState, StepStatus
<1>3. plan \in Plan /\ plan # NoPlan
  BY <1>1, <1>2, MarkedType
<1> HIDE DEF plan
<1> QED BY <1>1, <1>2, <1>3, SteppedFacts, StepOn

LEMMA ReplanType == TypeInv /\ Replan => TypeInv'
<1> SUFFICES ASSUME TypeInv, Replan PROVE TypeInv'
  OBVIOUS
<1> DEFINE s == [flow.ses EXCEPT !.replans = Replans]
<1>1. PICK at \in {"planning", "updating"} : Continue(at, flow.plan, s)
  BY DEF Replan
<1>2. flow.at = "stepped" /\ streak' = streak + 1 /\ UNCHANGED <<row, asked, cancel, faults, runs>>
  BY DEF Replan, Stepped
<1>3. /\ at \in LoopState \cup {"over"}
      /\ at \notin {"critiquing", "premortem", "reviewing_plan", "reviewing"}
  BY DEF LoopState
<1>4. GoodSes(s)
  <2>1. Replans \in Nat /\ GoodSes(flow.ses)
    BY <1>2, SteppedFacts DEF Replans
  <2> QED BY <2>1, ReplansType
<1> HIDE DEF s
<1> QED BY <1>1, <1>2, <1>3, <1>4, SteppedFacts, StepOn

LEMMA StopReplanningType == TypeInv /\ StopReplanning => TypeInv'
<1> SUFFICES ASSUME TypeInv, StopReplanning PROVE TypeInv'
  OBVIOUS
<1> DEFINE plan == Mark(flow.plan, flow.step, "failed")
<1>1. /\ flow.at = "stepped" /\ Continue("verifying", plan, ReplansReset(flow.ses))
      /\ streak' = 0 /\ UNCHANGED <<row, asked, cancel, faults, runs>>
  BY DEF StopReplanning, Stepped
<1>2. "verifying" \in LoopState \cup {"over"} /\ "failed" \in StepStatus
  BY DEF LoopState, StepStatus
<1>3. plan \in Plan /\ plan # NoPlan
  BY <1>1, <1>2, MarkedType
<1> HIDE DEF plan
<1> QED BY <1>1, <1>2, <1>3, SteppedFacts, StepOn

LEMMA QualityRetryType == TypeInv /\ QualityRetry => TypeInv'
<1> SUFFICES ASSUME TypeInv, QualityRetry PROVE TypeInv'
  OBVIOUS
<1>1. /\ flow.at = "stepped" /\ Continue("executing", Again, flow.ses)
      /\ UNCHANGED <<row, asked, cancel, streak, faults, runs>>
  BY DEF QualityRetry, Stepped
<1>2. "executing" \in LoopState \cup {"over"}
  BY DEF LoopState
<1>3. Again \in Plan /\ Again # NoPlan
  BY <1>1, AgainType
<1> QED BY <1>1, <1>2, <1>3, SteppedFacts, StepOn

LEMMA NoProgressType == TypeInv /\ NoProgress => TypeInv'
<1> SUFFICES ASSUME TypeInv, NoProgress PROVE TypeInv'
  OBVIOUS
<1>1. /\ flow.at = "stepped" /\ Continue("updating", flow.plan, flow.ses)
      /\ UNCHANGED <<row, asked, cancel, streak, faults, runs>>
  BY DEF NoProgress, Stepped
<1>2. "updating" \in LoopState \cup {"over"}
  BY DEF LoopState
<1> QED BY <1>1, <1>2, SteppedFacts, StepOn

LEMMA EvidenceGapType == TypeInv /\ EvidenceGap => TypeInv'
<1> SUFFICES ASSUME TypeInv, EvidenceGap PROVE TypeInv'
  OBVIOUS
<1> DEFINE retry == Ran.retry < 1
           plan == IF retry THEN Again ELSE Mark(flow.plan, flow.step, "unverified")
           s == [flow.ses EXCEPT !.plan = plan]
           at == IF retry THEN "executing" ELSE "updating"
<1>1. /\ flow.at = "stepped" /\ Emitted(s) /\ Continue(at, plan, s)
      /\ UNCHANGED <<asked, cancel, streak, runs>>
  BY DEF EvidenceGap, Stepped
<1>2. "unverified" \in StepStatus
  BY DEF StepStatus
<1>3. plan \in Plan /\ plan # NoPlan
  BY <1>1, <1>2, MarkedType, AgainType
<1>4. at \in {"executing", "updating"} /\ at \in LoopState \cup {"over"}
  BY DEF LoopState
<1> HIDE DEF plan, at
<1>5. GoodSes(s)
  BY <1>3, PassFacts, PlanType
<1> HIDE DEF s
<1>6. FlowOK'
  BY <1>1, <1>3, <1>4, <1>5, PassFacts, ContinueType
<1>7. GoodSes(row') /\ faults' \in 0..MaxFaults
  BY <1>1, <1>5, PassFacts, EmittedType
<1> QED BY <1>1, <1>6, <1>7, FlowAndRow

LEMMA ReviewApprovedType == TypeInv /\ ReviewApproved => TypeInv'
<1> SUFFICES ASSUME TypeInv, ReviewApproved PROVE TypeInv'
  OBVIOUS
<1>1. /\ InLoop /\ flow.at = "reviewing" /\ Goto("executing", flow.plan, flow.ses)
      /\ UNCHANGED <<row, asked, cancel, streak, faults, runs>>
  BY DEF ReviewApproved, Pass
<1>2. "executing" \in LoopState \cup {"over"} /\ flow.plan # NoPlan
  BY <1>1, StepHeld DEF LoopState
<1> QED BY <1>1, <1>2, PassFacts, StepOn

LEMMA ReviewReviseType == TypeInv /\ ReviewRevise => TypeInv'
<1> SUFFICES ASSUME TypeInv, ReviewRevise PROVE TypeInv'
  OBVIOUS
<1> DEFINE s == [flow.ses EXCEPT !.plan = Again]
<1>1. /\ InLoop /\ flow.at = "reviewing" /\ Emitted(s) /\ Goto("executing", Again, s)
      /\ UNCHANGED <<asked, cancel, streak, runs>>
  BY DEF ReviewRevise, RevisionRecorded, Pass
<1>2. "executing" \in LoopState \cup {"over"} /\ Again \in Plan /\ Again # NoPlan
  BY <1>1, AgainType DEF LoopState
<1>3. GoodSes(s)
  BY <1>2, PassFacts, PlanType
<1> HIDE DEF s
<1>4. FlowOK'
  BY <1>1, <1>2, <1>3, PassFacts, GotoType
<1>5. GoodSes(row') /\ faults' \in 0..MaxFaults
  BY <1>1, <1>3, PassFacts, EmittedType
<1> QED BY <1>1, <1>4, <1>5, FlowAndRow

LEMMA ReviewRejectType == TypeInv /\ ReviewReject => TypeInv'
<1> SUFFICES ASSUME TypeInv, ReviewReject PROVE TypeInv'
  OBVIOUS
<1> DEFINE plan == Mark(flow.plan, flow.step, "failed")
<1>1. /\ InLoop /\ flow.at = "reviewing" /\ Goto("updating", plan, flow.ses)
      /\ UNCHANGED <<row, asked, cancel, streak, faults, runs>>
  BY DEF ReviewReject, Pass
<1>2. "updating" \in LoopState \cup {"over"} /\ "failed" \in StepStatus
  BY DEF LoopState, StepStatus
<1>3. plan \in Plan /\ plan # NoPlan
  BY <1>1, <1>2, MarkedType
<1> HIDE DEF plan
<1> QED BY <1>1, <1>2, <1>3, PassFacts, StepOn

\* An update leaves a plan a plan.
LEMMA UpdatedType ==
  ASSUME NEW p \in Seq(Step)
  PROVE  /\ Handled(p) \in Plan /\ Handled(p) # NoPlan
         /\ Unhandled(p) \in Plan /\ Unhandled(p) # NoPlan
<1>1. "replaced" \in StepStatus /\ "failed" \in StepStatus
  BY DEF StepStatus
<1>2. Handled(p) \in Seq(Step) /\ Unhandled(p) \in Seq(Step)
  BY <1>1, MarkType DEF Handled, Unhandled
<1> QED BY <1>2, NotAPlan DEF Plan

LEMMA UpdatePlanType ==
  ASSUME TypeInv, NEW ids \in Plans, UpdatePlan(ids)
  PROVE  TypeInv'
<1> DEFINE merged == Merge(row.plan, ids)
           kept == Retained(row.plan)
           s == Replaced(flow.ses, merged, kept)
           handled == Replaced(row, merged, kept)
<1>1. /\ InLoop /\ row.plan # NoPlan /\ UNCHANGED <<asked, cancel, streak, runs>>
      /\ \/ row' = s /\ NoFault
         \/ Fault("save") /\ row' = handled
  BY DEF UpdatePlan, Pass
<1>2. PICK at \in {"executing", "over"} : Continue(at, Handled(merged), s)
  BY DEF UpdatePlan
<1>3. row.plan \in Seq(Step) /\ ids \in Seq(Id)
  BY <1>1, PassFacts, StepsAssumption DEF GoodSes, Session, Plan
<1>4. merged \in Seq(Step) /\ merged \in Plan /\ merged # NoPlan
  BY <1>3, MergeType, NotAPlan DEF Plan
<1> HIDE DEF merged
<1>5. GoodSes(s) /\ GoodSes(handled)
  BY <1>4, PassFacts, ReplacedType
<1> HIDE DEF s, handled
<1>6. at \in LoopState \cup {"over"}
  BY DEF LoopState
<1>7. FlowOK'
  BY <1>1, <1>2, <1>4, <1>5, <1>6, UpdatedType, PassFacts, ContinueType
<1> QED BY <1>1, <1>5, <1>7, PassFacts, FaultType, FlowAndRow

LEMMA UpdateFailedType == TypeInv /\ UpdateFailed => TypeInv'
<1> SUFFICES ASSUME TypeInv, UpdateFailed PROVE TypeInv'
  OBVIOUS
<1>1. /\ InLoop /\ flow.at = "updating" /\ Continue("executing", Unhandled(flow.plan), flow.ses)
      /\ UNCHANGED <<row, asked, cancel, streak, faults, runs>>
  BY DEF UpdateFailed, Pass
<1>2. flow.plan \in Seq(Step)
  BY <1>1, PassFacts DEF Planned
<1>3. Unhandled(flow.plan) \in Plan /\ Unhandled(flow.plan) # NoPlan
  BY <1>2, UpdatedType
<1>4. "executing" \in LoopState \cup {"over"}
  BY DEF LoopState
<1> QED BY <1>1, <1>3, <1>4, PassFacts, StepOn

LEMMA SummarizeType == TypeInv /\ Summarize => TypeInv'
<1> SUFFICES ASSUME TypeInv, Summarize PROVE TypeInv'
  OBVIOUS
<1>1. /\ InLoop /\ Emitted(flow.ses) /\ Continue("meta", flow.plan, flow.ses)
      /\ UNCHANGED <<asked, cancel, streak, runs>>
  BY DEF Summarize, Pass
<1>2. "meta" \in LoopState \cup {"over"} /\ "meta" \notin Planned
  BY DEF LoopState, Planned
<1>3. FlowOK'
  BY <1>1, <1>2, PassFacts, ContinueType DEF Planned
<1>4. GoodSes(row') /\ faults' \in 0..MaxFaults
  BY <1>1, PassFacts, EmittedType
<1> QED BY <1>1, <1>3, <1>4, FlowAndRow

LEMMA OnwardType == TypeInv /\ Onward => TypeInv'
<1> SUFFICES ASSUME TypeInv, Onward PROVE TypeInv'
  OBVIOUS
<1>1. PICK at \in {"verifying", "completed"} : Continue(at, flow.plan, flow.ses)
  BY DEF Onward
<1>2. InLoop /\ UNCHANGED <<row, asked, cancel, streak, faults, runs>>
  BY DEF Onward, Pass
<1>3. at \in LoopState \cup {"over"} /\ at \notin Planned
  BY DEF LoopState, Planned
<1>4. FlowOK'
  BY <1>1, <1>2, <1>3, PassFacts, ContinueType DEF Planned
<1> QED BY <1>2, <1>4, OnlyFlow

LEMMA CompleteRunType == TypeInv /\ CompleteRun => TypeInv'
<1> SUFFICES ASSUME TypeInv, CompleteRun PROVE TypeInv'
  OBVIOUS
<1> DEFINE judged == TerminalPlan(flow.ses, flow.plan)
           st == IF Worked(flow.plan) THEN "completed" ELSE "failed"
           s == [judged EXCEPT !.replans = 0, !.st = st]
<1>1. /\ streak' = 0 /\ UNCHANGED <<asked, cancel, runs>>
      /\ \/ row' = s /\ NoFault /\ flow' = Left(s)
         \/ Fault("save") /\ row' \in {row, judged} /\ Raise(s)
  BY DEF CompleteRun, Left
<1>2. GoodSes(judged)
  BY PassFacts, PlanType DEF TerminalPlan
<1>3. GoodSes(s)
  <2>1. st \in {"completed", "failed"}
    OBVIOUS
  <2> HIDE DEF judged, st
  <2> QED BY <1>2, <2>1 DEF GoodSes, Session
<1> HIDE DEF judged, s
<1>4. FlowOK'
  BY <1>1, <1>3, PassFacts, OverType, RaiseType
<1>5. GoodSes(row') /\ faults' \in 0..MaxFaults
  BY <1>1, <1>2, <1>3, PassFacts, FaultType
<1> QED BY <1>1, <1>4, <1>5 DEF TypeInv, RestOK

\* The router sends a session on to its steps only when it has a plan.
LEMMA RouteType ==
  ASSUME NEW s, GoodSes(s), NEW reply
  PROVE  /\ Route(s, reply).at \in {"planning", "executing"}
         /\ GoodSes(Route(s, reply).ses)
         /\ Route(s, reply).at = "executing" => s.plan # NoPlan
<1>1. CASE s.review
  <2> DEFINE t == [s EXCEPT !.review = FALSE, !.st = "running"]
  <2>1. GoodSes(t) /\ s.plan # NoPlan
    BY <1>1 DEF GoodSes, Session
  <2> HIDE DEF t
  <2>2. /\ Route(s, reply).at \in {"planning", "executing"}
        /\ Route(s, reply).ses = t
    BY <1>1 DEF Route, t
  <2> QED BY <2>1, <2>2
<1>2. CASE ~s.review /\ s.gate # "none" /\ reply # "approve"
  <2>1. GoodSes(Refused(s))
    BY DEF Refused, Rearmed, AcksAfterRefusal, GoodSes, Session, Gate
  <2>2. Route(s, reply) = [at |-> "planning", ses |-> Refused(s)]
    BY <1>2 DEF Route
  <2> QED BY <2>1, <2>2
<1>3. CASE ~s.review /\ ~(s.gate # "none" /\ reply # "approve")
  <2> DEFINE t == IF s.gate = "none" THEN s ELSE Approved(s)
  <2>1. GoodSes(Approved(s)) /\ Approved(s).plan = s.plan
    BY DEF Approved, GoodSes, Session, Gate
  <2>2. GoodSes(t) /\ t.plan = s.plan
    BY <2>1
  <2>3. Route(s, reply) = [at |-> IF Resumes(t) THEN "executing" ELSE "planning", ses |-> Awake(t)]
    BY <1>3 DEF Route
  <2> HIDE DEF t
  <2>4. GoodSes(Awake(t))
    BY <2>2, StatusType DEF Awake
  <2> QED BY <2>2, <2>3, <2>4 DEF Resumes
<1> QED BY <1>1, <1>2, <1>3

LEMMA BeginType ==
  ASSUME TypeInv, NEW caller \in Callers, NEW auto \in Modes, NEW reply \in Reply,
         Begin(caller, auto, reply)
  PROVE  TypeInv'
<1> DEFINE started == IF caller = "server" THEN [row EXCEPT !.st = "running"] ELSE row
<1>1. /\ runs' = runs + 1 /\ runs < MaxRuns /\ asked' = "none" /\ UNCHANGED <<cancel, streak>>
  BY DEF Begin
<1>2. PICK p \in AfterReview(started, reply) :
        LET routed == Route([started EXCEPT !.plan = p], reply)
            fresh  == [NoFlow EXCEPT !.at = routed.at, !.caller = caller, !.auto = auto,
                                     !.ses = routed.ses]
        IN  IF routed.at = "planning"
              THEN row' = started /\ flow' = fresh /\ NoFault
              ELSE \/ /\ row' = routed.ses
                      /\ flow' = [fresh EXCEPT !.plan = p]
                      /\ NoFault
                   \/ /\ Fault("save")
                      /\ row' = started
                      /\ flow' = IF caller = "server"
                                   THEN [fresh EXCEPT !.at = "over", !.ses.st = "failed"]
                                   ELSE NoFlow
  BY Zenon DEF Begin
<1>3. GoodSes(started)
  BY PassFacts, StatusType
<1> DEFINE t == [started EXCEPT !.plan = p]
           at == Route(t, reply).at
           ses == Route(t, reply).ses
           lost == [ses EXCEPT !.st = "failed"]
           Fresh1 == [NoFlow EXCEPT !.at = at, !.caller = caller, !.auto = auto, !.ses = ses]
<1>4. /\ row' \in {started, ses} /\ (NoFault \/ Fault("save"))
      /\ \/ at = "planning" /\ flow' = Fresh1
         \/ at # "planning" /\ flow' = [Fresh1 EXCEPT !.plan = p]
         \/ flow' = [Fresh1 EXCEPT !.at = "over", !.ses = lost]
         \/ flow' = NoFlow
  BY <1>2
<1> HIDE DEF started
<1>5. p \in Plan /\ (started.plan # NoPlan => p # NoPlan)
  <2>1. CASE p = started.plan
    BY <1>3, <2>1 DEF GoodSes, Session
  <2>2. CASE p # started.plan
    <3>1. PICK ids \in Edits : started.plan # NoPlan /\ p = Edited(started.plan, ids)
      BY <1>2, <2>2 DEF AfterReview
    <3>2. started.plan \in Seq(Step) /\ ids \in Seq(Id)
      BY <1>3, <3>1, StepsAssumption DEF GoodSes, Session, Plan
    <3>3. p \in Seq(Step)
      BY <3>1, <3>2, EditedType
    <3> QED BY <3>3, NotAPlan DEF Plan
  <2> QED BY <2>1, <2>2
<1>6. GoodSes(t) /\ t.plan = p
  BY <1>3, <1>5, PlanType DEF GoodSes
<1> HIDE DEF t
<1>7. /\ at \in {"planning", "executing"} /\ GoodSes(ses)
      /\ at = "executing" => p # NoPlan
  BY <1>6, RouteType
<1> HIDE DEF at, ses
<1>8. GoodSes(lost)
  BY <1>7, StatusType
<1> HIDE DEF lost
<1>9. /\ NoFlow \in Flow /\ caller \in {"none", "server", "cli", "resume"} /\ auto \in BOOLEAN
  BY NoFlowType, CallerAssumption, ModeAssumption
<1>10. FlowOK'
  <2>1. CASE at = "planning" /\ flow' = Fresh1
    <3>1. flow' \in Flow /\ flow'.at = "planning" /\ flow'.ses = ses
      BY <1>7, <1>9, <2>1 DEF Flow, LoopState, GoodSes
    <3> QED BY <1>7, <3>1 DEF FlowOK, Planned
  <2>2. CASE at # "planning" /\ flow' = [Fresh1 EXCEPT !.plan = p]
    <3>1. flow' \in Flow /\ flow'.at = "executing" /\ flow'.ses = ses /\ flow'.plan = p
      BY <1>5, <1>7, <1>9, <2>2 DEF Flow, LoopState, GoodSes
    <3> QED BY <1>7, <2>2, <3>1 DEF FlowOK, Planned
  <2>3. CASE flow' = [Fresh1 EXCEPT !.at = "over", !.ses = lost]
    <3>1. flow' \in Flow /\ flow'.at = "over" /\ flow'.ses = lost
      BY <1>7, <1>8, <1>9, <2>3 DEF Flow, LoopState, GoodSes
    <3> QED BY <1>8, <3>1 DEF FlowOK, Planned
  <2>4. CASE flow' = NoFlow
    BY <2>4, <1>7, PassFacts, OverType
  <2> QED BY <1>4, <2>1, <2>2, <2>3, <2>4
<1>11. /\ GoodSes(row') /\ faults' \in 0..MaxFaults
  BY <1>3, <1>4, <1>7, PassFacts, FaultType
<1>12. runs' \in 0..MaxRuns
  BY <1>1, BoundAssumption DEF TypeInv, RestOK
<1> QED BY <1>1, <1>10, <1>11, <1>12 DEF TypeInv, RestOK, Question

LEMMA NextType == TypeInv /\ [Next]_vars => TypeInv'
<1> SUFFICES ASSUME TypeInv, [Next]_vars PROVE TypeInv'
  OBVIOUS
<1>1. CASE \E caller \in Callers, auto \in Modes, reply \in Reply : Begin(caller, auto, reply)
  BY <1>1, BeginType
<1>2. CASE RequestCancel
  BY <1>2, RequestCancelType
<1>3. CASE Crash
  BY <1>3, CrashType
<1>4. CASE UNCHANGED vars
  BY <1>4 DEF vars, TypeInv, RestOK, FlowOK
<1>5. CASE FlowStep
  <2>1. CASE TakeCancel \/ PassesSpent \/ EndRun \/ BudgetPause \/ CompleteRun
    BY <2>1, TakeCancelType, PassesSpentType, EndRunType, BudgetPauseType, CompleteRunType
  <2>2. CASE Planning
    BY <2>2, PlanRefusedType, IntentBlockedType, IntentQuestionType, CreatePlanType,
       PlanUnaskedType, PlanStuckType, CritiqueType, PremortemType, SkipReviewType,
       ReviewPlanType
    DEF Planning
  <2>3. CASE Executing
    BY <2>3, NothingLeftType, MailGateType, ConstraintGateType, RepetitionType, ExecuteStepType
    DEF Executing
  <2>4. CASE AfterStep
    BY <2>4, RejectedType, AskUserType, CompleteStepType, MinorRetryType, AllTrippedType,
       ReplanType, StopReplanningType, QualityRetryType, NoProgressType, EvidenceGapType
    DEF AfterStep
  <2>5. CASE ReviewApproved \/ ReviewRevise \/ ReviewReject
    BY <2>5, ReviewApprovedType, ReviewReviseType, ReviewRejectType
  <2>6. CASE (\E ids \in Plans : UpdatePlan(ids)) \/ UpdateFailed \/ Summarize \/ Onward
    BY <2>6, UpdatePlanType, UpdateFailedType, SummarizeType, OnwardType
  <2> QED BY <1>5, <2>1, <2>2, <2>3, <2>4, <2>5, <2>6 DEF FlowStep
<1> QED BY <1>1, <1>2, <1>3, <1>4, <1>5 DEF Next

\* Every copy of the session and of the plan keeps its type: what a planner returns, a merge
\* puts together and an edited plan file holds is always a sequence of steps, no counter
\* leaves its range, and a state that works on a plan has one.  (Plan, Session,
\* FlowRouter.resolve_initial_state.)
THEOREM FlowKeepsType == Spec => []TypeOK
<1>1. Init => TypeInv
  BY InitType
<1>2. TypeInv /\ [Next]_vars => TypeInv'
  BY NextType
<1>3. TypeInv => TypeOK
  BY DEF TypeInv, FlowOK, GoodSes, RestOK, TypeOK
<1> QED BY <1>1, <1>2, <1>3, PTL DEF Spec

-----------------------------------------------------------------------------
(* FlowInv, and the safety properties *)

SessionFields ==
  {"st", "plan", "gate", "review", "mail", "acks", "replans", "unread", "agreed",
   "carried"}

FlowFields ==
  {"at", "caller", "auto", "plan", "ses", "iter", "counts", "step", "out"}

\* What every copy of the session is: unread mail is still announced or being asked about,
\* acknowledged steps are answered for or being asked about, and a review asks about nothing else.
Sound(s) ==
  /\ DOMAIN s = SessionFields
  /\ s.unread \in BOOLEAN /\ s.mail \in BOOLEAN /\ s.review \in BOOLEAN
  /\ s.replans \in Nat /\ s.replans <= MaxReplans
  /\ s.unread => s.mail \/ s.gate = "mail"
  /\ s.acks \subseteq Answered(s) \/ s.gate = "constraint"
  /\ s.review => s.gate \notin {"mail", "constraint"}

\* A running flow asks nothing.
Unpaused(s) ==
  /\ s.gate \notin {"mail", "constraint"}
  /\ ~s.review

Working == flow.at \notin {"none", "over"}

\* The row is at most one replan behind, and not at all once a step's events were saved.
Behind ==
  /\ streak \in Nat
  /\ faults \in Nat
  /\ flow.at # "none" => streak <= flow.ses.replans + faults
  /\ streak <= row.replans + faults + 1
  /\ flow.at = "none" => streak <= row.replans + faults
  /\ flow.at = "stepped" /\ flow.out \notin {"refused", "raised"} => streak <= row.replans + faults

\* Only a row that says COMPLETED makes a copy of it that does.
CompletedTold == flow.at # "none" /\ flow.ses.st = "completed" => row.st = "completed"

AtGate == asked \in {"mail", "constraint", "review"}

FlowInv ==
  /\ DOMAIN flow = FlowFields
  /\ flow.auto \in BOOLEAN
  /\ Sound(row)
  /\ Sound(flow.ses)
  /\ Working => Unpaused(flow.ses) /\ asked = "none"
  /\ AtGate /\ flow.at = "over" => flow.ses = row
  /\ PausedIsSaved
  /\ Behind
  /\ CompletedTold
  /\ ReviewShows

USE DEF Answered, Unpaused, Working, Behind, CompletedTold, AtGate, FlowInv,
  PausedIsSaved, LoopState, InLoop, Pass, Goto, Continue, Emitted, Fault, NoFault, Raise,
  Pause, PauseDurably, StepDue, Stepped, Paused

LEMMA NewSound == Sound(NewSession) /\ NewSession.replans = 0
  BY BoundAssumption DEF Sound, NewSession, SessionFields

LEMMA NoFlowFacts ==
  /\ DOMAIN NoFlow = FlowFields
  /\ NoFlow.at = "none" /\ NoFlow.auto \in BOOLEAN /\ Sound(NoFlow.ses)
  <1>1. NoFlow.ses = NewSession
    BY DEF NoFlow
  <1>2. DOMAIN NoFlow = FlowFields
    BY DEF NoFlow, FlowFields
  <1>3. NoFlow.auto \in BOOLEAN /\ NoFlow.at = "none"
    BY DEF NoFlow
  <1> QED BY <1>1, <1>2, <1>3, NewSound

LEMMA InitInv == Init => FlowInv
  BY BoundAssumption, NewSound, NoFlowFacts DEF Init

LEMMA StatusSound ==
  ASSUME NEW s, Sound(s), NEW st, NEW t, t = [s EXCEPT !.st = st]
  PROVE  /\ Sound(t) /\ t.st = st /\ t.replans = s.replans
         /\ t.gate = s.gate /\ t.review = s.review /\ Answered(t) = Answered(s)
  BY DEF Sound, SessionFields

\* A pause saves what its question needs.
LEMMA PauseInv ==
  ASSUME FlowInv, flow.at \in LoopState, NEW s, Sound(s), s.replans = flow.ses.replans,
         NEW question, Pause(s, question),
         question \in {"mail", "constraint"} => s.gate = question,
         question = "review" => s.review
  PROVE  FlowInv'
  <1> DEFINE t == [s EXCEPT !.st = "waiting"]
  <1>1. /\ Sound(t) /\ t.st = "waiting" /\ t.replans = s.replans
        /\ t.gate = s.gate /\ t.review = s.review
    BY StatusSound
  <1>2. PauseDurably(t, question) /\ UNCHANGED <<streak, runs>>
    BY DEF Pause
  <1> HIDE DEF t
  <1>3. CASE row' = t /\ NoFault /\ asked' = question /\ flow' = NoFlow
    BY <1>1, <1>2, <1>3, NoFlowFacts DEF NoFault, Sound
  <1>4. CASE /\ row' = t /\ NoFault /\ asked' = question
             /\ flow' = [flow EXCEPT !.at = "over", !.ses = t]
    <2>1. /\ DOMAIN flow' = FlowFields /\ flow'.at = "over" /\ flow'.ses = t
          /\ flow'.auto = flow.auto
      BY <1>4 DEF FlowFields
    <2> QED BY <1>1, <1>2, <1>4, <2>1 DEF Sound
  <1>5. CASE Fault("save") /\ row' \in {row, t} /\ Raise(t) /\ UNCHANGED asked
    <2>1. asked' = "none" /\ Sound(row') /\ row'.replans \in {row.replans, s.replans}
      BY <1>1, <1>5
    <2>2. CASE flow' = NoFlow
      BY <1>1, <1>2, <1>5, <2>1, <2>2, NoFlowFacts DEF Sound
    <2>3. CASE flow' = [flow EXCEPT !.at = "over", !.ses = [t EXCEPT !.st = "failed"]]
      <3>1. /\ DOMAIN flow' = FlowFields /\ flow'.at = "over"
            /\ flow'.ses = [t EXCEPT !.st = "failed"] /\ flow'.auto = flow.auto
        BY <2>3 DEF FlowFields
      <3>2. Sound(flow'.ses) /\ flow'.ses.replans = s.replans
        BY <1>1, <3>1, StatusSound
      <3> QED BY <1>1, <1>2, <1>5, <2>1, <3>1, <3>2 DEF Sound
    <2> QED BY <1>5, <2>2, <2>3 DEF Raise
  <1> QED BY <1>2, <1>3, <1>4, <1>5 DEF PauseDurably

LEMMA IntentQuestionInv == FlowInv /\ IntentQuestion => FlowInv'
  <1> SUFFICES ASSUME FlowInv, IntentQuestion PROVE FlowInv'
    OBVIOUS
  <1>1. Pause(flow.ses, "intent") /\ flow.at \in LoopState /\ Sound(flow.ses)
    BY DEF IntentQuestion, Unasked
  <1> HIDE DEF Pause, FlowInv
  <1> QED BY <1>1, PauseInv

LEMMA ReviewPlanInv == FlowInv /\ ReviewPlan => FlowInv'
  <1> SUFFICES ASSUME FlowInv, ReviewPlan PROVE FlowInv'
    OBVIOUS
  <1> DEFINE s == [flow.ses EXCEPT !.review = TRUE]
  <1>1. Sound(s) /\ s.review /\ s.replans = flow.ses.replans
    BY DEF ReviewPlan, Sound, SessionFields
  <1>2. Pause(s, "review") /\ flow.at \in LoopState
    BY DEF ReviewPlan
  <1> QED BY <1>1, <1>2, PauseInv

LEMMA MailGateInv == FlowInv /\ MailGate => FlowInv'
  <1> SUFFICES ASSUME FlowInv, MailGate PROVE FlowInv'
    OBVIOUS
  <1> DEFINE s == [flow.ses EXCEPT !.mail = FALSE, !.gate = "mail"]
  <1>1. Sound(s) /\ s.gate = "mail" /\ s.replans = flow.ses.replans
    BY DEF MailGate, Sound, SessionFields
  <1>2. Pause(s, "mail") /\ flow.at \in LoopState
    BY DEF MailGate
  <1> QED BY <1>1, <1>2, PauseInv

LEMMA ConstraintGateInv == FlowInv /\ ConstraintGate => FlowInv'
  <1> SUFFICES ASSUME FlowInv, ConstraintGate PROVE FlowInv'
    OBVIOUS
  <1> DEFINE s == [flow.ses EXCEPT !.acks = @ \cup {DueId}, !.gate = "constraint"]
  <1>1. Sound(s) /\ s.gate = "constraint" /\ s.replans = flow.ses.replans
    BY DEF ConstraintGate, Sound, SessionFields
  <1>2. Pause(s, "constraint") /\ flow.at \in LoopState
    BY DEF ConstraintGate
  <1> QED BY <1>1, <1>2, PauseInv

\* AUTO passes every gate, and records that it did.
LEMMA PassedSound ==
  ASSUME FlowInv, Working, NEW id, GatesOpen(id)
  PROVE  /\ Sound(Passed(id)) /\ Unpaused(Passed(id))
         /\ Passed(id).replans = flow.ses.replans /\ Passed(id).st = flow.ses.st
         /\ ~Passed(id).unread
         /\ id \in Risky => id \in Answered(Passed(id))
  <1>1. CASE flow.auto
    BY <1>1 DEF Passed, Violates, Sound, SessionFields
  <1>2. CASE ~flow.auto
    BY <1>2 DEF Passed, Sound, SessionFields, GatesOpen, Violates
  <1> QED BY <1>1, <1>2

LEMMA RepetitionInv == FlowInv /\ Repetition => FlowInv'
  <1> SUFFICES ASSUME FlowInv, Repetition PROVE FlowInv'
    OBVIOUS
  <1> DEFINE s == Passed(DueId)
  <1>1. /\ Sound(s) /\ Unpaused(s) /\ s.replans = flow.ses.replans
        /\ s.st = flow.ses.st
    BY PassedSound DEF Repetition
  <1>2. /\ DOMAIN flow' = FlowFields /\ flow'.at = "verifying" /\ flow'.ses = s
        /\ flow'.auto = flow.auto /\ UNCHANGED <<row, asked, streak, faults>>
    BY DEF Repetition, FlowFields
  <1>3. Working
    BY DEF Repetition
  <1> HIDE DEF s
  <1> QED BY <1>1, <1>2, <1>3

LEMMA AskUserInv == FlowInv /\ AskUser => FlowInv'
  <1> SUFFICES ASSUME FlowInv, AskUser PROVE FlowInv'
    OBVIOUS
  <1>1. /\ flow.at = "stepped" /\ flow.out \notin {"refused", "raised"}
        /\ asked' = "step" /\ UNCHANGED <<row, streak, faults>>
    BY DEF AskUser
  <1>2. CASE flow' = NoFlow
    BY <1>1, <1>2, NoFlowFacts
  <1>3. CASE Goto("over", flow.plan, [flow.ses EXCEPT !.st = "waiting"])
    <2>1. /\ DOMAIN flow' = FlowFields /\ flow'.at = "over" /\ flow'.auto = flow.auto
          /\ flow'.ses = [flow.ses EXCEPT !.st = "waiting"]
      BY <1>3 DEF FlowFields
    <2>2. Sound(flow'.ses) /\ flow'.ses.replans = flow.ses.replans
      BY <2>1, StatusSound
    <2> QED BY <1>1, <2>1, <2>2
  <1> QED BY <1>2, <1>3 DEF AskUser


LEMMA CompleteRunInv == FlowInv /\ CompleteRun => FlowInv'
  <1> SUFFICES ASSUME FlowInv, CompleteRun PROVE FlowInv'
    OBVIOUS
  <1> DEFINE judged == TerminalPlan(flow.ses, flow.plan)
             st == IF Worked(flow.plan) THEN "completed" ELSE "failed"
             s == [judged EXCEPT !.replans = 0, !.st = st]
  <1>1. Sound(judged) /\ judged.replans = flow.ses.replans
    BY DEF TerminalPlan, Sound, SessionFields
  <1>2. Sound(s) /\ s.replans = 0
    BY <1>1, BoundAssumption DEF Sound, SessionFields
  <1>3. /\ streak' = 0 /\ asked' = "none"
        /\ \/ row' = s /\ NoFault /\ flow' = [flow EXCEPT !.at = "over", !.ses = s]
           \/ Fault("save") /\ row' \in {row, judged} /\ Raise(s)
    BY DEF CompleteRun
  <1> HIDE DEF judged, s
  <1>4. CASE row' = s /\ NoFault /\ flow' = [flow EXCEPT !.at = "over", !.ses = s]
    <2>1. /\ DOMAIN flow' = FlowFields /\ flow'.at = "over" /\ flow'.ses = s
          /\ flow'.auto = flow.auto
      BY <1>4 DEF FlowFields
    <2> QED BY <1>2, <1>3, <1>4, <2>1 DEF Sound
  <1>5. CASE Fault("save") /\ row' \in {row, judged} /\ Raise(s)
    <2>1. Sound(row')
      BY <1>1, <1>5
    <2>2. CASE flow' = NoFlow
      BY <1>3, <1>5, <2>1, <2>2, NoFlowFacts DEF Sound
    <2>3. CASE flow' = [flow EXCEPT !.at = "over", !.ses = [s EXCEPT !.st = "failed"]]
      <3>1. /\ DOMAIN flow' = FlowFields /\ flow'.at = "over"
            /\ flow'.ses = [s EXCEPT !.st = "failed"] /\ flow'.auto = flow.auto
        BY <2>3 DEF FlowFields
      <3>2. Sound(flow'.ses)
        BY <1>2, <3>1, StatusSound
      <3> QED BY <1>3, <1>5, <2>1, <3>1, <3>2 DEF Sound
    <2> QED BY <1>5, <2>2, <2>3 DEF Raise
  <1> QED BY <1>3, <1>4, <1>5

\* A plan put into a copy changes nothing else of it.
LEMMA PlanSound ==
  ASSUME NEW s, Sound(s), NEW plan, NEW t, t = [s EXCEPT !.plan = plan]
  PROVE  /\ Sound(t) /\ t.st = s.st /\ t.replans = s.replans
         /\ t.gate = s.gate /\ t.review = s.review /\ Answered(t) = Answered(s)
  BY DEF Sound, SessionFields

\* A plan that replaces the copy's own leaves every answer standing.
LEMMA ReplacedSound ==
  ASSUME NEW s, Sound(s), NEW plan, NEW kept, NEW t, t = Replaced(s, plan, kept)
  PROVE  /\ Sound(t) /\ t.st = s.st /\ t.replans = s.replans /\ t.plan = plan
         /\ t.gate = s.gate /\ t.review = s.review /\ Answered(t) = Answered(s)
  BY DEF Replaced, Sound, SessionFields

LEMMA ContinueFacts ==
  ASSUME FlowInv, NEW at, NEW plan, NEW s, Continue(at, plan, s)
  PROVE  /\ DOMAIN flow' = FlowFields /\ flow'.ses = s /\ flow'.auto = flow.auto
         /\ flow'.at \in {at, "over"} /\ flow'.plan = plan
  BY DEF FlowFields

\* A pass that saves, or fails to save, an unpaused copy, and goes on.
LEMMA GoesOn ==
  ASSUME FlowInv, Working, NEW at, NEW plan, NEW s, Continue(at, plan, s),
         at \in LoopState \cup {"over"},
         Sound(s), Unpaused(s), s.replans = flow.ses.replans, s.st = flow.ses.st,
         at \in {"critiquing", "premortem", "reviewing_plan"} => s.plan = plan,
         UNCHANGED <<asked, streak>>, Sound(row'), row'.st \in {row.st, s.st},
         \/ NoFault /\ row'.replans \in {row.replans, s.replans}
         \/ Fault("save") /\ row'.replans = row.replans
  PROVE  FlowInv'
  <1>1. /\ DOMAIN flow' = FlowFields /\ flow'.ses = s /\ flow'.auto = flow.auto
        /\ flow'.at \in {at, "over"} /\ flow'.plan = plan
    <2> HIDE DEF Continue, FlowInv
    <2> QED BY ContinueFacts
  <1>2. CompletedTold'
    <2> SUFFICES ASSUME s.st = "completed" PROVE row'.st = "completed"
      BY <1>1
    <2>1. row.st = "completed"
      OBVIOUS
    <2> QED BY <2>1
  <1>4. ReviewShows'
    BY <1>1
  <1>3. Behind'
    BY <1>1 DEF Sound
  <1> HIDE DEF CompletedTold, ReviewShows, Behind
  <1> QED BY <1>1, <1>2, <1>3, <1>4 DEF Sound

LEMMA SummarizeInv == FlowInv /\ Summarize => FlowInv'
  <1> SUFFICES ASSUME FlowInv, Summarize PROVE FlowInv'
    OBVIOUS
  <1>1. /\ Working /\ Sound(flow.ses) /\ Unpaused(flow.ses)
        /\ UNCHANGED <<asked, streak>> /\ Continue("meta", flow.plan, flow.ses)
    BY DEF Summarize
  <1>2. /\ Sound(row') /\ row'.st \in {row.st, flow.ses.st}
        /\ \/ NoFault /\ row'.replans \in {row.replans, flow.ses.replans}
           \/ Fault("save") /\ row'.replans = row.replans
    BY DEF Summarize
  <1> HIDE DEF Continue, NoFault, Fault
  <1> QED BY <1>1, <1>2, GoesOn

LEMMA EvidenceGapInv == FlowInv /\ EvidenceGap => FlowInv'
  <1> SUFFICES ASSUME FlowInv, EvidenceGap PROVE FlowInv'
    OBVIOUS
  <1> DEFINE retry == Ran.retry < 1
             plan == IF retry THEN Again ELSE Mark(flow.plan, flow.step, "unverified")
             s == [flow.ses EXCEPT !.plan = plan]
             at == IF retry THEN "executing" ELSE "updating"
  <1>1. /\ Working /\ Sound(flow.ses) /\ Unpaused(flow.ses)
        /\ UNCHANGED <<asked, streak>> /\ Continue(at, plan, s) /\ Emitted(s)
    BY DEF EvidenceGap
  <1>2. Sound(s) /\ Unpaused(s) /\ s.replans = flow.ses.replans /\ s.st = flow.ses.st
    BY <1>1, PlanSound
  <1>3. at \in {"executing", "updating"}
    OBVIOUS
  <1> HIDE DEF plan, s, at
  <1>4. /\ Sound(row') /\ row'.st \in {row.st, s.st}
        /\ \/ NoFault /\ row'.replans \in {row.replans, s.replans}
           \/ Fault("save") /\ row'.replans = row.replans
    BY <1>1, <1>2
  <1>5. at \in LoopState /\ at \notin {"critiquing", "premortem", "reviewing_plan"}
    BY <1>3
  <1> HIDE DEF Continue, NoFault, Fault
  <1> QED BY <1>1, <1>2, <1>4, <1>5, GoesOn

LEMMA CreatePlanInv ==
  ASSUME FlowInv, NEW ids, NEW merged, CreatePlan(ids, merged) PROVE FlowInv'
  <1> DEFINE plan == FreshPlan(merged)
             s == Replaced(flow.ses, Recorded(FreshPlan(ids), plan), {})
             handled == Replaced(row, FreshPlan(ids), {})
  <1>w. Working /\ Sound(row) /\ Sound(flow.ses) /\ Unpaused(flow.ses)
    BY DEF CreatePlan
  <1>s. Sound(s) /\ Unpaused(s) /\ s.replans = flow.ses.replans /\ s.st = flow.ses.st
    BY <1>w, ReplacedSound
  <1>1. Sound(handled) /\ handled.replans = row.replans /\ handled.st = row.st
    BY <1>w, ReplacedSound
  <1>2. /\ UNCHANGED <<asked, streak>>
        /\ \/ row' = s /\ NoFault
           \/ Fault("save") /\ row' = handled
        /\ \E at \in LoopState : Continue(at, plan, s)
    <2>1. CASE ids = <<>>
      BY <2>1 DEF CreatePlan
    <2>2. CASE ids # <<>>
      BY <2>2 DEF CreatePlan, AfterPlan
    <2> QED BY <2>1, <2>2
  <1>p. s.plan = plan
    BY <1>w, ReplacedSound DEF Recorded
  <1> HIDE DEF s, handled, plan
  <1>3. PICK at \in LoopState : Continue(at, plan, s)
    BY <1>2
  <1>4. /\ Sound(row') /\ row'.st \in {row.st, s.st}
        /\ \/ NoFault /\ row'.replans \in {row.replans, s.replans}
           \/ Fault("save") /\ row'.replans = row.replans
    BY <1>s, <1>1, <1>2
  <1> HIDE DEF Continue, NoFault, Fault
  <1> QED BY <1>w, <1>s, <1>p, <1>2, <1>3, <1>4, GoesOn

LEMMA PlanStuckInv == ASSUME FlowInv, NEW ids, PlanStuck(ids) PROVE FlowInv'
  <1> DEFINE s == Replaced(flow.ses, FreshPlan(ids), {})
  <1>1. Sound(s) /\ Unpaused(s) /\ s.replans = flow.ses.replans /\ Working
    BY ReplacedSound, FlowInv DEF PlanStuck
  <1>2. /\ UNCHANGED <<asked, streak>> /\ row' = s /\ NoFault
        /\ Goto("over", FreshPlan(ids), s)
    BY DEF PlanStuck
  <1>3. /\ DOMAIN flow' = FlowFields /\ flow'.ses = s /\ flow'.auto = flow.auto
        /\ flow'.at = "over"
    BY <1>2 DEF FlowFields
  <1> HIDE DEF s
  <1> QED BY <1>1, <1>2, <1>3 DEF Sound

\* Planning that goes on after a lost question saves, or not, a waiting copy.
LEMMA PlanUnaskedInv == ASSUME FlowInv, NEW ids, PlanUnasked(ids) PROVE FlowInv'
  <1> DEFINE s == Replaced(Unasked, FreshPlan(ids), {})
  <1>1. /\ Sound(Unasked) /\ Unasked.st = "waiting" /\ Unasked.replans = flow.ses.replans
        /\ Working
    BY StatusSound DEF PlanUnasked, Unasked
  <1>2. Sound(s) /\ s.st = "waiting" /\ s.replans = flow.ses.replans
    BY <1>1, ReplacedSound
  <1>3. /\ UNCHANGED <<asked, streak>> /\ row' = s /\ faults' = faults + 1
        /\ Goto("over", FreshPlan(ids), s)
    BY DEF PlanUnasked
  <1>4. /\ DOMAIN flow' = FlowFields /\ flow'.ses = s /\ flow'.auto = flow.auto
        /\ flow'.at = "over"
    BY <1>3 DEF FlowFields
  <1> HIDE DEF s
  <1> QED BY <1>1, <1>2, <1>3, <1>4 DEF Sound

LEMMA PlanRefusedInv == FlowInv /\ PlanRefused => FlowInv'
  <1> SUFFICES ASSUME FlowInv, PlanRefused PROVE FlowInv'
    OBVIOUS
  <1> DEFINE s == [flow.ses EXCEPT !.st = "failed"]
  <1>1. /\ Sound(Unasked) /\ Unasked.st = "waiting" /\ Unasked.replans = flow.ses.replans
        /\ Working
    BY StatusSound DEF PlanRefused, Unasked
  <1>2. Sound(s) /\ s.st = "failed" /\ s.replans = flow.ses.replans
    BY StatusSound
  <1>3. /\ DOMAIN flow' = FlowFields /\ flow'.ses = s /\ flow'.auto = flow.auto
        /\ flow'.at = "over"
    BY DEF PlanRefused, FlowFields
  <1>4. /\ UNCHANGED <<asked, streak>>
        /\ \/ UNCHANGED row /\ NoFault
           \/ Fault("save") /\ row' \in {row, Unasked}
    BY DEF PlanRefused
  <1> HIDE DEF s
  <1> QED BY <1>1, <1>2, <1>3, <1>4 DEF Sound

LEMMA UpdatePlanInv == ASSUME FlowInv, NEW ids, UpdatePlan(ids) PROVE FlowInv'
  <1> DEFINE merged == Merge(row.plan, ids)
             kept == Retained(row.plan)
             s == Replaced(flow.ses, merged, kept)
             handled == Replaced(row, merged, kept)
  <1>w. Working /\ Sound(row) /\ Sound(flow.ses) /\ Unpaused(flow.ses)
    BY DEF UpdatePlan
  <1>s. Sound(s) /\ Unpaused(s) /\ s.replans = flow.ses.replans /\ s.st = flow.ses.st
    BY <1>w, ReplacedSound
  <1>1. Sound(handled) /\ handled.replans = row.replans /\ handled.st = row.st
    BY <1>w, ReplacedSound
  <1>2. /\ UNCHANGED <<asked, streak>>
        /\ \/ row' = s /\ NoFault
           \/ Fault("save") /\ row' = handled
        /\ \E at \in {"executing", "over"} : Continue(at, Handled(merged), s)
    BY DEF UpdatePlan
  <1> HIDE DEF s, handled, merged
  <1>3. PICK at \in {"executing", "over"} : Continue(at, Handled(merged), s)
    BY <1>2
  <1>4. /\ Sound(row') /\ row'.st \in {row.st, s.st}
        /\ \/ NoFault /\ row'.replans \in {row.replans, s.replans}
           \/ Fault("save") /\ row'.replans = row.replans
    BY <1>s, <1>1, <1>2
  <1> HIDE DEF Continue, NoFault, Fault
  <1> QED BY <1>w, <1>s, <1>2, <1>3, <1>4, GoesOn

\* What a step's events leave of the copy they are added to.
LEMMA StepEventsSound ==
  ASSUME NEW s, Sound(s), Unpaused(s), NEW id, NEW out
  PROVE  /\ Sound(StepEvents(s, id, out)) /\ Unpaused(StepEvents(s, id, out))
         /\ StepEvents(s, id, out).replans = s.replans
         /\ Answered(StepEvents(s, id, out)) = Answered(s)
         /\ StepEvents(s, id, out).st = s.st
  <1> DEFINE st == CASE out \in {"done"} -> "completed"
                     [] out \in {"failed", "tripped", "aborted"} -> "failed"
                     [] OTHER -> "running"
             t == Reconciled(s, id, st)
  <1>1. /\ Sound(t) /\ t.gate = s.gate /\ t.review = s.review /\ t.replans = s.replans
        /\ Answered(t) = Answered(s) /\ t.st = s.st
    BY PlanSound DEF Reconciled
  <1>2. StepEvents(s, id, out)
          = [t EXCEPT !.gate = IF out \in {"approval", "floor"} THEN "tool" ELSE @]
    BY DEF StepEvents
  <1> HIDE DEF t
  <1>3. t.acks \subseteq Answered(t) /\ (t.unread => t.mail)
    BY <1>1 DEF Sound
  <1> QED BY <1>1, <1>2, <1>3 DEF Sound, SessionFields

LEMMA ExecuteStepInv ==
  ASSUME FlowInv, NEW out, NEW fetched \in BOOLEAN, ExecuteStep(out, fetched) PROVE FlowInv'
  <1> DEFINE before == Passed(DueId)
             s == StepEvents(before, DueId, out)
             ran == Reconciled(before, DueId, "running")
             told == [s EXCEPT !.mail = @ \/ fetched, !.unread = @ \/ fetched]
  <1>w. Working /\ GatesOpen(DueId) /\ UNCHANGED <<asked, streak>>
    BY DEF ExecuteStep
  <1>1. /\ Sound(before) /\ Unpaused(before) /\ before.replans = flow.ses.replans
        /\ before.st = flow.ses.st
    BY <1>w, PassedSound
  <1>2. /\ Sound(s) /\ Unpaused(s) /\ s.replans = flow.ses.replans
        /\ s.st = flow.ses.st
    BY <1>1, StepEventsSound
  <1>3. Sound(ran) /\ ran.replans = flow.ses.replans /\ ran.st = flow.ses.st
    BY <1>1, PlanSound DEF Reconciled
  <1>4. /\ Sound(told) /\ Unpaused(told) /\ told.replans = flow.ses.replans
        /\ told.st = flow.ses.st
    BY <1>2 DEF Sound, SessionFields
  <1>5. /\ DOMAIN flow' = FlowFields /\ flow'.at = "stepped" /\ flow'.out = out
        /\ flow'.auto = flow.auto
        /\ flow'.ses = IF out \in {"refused", "raised"} THEN before ELSE told
    BY DEF ExecuteStep, FlowFields
  <1>6. IF out \in {"refused", "raised"} THEN UNCHANGED row /\ NoFault
        ELSE \/ row' = s /\ NoFault
             \/ Fault("save") /\ row' = ran
    BY DEF ExecuteStep
  <1> HIDE DEF before, s, ran, told
  <1>7. CASE out \in {"refused", "raised"}
    BY <1>w, <1>1, <1>5, <1>6, <1>7 DEF Sound
  <1>8. CASE out \notin {"refused", "raised"}
    BY <1>w, <1>2, <1>3, <1>4, <1>5, <1>6, <1>8 DEF Sound
  <1> QED BY <1>7, <1>8

LEMMA PremortemInv == FlowInv /\ Premortem => FlowInv'
  <1> SUFFICES ASSUME FlowInv, Premortem PROVE FlowInv'
    OBVIOUS
  <1> DEFINE t == [flow.ses EXCEPT !.plan = flow.plan]
  <1>w. /\ Working /\ Sound(flow.ses) /\ Unpaused(flow.ses) /\ UNCHANGED <<asked, streak>>
        /\ flow.ses.plan = flow.plan
    BY DEF Premortem
  <1>1. PICK s \in {flow.ses, t}, at \in AfterPlan :
          /\ Goto(at, flow.plan, s)
          /\ Emitted(s) \/ UNCHANGED <<row, faults>>
    BY DEF Premortem
  <1>2. /\ Sound(s) /\ Unpaused(s) /\ s.replans = flow.ses.replans
        /\ s.st = flow.ses.st
    BY <1>w, PlanSound
  <1>p. s.plan = flow.plan
    BY <1>w DEF Sound, SessionFields
  <1>3. /\ DOMAIN flow' = FlowFields /\ flow'.ses = s /\ flow'.auto = flow.auto
        /\ flow'.at \in AfterPlan /\ flow'.plan = flow.plan
    BY <1>1 DEF FlowFields
  <1>4. \/ row' = s /\ faults' = faults
        \/ row' = row /\ faults' \in {faults, faults + 1}
    BY <1>1
  <1> HIDE DEF t
  <1> QED BY <1>w, <1>2, <1>p, <1>3, <1>4 DEF Sound, AfterPlan

\* The router's copy: what it lets run is unpaused.
LEMMA RouteSound ==
  ASSUME NEW s, Sound(s), NEW reply
  PROVE  /\ Sound(Route(s, reply).ses) /\ Unpaused(Route(s, reply).ses)
         /\ Route(s, reply).ses.replans = s.replans
         /\ Route(s, reply).at \in {"planning", "executing"}
         /\ Route(s, reply).ses.st = "completed" => s.st = "completed"
  <1>1. CASE s.review
    BY <1>1, BoundAssumption DEF Route, Sound, SessionFields
  <1>2. CASE ~s.review /\ s.gate # "none" /\ reply # "approve"
    BY <1>2, BoundAssumption DEF Route, Refused, Rearmed, AcksAfterRefusal, Sound, SessionFields
  <1>3. CASE ~s.review /\ ~(s.gate # "none" /\ reply # "approve")
    <2> DEFINE t == IF s.gate = "none" THEN s ELSE Approved(s)
    <2>1. /\ Sound(t) /\ Unpaused(t) /\ t.replans = s.replans /\ t.st = s.st
      BY <1>3 DEF Approved, Sound, SessionFields
    <2>2. Route(s, reply)
            = [at |-> IF Resumes(t) THEN "executing" ELSE "planning", ses |-> Awake(t)]
      BY <1>3 DEF Route
    <2> HIDE DEF t
    <2>3. /\ Sound(Awake(t)) /\ Unpaused(Awake(t)) /\ Awake(t).replans = t.replans
          /\ Awake(t).st \in {"running", t.st}
      BY <2>1, StatusSound DEF Awake
    <2> QED BY <2>1, <2>2, <2>3
  <1> QED BY <1>1, <1>2, <1>3

LEMMA BeginInv ==
  ASSUME FlowInv, NEW caller, NEW auto \in BOOLEAN, NEW reply, Begin(caller, auto, reply)
  PROVE  FlowInv'
  <1> DEFINE started == IF caller = "server" THEN [row EXCEPT !.st = "running"] ELSE row
             edited(p) == [started EXCEPT !.plan = p]
             routed(p) == Route(edited(p), reply)
             fresh(p) == [NoFlow EXCEPT !.at = routed(p).at, !.caller = caller, !.auto = auto,
                                        !.ses = routed(p).ses]
  <1>1. Sound(started) /\ started.replans = row.replans
    BY StatusSound
  <1>2. /\ flow.at = "none" /\ asked' = "none" /\ UNCHANGED streak
        /\ \E p \in AfterReview(started, reply) :
             IF routed(p).at = "planning"
               THEN row' = started /\ flow' = fresh(p) /\ NoFault
               ELSE \/ row' = routed(p).ses /\ flow' = [fresh(p) EXCEPT !.plan = p] /\ NoFault
                    \/ /\ Fault("save")
                       /\ row' = started
                       /\ flow' = IF caller = "server"
                                    THEN [fresh(p) EXCEPT !.at = "over", !.ses.st = "failed"]
                                    ELSE NoFlow
    BY DEF Begin
  <1> HIDE DEF started
  <1>3. PICK p : IF routed(p).at = "planning"
                   THEN row' = started /\ flow' = fresh(p) /\ NoFault
                   ELSE \/ row' = routed(p).ses /\ flow' = [fresh(p) EXCEPT !.plan = p] /\ NoFault
                        \/ /\ Fault("save")
                           /\ row' = started
                           /\ flow' = IF caller = "server"
                                        THEN [fresh(p) EXCEPT !.at = "over", !.ses.st = "failed"]
                                        ELSE NoFlow
    BY <1>2
  <1>4. /\ Sound(routed(p).ses) /\ Unpaused(routed(p).ses)
        /\ routed(p).ses.replans = row.replans
        /\ routed(p).at \in {"planning", "executing"}
        /\ routed(p).ses.st = "completed" => started.st = "completed"
    <2>1. /\ Sound(edited(p)) /\ edited(p).replans = row.replans
          /\ edited(p).st = started.st
      BY <1>1, PlanSound
    <2> HIDE DEF edited
    <2> QED BY <2>1, RouteSound
  <1> HIDE DEF routed
  <1>5. /\ DOMAIN fresh(p) = FlowFields /\ fresh(p).at = routed(p).at
        /\ fresh(p).auto = auto /\ fresh(p).ses = routed(p).ses
    BY NoFlowFacts DEF FlowFields
  <1> HIDE DEF fresh
  <1>6. CASE row' = started /\ flow' = fresh(p) /\ NoFault
    BY <1>1, <1>2, <1>4, <1>5, <1>6 DEF Sound
  <1>7. CASE row' = routed(p).ses /\ flow' = [fresh(p) EXCEPT !.plan = p] /\ NoFault
    <2>1. /\ DOMAIN flow' = FlowFields /\ flow'.at = routed(p).at
          /\ flow'.auto = auto /\ flow'.ses = routed(p).ses
      BY <1>5, <1>7 DEF FlowFields
    <2> QED BY <1>2, <1>4, <1>7, <2>1 DEF Sound
  <1>8. CASE Fault("save") /\ row' = started /\ flow' = NoFlow
    BY <1>1, <1>2, <1>8, NoFlowFacts DEF Sound
  <1>9. CASE /\ Fault("save") /\ row' = started
             /\ flow' = [fresh(p) EXCEPT !.at = "over", !.ses.st = "failed"]
    <2>1. /\ DOMAIN flow' = FlowFields /\ flow'.at = "over" /\ flow'.auto = auto
          /\ flow'.ses = [routed(p).ses EXCEPT !.st = "failed"]
      BY <1>5, <1>9 DEF FlowFields
    <2>2. /\ Sound(flow'.ses) /\ flow'.ses.replans = row.replans
          /\ flow'.ses.st = "failed"
      BY <1>4, <2>1, StatusSound
    <2> QED BY <1>1, <1>2, <1>9, <2>1, <2>2 DEF Sound
  <1> QED BY <1>3, <1>6, <1>7, <1>8, <1>9

LEMMA NextInv == FlowInv /\ [Next]_vars => FlowInv'
  <1> SUFFICES ASSUME FlowInv, [Next]_vars PROVE FlowInv'
    OBVIOUS
  <1> USE BoundAssumption
  <1>1. CASE TakeCancel
    BY <1>1 DEF TakeCancel, Sound, SessionFields, FlowFields
  <1>2. CASE PassesSpent
    BY <1>2 DEF PassesSpent, Sound, SessionFields, FlowFields
  <1>3. CASE PlanRefused
    BY <1>3, PlanRefusedInv
  <1>4. CASE IntentBlocked
    BY <1>4 DEF IntentBlocked, Sound, SessionFields, FlowFields
  <1>5. CASE Critique
    BY <1>5 DEF Critique, Sound, SessionFields, FlowFields
  <1>6. CASE SkipReview
    BY <1>6 DEF SkipReview, Sound, SessionFields, FlowFields
  <1>7. CASE NothingLeft
    BY <1>7 DEF NothingLeft, Sound, SessionFields, FlowFields
  <1>8. CASE Rejected
    BY <1>8 DEF Rejected, Sound, SessionFields, FlowFields
  <1>9. CASE CompleteStep
    BY <1>9 DEF CompleteStep, ReplansReset, Sound, SessionFields, FlowFields
  <1>10. CASE MinorRetry
    BY <1>10 DEF MinorRetry, Sound, SessionFields, FlowFields
  <1>11. CASE AllTripped
    BY <1>11 DEF AllTripped, Sound, SessionFields, FlowFields
  <1>12. CASE Replan
    BY <1>12 DEF Replan, Replans, Sound, SessionFields, FlowFields
  <1>13. CASE StopReplanning
    BY <1>13 DEF StopReplanning, ReplansReset, Replans, Sound, SessionFields, FlowFields
  <1>14. CASE QualityRetry
    BY <1>14 DEF QualityRetry, Sound, SessionFields, FlowFields
  <1>15. CASE NoProgress
    BY <1>15 DEF NoProgress, Sound, SessionFields, FlowFields
  <1>16. CASE EvidenceGap
    BY <1>16, EvidenceGapInv
  <1>17. CASE ReviewApproved
    BY <1>17 DEF ReviewApproved, Sound, SessionFields, FlowFields
  <1>18. CASE ReviewRevise
    BY <1>18 DEF ReviewRevise, RevisionRecorded, Sound, SessionFields, FlowFields
  <1>19. CASE ReviewReject
    BY <1>19 DEF ReviewReject, Sound, SessionFields, FlowFields
  <1>20. CASE UpdateFailed
    BY <1>20 DEF UpdateFailed, Sound, SessionFields, FlowFields
  <1>21. CASE Summarize
    BY <1>21, SummarizeInv
  <1>22. CASE Onward
    BY <1>22 DEF Onward, Sound, SessionFields, FlowFields
  <1>23. CASE RequestCancel
    BY <1>23 DEF RequestCancel, Sound, SessionFields, FlowFields
  <1>24. CASE BudgetPause
    BY <1>24, StatusSound, NoFlowFacts DEF BudgetPause, Settled, Sound, SessionFields, FlowFields
  <1>25. CASE EndRun
    BY <1>25, StatusSound, NoFlowFacts DEF EndRun, Settled, Sound, SessionFields, FlowFields
  <1>26. CASE Crash
    BY <1>26, StatusSound, NoFlowFacts DEF Crash, Sound, SessionFields, FlowFields
  <1>27. CASE IntentQuestion
    BY <1>27, IntentQuestionInv
  <1>28. CASE ReviewPlan
    BY <1>28, ReviewPlanInv
  <1>29. CASE MailGate
    BY <1>29, MailGateInv
  <1>30. CASE ConstraintGate
    BY <1>30, ConstraintGateInv
  <1>31. CASE Repetition
    BY <1>31, RepetitionInv
  <1>32. CASE AskUser
    BY <1>32, AskUserInv
  <1>33. CASE CompleteRun
    BY <1>33, CompleteRunInv
  <1>34. CASE Premortem
    BY <1>34, PremortemInv
  <1>35. ASSUME NEW ids, NEW merged, CreatePlan(ids, merged) PROVE FlowInv'
    BY <1>35, CreatePlanInv
  <1>36. ASSUME NEW ids, PlanStuck(ids) PROVE FlowInv'
    BY <1>36, PlanStuckInv
  <1>41. ASSUME NEW ids, PlanUnasked(ids) PROVE FlowInv'
    BY <1>41, PlanUnaskedInv
  <1>37. ASSUME NEW out, NEW fetched \in BOOLEAN, ExecuteStep(out, fetched) PROVE FlowInv'
    BY <1>37, ExecuteStepInv
  <1>38. ASSUME NEW ids, UpdatePlan(ids) PROVE FlowInv'
    BY <1>38, UpdatePlanInv
  <1>39. ASSUME NEW caller, NEW auto \in Modes, NEW reply, Begin(caller, auto, reply)
         PROVE FlowInv'
    BY <1>39, BeginInv, ModeAssumption
  <1>40. CASE UNCHANGED vars
    BY <1>40 DEF vars, Sound
  <1> HIDE DEF FlowInv
  <1> QED BY <1>1, <1>2, <1>3, <1>4, <1>5, <1>6, <1>7, <1>8, <1>9, <1>10, <1>11, <1>12, <1>13, <1>14, <1>15, <1>16, <1>17, <1>18, <1>19, <1>20, <1>21, <1>22, <1>23, <1>24, <1>25, <1>26, <1>27, <1>28, <1>29, <1>30, <1>31, <1>32, <1>33, <1>34, <1>35, <1>36, <1>37, <1>38, <1>39, <1>40, <1>41
          DEF Next, FlowStep, Planning, Executing, AfterStep

LEMMA SpecInv == Spec => []FlowInv
  <1> HIDE DEF FlowInv
  <1> QED BY InitInv, NextInv, PTL DEF Spec

\* The row answers what the user is asked: a gate's question is on the screen only
\* when the row is WAITING with the gate's flag, whatever saves fail and whenever the
\* process is lost.
THEOREM PauseIsSaved == Spec => []PausedIsSaved
  <1>1. FlowInv => PausedIsSaved
    OBVIOUS
  <1> HIDE DEF FlowInv, PausedIsSaved
  <1> QED BY <1>1, SpecInv, PTL

\* Failing steps are replanned at most MaxReplans times in a row, over any number of runs
\* of the session; each fault costs one count at most.
THEOREM ReplansAreBounded == Spec => []ReplansBounded
  <1>1. FlowInv => ReplansBounded
    BY BoundAssumption DEF ReplansBounded, Sound
  <1> HIDE DEF FlowInv
  <1> QED BY <1>1, SpecInv, PTL

\* Only ExecuteStep begins a step.
LEMMA RunsByExecuteStep ==
  ASSUME FlowInv, Next, Runs
  PROVE  \E out, fetched : ExecuteStep(out, fetched)
  <1> USE DEF Runs, FlowFields
  <1>1. CASE \E caller \in Callers, auto \in Modes, reply \in Reply : Begin(caller, auto, reply)
    BY <1>1 DEF Begin
  <1>2. CASE RequestCancel \/ Crash \/ TakeCancel \/ PassesSpent \/ EndRun
    BY <1>2, NoFlowFacts DEF RequestCancel, Crash, TakeCancel, PassesSpent, EndRun
  <1>3. CASE Planning
    BY <1>3 DEF Planning, PlanRefused, IntentBlocked, IntentQuestion, CreatePlan, PlanUnasked,
                PlanStuck, Critique, Premortem, SkipReview, ReviewPlan
  <1>4. CASE AfterStep
    BY <1>4 DEF AfterStep, Rejected, AskUser, CompleteStep, MinorRetry, AllTripped, Replan,
                StopReplanning, QualityRetry, NoProgress, EvidenceGap
  <1>5. CASE NothingLeft \/ MailGate \/ ConstraintGate \/ Repetition
    BY <1>5, NoFlowFacts DEF NothingLeft, MailGate, ConstraintGate, Repetition
  <1>6. CASE \/ ReviewApproved \/ ReviewRevise \/ ReviewReject
             \/ \E ids \in Plans : UpdatePlan(ids)
             \/ UpdateFailed \/ Summarize \/ Onward
    BY <1>6 DEF ReviewApproved, ReviewRevise, ReviewReject, UpdatePlan, UpdateFailed,
                Summarize, Onward
  <1>7. CASE BudgetPause \/ CompleteRun
    BY <1>7, NoFlowFacts DEF BudgetPause, CompleteRun
  <1> QED BY <1>1, <1>2, <1>3, <1>4, <1>5, <1>6, <1>7 DEF Next, FlowStep, Executing

\* Inbox content is acted on only after a human approved it, or in AUTO.
THEOREM MailIsReviewed == Spec => MailReviewed
  <1>1. FlowInv /\ [Next]_vars => [Runs => flow.auto \/ ~flow.ses.unread]_vars
    <2> SUFFICES ASSUME FlowInv, Next, Runs PROVE flow.auto \/ ~flow.ses.unread
      OBVIOUS
    <2>1. PICK out, fetched : ExecuteStep(out, fetched)
      BY RunsByExecuteStep
    <2> QED BY <2>1 DEF ExecuteStep, GatesOpen, Sound
  <1> HIDE DEF FlowInv
  <1> QED BY <1>1, SpecInv, PTL DEF Spec, MailReviewed

\* A step that contradicts a stated constraint runs only under an approval of its gate, or
\* AUTO's pass, for its id that no refusal has withdrawn since.
THEOREM RiskyIsAnswered == Spec => RiskyAnswered
  <1>1. FlowInv /\ [Next]_vars
          => [Runs /\ flow'.step \in Risky => flow'.step \in Answered(flow'.ses)]_vars
    <2> SUFFICES ASSUME FlowInv, Next, Runs, flow'.step \in Risky
                 PROVE  flow'.step \in Answered(flow'.ses)
      OBVIOUS
    <2>1. PICK out, fetched : ExecuteStep(out, fetched)
      BY RunsByExecuteStep
    <2>2. /\ Working /\ GatesOpen(DueId) /\ flow'.step = DueId
      BY <2>1 DEF ExecuteStep, FlowFields
    <2>3. Sound(Passed(DueId)) /\ Unpaused(Passed(DueId)) /\ DueId \in Answered(Passed(DueId))
      BY <2>2, PassedSound
    <2> DEFINE s == StepEvents(Passed(DueId), DueId, out)
    <2>4. Answered(s) = Answered(Passed(DueId)) /\ Sound(s)
      BY <2>3, StepEventsSound
    <2>5. flow'.ses \in {Passed(DueId), [s EXCEPT !.mail = @ \/ fetched, !.unread = @ \/ fetched]}
      BY <2>1 DEF ExecuteStep, FlowFields
    <2> HIDE DEF s
    <2> QED BY <2>2, <2>3, <2>4, <2>5 DEF Sound, SessionFields
  <1> HIDE DEF FlowInv
  <1> QED BY <1>1, SpecInv, PTL DEF Spec, RiskyAnswered

\* The plan on the review card is the row's: what an approval will run.
THEOREM ReviewedPlanIsSaved == Spec => ReviewedIsSaved
  <1>1. FlowInv /\ [Next]_vars
          => [asked' = "review" /\ asked # "review" => row'.plan = flow.plan]_vars
    <2> SUFFICES ASSUME FlowInv, Next, asked' = "review", asked # "review"
                 PROVE  row'.plan = flow.plan
      OBVIOUS
    <2>1. ReviewPlan
      <3>1. CASE \E caller \in Callers, auto \in Modes, reply \in Reply : Begin(caller, auto, reply)
        BY <3>1 DEF Begin
      <3>2. CASE RequestCancel \/ Crash \/ TakeCancel \/ PassesSpent \/ EndRun
        BY <3>2 DEF RequestCancel, Crash, TakeCancel, PassesSpent, EndRun
      <3>3. CASE Planning
        BY <3>3 DEF Planning, PlanRefused, IntentBlocked, IntentQuestion, CreatePlan,
                    PlanUnasked, PlanStuck, Critique, Premortem, SkipReview
      <3>4. CASE AfterStep
        BY <3>4 DEF AfterStep, Rejected, AskUser, CompleteStep, MinorRetry, AllTripped, Replan,
                    StopReplanning, QualityRetry, NoProgress, EvidenceGap
      <3>5. CASE Executing
        BY <3>5 DEF Executing, NothingLeft, MailGate, ConstraintGate, Repetition, ExecuteStep
      <3>6. CASE \/ ReviewApproved \/ ReviewRevise \/ ReviewReject
                 \/ \E ids \in Plans : UpdatePlan(ids)
                 \/ UpdateFailed \/ Summarize \/ Onward
        BY <3>6 DEF ReviewApproved, ReviewRevise, ReviewReject, UpdatePlan, UpdateFailed,
                    Summarize, Onward
      <3>7. CASE BudgetPause \/ CompleteRun
        BY <3>7 DEF BudgetPause, CompleteRun
      <3> QED BY <3>1, <3>2, <3>3, <3>4, <3>5, <3>6, <3>7 DEF Next, FlowStep
    <2>2. row' = [flow.ses EXCEPT !.review = TRUE, !.st = "waiting"]
      BY <2>1 DEF ReviewPlan, Sound, SessionFields
    <2>3. flow.ses.plan = flow.plan
      BY <2>1 DEF ReviewPlan
    <2> QED BY <2>2, <2>3 DEF Sound, SessionFields
  <1> HIDE DEF FlowInv
  <1> QED BY <1>1, SpecInv, PTL DEF Spec, ReviewedIsSaved

\* A run with a plan ends COMPLETED only over a saved plan that succeeded.
THEOREM CompletedWorked == Spec => CompletedByWork
  <1> DEFINE Done0 == row.st # "completed" /\ row'.st = "completed"
  <1>1. FlowInv /\ [Next]_vars
          => [Done0 => flow.plan = NoPlan \/ Succeeded(row'.plan)]_vars
    <2> SUFFICES ASSUME FlowInv, Next, Done0
                 PROVE  flow.plan = NoPlan \/ Succeeded(row'.plan)
      OBVIOUS
    <2>1. CompleteRun
      <3> USE DEF Sound, SessionFields
      <3>1. CASE \E caller \in Callers, auto \in Modes, reply \in Reply : Begin(caller, auto, reply)
        <4>1. PICK caller, auto, reply : Begin(caller, auto, reply)
          BY <3>1
        <4> DEFINE started == IF caller = "server" THEN [row EXCEPT !.st = "running"] ELSE row
        <4>2. PICK p : row' \in {started, Route([started EXCEPT !.plan = p], reply).ses}
          BY <4>1 DEF Begin
        <4>3. Sound(started) /\ started.st # "completed"
          BY StatusSound
        <4> HIDE DEF started, Sound
        <4>4. /\ Sound([started EXCEPT !.plan = p])
              /\ [started EXCEPT !.plan = p].st # "completed"
          BY <4>3, PlanSound
        <4>5. Route([started EXCEPT !.plan = p], reply).ses.st # "completed"
          BY <4>4, RouteSound
        <4> QED BY <4>2, <4>3, <4>5
      <3>2. CASE RequestCancel \/ Crash \/ TakeCancel \/ PassesSpent \/ EndRun \/ BudgetPause
        BY <3>2 DEF RequestCancel, Crash, TakeCancel, PassesSpent, EndRun, Settled, BudgetPause
      <3>3. CASE Planning
        <4>1. CASE IntentQuestion \/ ReviewPlan
          BY <4>1 DEF IntentQuestion, Unasked, ReviewPlan
        <4>2. CASE \E ids, merged \in Plans : CreatePlan(ids, merged)
          <5>1. PICK ids, merged \in Plans : CreatePlan(ids, merged)
            BY <4>2
          <5> DEFINE s == Replaced(flow.ses, Recorded(FreshPlan(ids), FreshPlan(merged)), {})
                     handled == Replaced(row, FreshPlan(ids), {})
          <5>2. row' \in {s, handled} /\ flow.at # "none"
            BY <5>1 DEF CreatePlan
          <5> HIDE DEF Sound
          <5>3. s.st = flow.ses.st /\ handled.st = row.st
            BY ReplacedSound
          <5> HIDE DEF s, handled
          <5> QED BY <5>2, <5>3
        <4>3. CASE \E ids \in Plans \ {<<>>} : PlanStuck(ids)
          BY <4>3 DEF PlanStuck, Replaced
        <4>4. CASE PlanRefused \/ IntentBlocked \/ Critique \/ SkipReview
          BY <4>4 DEF PlanRefused, Unasked, IntentBlocked, Critique, SkipReview
        <4>5. CASE Premortem
          <5>1. row' \in {row, flow.ses, [flow.ses EXCEPT !.plan = flow.plan]}
            BY <4>5 DEF Premortem
          <5>2. [flow.ses EXCEPT !.plan = flow.plan].st = flow.ses.st /\ flow.at # "none"
            BY <4>5 DEF Premortem
          <5> QED BY <5>1, <5>2
        <4>6. CASE \E ids \in Plans : PlanUnasked(ids)
          BY <4>6 DEF PlanUnasked, Unasked, Replaced
        <4> QED BY <3>3, <4>1, <4>2, <4>3, <4>4, <4>5, <4>6 DEF Planning
      <3>4. CASE AfterStep
        BY <3>4 DEF AfterStep, Rejected, AskUser, CompleteStep, MinorRetry, AllTripped, Replan,
                    StopReplanning, QualityRetry, NoProgress, EvidenceGap
      <3>5. CASE NothingLeft \/ MailGate \/ ConstraintGate \/ Repetition
        BY <3>5 DEF NothingLeft, MailGate, ConstraintGate, Repetition
      <3>6. CASE \E out \in Result, fetched \in BOOLEAN : ExecuteStep(out, fetched)
        <4>1. PICK out \in Result, fetched \in BOOLEAN : ExecuteStep(out, fetched)
          BY <3>6
        <4>2. row' \in {row, StepEvents(Passed(DueId), DueId, out),
                        Reconciled(Passed(DueId), DueId, "running")}
          BY <4>1 DEF ExecuteStep
        <4> HIDE DEF Sound
        <4>3. Sound(Passed(DueId)) /\ Unpaused(Passed(DueId)) /\ Passed(DueId).st = flow.ses.st
          BY <4>1, PassedSound DEF ExecuteStep
        <4>4. Reconciled(Passed(DueId), DueId, "running").st = flow.ses.st
          BY <4>3, PlanSound DEF Reconciled
        <4>5. StepEvents(Passed(DueId), DueId, out).st = flow.ses.st
          BY <4>3, StepEventsSound
        <4>6. flow.at # "none"
          BY <4>1 DEF ExecuteStep
        <4> QED BY <4>2, <4>4, <4>5, <4>6
      <3>7. CASE \/ ReviewApproved \/ ReviewRevise \/ ReviewReject
                 \/ \E ids \in Plans : UpdatePlan(ids)
                 \/ UpdateFailed \/ Summarize \/ Onward
        BY <3>7 DEF ReviewApproved, ReviewRevise, RevisionRecorded, ReviewReject, UpdatePlan,
                    UpdateFailed, Summarize, Onward, Replaced
      <3> QED BY <3>1, <3>2, <3>3, <3>4, <3>5, <3>6, <3>7 DEF Next, FlowStep, Executing
    <2> DEFINE judged == TerminalPlan(flow.ses, flow.plan)
               st == IF Worked(flow.plan) THEN "completed" ELSE "failed"
               s == [judged EXCEPT !.replans = 0, !.st = st]
    <2>2. row' \in {row, judged, s} /\ flow.at # "none"
      BY <2>1 DEF CompleteRun
    <2>3. judged.st = flow.ses.st
      BY DEF TerminalPlan, Sound, SessionFields
    <2>4. flow.plan # NoPlan => s.plan = flow.plan
      BY DEF TerminalPlan, Sound, SessionFields
    <2>5. s.st = st
      BY DEF TerminalPlan, Sound, SessionFields
    <2> HIDE DEF judged, s
    <2>6. row' = s /\ Worked(flow.plan)
      BY <2>2, <2>3, <2>5
    <2> QED BY <2>4, <2>6 DEF Worked
  <1> HIDE DEF FlowInv
  <1> QED BY <1>1, SpecInv, PTL DEF Spec, CompletedByWork

=============================================================================
