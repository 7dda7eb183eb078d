---------------------------- MODULE PlanActFlow ----------------------------
(***************************************************************************)
(* A plan-act flow (weebot/application/flows/plan_act_flow.py): the loop   *)
(* of states of one session, run after run, over the session's row.        *)
(*                                                                         *)
(* One action is what a state does in one pass of the loop.  A step is two *)
(* actions: the command that runs it and saves its events, and the         *)
(* decision that follows.  The flow keeps its plan and its session in      *)
(* memory; handlers read the plan from the row, which holds what was       *)
(* emitted and saved.  What a model, a planner or a human answers is any   *)
(* of the answers the code tells apart.                                    *)
(***************************************************************************)
EXTENDS Naturals, Sequences, FiniteSets

CONSTANTS
  Id,          \* step ids; they are positional, so plans share them
  NoPlan,      \* get_last_plan() is None
  Plans,       \* id sequences a planner may return
  Edits,       \* id sequences a user's edited plan file may hold
  Risky,       \* ids of steps that contradict a stated constraint
  Fetching,    \* ids of steps that may read an inbox
  Callers,     \* who runs the flow: "server", "cli" (flow run), "resume" (flow resume)
  Modes,       \* execution_mode is AUTO, per run
  MaxIter,     \* _max_iterations
  MaxRepeat,   \* _max_step_repetitions
  MaxReplans,  \* MAX_REPLANS_WITHOUT_PROGRESS
  MaxRuns,     \* BOUND: runs of the session
  Faults,      \* the faults of a behaviour: "save", "crash"
  MaxFaults    \* BOUND: how many

ASSUME BoundAssumption == /\ MaxIter \in Nat /\ MaxRepeat \in Nat /\ MaxReplans \in Nat
                          /\ MaxRuns \in Nat /\ MaxFaults \in Nat
ASSUME ModeAssumption == Modes \subseteq BOOLEAN
ASSUME CallerAssumption == Callers \subseteq {"server", "cli", "resume"}
ASSUME StepsAssumption == Plans \subseteq Seq(Id) /\ Edits \subseteq Seq(Id)

VARIABLES
  row,    \* the session's row
  flow,   \* the flow object of the run there is
  asked,  \* the question the user was last shown and has not answered
  cancel, \* the session's cancel marker
  streak, \* history: failed steps answered by a replan since the last completed step
  faults, \* faults spent
  runs    \* runs begun

vars == <<row, flow, asked, cancel, streak, faults, runs>>

StepStatus == {"pending", "running", "completed", "replaced", "failed", "unverified"}

\* is_done(); "replaced" is COMPLETED with the result REPLACED_BY_PLAN_UPDATE.
Done == {"completed", "replaced", "failed"}

Step == [id : Id, st : StepStatus, retry : Nat]

ASSUME PlanAssumption == NoPlan \notin Seq(Step)

Plan == Seq(Step) \cup {NoPlan}

Gate == {"none", "mail", "constraint", "tool"}

Session ==
  [st : {"pending", "running", "waiting", "completed", "failed"},
   plan : Plan,                 \* get_last_plan()
   gate : Gate,                 \* _user_gate_pending
   review : BOOLEAN,            \* plan_pending_approval
   mail : BOOLEAN,              \* atomic_mail_inbound_pending
   acks : SUBSET Id,            \* constraint_gate_ack:<id>
   replans : Nat,               \* _replans_without_progress
   unread : BOOLEAN,            \* history: inbox content nobody has approved
   agreed : SUBSET Id,          \* history: risky steps of this plan the user said yes to
   carried : SUBSET Id]         \* history: ids passed by AUTO, or agreed in a plan since replaced

\* States of the loop; "stepped" is ExecutingState with the step's result at hand.
LoopState == {"planning", "critiquing", "premortem", "reviewing_plan", "executing",
              "updating", "reviewing", "summarizing", "meta", "verifying", "completed"}

Result == {"none", "refused", "raised", "done", "failed", "tripped",
           "asked", "approval", "floor", "aborted"}

Flow == [at : LoopState \cup {"none", "stepped", "over"},
         caller : {"none", "server", "cli", "resume"}, auto : BOOLEAN,
         plan : Plan, ses : Session, iter : 0..(MaxIter + 1),
         counts : [Id -> 0..MaxRepeat],   \* _step_execution_counts
         step : Id \cup {"none"},         \* the step being run or reviewed
         out : Result]                    \* what its command returned

Question == {"none", "mail", "constraint", "review", "intent", "budget", "step"}

TypeOK ==
  /\ row \in Session
  /\ flow \in Flow
  /\ asked \in Question
  /\ cancel \in BOOLEAN
  /\ streak \in Nat
  /\ faults \in 0..MaxFaults
  /\ runs \in 0..MaxRuns

NewSession ==
  [st |-> "pending", plan |-> NoPlan, gate |-> "none", review |-> FALSE, mail |-> FALSE,
   acks |-> {}, replans |-> 0, unread |-> FALSE,
   agreed |-> {}, carried |-> {}]

NoFlow ==
  [at |-> "none", caller |-> "none", auto |-> FALSE, plan |-> NoPlan, ses |-> NewSession,
   iter |-> 0, counts |-> [i \in Id |-> 0], step |-> "none", out |-> "none"]

Init ==
  /\ row = NewSession
  /\ flow = NoFlow
  /\ asked = "none"
  /\ cancel = FALSE
  /\ streak = 0
  /\ faults = 0
  /\ runs = 0

Fault(kind) == kind \in Faults /\ faults < MaxFaults /\ faults' = faults + 1

NoFault == UNCHANGED faults

-----------------------------------------------------------------------------
(* Plan, get_last_plan *)

Fresh(id) == [id |-> id, st |-> "pending", retry |-> 0]

FreshPlan(ids) == [i \in DOMAIN ids |-> Fresh(ids[i])]

Ids(p) == {p[i].id : i \in DOMAIN p}

Open(p) == {i \in DOMAIN p : p[i].st \notin Done}

\* get_next_step, when there is one.
NextStep(p) == p[CHOOSE i \in Open(p) : \A j \in Open(p) : i <= j]

\* replace_step, update_step_status: by id.
Put(p, id, new) ==
  [i \in DOMAIN p |-> IF p[i].id = id THEN new ELSE p[i]]

Mark(p, id, st) ==
  [i \in DOMAIN p |-> IF p[i].id = id THEN [p[i] EXCEPT !.st = st] ELSE p[i]]

\* A StepEvent after the last PlanEvent moves the status get_last_plan() returns.
Reconciled(s, id, st) == IF s.plan = NoPlan THEN s ELSE [s EXCEPT !.plan = Mark(s.plan, id, st)]

\* is_complete
Complete(p) == p # <<>> /\ Open(p) = {}

\* outcome() is SUCCEEDED
Succeeded(p) == p = NoPlan \/ \A i \in DOMAIN p : p[i].st \in {"completed", "replaced"}

\* The elements of q that are in S, in their order.
Only(q, S) ==
  LET taken[n \in 0..Len(q)] ==
        IF n = 0 THEN <<>>
        ELSE IF q[n] \in S THEN Append(taken[n - 1], q[n]) ELSE taken[n - 1]
  IN  taken[Len(q)]

\* merge: what was done or unverified stays, new ids follow.
Merge(p, ids) ==
  LET retained == Only(p, {s \in Step : s.st \in Done \cup {"unverified"}})
      fresh    == Only(ids, Id \ Ids(retained))
  IN  retained \o FreshPlan(fresh)

\* _apply_plan_file: unchanged steps keep what they are.
Edited(p, ids) ==
  [i \in DOMAIN ids |->
     IF ids[i] \in Ids(p) THEN CHOOSE s \in {p[j] : j \in DOMAIN p} : s.id = ids[i]
                          ELSE Fresh(ids[i])]

\* The ids of the steps a merge keeps.
Retained(p) == {s.id : s \in {p[i] : i \in {j \in DOMAIN p : p[j].st \in Done \cup {"unverified"}}}}

\* The ids an acknowledgement stands for a yes, or AUTO's pass, to.
Answered(s) == s.agreed \cup s.carried

\* plan takes the place of the session's, and keeps the steps in kept: the acknowledgements
\* stay as they are, by id.
Replaced(s, plan, kept) ==
  [s EXCEPT !.plan = plan, !.agreed = @ \cap kept, !.carried = @ \cup (s.agreed \ kept)]

-----------------------------------------------------------------------------
(* How a run reaches the row *)

\* The CLI leaves its loop at the first question; AUTO ignores it.
Breaks == flow.caller = "cli" /\ ~flow.auto

\* The flow goes on in state at; only a new pass counts.
Goto(at, plan, ses) ==
  flow' = [flow EXCEPT !.at = at, !.plan = plan, !.ses = ses, !.out = "none",
                       !.step = IF at = "reviewing" THEN @ ELSE "none",
                       !.iter = IF flow.at = "stepped" THEN @ ELSE @ + 1]

\* _emit: the session is saved whole; a failed save is a warning.
Emitted(s) ==
  \/ row' = s /\ NoFault
  \/ Fault("save") /\ UNCHANGED row

\* An exception leaves the flow: the server saves it FAILED, the CLI saves nothing.
Raise(s) ==
  IF flow.caller = "server"
    THEN flow' = [flow EXCEPT !.at = "over", !.ses = [s EXCEPT !.st = "failed"]]
    ELSE flow' = NoFlow

\* MUTANT: pause_for_user records the question by the emit alone.
EmitAndShow(s, question) ==
  /\ Emitted(s)
  /\ asked' = question
  /\ IF Breaks THEN flow' = NoFlow
               ELSE flow' = [flow EXCEPT !.at = "over", !.ses = s]

\* pause_flow_for_user and PlanReviewState: WAITING is emitted, then saved for certain,
\* and only then is the question shown.
PauseDurably(s, question) ==
  \/ /\ row' = s
     /\ NoFault
     /\ asked' = question
     /\ IF Breaks THEN flow' = NoFlow
                  ELSE flow' = [flow EXCEPT !.at = "over", !.ses = s]
  \/ /\ Fault("save")
     /\ row' \in {row, s}
     /\ Raise(s)
     /\ UNCHANGED asked

Pause(s, question) ==
  /\ PauseDurably([s EXCEPT !.st = "waiting"], question)
  /\ UNCHANGED <<cancel, streak, runs>>

-----------------------------------------------------------------------------
(* FlowRouter.resolve_initial_state, begin_run *)

\* MUTANT: a refused mail gate stays disarmed.
Disarmed(s) == s.mail

\* The gate cleared the fact before it asked: a refusal sets it again.
Rearmed(s) == s.mail \/ s.gate = "mail"

\* MUTANT: acknowledgements survive the plan they were given for.
KeptAcks(s) == s.acks

AcksAfterRefusal(s) == {}

Refused(s) ==
  [s EXCEPT !.gate = "none", !.st = "running", !.mail = Rearmed(s),
            !.acks = AcksAfterRefusal(s), !.agreed = {}, !.carried = {}]

\* The gate's question was answered by an approve token.
Approved(s) ==
  [s EXCEPT !.gate = "none",
            !.unread = @ /\ s.gate # "mail",
            !.agreed = IF s.gate = "constraint" THEN @ \cup (s.acks \ s.carried) ELSE @]

\* MUTANT: the count of replans starts again with the flow.
AwakeAfresh(s) == IF s.st = "waiting" THEN [s EXCEPT !.st = "running", !.replans = 0] ELSE s

\* A waiting session runs again.
Awake(s) == IF s.st = "waiting" THEN [s EXCEPT !.st = "running"] ELSE s

Resumes(s) ==
  s.plan # NoPlan /\ (~Complete(s.plan) \/ s.st = "waiting")

\* reply is the prompt as the router reads it: an approve token, nothing, or other text.
Route(s, reply) ==
  CASE s.review ->
         IF reply \in {"approve", "empty"}
           THEN [at |-> "executing", ses |-> [s EXCEPT !.review = FALSE, !.st = "running"]]
           ELSE [at |-> "planning", ses |-> [s EXCEPT !.review = FALSE, !.st = "running"]]
    [] ~s.review /\ s.gate # "none" /\ reply # "approve" ->
         [at |-> "planning", ses |-> Refused(s)]
    [] OTHER ->
         LET t == IF s.gate = "none" THEN s ELSE Approved(s)
         IN  [at |-> IF Resumes(t) THEN "executing" ELSE "planning", ses |-> Awake(t)]

\* The plan file is read back on approval.
AfterReview(s, reply) ==
  IF s.review /\ reply \in {"approve", "empty"} /\ s.plan # NoPlan
    THEN {s.plan} \cup {Edited(s.plan, ids) : ids \in Edits}
    ELSE {s.plan}

\* The server marks the session RUNNING and saves it; the CLI hands on what it loaded,
\* and resumes only a WAITING session.
Begin(caller, auto, reply) ==
  /\ flow.at = "none"
  /\ runs < MaxRuns
  /\ caller = "resume" => row.st = "waiting"
  /\ runs' = runs + 1
  /\ asked' = "none"
  /\ LET started == IF caller = "server" THEN [row EXCEPT !.st = "running"] ELSE row
     IN  \E p \in AfterReview(started, reply) :
           LET routed == Route([started EXCEPT !.plan = p], reply)
               fresh  == [NoFlow EXCEPT !.at = routed.at, !.caller = caller, !.auto = auto,
                                        !.ses = routed.ses]
           IN  IF routed.at = "planning"
                 THEN row' = started /\ flow' = fresh /\ NoFault
                 ELSE \/ /\ row' = routed.ses
                         /\ flow' = [fresh EXCEPT !.plan = p]
                         /\ NoFault
                      \/ /\ Fault("save")   \* begin_run's save raises
                         /\ row' = started
                         /\ flow' = IF caller = "server"
                                      THEN [fresh EXCEPT !.at = "over", !.ses.st = "failed"]
                                      ELSE NoFlow
  /\ UNCHANGED <<cancel, streak>>

-----------------------------------------------------------------------------
(* _run_states: the top of a pass, and the end of a run *)

InLoop == flow.at \in LoopState /\ flow.iter <= MaxIter

\* A pass that reaches its state.
Pass(at) == InLoop /\ flow.at = at /\ ~cancel

\* A state that leaves the session COMPLETED, WAITING or FAILED ends the loop.
Continue(at, plan, ses) ==
  Goto(IF ses.st \in {"completed", "waiting", "failed"} THEN "over" ELSE at, plan, ses)

TakeCancel ==
  /\ InLoop
  /\ cancel
  /\ cancel' = FALSE
  /\ LET s == [flow.ses EXCEPT !.st = "failed"]
     IN  Emitted(s) /\ flow' = [flow EXCEPT !.at = "over", !.ses = s]
  /\ UNCHANGED <<asked, streak, runs>>

PassesSpent ==
  /\ flow.at \in LoopState
  /\ flow.iter > MaxIter
  /\ flow' = [flow EXCEPT !.at = "over"]
  /\ UNCHANGED <<row, asked, cancel, streak, faults, runs>>

\* enforce_budget: WAITING in memory, the approval card emitted, the question shown.
BudgetPause ==
  /\ InLoop
  /\ ~cancel
  /\ LET s == [flow.ses EXCEPT !.st = "waiting"]
     IN  /\ Emitted(s)
         /\ flow' = IF Breaks THEN NoFlow ELSE [flow EXCEPT !.at = "over", !.ses = s]
  /\ asked' = "budget"
  /\ UNCHANGED <<cancel, streak, runs>>

\* The caller saves what the flow left: a session left mid-loop waits.
Settled(s) ==
  IF s.st \in {"completed", "failed", "waiting"} THEN s ELSE [s EXCEPT !.st = "waiting"]

EndRun ==
  /\ flow.at = "over"
  /\ flow' = NoFlow
  /\ Emitted(Settled(flow.ses))
  /\ UNCHANGED <<asked, cancel, streak, runs>>

\* The process is lost; the row stays.
Crash ==
  /\ flow.at # "none"
  /\ Fault("crash")
  /\ flow' = NoFlow
  /\ UNCHANGED <<row, asked, cancel, streak, runs>>

\* flow cancel, from any process, at any time.
RequestCancel ==
  /\ ~cancel
  /\ cancel' = TRUE
  /\ runs > 0
  /\ UNCHANGED <<row, flow, asked, streak, faults, runs>>

-----------------------------------------------------------------------------
(* PlanningState, CritiquingState, PremortemState, PlanReviewState *)

\* next_state_after_plan, with or without the plan review feature.
AfterPlan == {"reviewing_plan", "executing"}

\* The question of the intent review could not be saved: WAITING stays in memory, the
\* error is swallowed and planning goes on.
Unasked == [flow.ses EXCEPT !.st = "waiting"]

PlanRefused ==
  /\ Pass("planning")
  /\ Goto("over", flow.plan, [flow.ses EXCEPT !.st = "failed"])
  /\ \/ UNCHANGED row /\ NoFault
     \/ Fault("save") /\ row' \in {row, Unasked}
  /\ UNCHANGED <<asked, cancel, streak, runs>>

\* Intent review says BLOCKED: nothing changes and the loop comes back here.
IntentBlocked ==
  /\ Pass("planning")
  /\ Continue("planning", flow.plan, flow.ses)
  /\ UNCHANGED <<row, asked, cancel, streak, faults, runs>>

IntentQuestion ==
  /\ Pass("planning")
  /\ PauseDurably(Unasked, "intent")
  /\ NoFault
  /\ UNCHANGED <<cancel, streak, runs>>

\* MUTANT: the merged plan is adopted without an event.
KeepCreated(created, plan) == created

\* The plan the session's events hold: the DPPM plan is emitted before it is adopted.
Recorded(created, plan) == plan

\* CreatePlanHandler saves the plan with the row's session; the flow emits it again and
\* may put a merged one (DPPM) in its place.
CreatePlan(ids, merged) ==
  /\ Pass("planning")
  /\ ids = <<>> <=> merged = <<>>
  /\ LET plan    == FreshPlan(merged)
         s       == Replaced(flow.ses, Recorded(FreshPlan(ids), plan), {})
         handled == Replaced(row, FreshPlan(ids), {})
     IN  /\ \/ row' = s /\ NoFault
            \/ Fault("save") /\ row' = handled
         /\ IF ids = <<>>
              THEN Continue("summarizing", plan, s)
              ELSE \E at \in AfterPlan \cup {"critiquing"} : Continue(at, plan, s)
  /\ UNCHANGED <<asked, cancel, streak, runs>>

\* The run ends with a plan, WAITING, and nothing asked.
PlanUnasked(ids) ==
  /\ Pass("planning")
  /\ Fault("save")
  /\ LET s == Replaced(Unasked, FreshPlan(ids), {})
     IN  row' = s /\ Goto("over", FreshPlan(ids), s)
  /\ UNCHANGED <<asked, cancel, streak, runs>>

\* PlanStuckError from _snapshot_plan: the loop is left with the plan just adopted.
PlanStuck(ids) ==
  /\ Pass("planning")
  /\ LET s == Replaced(flow.ses, FreshPlan(ids), {})
     IN  row' = s /\ NoFault /\ Goto("over", FreshPlan(ids), s)
  /\ UNCHANGED <<asked, cancel, streak, runs>>

Critique ==
  /\ Pass("critiquing")
  /\ \E at \in {"premortem", "planning"} : Goto(at, flow.plan, flow.ses)
  /\ UNCHANGED <<row, asked, cancel, streak, faults, runs>>

\* The risk notes go into the plan's message; the changed plan is emitted.
Premortem ==
  /\ Pass("premortem")
  /\ \E s \in {flow.ses, [flow.ses EXCEPT !.plan = flow.plan]}, at \in AfterPlan :
       /\ Goto(at, flow.plan, s)
       /\ Emitted(s) \/ UNCHANGED <<row, faults>>
  /\ UNCHANGED <<asked, cancel, streak, runs>>

SkipReview ==
  /\ Pass("reviewing_plan")
  /\ flow.auto
  /\ Goto("executing", flow.plan, flow.ses)
  /\ UNCHANGED <<row, asked, cancel, streak, faults, runs>>

ReviewPlan ==
  /\ Pass("reviewing_plan")
  /\ ~flow.auto
  /\ Pause([flow.ses EXCEPT !.review = TRUE], "review")

-----------------------------------------------------------------------------
(* ExecutingState: the gates before a step, and its command *)

NothingLeft ==
  /\ Pass("executing")
  /\ Open(flow.plan) = {}
  /\ Continue("verifying", flow.plan, flow.ses)
  /\ UNCHANGED <<row, asked, cancel, streak, faults, runs>>

\* _constraint_violations, for a step not acknowledged yet.
Violates(id) == id \in Risky /\ id \notin flow.ses.acks

\* There is a step to look at, this one.
StepDue == Pass("executing") /\ Open(flow.plan) # {}

DueId == NextStep(flow.plan).id

MailGate ==
  /\ StepDue
  /\ flow.ses.mail
  /\ ~flow.auto
  /\ Pause([flow.ses EXCEPT !.mail = FALSE, !.gate = "mail"], "mail")

\* The acknowledgement is written when the question is asked.
ConstraintGate ==
  /\ StepDue
  /\ ~flow.ses.mail
  /\ Violates(DueId)
  /\ ~flow.auto
  /\ Pause([flow.ses EXCEPT !.acks = @ \cup {DueId}, !.gate = "constraint"], "constraint")

\* AUTO clears and acknowledges without asking.
Passed(id) ==
  IF flow.auto
    THEN [flow.ses EXCEPT !.mail = FALSE, !.unread = FALSE,
                          !.acks = IF id \in Risky THEN @ \cup {id} ELSE @,
                          !.carried = IF Violates(id) THEN @ \cup {id} ELSE @]
    ELSE flow.ses

GatesOpen(id) == flow.auto \/ (~flow.ses.mail /\ ~Violates(id))

\* MUTANT: one repetition too many.
OnceMore(id) == flow.counts[id] > MaxRepeat

TooOften(id) == flow.counts[id] + 1 > MaxRepeat

\* _repetition_gate: the run is verified as it stands.
Repetition ==
  /\ StepDue
  /\ GatesOpen(DueId)
  /\ TooOften(DueId)
  /\ Goto("verifying", flow.plan, Passed(DueId))
  /\ UNCHANGED <<row, asked, cancel, streak, faults, runs>>

\* ExecuteStepHandler refuses a step the saved plan does not have, or has done.
Refuses(id) ==
  \/ row.plan = NoPlan
  \/ \A i \in DOMAIN row.plan : row.plan[i].id = id => row.plan[i].st \in Done

\* The events of a step that ran: its last StepEvent, the question's flag.
StepEvents(s, id, out) ==
  LET st == CASE out \in {"done"} -> "completed"
              [] out \in {"failed", "tripped", "aborted"} -> "failed"
              [] OTHER -> "running"
  IN  [Reconciled(s, id, st) EXCEPT !.gate = IF out \in {"approval", "floor"} THEN "tool" ELSE @]

\* What a step may come back with; AUTO grants what a human need not grant.
Results(id) ==
  IF Refuses(id) THEN {"refused"}
  ELSE {"raised", "done", "failed", "tripped", "asked", "floor", "aborted"}
       \cup (IF flow.auto THEN {} ELSE {"approval"})

\* run_step_command: the step is RUNNING in the flow's plan, the handler runs it against
\* the saved one, its events are emitted and saved, and only then is the mail fact set.
\* A lost save is that of the last event.
ExecuteStep(out, fetched) ==
  /\ StepDue
  /\ GatesOpen(DueId)
  /\ ~TooOften(DueId)
  /\ out \in Results(DueId)
  /\ fetched => DueId \in Fetching /\ out \notin {"refused", "raised"}
  /\ LET before == Passed(DueId)
         s      == StepEvents(before, DueId, out)
     IN  /\ IF out \in {"refused", "raised"}
              THEN UNCHANGED row /\ NoFault
              ELSE \/ row' = s /\ NoFault
                   \/ Fault("save") /\ row' = Reconciled(before, DueId, "running")
         /\ flow' = [flow EXCEPT
              !.at = "stepped",
              !.plan = Mark(@, DueId, "running"),
              !.ses = IF out \in {"refused", "raised"} THEN before
                      ELSE [s EXCEPT !.mail = @ \/ fetched, !.unread = @ \/ fetched],
              !.iter = @ + 1,
              !.counts[DueId] = @ + 1,
              !.step = DueId,
              !.out = out]
  /\ UNCHANGED <<asked, cancel, streak, runs>>

-----------------------------------------------------------------------------
(* ExecutingState: what follows a step *)

Stepped(out) == flow.at = "stepped" /\ flow.out = out

\* The step as it was before it ran, with its retry count.
Ran == CHOOSE s \in {flow.plan[i] : i \in DOMAIN flow.plan} : s.id = flow.step

Rejected ==
  /\ Stepped("refused") \/ Stepped("raised")
  /\ Goto("updating", flow.plan, flow.ses)
  /\ UNCHANGED <<row, asked, cancel, streak, faults, runs>>

Paused == flow.at = "stepped" /\ flow.out \in {"asked", "approval", "floor", "aborted"}

\* pause_for_human: the question is out before WAITING is set, and WAITING is set in memory.
AskUser ==
  /\ Paused
  /\ ~flow.auto
  /\ asked' = "step"
  /\ IF Breaks THEN flow' = NoFlow
               ELSE Goto("over", flow.plan, [flow.ses EXCEPT !.st = "waiting"])
  /\ UNCHANGED <<row, cancel, streak, faults, runs>>

ReplansReset(s) == [s EXCEPT !.replans = 0]

\* complete_step, next_transition; a code step is reviewed while it has retries left.
CompleteStep ==
  /\ Stepped("done") \/ (Paused /\ flow.auto)
  /\ LET plan == Mark(flow.plan, flow.step, "completed")
         to   == IF Open(plan) = {} THEN {"verifying"}
                 ELSE {"executing"} \cup {x \in {"reviewing"} : Ran.retry < 2}
     IN  \E at \in to : Continue(at, plan, ReplansReset(flow.ses))
  /\ streak' = 0
  /\ UNCHANGED <<row, asked, cancel, faults, runs>>

\* A retry the plan in memory asks for.
Again == Put(flow.plan, flow.step, [Ran EXCEPT !.st = "pending", !.retry = @ + 1])

MinorRetry ==
  /\ Stepped("failed")
  /\ Ran.retry < 1
  /\ Continue("executing", Again, flow.ses)
  /\ UNCHANGED <<row, asked, cancel, streak, faults, runs>>

AllTripped ==
  /\ Stepped("tripped")
  /\ Continue("verifying", Mark(flow.plan, flow.step, "unverified"), flow.ses)
  /\ UNCHANGED <<row, asked, cancel, streak, faults, runs>>

\* replans + 1, from the session
Replans == flow.ses.replans + 1

Replan ==
  /\ Stepped("failed")
  /\ Replans <= MaxReplans
  /\ \E at \in {"planning", "updating"} :
       Continue(at, flow.plan, [flow.ses EXCEPT !.replans = Replans])
  /\ streak' = streak + 1
  /\ UNCHANGED <<row, asked, cancel, faults, runs>>

\* Too many in a row: the step fails and the run is verified as it stands.
StopReplanning ==
  /\ Stepped("failed")
  /\ Replans > MaxReplans
  /\ Continue("verifying", Mark(flow.plan, flow.step, "failed"), ReplansReset(flow.ses))
  /\ streak' = 0
  /\ UNCHANGED <<row, asked, cancel, faults, runs>>

QualityRetry ==
  /\ Stepped("done")
  /\ ~flow.auto
  /\ Ran.retry < 1
  /\ Continue("executing", Again, flow.ses)
  /\ UNCHANGED <<row, asked, cancel, streak, faults, runs>>

NoProgress ==
  /\ Stepped("done")
  /\ ~flow.auto
  /\ Continue("updating", flow.plan, flow.ses)
  /\ UNCHANGED <<row, asked, cancel, streak, faults, runs>>

\* The evidence gate emits the plan it changed.
EvidenceGap ==
  /\ Stepped("done")
  /\ LET retry == Ran.retry < 1
         plan  == IF retry THEN Again ELSE Mark(flow.plan, flow.step, "unverified")
         s     == [flow.ses EXCEPT !.plan = plan]
     IN  /\ Emitted(s)
         /\ Continue(IF retry THEN "executing" ELSE "updating", plan, s)
  /\ UNCHANGED <<asked, cancel, streak, runs>>

-----------------------------------------------------------------------------
(* ReviewingState, UpdatingState *)

ReviewApproved ==
  /\ Pass("reviewing")
  /\ Goto("executing", flow.plan, flow.ses)
  /\ UNCHANGED <<row, asked, cancel, streak, faults, runs>>

RevisionRecorded(s, plan) == [s EXCEPT !.plan = plan]

\* A revised step runs again: the plan that says so is emitted.
ReviewRevise ==
  /\ Pass("reviewing")
  /\ Ran.retry < 2
  /\ LET s == RevisionRecorded(flow.ses, Again)
     IN  Emitted(s) /\ Goto("executing", Again, s)
  /\ UNCHANGED <<asked, cancel, streak, runs>>

ReviewReject ==
  /\ Pass("reviewing")
  /\ Ran.retry < 2
  /\ Goto("updating", Mark(flow.plan, flow.step, "failed"), flow.ses)
  /\ UNCHANGED <<row, asked, cancel, streak, faults, runs>>

\* The step an update is about: the last one that ran, or the first.
LastStep ==
  LET ran == {i \in DOMAIN flow.plan :
                flow.plan[i].st \in {"completed", "replaced", "failed", "running"}}
  IN  IF ran = {} THEN flow.plan[1]
      ELSE flow.plan[CHOOSE i \in ran : \A j \in ran : j <= i]

\* _leave_unhandled
Unhandled(p) == IF LastStep.st \in Done THEN p ELSE Mark(p, LastStep.id, "failed")

\* Statuses an update that produced a plan stands in for.
HandledStatus == {"failed", "running"}

Handled(p) ==
  IF LastStep.st \in HandledStatus THEN Mark(p, LastStep.id, "replaced") ELSE p

\* UpdatePlanHandler merges into the plan of the row, saves it there, and the flow adopts
\* and emits what came back; the step's own status is changed in memory only.
UpdatePlan(ids) ==
  /\ Pass("updating")
  /\ row.plan # NoPlan
  /\ LastStep.id \in Ids(row.plan)
  /\ LET merged == Merge(row.plan, ids)
         kept   == Retained(row.plan)
         s      == Replaced(flow.ses, merged, kept)
     IN  /\ \/ row' = s /\ NoFault
            \/ Fault("save") /\ row' = Replaced(row, merged, kept)
         /\ \E at \in {"executing", "over"} :   \* over: PlanStuckError
              Continue(at, Handled(merged), s)
  /\ UNCHANGED <<asked, cancel, streak, runs>>

\* The command is rejected, or the planner returned no plan: the step stays failed.
UpdateFailed ==
  /\ Pass("updating")
  /\ Continue("executing", Unhandled(flow.plan), flow.ses)
  /\ UNCHANGED <<row, asked, cancel, streak, faults, runs>>

-----------------------------------------------------------------------------
(* SummarizingState, MetaAnalysisState, VerifyingState, CompletedState *)

Summarize ==
  /\ Pass("summarizing")
  /\ Emitted(flow.ses)
  /\ Continue("meta", flow.plan, flow.ses)
  /\ UNCHANGED <<asked, cancel, streak, runs>>

Onward ==
  /\ \E at \in {"meta", "verifying"} :
       /\ Pass(at)
       /\ Continue(IF at = "meta" THEN "verifying" ELSE "completed", flow.plan, flow.ses)
  /\ UNCHANGED <<row, asked, cancel, streak, faults, runs>>

\* MUTANT: every plan that ran out of steps is a success.
RanOut(p) == p = NoPlan \/ Open(p) = {}

Worked(p) == Succeeded(p)

TerminalPlan(s, plan) == IF plan = NoPlan THEN s ELSE [s EXCEPT !.plan = plan]

\* The verdict is the plan's in memory: it is emitted, then saved for certain.  A budget or
\* a termination condition may bring any pass here.
CompleteRun ==
  /\ InLoop
  /\ ~cancel
  /\ LET judged == TerminalPlan(flow.ses, flow.plan)
         s      == [judged EXCEPT !.replans = 0,
                                  !.st = IF Worked(flow.plan) THEN "completed" ELSE "failed"]
     IN  \/ /\ row' = s
            /\ NoFault
            /\ flow' = [flow EXCEPT !.at = "over", !.ses = s]
         \/ /\ Fault("save")
            /\ row' \in {row, judged}
            /\ Raise(s)
  /\ streak' = 0
  /\ UNCHANGED <<asked, cancel, runs>>

-----------------------------------------------------------------------------

AfterStep ==
  \/ Rejected \/ AskUser \/ CompleteStep \/ MinorRetry \/ AllTripped
  \/ Replan \/ StopReplanning \/ QualityRetry \/ NoProgress \/ EvidenceGap

Planning ==
  \/ PlanRefused \/ IntentBlocked \/ IntentQuestion
  \/ \E ids, merged \in Plans : CreatePlan(ids, merged)
  \/ \E ids \in Plans : PlanUnasked(ids)
  \/ \E ids \in Plans \ {<<>>} : PlanStuck(ids)
  \/ Critique \/ Premortem \/ SkipReview \/ ReviewPlan

Executing ==
  \/ NothingLeft \/ MailGate \/ ConstraintGate \/ Repetition
  \/ \E out \in Result, fetched \in BOOLEAN : ExecuteStep(out, fetched)

\* What the flow does by itself.
FlowStep ==
  \/ TakeCancel \/ PassesSpent \/ EndRun
  \/ Planning \/ Executing \/ AfterStep
  \/ ReviewApproved \/ ReviewRevise \/ ReviewReject
  \/ \E ids \in Plans : UpdatePlan(ids)
  \/ UpdateFailed \/ Summarize \/ Onward \/ BudgetPause \/ CompleteRun

Reply == {"approve", "empty", "other"}

Next ==
  \/ \E caller \in Callers, auto \in Modes, reply \in Reply : Begin(caller, auto, reply)
  \/ FlowStep
  \/ RequestCancel
  \/ Crash

Spec == Init /\ [][Next]_vars

-----------------------------------------------------------------------------
(* Properties *)

\* A step begins to run.
Runs == flow.at = "executing" /\ flow'.at = "stepped"

\* Inbox content is not acted on before a human approved it: from the step that fetched it,
\* no step runs until the mail gate's question was answered "approve", over refusals,
\* replans, pauses and later runs alike.  AUTO is exempt, and so is what a crash makes the
\* flow forget: the fact is set after the step's events were saved.  (_inbound_mail_gate,
\* FlowRouter.)
MailReviewed == [][Runs => flow.auto \/ ~flow.ses.unread]_vars

\* A step against a stated constraint runs only under an answer: the acknowledgement written
\* when its question is asked counts once the gate was approved, or in AUTO, and a refusal
\* withdraws every one, over replans, pauses and later runs.  It is kept by id, so the answer
\* may have been to a step of an earlier plan.  (_constraint_gate, FlowRouter.)
RiskyAnswered == [][Runs /\ flow'.step \in Risky => flow'.step \in Answered(flow'.ses)]_vars

\* In a run that is not AUTO, a step against a stated constraint runs on a yes to that step
\* and not to one of the same id in a plan since replaced.  (flow_router.py: acknowledgements
\* must not survive into the plan that replaces theirs.)
AcksKeptToPlan ==
  [][Runs /\ ~flow.auto /\ flow'.step \in Risky => flow'.step \in flow'.ses.agreed]_vars

\* Failing steps are replanned at most MaxReplans times in a row, across pauses, resumes and
\* new runs of the session; a fault may cost one count.  (route_failure, set_replans.)
ReplansBounded == streak <= MaxReplans + faults

\* A gate's question is shown only when the row holds what its answer needs: WAITING and the
\* gate's flag, whatever saves were lost.  (pause_flow_for_user, PlanReviewState.)
PausedIsSaved ==
  /\ asked \in {"mail", "constraint", "review"} => row.st = "waiting"
  /\ asked \in {"mail", "constraint"} => row.gate = asked
  /\ asked = "review" => row.review

\* The plan shown for review is the one the resume will run: the row's.  (F36:
\* PlanningState's DPPM event.)
ReviewedIsSaved == [][asked' = "review" /\ asked # "review" => row'.plan = flow.plan]_vars

\* A run that has a plan makes its session COMPLETED only with a saved plan in which no step
\* failed or was left, though "handled" steps are so in memory only.  (CompletedState.)
CompletedByWork ==
  [][row.st # "completed" /\ row'.st = "completed"
       => flow.plan = NoPlan \/ Succeeded(row'.plan)]_vars

\* A step's own question leaves a session the answer can resume.  (user_pause.py: WAITING must
\* be in the database before the caller yields.)
AskedIsResumable == asked = "step" /\ flow.at = "none" => row.st = "waiting"
=============================================================================
