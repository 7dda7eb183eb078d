----------------------------- MODULE TaskRunner -----------------------------
(***************************************************************************)
(* The session life cycle of weebot: TaskRunner                            *)
(* (weebot/application/services/task_runner.py) runs each session's flow   *)
(* as an asyncio task, the web handlers and use cases that call it act on  *)
(* the copy of the session they loaded, and both write the session's row   *)
(* in the state repository with whole-row upserts.                         *)
(*                                                                         *)
(* One step of this module is the code a coroutine runs between two        *)
(* suspension points (await).  A write is given to the step that resumes   *)
(* from it: the value was computed by the step before, so anything may     *)
(* happen between the two.                                                 *)
(***************************************************************************)
EXTENDS Integers, FiniteSets

CONSTANTS
  Session,     \* session ids
  Run,         \* identities for asyncio tasks; one is reused when it is free
  Client,      \* concurrent requests (web handlers, CLI commands)
  NoRun,       \* no task in TaskRunner._tasks
  NoClient,    \* the session's lock is free
  MaxSlots,    \* max_concurrent_flows
  MaxRetries,  \* max_session_retries
  Owns,        \* the flow persists its own session (_owns_persistence)
  Ops,         \* the operations the clients use
  Faults,      \* the kinds of fault that may happen
  MaxFaults    \* BOUND: how many faults happen in a behaviour

OpNames == {"run", "dispatch", "resume", "resume_mode", "restore", "cancel",
            "delete", "rerun"}
FaultNames == {"save", "factory", "crash"}

ASSUME SessionAssumption == Session # {}
ASSUME SlotsAssumption   == MaxSlots \in Nat \ {0}
ASSUME RetriesAssumption == MaxRetries \in Nat
ASSUME RunAssumption     == NoRun \notin Run
ASSUME ClientAssumption  == NoClient \notin Client
ASSUME ModeAssumption    == /\ Owns \in BOOLEAN
                            /\ Ops \subseteq OpNames
                            /\ Faults \subseteq FaultNames
                            /\ MaxFaults \in Nat

VARIABLES
  row,     \* the sessions table: status and context.extra["retries_remaining"]
  tasks,   \* TaskRunner._tasks
  budget,  \* TaskRunner._retries: the retries left, or NoBudget
  lock,    \* TaskRunner._session_locks: who holds the session's lock
  pc,      \* where each task is suspended
  run,     \* each task's locals
  cpc,     \* where each request is suspended
  req,     \* each request's locals
  up,      \* the server has finished its startup
  faults   \* the faults that happened so far

vars == <<row, tasks, budget, lock, pc, run, cpc, req, up, faults>>

-----------------------------------------------------------------------------
(* Session values *)

Status == {"PENDING", "RUNNING", "WAITING", "COMPLETED", "FAILED"}

\* What the two copies of a session are compared by here: the status, the
\* retry count kept with it, and whether the row exists.
Copy == [st : Status, left : 0..MaxRetries]
Gone == [st |-> "GONE", left |-> 0]
Row  == Copy \cup {Gone}

NoBudget == -1

RunPC == {"free", "slot", "load", "flow", "pausing", "closing", "spending",
          "sleeping", "relaunching", "respawning", "burying", "tolling", "teardown", "done"}

ClientPC == {"idle", "ready", "queued", "answer", "answering", "starting",
             "spawning", "joining", "marking", "settling", "removing"}

\* What a request starts a task for; only start_session looks at _tasks for all of it.
Via == {"start", "answer", "restore", "rerun"}

RunLocals == [sid : Session, view : Copy, kill : BOOLEAN, ref : BOOLEAN,
              ans : BOOLEAN,     \* history: it runs an answer
              loose : BOOLEAN]   \* history: see Overtaken
Request   == [sid : Session, copy : Copy, via : Via, del : BOOLEAN,
              on : Run \cup {NoRun}]

TypeOK ==
  /\ row \in [Session -> Row]
  /\ tasks \in [Session -> Run \cup {NoRun}]
  /\ budget \in [Session -> NoBudget..MaxRetries]
  /\ lock \in [Session -> Client \cup {NoClient}]
  /\ pc \in [Run -> RunPC]
  /\ run \in [Run -> RunLocals]
  /\ cpc \in [Client -> ClientPC]
  /\ req \in [Client -> Request]
  /\ up \in BOOLEAN
  /\ faults \in 0..MaxFaults

\* The suspension points at which a task holds one of the flow slots.
Holding == RunPC \ {"free", "slot", "done"}

\* A task that has not finished (asyncio.Task.done() is false).
Live == RunPC \ {"free", "done"}

\* The suspension points after which a task may still write the row.
Writing == Live \ {"tolling", "teardown"}

-----------------------------------------------------------------------------
(* Initial state: the sessions exist and have never run. *)

NewCopy == [st |-> "PENDING", left |-> MaxRetries]

\* The locals of an identity that no task or request uses.
NoTask    == [sid |-> CHOOSE s \in Session : TRUE, view |-> NewCopy, kill |-> FALSE,
              ref |-> FALSE, ans |-> FALSE, loose |-> FALSE]
NoRequest == [sid |-> CHOOSE s \in Session : TRUE, copy |-> NewCopy, via |-> "start",
              del |-> FALSE, on |-> NoRun]

Init ==
  /\ row = [s \in Session |-> NewCopy]
  /\ tasks = [s \in Session |-> NoRun]
  /\ budget = [s \in Session |-> NoBudget]
  /\ lock = [s \in Session |-> NoClient]
  /\ pc = [r \in Run |-> "free"]
  /\ run = [r \in Run |-> NoTask]
  /\ cpc = [c \in Client |-> "idle"]
  /\ req = [c \in Client |-> NoRequest]
  /\ up = TRUE
  /\ faults = 0

-----------------------------------------------------------------------------
(* Building blocks *)

Sid(r) == run[r].sid

Fault(kind) == kind \in Faults /\ faults < MaxFaults /\ faults' = faults + 1
NoFault     == UNCHANGED faults

\* save_session: an upsert of the whole row.
Save(s, copy) == row' = [row EXCEPT ![s] = copy]

Goto(r, at)        == pc' = [pc EXCEPT ![r] = at]
GotoWith(r, at, l) == Goto(r, at) /\ run' = [run EXCEPT ![r] = l]

\* The task goes on to the finally block: its locals are not used any more.
Leave(r) == GotoWith(r, "teardown", [NoTask EXCEPT !.sid = Sid(r)])

\* A step of task r from suspension point at: a cancelled task takes none of
\* these, the next thing it sees is CancelledError (Cancelled below).
At(r, at) == pc[r] = at /\ ~run[r].kill

\* MUTANT: start_session without its refusal.
NeverRunning(s) == FALSE

\* The tracked task of s that has not finished, the refusal of start_session.
Running(s) == tasks[s] # NoRun /\ pc[tasks[s]] # "done"

\* The end of _start_direct, no await in it: the retry state is created when
\* the session has none (otherwise its count is kept), the task is created and
\* becomes the tracked one.  pcs and locals are pc and run after
\* the caller's own step.
Launch(s, copy, answers, loose, pcs, locals) ==
  \E n \in Run :
    /\ pcs[n] = "free"
    /\ pc' = [pcs EXCEPT ![n] = "slot"]
    /\ run' = [locals EXCEPT ![n] = [sid |-> s, view |-> copy, kill |-> FALSE,
                                     ref |-> FALSE, ans |-> answers, loose |-> loose]]
    /\ tasks' = [tasks EXCEPT ![s] = n]

\* History: the tracked task of s is replaced in _tasks by one that was started
\* without looking at it.
Overtaken(s) ==
  [q \in Run |-> IF q = tasks[s] THEN [run[q] EXCEPT !.loose = TRUE] ELSE run[q]]

\* MUTANT: every start takes the count its copy carries.
FreshRetryState(s, copy) == budget' = [budget EXCEPT ![s] = copy.left]

RetryState(s, copy) ==
  budget' = [budget EXCEPT ![s] = IF @ = NoBudget THEN copy.left ELSE @]

-----------------------------------------------------------------------------
(* The task: _run_flow_bounded and _run_flow_logged *)

\* The flow slot: an asyncio.Semaphore taken inside the task.
TakeSlot(r) ==
  /\ At(r, "slot")
  /\ Cardinality({q \in Run : pc[q] \in Holding}) < MaxSlots
  /\ Goto(r, "load")
  /\ UNCHANGED <<row, tasks, budget, lock, run, cpc, req, up, faults>>

\* load_session: nothing to run when the row is gone.  A flow that owns its
\* persistence keeps the copy it was built from; the runner's own copy is the
\* one just read.
LoadRow(r) ==
  /\ At(r, "load")
  /\ IF row[Sid(r)] = Gone
       THEN Goto(r, "done") /\ UNCHANGED run
       ELSE GotoWith(r, "flow", IF Owns THEN run[r]
                                ELSE [run[r] EXCEPT !.view = row[Sid(r)]])
  /\ UNCHANGED <<row, tasks, budget, lock, cpc, req, up, faults>>

\* MUTANT: the remaining attempts are not looked at.
RetriesUnbounded(s) == TRUE

HasRetry(s) == budget[s] # NoBudget /\ budget[s] > 0

\* The except branch of _run_flow_logged up to its first await: a retry is
\* taken from the session's budget, or the session is to be marked FAILED.
Raise(r) ==
  LET s == Sid(r)
      here == [run[r] EXCEPT !.ref = budget[s] # NoBudget]
  IN IF HasRetry(s)
       THEN /\ budget' = [budget EXCEPT ![s] = @ - 1]
            /\ GotoWith(r, "spending", [here EXCEPT !.view.left = budget[s] - 1])
       ELSE /\ UNCHANGED budget
            /\ GotoWith(r, "burying",
                        [here EXCEPT !.view = [st |-> "FAILED", left |-> 0]])

\* An event: the flow's publisher (or the runner, for a flow that does not
\* persist itself) saves the whole session from its own copy.
SaveEvent(r) ==
  /\ At(r, "flow")
  /\ Save(Sid(r), run[r].view)
  /\ UNCHANGED <<tasks, budget, lock, pc, run, cpc, req, up, faults>>

FlowRaises(r) ==
  /\ At(r, "flow")
  /\ Raise(r)
  /\ UNCHANGED <<row, tasks, lock, cpc, req, up, faults>>

\* A gate pauses the flow for its user: WAITING is saved before the flow
\* yields, so the caller may resume while this task has not ended yet.
PauseFlow(r) ==
  /\ Owns
  /\ At(r, "flow")
  /\ LET paused == [run[r].view EXCEPT !.st = "WAITING"]
     IN /\ Save(Sid(r), paused)
        /\ GotoWith(r, "pausing", [run[r] EXCEPT !.view = paused])
  /\ UNCHANGED <<tasks, budget, lock, cpc, req, up, faults>>

\* ...and saved once more, authoritatively, from the same copy; a failure of
\* this save is an exception of the flow.
SavePause(r) ==
  /\ At(r, "pausing")
  /\ \/ /\ Save(Sid(r), run[r].view) /\ Goto(r, "closing")
        /\ NoFault /\ UNCHANGED <<budget, run>>
     \/ /\ Fault("save") /\ Raise(r) /\ UNCHANGED row
  /\ UNCHANGED <<tasks, lock, cpc, req, up>>

\* The flow's run ends and the runner derives the final status: COMPLETED,
\* FAILED or (any other end) WAITING.  An owning flow may have saved a terminal
\* status itself just before.
FlowEnds(r) ==
  /\ At(r, "flow")
  /\ \E st \in {"COMPLETED", "FAILED", "WAITING"} :
       LET last == [run[r].view EXCEPT !.st = st]
       IN /\ GotoWith(r, "closing", [run[r] EXCEPT !.view = last])
          /\ \/ UNCHANGED row
             \/ Owns /\ st # "WAITING" /\ Save(Sid(r), last)
  /\ UNCHANGED <<tasks, budget, lock, cpc, req, up, faults>>

\* The runner's one final save; an exception here leaves through the finally.
SaveFinal(r) ==
  /\ At(r, "closing")
  /\ \/ Save(Sid(r), run[r].view) /\ NoFault
     \/ Fault("save") /\ UNCHANGED row
  /\ Leave(r)
  /\ UNCHANGED <<tasks, budget, lock, cpc, req, up>>

\* The spent attempt is persisted before the backoff; a failure is swallowed.
SaveSpent(r) ==
  /\ At(r, "spending")
  /\ \/ Save(Sid(r), run[r].view) /\ NoFault
     \/ Fault("save") /\ UNCHANGED row
  /\ Goto(r, "sleeping")
  /\ UNCHANGED <<tasks, budget, lock, run, cpc, req, up>>

\* After the backoff the row is reloaded and handed to _start_direct, whatever its
\* status now is; a row that is gone takes the FAILED path.
Reload(r) ==
  /\ At(r, "sleeping")
  /\ IF row[Sid(r)] = Gone
       THEN GotoWith(r, "burying",
                     [run[r] EXCEPT !.view = [st |-> "FAILED", left |-> 0]])
       ELSE GotoWith(r, "relaunching",
                     [run[r] EXCEPT !.view = [row[Sid(r)] EXCEPT !.st = "RUNNING"]])
  /\ UNCHANGED <<row, tasks, budget, lock, cpc, req, up, faults>>

SaveRelaunch(r) ==
  /\ At(r, "relaunching")
  /\ \/ /\ Save(Sid(r), run[r].view) /\ Goto(r, "respawning")
        /\ NoFault /\ UNCHANGED run
     \/ Fault("save") /\ Leave(r) /\ UNCHANGED row
  /\ UNCHANGED <<tasks, budget, lock, cpc, req, up>>

\* The retry's new task is created from inside the old one, which still holds
\* its slot.
Respawn(r) ==
  /\ At(r, "respawning")
  /\ RetryState(Sid(r), run[r].view)
  /\ \/ /\ Launch(Sid(r), run[r].view, run[r].ans, run[r].loose,
                  [pc EXCEPT ![r] = "teardown"],
                  [Overtaken(Sid(r)) EXCEPT ![r] = [NoTask EXCEPT !.sid = Sid(r)]])
        /\ NoFault
     \/ /\ Fault("factory")
        /\ Leave(r)
        /\ UNCHANGED tasks
  /\ UNCHANGED <<row, lock, cpc, req, up>>

\* finally: state.remaining = 0, on the state the except branch took.
ZeroBudget(r) ==
  budget' = IF run[r].ref THEN [budget EXCEPT ![Sid(r)] = 0] ELSE budget

SaveFailed(r) ==
  /\ At(r, "burying")
  /\ \/ /\ Save(Sid(r), run[r].view) /\ Goto(r, "tolling")
        /\ NoFault /\ UNCHANGED <<budget, run>>
     \/ /\ Fault("save") /\ Leave(r)
        /\ ZeroBudget(r) /\ UNCHANGED row
  /\ UNCHANGED <<tasks, lock, cpc, req, up>>

AnnounceFailed(r) ==
  /\ At(r, "tolling")
  /\ Leave(r)
  /\ ZeroBudget(r)
  /\ UNCHANGED <<row, tasks, lock, cpc, req, up, faults>>

\* MUTANT: a run that ends after the retry it started.
TeardownAfterRetry(r) ==
  /\ pc[r] = "teardown"
  /\ \A q \in Run \ {r} : Sid(q) = Sid(r) => pc[q] \in {"free", "done"}
  /\ Goto(r, "done")
  /\ UNCHANGED <<row, tasks, budget, lock, run, cpc, req, up, faults>>

\* The presence event (which never raises) and flow.teardown, then the end of
\* the task: the slot is released.
Teardown(r) ==
  /\ At(r, "teardown")
  /\ Goto(r, "done")
  /\ UNCHANGED <<row, tasks, budget, lock, run, cpc, req, up, faults>>

\* CancelledError at the task's suspension point.  A write it was waiting for
\* has been made or not.  Before the try block nothing is torn down, and a
\* second cancellation interrupts the teardown.
Cancelled(r) ==
  /\ pc[r] \in Live
  /\ run[r].kill
  /\ IF pc[r] \in {"slot", "load", "teardown"}
       THEN GotoWith(r, "done", [NoTask EXCEPT !.sid = Sid(r)]) ELSE Leave(r)
  /\ \/ UNCHANGED row
     \/ /\ pc[r] \in {"flow", "pausing", "closing", "spending", "relaunching",
                      "burying"}
        /\ Save(Sid(r), run[r].view)
  /\ IF pc[r] \in {"burying", "tolling"} THEN ZeroBudget(r) ELSE UNCHANGED budget
  /\ UNCHANGED <<tasks, lock, cpc, req, up, faults>>

\* MUTANT: the end of any task drops the session's entries.
AnyTask(r) == TRUE

\* MUTANT: the done callback keeps the retry state, as it did before R16.
KeptRetries(r) == budget

\* The done callback: only the tracked task drops the session's entries.  The
\* requests that await the task are woken.
IsTracked(r) == tasks[Sid(r)] = r

RetriesLeft(r) ==
  IF IsTracked(r) THEN [budget EXCEPT ![Sid(r)] = NoBudget] ELSE budget

Cleanup(r) ==
  /\ pc[r] = "done"
  /\ Goto(r, "free")
  /\ LET s == Sid(r)
         dropped == IsTracked(r)
     IN /\ tasks' = IF dropped THEN [tasks EXCEPT ![s] = NoRun] ELSE tasks
        /\ budget' = RetriesLeft(r)
        /\ run' = [q \in Run |->
                     IF q = r THEN NoTask
                     ELSE IF dropped /\ Sid(q) = s THEN [run[q] EXCEPT !.ref = FALSE]
                     ELSE run[q]]
  /\ cpc' = [c \in Client |->
               IF cpc[c] = "joining" /\ req[c].on = r THEN "marking" ELSE cpc[c]]
  /\ UNCHANGED <<row, lock, req, up, faults>>

-----------------------------------------------------------------------------
(* The requests: sessions.py, dispatch_session_input, DeleteSession, and the *)
(* TaskRunner methods they call                                              *)

CGoto(c, at) == cpc' = [cpc EXCEPT ![c] = at]
CGotoWith(c, at, copy) ==
  CGoto(c, at) /\ req' = [req EXCEPT ![c].copy = copy]

Finish(c) == CGoto(c, "idle") /\ req' = [req EXCEPT ![c] = NoRequest]

Target(c) == req[c].sid

\* MUTANT: acquire and release without a context manager.
KeepLock(c) == UNCHANGED lock

Unlock(c) ==
  lock' = [s \in Session |-> IF lock[s] = c THEN NoClient ELSE lock[s]]

\* A handler loads the session and goes on with this copy.
Arrive(c, s) ==
  /\ up
  /\ cpc[c] = "idle"
  /\ row[s] # Gone
  /\ CGoto(c, "ready")
  /\ req' = [req EXCEPT ![c] = [sid |-> s, copy |-> row[s], via |-> "start",
                                del |-> FALSE, on |-> NoRun]]
  /\ UNCHANGED <<row, tasks, budget, lock, pc, run, up, faults>>

\* POST /run: refused unless the loaded status is PENDING or FAILED.
RunSession(c) ==
  /\ "run" \in Ops
  /\ cpc[c] = "ready"
  /\ req[c].copy.st \in {"PENDING", "FAILED"}
  /\ CGoto(c, "queued")
  /\ UNCHANGED <<row, tasks, budget, lock, pc, run, req, up, faults>>

\* POST /input on a PENDING or FAILED session (_start_task) or a COMPLETED one
\* (_chat): the loaded copy is saved with the new prompt before start_session
\* has a chance to refuse.
DispatchStart(c) ==
  /\ "dispatch" \in Ops
  /\ cpc[c] = "ready"
  /\ req[c].copy.st \in {"PENDING", "FAILED", "COMPLETED"}
  /\ Save(Target(c), req[c].copy)
  /\ CGoto(c, "queued")
  /\ UNCHANGED <<tasks, budget, lock, pc, run, req, up, faults>>

\* POST /input on a WAITING session (_resume); a request that sets the
\* execution mode saves its copy first.
DispatchResume(c) ==
  /\ "resume" \in Ops
  /\ cpc[c] = "ready"
  /\ req[c].copy.st = "WAITING"
  /\ \/ UNCHANGED row
     \/ "resume_mode" \in Ops /\ Save(Target(c), req[c].copy)
  /\ CGoto(c, "answer")
  /\ UNCHANGED <<tasks, budget, lock, pc, run, req, up, faults>>

\* The handler refuses (the session's owner, its status: 409 from /run, 400 from
\* /resume, a missing prompt), building the tools or the first save fails, or the
\* message is steering for a RUNNING session: no session state changes.
SteerOrRefuse(c) ==
  /\ cpc[c] = "ready"
  /\ Finish(c)
  /\ UNCHANGED <<row, tasks, budget, lock, pc, run, up, faults>>

\* start_session, under the session's lock: refused while a task runs.
StartSession(c) ==
  /\ cpc[c] = "queued"
  /\ lock[Target(c)] = NoClient
  /\ IF Running(Target(c))
       THEN Finish(c) /\ UNCHANGED lock
       ELSE /\ lock' = [lock EXCEPT ![Target(c)] = c]
            /\ CGoto(c, "starting")
            /\ UNCHANGED req
  /\ UNCHANGED <<row, tasks, budget, pc, run, up, faults>>

\* resume_session, under the lock: it loads the row itself and refuses a
\* status other than WAITING; _tasks is not consulted.
ResumeSession(c) ==
  /\ cpc[c] = "answer"
  /\ lock[Target(c)] = NoClient
  /\ LET loaded == row[Target(c)]
     IN IF loaded.st # "WAITING"
          THEN Finish(c) /\ UNCHANGED lock
          ELSE /\ lock' = [lock EXCEPT ![Target(c)] = c]
               /\ CGoto(c, "answering")
               /\ req' = [req EXCEPT ![c].copy = [loaded EXCEPT !.st = "RUNNING"],
                                     ![c].via = "answer"]
  /\ UNCHANGED <<row, tasks, budget, pc, run, up, faults>>

\* resume_from_checkpoint, under the lock: refused while the row is RUNNING
\* and a task is tracked; the restored session is WAITING.
ResumeFromCheckpoint(c) ==
  /\ "restore" \in Ops
  /\ cpc[c] = "ready"
  /\ lock[Target(c)] = NoClient
  /\ LET loaded == row[Target(c)]
     IN IF loaded = Gone \/ (loaded.st = "RUNNING" /\ tasks[Target(c)] # NoRun)
          THEN Finish(c) /\ UNCHANGED lock
          ELSE /\ lock' = [lock EXCEPT ![Target(c)] = c]
               /\ CGoto(c, "answering")
               /\ req' = [req EXCEPT ![c].copy = [loaded EXCEPT !.st = "WAITING"],
                                     ![c].via = "restore"]
  /\ UNCHANGED <<row, tasks, budget, pc, run, up, faults>>

\* rerun_failed_session: no lock, no check of _tasks, a full retry budget.
RerunFailed(c, s) ==
  /\ "rerun" \in Ops
  /\ up
  /\ cpc[c] = "idle"
  /\ row[s].st = "FAILED"
  /\ CGoto(c, "starting")
  /\ req' = [req EXCEPT ![c] = [sid |-> s, copy |-> [row[s] EXCEPT !.left = MaxRetries],
                                via |-> "rerun", del |-> FALSE, on |-> NoRun]]
  /\ UNCHANGED <<row, tasks, budget, lock, pc, run, up, faults>>

\* The save resume_session and resume_from_checkpoint make before _start_direct.
SaveResumed(c) ==
  /\ cpc[c] = "answering"
  /\ \/ Save(Target(c), req[c].copy) /\ CGoto(c, "starting")
        /\ NoFault /\ UNCHANGED <<lock, req>>
     \/ Fault("save") /\ Finish(c) /\ Unlock(c) /\ UNCHANGED row
  /\ UNCHANGED <<tasks, budget, pc, run, up>>

\* _start_direct: RUNNING is saved...
SaveStart(c) ==
  /\ cpc[c] = "starting"
  /\ LET started == [req[c].copy EXCEPT !.st = "RUNNING"]
     IN \/ /\ Save(Target(c), started) /\ CGotoWith(c, "spawning", started)
           /\ NoFault /\ UNCHANGED lock
        \/ /\ Fault("save") /\ Finish(c) /\ Unlock(c)
           /\ UNCHANGED row
  /\ UNCHANGED <<tasks, budget, pc, run, up>>

\* ...and, after the presence event, the factory builds the flow and the task
\* is created; a factory that raises leaves through the caller.
StartTask(c) ==
  /\ cpc[c] = "spawning"
  /\ RetryState(Target(c), req[c].copy)
  /\ \/ Launch(Target(c), req[c].copy, req[c].via = "answer", req[c].via = "rerun", pc,
               IF req[c].via = "start" THEN run ELSE Overtaken(Target(c))) /\ NoFault
     \/ Fault("factory") /\ UNCHANGED <<tasks, pc, run>>
  /\ Finish(c)
  /\ Unlock(c)
  /\ UNCHANGED <<row, up>>

\* cancel_session, for POST /cancel and for DeleteSession: without a task to
\* cancel it returns False at once.
CancelSession(c) ==
  /\ cpc[c] = "ready"
  /\ \E del \in BOOLEAN :
       /\ IF del THEN "delete" \in Ops ELSE "cancel" \in Ops
       /\ IF Running(Target(c))
            THEN /\ run' = [run EXCEPT ![tasks[Target(c)]].kill = TRUE]
                 /\ CGoto(c, "joining")
                 /\ req' = [req EXCEPT ![c].del = del, ![c].on = tasks[Target(c)]]
            ELSE /\ CGoto(c, IF del THEN "removing" ELSE "settling")
                 /\ UNCHANGED <<run, req>>
  /\ UNCHANGED <<row, tasks, budget, lock, pc, up, faults>>

\* MUTANT: cancel_session leaves the status to the cancelled flow.
LeaveStatus(s) == UNCHANGED row

\* update_session_status(FAILED): an UPDATE, it creates no row.
MarkFailed(s) ==
  row' = IF row[s] = Gone THEN row ELSE [row EXCEPT ![s].st = "FAILED"]

\* The cancelled task has ended: its session is marked.  When that fails POST
\* /cancel falls back to its own save.
MarkCancelled(c) ==
  /\ cpc[c] = "marking"
  /\ \/ /\ MarkFailed(Target(c)) /\ NoFault
        /\ IF req[c].del THEN CGoto(c, "removing") /\ UNCHANGED req ELSE Finish(c)
     \/ /\ Fault("save") /\ UNCHANGED row
        /\ IF req[c].del THEN Finish(c) ELSE CGoto(c, "settling") /\ UNCHANGED req
  /\ UNCHANGED <<tasks, budget, lock, pc, run, up>>

\* POST /cancel without a task: the copy loaded at the start is saved FAILED.
SettleCancelled(c) ==
  /\ cpc[c] = "settling"
  /\ \/ Save(Target(c), [req[c].copy EXCEPT !.st = "FAILED"]) /\ NoFault
     \/ Fault("save") /\ UNCHANGED row
  /\ Finish(c)
  /\ UNCHANGED <<tasks, budget, lock, pc, run, up>>

\* The deletion of the row.
RemoveRow(c) ==
  /\ cpc[c] = "removing"
  /\ \/ Save(Target(c), Gone) /\ NoFault
     \/ Fault("save") /\ UNCHANGED row
  /\ Finish(c)
  /\ UNCHANGED <<tasks, budget, lock, pc, run, up>>

-----------------------------------------------------------------------------
(* The process stops; at its next startup interrupt_orphans marks the rows *)
(* that nothing runs any more, before any request is served.               *)

Crash ==
  /\ Fault("crash")
  /\ up' = FALSE
  /\ tasks' = [s \in Session |-> NoRun]
  /\ budget' = [s \in Session |-> NoBudget]
  /\ lock' = [s \in Session |-> NoClient]
  /\ pc' = [r \in Run |-> "free"]
  /\ run' = [r \in Run |-> NoTask]
  /\ cpc' = [c \in Client |-> "idle"]
  /\ req' = [c \in Client |-> NoRequest]
  /\ UNCHANGED row

InterruptOrphan(s) ==
  /\ ~up
  /\ row[s].st = "RUNNING"
  /\ \/ Save(s, [row[s] EXCEPT !.st = "FAILED"]) /\ NoFault /\ UNCHANGED up
     \/ Fault("save") /\ up' = TRUE /\ UNCHANGED row
  /\ UNCHANGED <<tasks, budget, lock, pc, run, cpc, req>>

\* MUTANT: requests are served before the orphans are marked.
ServeAtOnce ==
  /\ ~up
  /\ up' = TRUE
  /\ UNCHANGED <<row, tasks, budget, lock, pc, run, cpc, req, faults>>

Serve ==
  /\ ~up
  /\ \A s \in Session : row[s].st # "RUNNING"
  /\ up' = TRUE
  /\ UNCHANGED <<row, tasks, budget, lock, pc, run, cpc, req, faults>>

-----------------------------------------------------------------------------

\* The steps that take a task to its next suspension point.
Advance(r) ==
  \/ TakeSlot(r) \/ LoadRow(r) \/ FlowRaises(r) \/ PauseFlow(r) \/ SavePause(r)
  \/ FlowEnds(r) \/ SaveFinal(r) \/ SaveSpent(r) \/ Reload(r) \/ SaveRelaunch(r)
  \/ Respawn(r) \/ SaveFailed(r) \/ AnnounceFailed(r) \/ Teardown(r)
  \/ Cancelled(r) \/ Cleanup(r)

TaskStep(r) == SaveEvent(r) \/ Advance(r)

\* The steps of a request once it is under way.
RequestStep(c) ==
  \/ StartSession(c) \/ ResumeSession(c) \/ SaveResumed(c) \/ SaveStart(c)
  \/ StartTask(c) \/ MarkCancelled(c) \/ SettleCancelled(c) \/ RemoveRow(c)

\* What a request decides to do with the session it loaded.
RequestChoice(c) ==
  \/ RunSession(c) \/ DispatchStart(c) \/ DispatchResume(c) \/ SteerOrRefuse(c)
  \/ ResumeFromCheckpoint(c) \/ CancelSession(c)

NewRequest(c) == \E s \in Session : Arrive(c, s) \/ RerunFailed(c, s)

Startup == Serve \/ \E s \in Session : InterruptOrphan(s)

Next ==
  \/ \E r \in Run : TaskStep(r)
  \/ \E c \in Client : RequestStep(c) \/ RequestChoice(c) \/ NewRequest(c)
  \/ Crash
  \/ Startup

Spec == Init /\ [][Next]_vars

\* The event loop resumes every coroutine that can go on; the semaphore and the
\* locks wake their waiters in turn, hence strong fairness.  A flow may save
\* events for long but not for ever (max_iterations), so its Advance is taken.
Fairness ==
  /\ \A r \in Run : SF_vars(Advance(r))
  /\ \A c \in Client : SF_vars(RequestStep(c) \/ RequestChoice(c))
  /\ WF_vars(Startup)

FairSpec == Spec /\ Fairness

-----------------------------------------------------------------------------
(* Properties *)

\* _retries: "Held while the session has a task; dropped when its current task
\* ends (R16)" - overlapping tasks, retries and cancellations included.
RetryStateTracked ==
  \A s \in Session : budget[s] # NoBudget <=> tasks[s] # NoRun

\* A task that will still write the row of s, or a request that will.
TaskAttends(s) ==
  \E r \in Run : Sid(r) = s /\ ~run[r].kill /\ pc[r] \in Writing

RequestAttends(s) ==
  \E c \in Client : Target(c) = s /\ cpc[c] \in {"starting", "spawning", "joining", "marking"}

\* Nothing is left RUNNING with nobody running it: whatever retries, pauses,
\* cancellations, deletions and restarts happened, a row that says RUNNING has
\* a task or a request that is still going to write it.
RunningIsAttended ==
  up => \A s \in Session :
          row[s].st = "RUNNING" => TaskAttends(s) \/ RequestAttends(s)

\* "the old task's cleanup must not remove the new task from _tasks": the
\* session loses its tracked task only when that very task has ended.
UntracksOwnOnly ==
  [][\A s \in Session :
       up' /\ tasks[s] # NoRun /\ tasks'[s] = NoRun => pc[tasks[s]] = "done"]_vars

\* A rerun of s creates its task.
Reruns(s) ==
  \E c \in Client : /\ Target(c) = s /\ req[c].via = "rerun"
                    /\ cpc[c] = "spawning" /\ cpc'[c] # "spawning"
                    /\ tasks'[s] # tasks[s]

\* While a session keeps its retry state, nothing but a rerun may hand it attempts
\* back: not a retry or an answer that carries an older copy of the row, whose count
\* a stale save has put back.
BudgetOnlySpent ==
  [][\A s \in Session :
       budget[s] # NoBudget /\ budget'[s] # NoBudget /\ ~Reruns(s)
         => budget'[s] <= budget[s]]_vars

\* rerun_failed_session: "Resets the retry counter so the new attempt gets a full
\* retry budget."
RerunHasFullBudget ==
  [][\A s \in Session : up' /\ Reruns(s) => budget'[s] = MaxRetries]_vars

\* "two callers racing on one PENDING session would otherwise start two flows writing
\* the same session": start_session, and the retries of what it started, never do.  Of
\* two tasks that write one session one is loose: an answer to a pause its task had
\* saved already, a restore or a rerun, which do not look at _tasks, overtook it; or a
\* rerun, which takes no lock, started it; or a loose task's retry did either
\* (SecondAnswerRefused shows what then happens).
OneWriter ==
  \A r, q \in Run :
    /\ Sid(r) = Sid(q) /\ pc[r] \in Writing /\ pc[q] \in Writing
    /\ ~run[r].loose /\ ~run[q].loose
    => r = q

\* "a second answer that arrives meanwhile finds the session RUNNING and is
\* refused instead of starting a second flow".
SecondAnswerRefused ==
  \A r, q \in Run :
    /\ Sid(r) = Sid(q) /\ pc[r] \in Writing /\ pc[q] \in Writing
    /\ run[r].ans /\ run[q].ans
    => r = q

\* Every task gets its flow slot, even when a retry starts its task from inside
\* one that still holds a slot.
SlotGranted == \A r \in Run : pc[r] = "slot" ~> pc[r] # "slot"

\* No request hangs: not on a lock whose holder failed, not on a cancelled task
\* that never ends.
RequestEnds == \A c \in Client : cpc[c] # "idle" ~> cpc[c] = "idle"
=============================================================================
