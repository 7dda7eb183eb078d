------------------------- MODULE TaskRunner_proofs -------------------------
(***************************************************************************)
(* Theorems about TaskRunner, for every number of sessions, tasks,         *)
(* requests, slots, retries and faults.                                    *)
(***************************************************************************)
EXTENDS TaskRunner, TLAPS

LEMMA NewCopyType == NewCopy \in Copy
  BY RetriesAssumption DEF NewCopy, Copy, Status

LEMMA NoTaskType == NoTask \in RunLocals
  BY SessionAssumption, NewCopyType DEF NoTask, RunLocals

LEMMA NoRequestType == NoRequest \in Request
  BY SessionAssumption, NewCopyType DEF NoRequest, Request, Via

LEMMA FailedType == [st |-> "FAILED", left |-> 0] \in Copy
  BY RetriesAssumption DEF Copy, Status

\* A row that has a status of its own is a session's copy.
LEMMA RowIsCopy ==
  ASSUME NEW x \in Row, x # Gone
  PROVE  x \in Copy
  BY DEF Row

LEMMA StatusIsCopy ==
  ASSUME NEW x \in Row, x.st \in Status
  PROVE  x \in Copy
  BY DEF Row, Gone, Status

\* Locals with which a task goes on, and the row it saves.
LEMMA LeaveType ==
  ASSUME TypeOK, NEW r \in Run, Leave(r)
  PROVE  pc' \in [Run -> RunPC] /\ run' \in [Run -> RunLocals]
  <1>1. [NoTask EXCEPT !.sid = Sid(r)] \in RunLocals
    BY NoTaskType DEF TypeOK, Sid, RunLocals
  <1> QED BY <1>1 DEF TypeOK, Leave, GotoWith, Goto, RunPC

LEMMA RaiseType ==
  ASSUME TypeOK, NEW r \in Run, Raise(r)
  PROVE  /\ pc' \in [Run -> RunPC]
         /\ run' \in [Run -> RunLocals]
         /\ budget' \in [Session -> NoBudget..MaxRetries]
  <1> DEFINE s == Sid(r)
             here == [run[r] EXCEPT !.ref = budget[s] # NoBudget]
  <1>1. s \in Session /\ here \in RunLocals /\ budget[s] \in NoBudget..MaxRetries
    BY DEF TypeOK, Sid, RunLocals
  <1>2. CASE HasRetry(s)
    <2>1. budget[s] - 1 \in 0..MaxRetries
      BY <1>1, <1>2, RetriesAssumption DEF HasRetry, NoBudget
    <2>2. [here EXCEPT !.view.left = budget[s] - 1] \in RunLocals
      BY <1>1, <2>1 DEF RunLocals, Copy
    <2>3. /\ budget' = [budget EXCEPT ![s] = @ - 1]
          /\ run' = [run EXCEPT ![r] = [here EXCEPT !.view.left = budget[s] - 1]]
          /\ pc' = [pc EXCEPT ![r] = "spending"]
      BY <1>2 DEF Raise, GotoWith, Goto
    <2>4. budget' \in [Session -> NoBudget..MaxRetries]
      BY <1>1, <2>1, <2>3, RetriesAssumption DEF TypeOK, NoBudget
    <2> QED BY <2>2, <2>3, <2>4 DEF TypeOK, RunPC
  <1>3. CASE ~HasRetry(s)
    <2>1. [here EXCEPT !.view = [st |-> "FAILED", left |-> 0]] \in RunLocals
      BY <1>1, FailedType DEF RunLocals
    <2>2. /\ budget' = budget
          /\ run' = [run EXCEPT ![r] = [here EXCEPT !.view = [st |-> "FAILED", left |-> 0]]]
          /\ pc' = [pc EXCEPT ![r] = "burying"]
      BY <1>3 DEF Raise, GotoWith, Goto
    <2> QED BY <2>1, <2>2 DEF TypeOK, RunPC
  <1> QED BY <1>2, <1>3

LEMMA LaunchType ==
  ASSUME NEW s \in Session, NEW copy \in Copy, NEW answers \in BOOLEAN,
         NEW loose \in BOOLEAN,
         NEW pcs \in [Run -> RunPC], NEW locals \in [Run -> RunLocals],
         tasks \in [Session -> Run \cup {NoRun}],
         Launch(s, copy, answers, loose, pcs, locals)
  PROVE  /\ pc' \in [Run -> RunPC]
         /\ run' \in [Run -> RunLocals]
         /\ tasks' \in [Session -> Run \cup {NoRun}]
  <1> DEFINE new == [sid |-> s, view |-> copy, kill |-> FALSE, ref |-> FALSE,
                     ans |-> answers, loose |-> loose]
  <1>1. new \in RunLocals
    BY DEF RunLocals
  <1>2. PICK n \in Run : /\ pc' = [pcs EXCEPT ![n] = "slot"]
                         /\ run' = [locals EXCEPT ![n] = new]
                         /\ tasks' = [tasks EXCEPT ![s] = n]
    BY DEF Launch
  <1> QED BY <1>1, <1>2 DEF RunPC

\* Marking the task that is overtaken changes nothing but its mark.
LEMMA OvertakenType ==
  ASSUME TypeOK, NEW s \in Session
  PROVE  /\ Overtaken(s) \in [Run -> RunLocals]
         /\ \A q \in Run : /\ Overtaken(s)[q].sid = run[q].sid
                           /\ Overtaken(s)[q].view = run[q].view
                           /\ Overtaken(s)[q].kill = run[q].kill
                           /\ Overtaken(s)[q].ref = run[q].ref
  <1>1. \A q \in Run : run[q] \in RunLocals
    BY DEF TypeOK
  <1>2. \A q \in Run :
          Overtaken(s)[q] = IF q = tasks[s] THEN [run[q] EXCEPT !.loose = TRUE]
                            ELSE run[q]
    BY DEF Overtaken
  <1>3. \A q \in Run : [run[q] EXCEPT !.loose = TRUE] \in RunLocals
    BY <1>1 DEF RunLocals
  <1>4. Overtaken(s) \in [Run -> RunLocals]
    BY <1>1, <1>3 DEF Overtaken
  <1> QED BY <1>1, <1>2, <1>4 DEF RunLocals

LEMMA RetryStateType ==
  ASSUME TypeOK, NEW s \in Session, NEW copy \in Copy, RetryState(s, copy)
  PROVE  budget' \in [Session -> NoBudget..MaxRetries]
  <1>1. copy.left \in NoBudget..MaxRetries
    BY RetriesAssumption DEF Copy, NoBudget
  <1> QED BY <1>1 DEF TypeOK, RetryState

LEMMA ZeroBudgetType ==
  ASSUME TypeOK, NEW r \in Run, ZeroBudget(r) \/ UNCHANGED budget
  PROVE  budget' \in [Session -> NoBudget..MaxRetries]
  BY RetriesAssumption DEF TypeOK, ZeroBudget, NoBudget

LEMMA FaultType ==
  ASSUME TypeOK, NoFault \/ \E kind \in FaultNames : Fault(kind)
  PROVE  faults' \in 0..MaxFaults
  BY ModeAssumption DEF TypeOK, Fault, NoFault

-----------------------------------------------------------------------------
(* Type correctness *)

LEMMA InitType == Init => TypeOK
  BY NewCopyType, NoTaskType, NoRequestType, RetriesAssumption, ModeAssumption
  DEF Init, TypeOK, NoBudget, RunPC, ClientPC, Row

\* The steps of a task keep the types.
LEMMA TaskStepType ==
  ASSUME TypeOK, NEW r \in Run, TaskStep(r)
  PROVE  TypeOK'
  <1> DEFINE s == Sid(r)
             view == run[r].view
  <1>1. /\ s \in Session /\ run[r] \in RunLocals /\ view \in Copy /\ view \in Row
        /\ row[s] \in Row
    BY DEF TypeOK, Sid, RunLocals, Row
  <1>2. ASSUME NEW copy \in Row, Save(s, copy)
        PROVE  row' \in [Session -> Row]
    BY <1>1, <1>2 DEF TypeOK, Save
  <1>3. ASSUME NEW at \in RunPC, Goto(r, at)
        PROVE  pc' \in [Run -> RunPC]
    BY <1>3 DEF TypeOK, Goto
  <1>4. ASSUME NEW at \in RunPC, NEW l \in RunLocals, GotoWith(r, at, l)
        PROVE  pc' \in [Run -> RunPC] /\ run' \in [Run -> RunLocals]
    BY <1>4, <1>3 DEF TypeOK, GotoWith
  <1>5. ASSUME NEW copy \in Copy
        PROVE  [run[r] EXCEPT !.view = copy] \in RunLocals
    BY <1>1, <1>5 DEF RunLocals
  <1>6. ASSUME NEW st \in Status
        PROVE  [view EXCEPT !.st = st] \in Copy
    BY <1>1, <1>6 DEF Copy
  <1>7. CASE TakeSlot(r)
    BY <1>7, <1>3 DEF TakeSlot, TypeOK, RunPC
  <1>8. CASE LoadRow(r)
    BY <1>8, <1>1, <1>3, <1>4, <1>5, RowIsCopy DEF LoadRow, TypeOK, RunPC, GotoWith
  <1>9. CASE SaveEvent(r)
    BY <1>9, <1>1, <1>2 DEF SaveEvent, TypeOK
  <1>10. CASE FlowRaises(r)
    BY <1>10, RaiseType DEF FlowRaises, TypeOK
  <1>11. CASE PauseFlow(r)
    BY <1>11, <1>1, <1>2, <1>4, <1>5, <1>6 DEF PauseFlow, TypeOK, RunPC, Status, Row
  <1>12. CASE SavePause(r)
    BY <1>12, <1>1, <1>2, <1>3, RaiseType, FaultType DEF SavePause, TypeOK, RunPC, FaultNames
  <1>13. CASE FlowEnds(r)
    BY <1>13, <1>1, <1>2, <1>4, <1>5, <1>6 DEF FlowEnds, TypeOK, RunPC, Status, Row
  <1>14. CASE SaveFinal(r)
    BY <1>14, <1>1, <1>2, LeaveType, FaultType DEF SaveFinal, TypeOK, FaultNames
  <1>15. CASE SaveSpent(r)
    BY <1>15, <1>1, <1>2, <1>3, FaultType DEF SaveSpent, TypeOK, RunPC, FaultNames
  <1>16. CASE Reload(r)
    <2>1. CASE row[s] = Gone
      BY <2>1, <1>16, <1>4, <1>5, FailedType DEF Reload, TypeOK, RunPC
    <2>2. CASE row[s] # Gone
      <3>1. [row[s] EXCEPT !.st = "RUNNING"] \in Copy
        BY <2>2, <1>1, RowIsCopy DEF Copy, Status
      <3> QED BY <3>1, <2>2, <1>16, <1>4, <1>5 DEF Reload, TypeOK, RunPC
    <2> QED BY <2>1, <2>2
  <1>17. CASE SaveRelaunch(r)
    BY <1>17, <1>1, <1>2, <1>3, LeaveType, FaultType DEF SaveRelaunch, TypeOK, RunPC, FaultNames
  <1>18. CASE Respawn(r)
    <2>1. /\ budget' \in [Session -> NoBudget..MaxRetries]
          /\ faults' \in 0..MaxFaults
      BY <1>18, <1>1, RetryStateType, FaultType DEF Respawn, FaultNames
    <2>2. CASE Fault("factory") /\ Leave(r) /\ UNCHANGED tasks
      BY <2>1, <2>2, <1>18, LeaveType DEF Respawn, TypeOK
    <2> DEFINE ended == [pc EXCEPT ![r] = "teardown"]
               before == [Overtaken(s) EXCEPT ![r] = [NoTask EXCEPT !.sid = s]]
    <2>3. CASE Launch(s, view, run[r].ans, run[r].loose, ended, before)
      <3>1. /\ ended \in [Run -> RunPC]
            /\ run[r].ans \in BOOLEAN /\ run[r].loose \in BOOLEAN
            /\ [NoTask EXCEPT !.sid = s] \in RunLocals
        BY <1>1, NoTaskType DEF TypeOK, RunPC, RunLocals
      <3>4. before \in [Run -> RunLocals]
        BY <1>1, <3>1, OvertakenType
      <3> HIDE DEF ended, before
      <3>2. tasks \in [Session -> Run \cup {NoRun}]
        BY DEF TypeOK
      <3>3. /\ pc' \in [Run -> RunPC] /\ run' \in [Run -> RunLocals]
            /\ tasks' \in [Session -> Run \cup {NoRun}]
        BY <3>1, <3>2, <3>4, <2>3, <1>1, LaunchType
      <3> QED BY <3>3, <2>1, <1>18 DEF Respawn, TypeOK
    <2> QED BY <2>2, <2>3, <1>18 DEF Respawn
  <1>19. CASE SaveFailed(r)
    <2>1. budget' \in [Session -> NoBudget..MaxRetries] /\ faults' \in 0..MaxFaults
      BY <1>19, ZeroBudgetType, FaultType DEF SaveFailed, FaultNames
    <2>2. CASE Leave(r) /\ UNCHANGED row
      BY <2>1, <2>2, <1>19, LeaveType DEF SaveFailed, TypeOK
    <2>3. CASE Save(s, view) /\ Goto(r, "tolling") /\ UNCHANGED run
      BY <2>1, <2>3, <1>19, <1>1, <1>2, <1>3 DEF SaveFailed, TypeOK, RunPC
    <2> QED BY <2>2, <2>3, <1>19 DEF SaveFailed
  <1>20. CASE AnnounceFailed(r)
    BY <1>20, LeaveType, ZeroBudgetType DEF AnnounceFailed, TypeOK
  <1>21. CASE Teardown(r)
    BY <1>21, <1>3 DEF Teardown, TypeOK, RunPC
  <1>22. CASE Cancelled(r)
    <2>1. pc' \in [Run -> RunPC] /\ run' \in [Run -> RunLocals]
      <3>1. [NoTask EXCEPT !.sid = s] \in RunLocals
        BY <1>1, NoTaskType DEF RunLocals
      <3> QED BY <3>1, <1>22, <1>4, LeaveType DEF Cancelled, RunPC
    <2>2. row' \in [Session -> Row]
      BY <1>22, <1>1, <1>2 DEF Cancelled, TypeOK
    <2>3. budget' \in [Session -> NoBudget..MaxRetries]
      BY <1>22, ZeroBudgetType DEF Cancelled
    <2> QED BY <2>1, <2>2, <2>3, <1>22 DEF Cancelled, TypeOK
  <1>23. CASE Cleanup(r)
    <2>1. tasks' \in [Session -> Run \cup {NoRun}]
      BY <1>23, <1>1 DEF Cleanup, TypeOK
    <2>2. budget' \in [Session -> NoBudget..MaxRetries]
      BY <1>23, <1>1, RetriesAssumption DEF Cleanup, RetriesLeft, TypeOK, NoBudget
    <2>3. run' \in [Run -> RunLocals]
      <3>1. \A q \in Run : [run[q] EXCEPT !.ref = FALSE] \in RunLocals
        BY DEF TypeOK, RunLocals
      <3>2. \A q \in Run : run[q] \in RunLocals
        BY DEF TypeOK
      <3> QED BY <3>1, <3>2, <1>23, NoTaskType DEF Cleanup
    <2>4. cpc' \in [Client -> ClientPC]
      BY <1>23 DEF Cleanup, TypeOK, ClientPC
    <2>5. pc' \in [Run -> RunPC]
      BY <1>23, <1>3 DEF Cleanup, RunPC
    <2> QED BY <2>1, <2>2, <2>3, <2>4, <2>5, <1>23 DEF Cleanup, TypeOK
  <1> QED
    BY <1>7, <1>8, <1>9, <1>10, <1>11, <1>12, <1>13, <1>14, <1>15, <1>16, <1>17,
       <1>18, <1>19, <1>20, <1>21, <1>22, <1>23 DEF TaskStep, Advance

\* The steps of a request keep the types.
LEMMA RequestType ==
  ASSUME TypeOK, NEW c \in Client,
         RequestStep(c) \/ RequestChoice(c) \/ NewRequest(c)
  PROVE  TypeOK'
  <1> DEFINE s == Target(c)
             copy == req[c].copy
  <1>1. /\ s \in Session /\ req[c] \in Request /\ copy \in Copy /\ copy \in Row
        /\ row[s] \in Row
    BY DEF TypeOK, Target, Request, Row
  <1>2. ASSUME NEW x \in Row, Save(s, x)
        PROVE  row' \in [Session -> Row]
    BY <1>1, <1>2 DEF TypeOK, Save
  <1>3. ASSUME NEW at \in ClientPC, CGoto(c, at)
        PROVE  cpc' \in [Client -> ClientPC]
    BY <1>3 DEF TypeOK, CGoto
  <1>4. ASSUME Finish(c)
        PROVE  cpc' \in [Client -> ClientPC] /\ req' \in [Client -> Request]
    BY <1>4, NoRequestType DEF TypeOK, Finish, CGoto, ClientPC
  <1>5. ASSUME NEW x \in Copy
        PROVE  [req EXCEPT ![c].copy = x] \in [Client -> Request]
    BY <1>5, <1>1 DEF TypeOK, Request
  <1>25. ASSUME NEW x \in Copy, NEW v \in Via
         PROVE  [req EXCEPT ![c].copy = x, ![c].via = v] \in [Client -> Request]
    BY <1>25, <1>1 DEF TypeOK, Request
  <1>6. ASSUME NEW x \in Copy, NEW st \in Status
        PROVE  [x EXCEPT !.st = st] \in Copy
    BY <1>6 DEF Copy
  <1>7. ASSUME Unlock(c) \/ UNCHANGED lock \/ lock' = [lock EXCEPT ![s] = c]
        PROVE  lock' \in [Session -> Client \cup {NoClient}]
    BY <1>7, <1>1 DEF TypeOK, Unlock
  <1>8. ASSUME NEW x \in Session, NEW y \in Copy, NEW v \in Via
        PROVE  [req EXCEPT ![c] = [sid |-> x, copy |-> y, via |-> v,
                                   del |-> FALSE, on |-> NoRun]] \in [Client -> Request]
    BY <1>8 DEF TypeOK, Request
  <1>9. CASE \E x \in Session : Arrive(c, x)
    <2>1. PICK x \in Session : Arrive(c, x)
      BY <1>9
    <2>2. row[x] \in Copy
      BY <2>1, RowIsCopy DEF Arrive, TypeOK
    <2> QED BY <2>1, <2>2, <1>3, <1>8 DEF Arrive, TypeOK, ClientPC, Via
  <1>10. CASE \E x \in Session : RerunFailed(c, x)
    <2>1. PICK x \in Session : RerunFailed(c, x)
      BY <1>10
    <2>2. row[x] \in Copy
      BY <2>1, StatusIsCopy DEF RerunFailed, TypeOK, Status
    <2>3. [row[x] EXCEPT !.left = MaxRetries] \in Copy
      BY <2>2, RetriesAssumption DEF Copy
    <2> QED BY <2>1, <2>3, <1>3, <1>8 DEF RerunFailed, TypeOK, ClientPC, Via
  <1>11. CASE RunSession(c)
    BY <1>11, <1>3 DEF RunSession, TypeOK, ClientPC
  <1>12. CASE DispatchStart(c)
    BY <1>12, <1>1, <1>2, <1>3 DEF DispatchStart, TypeOK, ClientPC
  <1>13. CASE DispatchResume(c)
    BY <1>13, <1>1, <1>2, <1>3 DEF DispatchResume, TypeOK, ClientPC
  <1>14. CASE SteerOrRefuse(c)
    BY <1>14, <1>4 DEF SteerOrRefuse, TypeOK
  <1>15. CASE StartSession(c)
    BY <1>15, <1>3, <1>4, <1>7 DEF StartSession, TypeOK, ClientPC
  <1>16. CASE ResumeSession(c)
    <2>1. CASE row[s].st # "WAITING"
      BY <2>1, <1>16, <1>4, <1>7 DEF ResumeSession, TypeOK
    <2>2. CASE row[s].st = "WAITING"
      <3>1. row[s] \in Copy
        BY <2>2, <1>1, StatusIsCopy DEF Status
      <3>2. [row[s] EXCEPT !.st = "RUNNING"] \in Copy
        BY <3>1, <1>6 DEF Status
      <3>3. [req EXCEPT ![c].copy = [row[s] EXCEPT !.st = "RUNNING"], ![c].via = "answer"]
              \in [Client -> Request]
        BY <3>2, <1>25 DEF Via
      <3>4. req' \in [Client -> Request] /\ cpc' \in [Client -> ClientPC]
        BY <3>3, <2>2, <1>16, <1>3 DEF ResumeSession, ClientPC
      <3> QED BY <3>4, <2>2, <1>16, <1>7 DEF ResumeSession, TypeOK
    <2> QED BY <2>1, <2>2
  <1>17. CASE ResumeFromCheckpoint(c)
    <2> DEFINE refused == \/ row[s] = Gone
                          \/ row[s].st = "RUNNING" /\ tasks[s] # NoRun
    <2>1. CASE refused
      BY <2>1, <1>17, <1>4, <1>7 DEF ResumeFromCheckpoint, TypeOK
    <2>2. CASE ~refused
      <3>1. row[s] \in Copy
        BY <2>2, <1>1, RowIsCopy
      <3>2. [row[s] EXCEPT !.st = "WAITING"] \in Copy
        BY <3>1, <1>6 DEF Status
      <3>3. [req EXCEPT ![c].copy = [row[s] EXCEPT !.st = "WAITING"], ![c].via = "restore"]
              \in [Client -> Request]
        BY <3>2, <1>25 DEF Via
      <3>4. req' \in [Client -> Request] /\ cpc' \in [Client -> ClientPC]
        BY <3>3, <2>2, <1>17, <1>3 DEF ResumeFromCheckpoint, ClientPC
      <3> QED BY <3>4, <2>2, <1>17, <1>7 DEF ResumeFromCheckpoint, TypeOK
    <2> QED BY <2>1, <2>2
  <1>18. CASE SaveResumed(c)
    BY <1>18, <1>1, <1>2, <1>3, <1>4, <1>7, FaultType
    DEF SaveResumed, TypeOK, ClientPC, FaultNames
  <1>19. CASE SaveStart(c)
    <2>1. [copy EXCEPT !.st = "RUNNING"] \in Copy
      BY <1>1, <1>6 DEF Status
    <2>2. faults' \in 0..MaxFaults
      BY <1>19, FaultType DEF SaveStart, FaultNames
    <2>3. CASE Finish(c) /\ Unlock(c) /\ UNCHANGED row
      BY <2>2, <2>3, <1>19, <1>4, <1>7 DEF SaveStart, TypeOK
    <2>4. CASE /\ Save(s, [copy EXCEPT !.st = "RUNNING"]) /\ UNCHANGED lock
               /\ CGotoWith(c, "spawning", [copy EXCEPT !.st = "RUNNING"])
      BY <2>1, <2>2, <2>4, <1>19, <1>2, <1>3, <1>5
      DEF SaveStart, TypeOK, CGotoWith, ClientPC, Row
    <2> QED BY <2>3, <2>4, <1>19 DEF SaveStart
  <1>20. CASE StartTask(c)
    <2>1. faults' \in 0..MaxFaults /\ budget' \in [Session -> NoBudget..MaxRetries]
      BY <1>20, <1>1, RetryStateType, FaultType DEF StartTask, FaultNames
    <2>2. /\ pc' \in [Run -> RunPC] /\ run' \in [Run -> RunLocals]
          /\ tasks' \in [Session -> Run \cup {NoRun}]
      <3> DEFINE before == IF req[c].via = "start" THEN run ELSE Overtaken(s)
      <3>2. /\ pc \in [Run -> RunPC] /\ run \in [Run -> RunLocals]
            /\ tasks \in [Session -> Run \cup {NoRun}]
        BY DEF TypeOK
      <3>1. before \in [Run -> RunLocals]
        BY <3>2, <1>1, OvertakenType
      <3> HIDE DEF before
      <3>3. CASE Launch(s, copy, req[c].via = "answer", req[c].via = "rerun", pc, before)
        BY <3>1, <3>2, <3>3, <1>1, LaunchType
      <3>4. CASE UNCHANGED <<tasks, pc, run>>
        BY <3>2, <3>4
      <3> QED BY <3>3, <3>4, <1>20 DEF StartTask, before
    <2> QED BY <2>1, <2>2, <1>20, <1>4, <1>7 DEF StartTask, TypeOK
  <1>21. CASE CancelSession(c)
    <2>1. CASE UNCHANGED <<run, req>>
      BY <2>1, <1>21, <1>3 DEF CancelSession, TypeOK, ClientPC
    <2>2. CASE Running(s)
      <3>1. PICK del \in BOOLEAN :
              /\ run' = [run EXCEPT ![tasks[s]].kill = TRUE]
              /\ CGoto(c, "joining")
              /\ req' = [req EXCEPT ![c].del = del, ![c].on = tasks[s]]
        BY <2>2, <1>21 DEF CancelSession
      <3>2. tasks[s] \in Run
        BY <2>2, <1>1 DEF Running, TypeOK
      <3>6. run[tasks[s]] \in RunLocals
        BY <3>2 DEF TypeOK
      <3>3. [run[tasks[s]] EXCEPT !.kill = TRUE] \in RunLocals
        BY <3>6 DEF RunLocals
      <3>4. [req[c] EXCEPT !.del = del, !.on = tasks[s]] \in Request
        BY <3>2, <1>1 DEF Request
      <3>5. run' \in [Run -> RunLocals] /\ req' \in [Client -> Request]
        BY <3>1, <3>2, <3>3, <3>4 DEF TypeOK
      <3> QED BY <3>1, <3>5, <1>3, <1>21 DEF CancelSession, TypeOK, ClientPC
    <2> QED BY <2>1, <2>2, <1>21 DEF CancelSession
  <1>22. CASE MarkCancelled(c)
    <2>1. faults' \in 0..MaxFaults
      BY <1>22, FaultType DEF MarkCancelled, FaultNames
    <2>2. row' \in [Session -> Row]
      <3>1. CASE row[s] # Gone /\ row' = [row EXCEPT ![s].st = "FAILED"]
        <4>1. row[s] \in Copy
          BY <3>1, <1>1, RowIsCopy
        <4>2. [row[s] EXCEPT !.st = "FAILED"] \in Row
          BY <4>1, <1>6 DEF Status, Row
        <4> QED BY <4>2, <3>1, <1>1 DEF TypeOK
      <3> QED BY <3>1, <1>22 DEF MarkCancelled, MarkFailed, TypeOK
    <2> QED BY <2>1, <2>2, <1>22, <1>3, <1>4 DEF MarkCancelled, TypeOK, ClientPC
  <1>23. CASE SettleCancelled(c)
    <2>1. [copy EXCEPT !.st = "FAILED"] \in Row
      BY <1>1, <1>6 DEF Status, Row
    <2> QED BY <2>1, <1>23, <1>2, <1>4, FaultType DEF SettleCancelled, TypeOK, FaultNames
  <1>24. CASE RemoveRow(c)
    <2>1. Gone \in Row
      BY DEF Row
    <2> QED BY <2>1, <1>24, <1>2, <1>4, FaultType DEF RemoveRow, TypeOK, FaultNames
  <1> QED
    BY <1>9, <1>10, <1>11, <1>12, <1>13, <1>14, <1>15, <1>16, <1>17, <1>18, <1>19,
       <1>20, <1>21, <1>22, <1>23, <1>24 DEF RequestStep, RequestChoice, NewRequest

LEMMA RestartType ==
  ASSUME TypeOK, Crash \/ Startup
  PROVE  TypeOK'
  <1>1. CASE Crash
    <2>1. faults' \in 0..MaxFaults
      BY <1>1, FaultType DEF Crash, FaultNames
    <2>2. run' \in [Run -> RunLocals] /\ req' \in [Client -> Request]
      BY <1>1, NoTaskType, NoRequestType DEF Crash
    <2>3. budget' \in [Session -> NoBudget..MaxRetries]
      BY <1>1, RetriesAssumption DEF Crash, NoBudget
    <2> QED BY <2>1, <2>2, <2>3, <1>1 DEF Crash, TypeOK, RunPC, ClientPC
  <1>2. CASE Serve
    BY <1>2 DEF Serve, TypeOK
  <1>3. CASE \E s \in Session : InterruptOrphan(s)
    <2>1. PICK s \in Session : InterruptOrphan(s)
      BY <1>3
    <2>2. row[s] \in Copy
      BY <2>1, StatusIsCopy DEF InterruptOrphan, TypeOK, Status
    <2>3. [row[s] EXCEPT !.st = "FAILED"] \in Row
      BY <2>2 DEF Copy, Status, Row
    <2> QED BY <2>1, <2>3, FaultType DEF InterruptOrphan, TypeOK, Save, FaultNames
  <1> QED BY <1>1, <1>2, <1>3 DEF Startup

\* Every variable keeps its type, whatever the operations and the faults: in
\* particular no retry count leaves 0..MaxRetries.
THEOREM TypeCorrect == Spec => []TypeOK
  <1>1. TypeOK /\ [Next]_vars => TypeOK'
    <2> SUFFICES ASSUME TypeOK, [Next]_vars
                 PROVE  TypeOK'
      OBVIOUS
    <2>1. CASE UNCHANGED vars
      BY <2>1 DEF vars, TypeOK
    <2>2. CASE Next
      BY <2>2, TaskStepType, RequestType, RestartType DEF Next
    <2> QED BY <2>1, <2>2
  <1> QED BY <1>1, InitType, PTL DEF Spec

-----------------------------------------------------------------------------
(* The retry state *)

\* No step raises the retry count of a session that keeps its retry state:
\* only the except branch (minus one) and the end of a failed run (zero) write
\* it, and a start keeps the count it finds.
THEOREM BudgetSpentOnly == Spec => BudgetOnlySpent
  <1> DEFINE Spends == \A s \in Session :
               budget[s] # NoBudget /\ budget'[s] # NoBudget => budget'[s] <= budget[s]
  <1>1. ASSUME TypeOK, [Next]_vars
        PROVE  Spends
    <2>1. budget \in [Session -> NoBudget..MaxRetries]
      BY <1>1 DEF TypeOK
    <2>2. CASE UNCHANGED budget
      BY <2>1, <2>2, RetriesAssumption DEF NoBudget
    <2>3. ASSUME NEW s \in Session, NEW copy, RetryState(s, copy)
          PROVE  Spends
      BY <2>1, <2>3, RetriesAssumption DEF RetryState, NoBudget
    <2>4. ASSUME NEW r \in Run, Raise(r)
          PROVE  Spends
      BY <2>1, <2>4, RetriesAssumption DEF Raise, HasRetry, NoBudget
    <2>5. ASSUME NEW r \in Run, ZeroBudget(r)
          PROVE  Spends
      BY <2>1, <2>5, RetriesAssumption DEF ZeroBudget, NoBudget
    <2>6. ASSUME NEW r \in Run, Cleanup(r)
          PROVE  Spends
      BY <2>1, <2>6, RetriesAssumption DEF Cleanup, RetriesLeft, NoBudget
    <2>7. CASE Crash
      BY <2>7 DEF Crash
    <2>8. ASSUME NEW r \in Run, TaskStep(r)
          PROVE  Spends
      <3>1. Sid(r) \in Session
        BY <1>1 DEF TypeOK, Sid, RunLocals
      <3>2. CASE FlowRaises(r) \/ SavePause(r)
        BY <3>2, <2>2, <2>4 DEF FlowRaises, SavePause
      <3>3. CASE SaveFailed(r) \/ AnnounceFailed(r) \/ Cancelled(r)
        BY <3>3, <2>2, <2>5 DEF SaveFailed, AnnounceFailed, Cancelled
      <3>4. CASE Respawn(r)
        BY <3>1, <3>4, <2>3 DEF Respawn
      <3> QED
        BY <3>2, <3>3, <3>4, <2>2, <2>6, <2>8
        DEF TaskStep, Advance, TakeSlot, LoadRow, SaveEvent, PauseFlow, FlowEnds,
            SaveFinal, SaveSpent, Reload, SaveRelaunch, Teardown
    <2>9. ASSUME NEW c \in Client, RequestStep(c) \/ RequestChoice(c) \/ NewRequest(c)
          PROVE  Spends
      <3>1. Target(c) \in Session
        BY <1>1 DEF TypeOK, Target, Request
      <3>2. CASE StartTask(c)
        BY <3>1, <3>2, <2>3 DEF StartTask
      <3> QED
        BY <3>2, <2>2, <2>9
        DEF RequestStep, RequestChoice, NewRequest, StartSession, ResumeSession,
            SaveResumed, SaveStart, MarkCancelled, SettleCancelled, RemoveRow,
            RunSession, DispatchStart, DispatchResume, SteerOrRefuse,
            ResumeFromCheckpoint, CancelSession, Arrive, RerunFailed
    <2>10. CASE Startup
      BY <2>10, <2>2 DEF Startup, Serve, InterruptOrphan
    <2> QED BY <1>1, <2>2, <2>7, <2>8, <2>9, <2>10 DEF Next, vars
  <1>2. TypeOK /\ [Next]_vars
          => [\A s \in Session :
                budget[s] # NoBudget /\ budget'[s] # NoBudget /\ ~Reruns(s)
                  => budget'[s] <= budget[s]]_vars
    BY <1>1
  <1> QED BY <1>2, TypeCorrect, PTL DEF Spec, BudgetOnlySpent

-----------------------------------------------------------------------------
(* The tracked task *)

\* A running server's session loses its tracked task only in the done callback
\* of that very task, however many tasks of the session overlap.
THEOREM OnlyOwnUntracked == Spec => UntracksOwnOnly
  <1> DEFINE Untracks == \A s \in Session :
               up' /\ tasks[s] # NoRun /\ tasks'[s] = NoRun => pc[tasks[s]] = "done"
  <1>1. ASSUME TypeOK, [Next]_vars
        PROVE  Untracks
    <2>1. tasks \in [Session -> Run \cup {NoRun}]
      BY <1>1 DEF TypeOK
    <2>2. CASE UNCHANGED tasks \/ up' = FALSE
      BY <2>2
    <2>3. ASSUME NEW s \in Session, NEW copy, NEW answers, NEW loose, NEW pcs, NEW locals,
                 Launch(s, copy, answers, loose, pcs, locals)
          PROVE  Untracks
      BY <2>1, <2>3, RunAssumption DEF Launch
    <2>4. ASSUME NEW r \in Run, Cleanup(r)
          PROVE  Untracks
      <3>1. Sid(r) \in Session
        BY <1>1 DEF TypeOK, Sid, RunLocals
      <3> QED BY <2>1, <2>4, <3>1 DEF Cleanup, IsTracked
    <2>5. ASSUME NEW r \in Run, TaskStep(r)
          PROVE  Untracks
      <3>1. Sid(r) \in Session
        BY <1>1 DEF TypeOK, Sid, RunLocals
      <3>2. CASE Respawn(r)
        BY <3>1, <3>2, <2>2, <2>3 DEF Respawn
      <3> QED
        BY <3>2, <2>2, <2>4, <2>5
        DEF TaskStep, Advance, TakeSlot, LoadRow, SaveEvent, FlowRaises, PauseFlow,
            SavePause, FlowEnds, SaveFinal, SaveSpent, Reload, SaveRelaunch,
            SaveFailed, AnnounceFailed, Teardown, Cancelled
    <2>6. ASSUME NEW c \in Client, RequestStep(c) \/ RequestChoice(c) \/ NewRequest(c)
          PROVE  Untracks
      <3>1. Target(c) \in Session
        BY <1>1 DEF TypeOK, Target, Request
      <3>2. CASE StartTask(c)
        BY <3>1, <3>2, <2>2, <2>3 DEF StartTask
      <3> QED
        BY <3>2, <2>2, <2>6
        DEF RequestStep, RequestChoice, NewRequest, StartSession, ResumeSession,
            SaveResumed, SaveStart, MarkCancelled, SettleCancelled, RemoveRow,
            RunSession, DispatchStart, DispatchResume, SteerOrRefuse,
            ResumeFromCheckpoint, CancelSession, Arrive, RerunFailed
    <2>7. CASE Crash \/ Startup
      BY <2>2, <2>7 DEF Crash, Startup, Serve, InterruptOrphan
    <2> QED BY <1>1, <2>2, <2>5, <2>6, <2>7 DEF Next, vars
  <1>2. TypeOK /\ [Next]_vars => [Untracks]_vars
    BY <1>1
  <1> QED BY <1>2, TypeCorrect, PTL DEF Spec, UntracksOwnOnly

\* The retry state a task's except branch took is still the session's own: it
\* is not dropped while a task that will write its count can.
RefHeld == \A r \in Run : run[r].ref => budget[Sid(r)] # NoBudget

TrackedInv == TypeOK /\ RetryStateTracked /\ RefHeld

\* A step that leaves both tables alone and takes no new reference.
LEMMA TrackedFrame ==
  ASSUME TrackedInv, TypeOK', UNCHANGED <<tasks, budget>>,
         \A r \in Run : run'[r].ref => run[r].ref /\ run'[r].sid = run[r].sid
  PROVE  TrackedInv'
  BY DEF TrackedInv, RetryStateTracked, RefHeld, Sid

\* The start of a task: the session is tracked and has retry state afterwards,
\* and no other session is touched.
LEMMA TrackedLaunch ==
  ASSUME TrackedInv, TypeOK', NEW s \in Session, NEW copy \in Copy,
         RetryState(s, copy),
         \E n \in Run : tasks' = [tasks EXCEPT ![s] = n],
         \A r \in Run : run'[r].ref => run[r].ref /\ run'[r].sid = run[r].sid
  PROVE  TrackedInv'
  <1>1. copy.left # NoBudget
    BY RetriesAssumption DEF Copy, NoBudget
  <1>2. /\ tasks \in [Session -> Run \cup {NoRun}]
        /\ budget \in [Session -> NoBudget..MaxRetries]
    BY DEF TrackedInv, TypeOK
  <1>3. /\ budget'[s] # NoBudget
        /\ \A x \in Session : x # s => budget'[x] = budget[x]
        /\ \A x \in Session : budget[x] # NoBudget => budget'[x] # NoBudget
    BY <1>1, <1>2 DEF RetryState
  <1>4. /\ tasks'[s] # NoRun
        /\ \A x \in Session : x # s => tasks'[x] = tasks[x]
    BY <1>2, RunAssumption
  <1>5. RetryStateTracked'
    BY <1>3, <1>4 DEF TrackedInv, RetryStateTracked
  <1>6. \A r \in Run : run[r].sid \in Session
    BY DEF TrackedInv, TypeOK, RunLocals
  <1>7. RefHeld'
    BY <1>3, <1>6 DEF TrackedInv, RefHeld, Sid
  <1> QED BY <1>5, <1>7 DEF TrackedInv

\* The new task has no reference to the retry state, the others keep theirs.
LEMMA LaunchRefs ==
  ASSUME NEW s, NEW copy, NEW answers, NEW loose, NEW pcs,
         NEW locals \in [Run -> RunLocals], Launch(s, copy, answers, loose, pcs, locals)
  PROVE  /\ \E n \in Run : tasks' = [tasks EXCEPT ![s] = n]
         /\ \A q \in Run : run'[q].ref => run'[q] = locals[q]
  <1> DEFINE new == [sid |-> s, view |-> copy, kill |-> FALSE, ref |-> FALSE,
                     ans |-> answers, loose |-> loose]
  <1>1. PICK n \in Run : /\ run' = [locals EXCEPT ![n] = new]
                         /\ tasks' = [tasks EXCEPT ![s] = n]
    BY DEF Launch
  <1>2. new.ref = FALSE
    OBVIOUS
  <1>3. \A q \in Run : run'[q] = IF q = n THEN new ELSE locals[q]
    BY <1>1
  <1> QED BY <1>1, <1>2, <1>3

LEMMA TrackedTask ==
  ASSUME TrackedInv, TypeOK', "factory" \notin Faults,
         NEW r \in Run, TaskStep(r)
  PROVE  TrackedInv'
  <1> DEFINE s == Sid(r)
             KeepsRefs == \A q \in Run : run'[q].ref => run[q].ref /\ run'[q].sid = run[q].sid
  <1>1. /\ TypeOK /\ RetryStateTracked /\ RefHeld
        /\ s \in Session /\ run[r] \in RunLocals /\ run \in [Run -> RunLocals]
        /\ budget \in [Session -> NoBudget..MaxRetries]
        /\ tasks \in [Session -> Run \cup {NoRun}]
    BY DEF TrackedInv, TypeOK, Sid, RunLocals
  <1>2. ASSUME NEW at, NEW l, GotoWith(r, at, l),
               l.ref => run[r].ref /\ l.sid = run[r].sid
        PROVE  KeepsRefs
    BY <1>1, <1>2 DEF GotoWith
  <1>3. ASSUME Leave(r)
        PROVE  KeepsRefs
    <2>1. [NoTask EXCEPT !.sid = s].ref = FALSE
      BY NoTaskType DEF NoTask, RunLocals
    <2> QED BY <2>1, <1>2, <1>3 DEF Leave
  <1>4. ASSUME NEW v
        PROVE  /\ [run[r] EXCEPT !.view = v].ref = run[r].ref
               /\ [run[r] EXCEPT !.view = v].sid = run[r].sid
    BY <1>1 DEF RunLocals
  <1>5. CASE LoadRow(r)
    BY <1>5, <1>2, <1>4, TrackedFrame DEF LoadRow, Goto
  <1>6. CASE SaveEvent(r) \/ TakeSlot(r) \/ SaveSpent(r) \/ Teardown(r)
    BY <1>6, TrackedFrame DEF SaveEvent, TakeSlot, SaveSpent, Teardown
  <1>7. CASE PauseFlow(r) \/ FlowEnds(r) \/ Reload(r)
    BY <1>7, <1>2, <1>4, TrackedFrame DEF PauseFlow, FlowEnds, Reload
  <1>8. CASE SaveFinal(r) \/ SaveRelaunch(r)
    BY <1>8, <1>3, TrackedFrame DEF SaveFinal, SaveRelaunch
  <1>9. ASSUME Raise(r), UNCHANGED tasks
        PROVE  TrackedInv'
    <2>1. /\ \A q \in Run : q # r => run'[q] = run[q]
          /\ run'[r].sid = s
          /\ run'[r].ref <=> budget[s] # NoBudget
      <3> DEFINE here == [run[r] EXCEPT !.ref = budget[s] # NoBudget]
      <3>1. here.sid = s /\ (here.ref <=> budget[s] # NoBudget) /\ here \in RunLocals
        BY <1>1 DEF RunLocals, Sid
      <3>2. PICK l : /\ run' = [run EXCEPT ![r] = l]
                     /\ \/ l = [here EXCEPT !.view.left = budget[s] - 1]
                        \/ l = [here EXCEPT !.view = [st |-> "FAILED", left |-> 0]]
        BY <1>9 DEF Raise, GotoWith
      <3>3. l.sid = here.sid /\ l.ref = here.ref
        BY <3>1, <3>2 DEF RunLocals
      <3> QED BY <3>1, <3>2, <3>3, <1>1
    <2>2. \A x \in Session : budget'[x] # NoBudget <=> budget[x] # NoBudget
      BY <1>1, <1>9, RetriesAssumption DEF Raise, HasRetry, NoBudget
    <2>3. RetryStateTracked'
      BY <2>2, <1>1, <1>9 DEF RetryStateTracked
    <2>4. RefHeld'
      BY <2>1, <2>2, <1>1 DEF RefHeld, Sid, RunLocals
    <2> QED BY <2>3, <2>4 DEF TrackedInv
  <1>10. CASE FlowRaises(r)
    BY <1>10, <1>9 DEF FlowRaises
  <1>11. CASE SavePause(r)
    BY <1>11, <1>9, TrackedFrame DEF SavePause, Goto
  <1>12. ASSUME ZeroBudget(r) \/ UNCHANGED budget, UNCHANGED tasks, KeepsRefs
         PROVE  TrackedInv'
    <2>1. \A x \in Session : budget'[x] # NoBudget <=> budget[x] # NoBudget
      BY <1>1, <1>12 DEF ZeroBudget, RefHeld, NoBudget
    <2>2. RetryStateTracked'
      BY <2>1, <1>1, <1>12 DEF RetryStateTracked
    <2>3. RefHeld'
      BY <2>1, <1>1, <1>12 DEF RefHeld, Sid, RunLocals
    <2> QED BY <2>2, <2>3 DEF TrackedInv
  <1>13. CASE SaveFailed(r) \/ AnnounceFailed(r)
    BY <1>13, <1>12, <1>3 DEF SaveFailed, AnnounceFailed
  <1>14. CASE Cancelled(r)
    <2>1. [NoTask EXCEPT !.sid = s].ref = FALSE
      BY NoTaskType DEF NoTask, RunLocals
    <2>2. KeepsRefs
      BY <2>1, <1>14, <1>2, <1>3 DEF Cancelled
    <2> QED BY <2>2, <1>14, <1>12 DEF Cancelled
  <1>15. CASE Respawn(r)
    <2> DEFINE ended == [pc EXCEPT ![r] = "teardown"]
               left == [Overtaken(s) EXCEPT ![r] = [NoTask EXCEPT !.sid = s]]
    <2>1. Launch(s, run[r].view, run[r].ans, run[r].loose, ended, left)
      BY <1>15 DEF Respawn, Fault
    <2>2. [NoTask EXCEPT !.sid = s].ref = FALSE
      BY NoTaskType DEF NoTask, RunLocals
    <2>3. /\ \E n \in Run : tasks' = [tasks EXCEPT ![s] = n]
          /\ KeepsRefs
      <3>4. /\ Overtaken(s) \in [Run -> RunLocals]
            /\ \A q \in Run : /\ Overtaken(s)[q].ref = run[q].ref
                              /\ Overtaken(s)[q].sid = run[q].sid
        BY <1>1, OvertakenType
      <3>1. left \in [Run -> RunLocals]
        BY <3>4, NoTaskType DEF RunLocals, Sid
      <3>2. \A q \in Run : left[q].ref => run[q].ref /\ left[q].sid = run[q].sid
        BY <2>2, <3>4
      <3> HIDE DEF left, ended
      <3>3. /\ \E n \in Run : tasks' = [tasks EXCEPT ![s] = n]
            /\ \A q \in Run : run'[q].ref => run'[q] = left[q]
        BY <2>1, <3>1, LaunchRefs
      <3> QED BY <3>2, <3>3
    <2>4. run[r].view \in Copy
      BY <1>1 DEF RunLocals
    <2> QED BY <2>3, <2>4, <1>1, <1>15, TrackedLaunch DEF Respawn
  <1>16. CASE Cleanup(r)
    <2>1. NoTask.ref = FALSE
      BY DEF NoTask
    <2>2. CASE IsTracked(r)
      <3>1. /\ tasks' = [tasks EXCEPT ![s] = NoRun]
            /\ budget' = [budget EXCEPT ![s] = NoBudget]
        BY <2>2, <1>16 DEF Cleanup, RetriesLeft
      <3>2. RetryStateTracked'
        BY <3>1, <1>1 DEF RetryStateTracked
      <3>3. \A q \in Run : run'[q].ref
                           => run[q].ref /\ run'[q].sid = run[q].sid /\ run[q].sid # s
        BY <2>1, <2>2, <1>1, <1>16 DEF Cleanup, Sid, RunLocals
      <3>4. RefHeld'
        BY <3>1, <3>3, <1>1 DEF RefHeld, Sid, RunLocals
      <3> QED BY <3>2, <3>4 DEF TrackedInv
    <2>3. CASE ~IsTracked(r)
      <3>1. UNCHANGED <<tasks, budget>>
        BY <2>3, <1>16 DEF Cleanup, RetriesLeft
      <3>2. KeepsRefs
        BY <2>1, <2>3, <1>1, <1>16 DEF Cleanup
      <3> QED BY <3>1, <3>2, TrackedFrame
    <2> QED BY <2>2, <2>3
  <1> QED
    BY <1>5, <1>6, <1>7, <1>8, <1>10, <1>11, <1>13, <1>14, <1>15, <1>16
    DEF TaskStep, Advance

LEMMA TrackedRequest ==
  ASSUME TrackedInv, TypeOK', "factory" \notin Faults, NEW c \in Client,
         RequestStep(c) \/ RequestChoice(c) \/ NewRequest(c)
  PROVE  TrackedInv'
  <1>1. /\ run \in [Run -> RunLocals] /\ tasks \in [Session -> Run \cup {NoRun}]
        /\ Target(c) \in Session /\ req[c].copy \in Copy
    BY DEF TrackedInv, TypeOK, Target, Request
  <1>2. CASE StartTask(c)
    <2> DEFINE left == IF req[c].via = "start" THEN run ELSE Overtaken(Target(c))
    <2>1. Launch(Target(c), req[c].copy, req[c].via = "answer", req[c].via = "rerun", pc, left)
      BY <1>2 DEF StartTask, Fault
    <2>2. /\ \E n \in Run : tasks' = [tasks EXCEPT ![Target(c)] = n]
          /\ \A r \in Run : run'[r].ref => run[r].ref /\ run'[r].sid = run[r].sid
      <3>1. /\ left \in [Run -> RunLocals]
            /\ \A q \in Run : left[q].ref = run[q].ref /\ left[q].sid = run[q].sid
        BY <1>1, OvertakenType DEF TrackedInv
      <3> HIDE DEF left
      <3> QED BY <2>1, <3>1, LaunchRefs
    <2> QED BY <2>2, <1>1, <1>2, TrackedLaunch DEF StartTask
  <1>3. CASE CancelSession(c)
    <2>1. \A r \in Run : run'[r].ref => run[r].ref /\ run'[r].sid = run[r].sid
      <3>1. \A q \in Run : /\ [run[q] EXCEPT !.kill = TRUE].ref = run[q].ref
                           /\ [run[q] EXCEPT !.kill = TRUE].sid = run[q].sid
        BY <1>1 DEF RunLocals
      <3>2. run' = run \/ \E n : run' = [run EXCEPT ![n].kill = TRUE]
        BY <1>3 DEF CancelSession
      <3>3. \A r \in Run : run'[r] = run[r] \/ run'[r] = [run[r] EXCEPT !.kill = TRUE]
        BY <1>1, <3>2
      <3> QED BY <3>1, <3>3
    <2> QED BY <2>1, <1>3, TrackedFrame DEF CancelSession
  <1> QED
    BY <1>2, <1>3, TrackedFrame
    DEF RequestStep, RequestChoice, NewRequest, StartSession, ResumeSession,
        SaveResumed, SaveStart, MarkCancelled, SettleCancelled, RemoveRow,
        RunSession, DispatchStart, DispatchResume, SteerOrRefuse,
        ResumeFromCheckpoint, Arrive, RerunFailed

\* R16: a session has retry state exactly while it has a tracked task, whatever
\* tasks overlap and however they end - provided no factory raises: _start_direct
\* creates the state before it calls the factory, and leaves it behind.
THEOREM RetryStateKept ==
  ASSUME "factory" \notin Faults
  PROVE  Spec => []RetryStateTracked
  <1>1. Init => TrackedInv
    BY InitType DEF Init, TrackedInv, RetryStateTracked, RefHeld, NoTask
  <1>2. TrackedInv /\ TypeOK' /\ [Next]_vars => TrackedInv'
    <2> SUFFICES ASSUME TrackedInv, TypeOK', [Next]_vars
                 PROVE  TrackedInv'
      OBVIOUS
    <2>1. CASE UNCHANGED vars
      BY <2>1, TrackedFrame DEF vars
    <2>2. CASE Crash
      BY <2>2 DEF Crash, TrackedInv, RetryStateTracked, RefHeld, NoTask
    <2>3. CASE Startup
      BY <2>3, TrackedFrame DEF Startup, Serve, InterruptOrphan
    <2> QED BY <2>1, <2>2, <2>3, TrackedTask, TrackedRequest DEF Next
  <1>3. TrackedInv => RetryStateTracked
    BY DEF TrackedInv
  <1> QED BY <1>1, <1>2, <1>3, TypeCorrect, PTL DEF Spec

-----------------------------------------------------------------------------
(* A session's row, and the tasks and requests that may still write it.  The two theorems
   below are about one writer for each session, and about no session left RUNNING with
   nobody to end it. *)

(* What the building blocks of a task's steps do to its locals *)

LEMMA LeftLocals ==
  ASSUME TypeOK, NEW r \in Run, Leave(r)
  PROVE  /\ pc' = [pc EXCEPT ![r] = pc'[r]] /\ pc'[r] = "teardown"
         /\ run' = [run EXCEPT ![r] = run'[r]] /\ run'[r].sid = run[r].sid
         /\ ~run'[r].kill
  <1>1. pc \in [Run -> RunPC] /\ run \in [Run -> RunLocals] /\ NoTask \in RunLocals
    BY NoTaskType DEF TypeOK
  <1>2. LET left == [NoTask EXCEPT !.sid = Sid(r)]
        IN left.sid = run[r].sid /\ left.kill = FALSE
    BY <1>1 DEF NoTask, Sid, RunLocals
  <1> QED BY <1>1, <1>2 DEF Leave, GotoWith, Goto

LEMMA RaisedLocals ==
  ASSUME TypeOK, TypeOK', NEW r \in Run, Raise(r)
  PROVE  /\ pc' = [pc EXCEPT ![r] = pc'[r]]
         /\ run' = [run EXCEPT ![r] = run'[r]] /\ run'[r].sid = run[r].sid
         /\ run'[r].kill = run[r].kill /\ run'[r].loose = run[r].loose
         /\ \/ pc'[r] = "spending" /\ run'[r].view.st = run[r].view.st
            \/ pc'[r] = "burying" /\ run'[r].view.st = "FAILED"
  <1> DEFINE s == Sid(r)
             view == run[r].view
  <1>1. pc \in [Run -> RunPC] /\ run \in [Run -> RunLocals] /\ run[r] \in RunLocals
    BY DEF TypeOK
  <1>2. PICK x \in RunLocals :
          /\ run' = [run EXCEPT ![r] = x] /\ x.sid = run[r].sid /\ x.kill = run[r].kill
          /\ x.loose = run[r].loose
          /\ \/ pc' = [pc EXCEPT ![r] = "spending"] /\ x.view.st = view.st
             \/ pc' = [pc EXCEPT ![r] = "burying"] /\ x.view.st = "FAILED"
    <2> DEFINE here == [run[r] EXCEPT !.ref = budget[s] # NoBudget]
               spent == [here EXCEPT !.view.left = budget[s] - 1]
               failed == [here EXCEPT !.view = [st |-> "FAILED", left |-> 0]]
    <2>1. /\ here.sid = run[r].sid /\ here.kill = run[r].kill
          /\ here.view = view /\ here \in RunLocals /\ here.loose = run[r].loose
      BY <1>1 DEF RunLocals
    <2>2. /\ failed.sid = run[r].sid /\ failed.kill = run[r].kill
          /\ failed.view.st = "FAILED" /\ failed.loose = run[r].loose
      BY <1>1 DEF RunLocals
    <2>3. /\ spent.sid = run[r].sid /\ spent.kill = run[r].kill
          /\ spent.view.st = view.st /\ spent.loose = run[r].loose
      BY <1>1 DEF RunLocals, Copy
    <2>4. run' \in [Run -> RunLocals]
      BY DEF TypeOK
    <2>5. CASE HasRetry(s)
      <3>1. pc' = [pc EXCEPT ![r] = "spending"] /\ run' = [run EXCEPT ![r] = spent]
        BY <2>5 DEF Raise, GotoWith, Goto
      <3>2. spent \in RunLocals
        BY <3>1, <2>4, <1>1
      <3> HIDE DEF spent
      <3> QED BY <3>1, <3>2, <2>3
    <2>6. CASE ~HasRetry(s)
      <3>1. pc' = [pc EXCEPT ![r] = "burying"] /\ run' = [run EXCEPT ![r] = failed]
        BY <2>6 DEF Raise, GotoWith, Goto
      <3>2. failed \in RunLocals
        BY <3>1, <2>4, <1>1
      <3> HIDE DEF failed
      <3> QED BY <3>1, <3>2, <2>2
    <2> QED BY <2>5, <2>6
  <1> QED BY <1>1, <1>2

-----------------------------------------------------------------------------
(* One writer for each session *)

\* Every task that will still write the row of s is loose.
Overrun(s) == \A r \in Run : Sid(r) = s /\ pc[r] \in Writing => run[r].loose

\* The suspension points of a request between its check of the session and the
\* creation of its task.
StartingPC == {"answering", "starting", "spawning"}

\* A task that was neither overtaken nor started beside the lock is the tracked one...
WritersTracked ==
  \A r \in Run : pc[r] \in Writing /\ ~run[r].loose => tasks[Sid(r)] = r

\* ...so start_session, which found none running, goes on knowing that there is none...
StartersAlone ==
  \A c \in Client :
    cpc[c] \in {"starting", "spawning"} /\ req[c].via = "start" => Overrun(Target(c))

\* ...and that nobody but a rerun can make one meanwhile.
StartersLocked ==
  \A c \in Client :
    cpc[c] \in StartingPC =>
      /\ req[c].via # "rerun" => lock[Target(c)] = c
      /\ cpc[c] = "answering" => req[c].via # "start"

WriterInv == TypeOK /\ WritersTracked /\ StartersAlone /\ StartersLocked

\* A step after which every writer was one before, and in which no request begins to
\* start a task or creates it.
LEMMA WriterGoesOn ==
  ASSUME WriterInv, TypeOK', UNCHANGED lock,
         \A q \in Run : pc'[q] \in Writing => /\ pc[q] \in Writing
                                              /\ run'[q].sid = run[q].sid
                                              /\ run'[q].loose = run[q].loose
                                              /\ tasks[Sid(q)] = q => tasks'[Sid(q)] = q,
         \A c \in Client : cpc'[c] \in StartingPC => cpc'[c] = cpc[c] /\ req'[c] = req[c]
  PROVE  WriterInv'
  <1>1. \A s \in Session : Overrun(s) => Overrun(s)'
    BY DEF Overrun, Sid
  <1>2. WritersTracked'
    BY DEF WriterInv, WritersTracked, Sid
  <1>3. StartersAlone'
    BY <1>1 DEF WriterInv, StartersAlone, StartingPC, Target, TypeOK, Request
  <1>4. StartersLocked'
    BY DEF WriterInv, StartersLocked, Target
  <1> QED BY <1>2, <1>3, <1>4 DEF WriterInv

\* A step of request c that creates no task.
LEMMA WriterRequested ==
  ASSUME WriterInv, TypeOK', NEW c \in Client, UNCHANGED <<tasks, pc>>,
         \A r \in Run : run'[r].sid = run[r].sid /\ run'[r].loose = run[r].loose,
         \A d \in Client : d # c => cpc'[d] = cpc[d] /\ req'[d] = req[d],
         \A s \in Session : lock'[s] = lock[s] \/ lock[s] \in {c, NoClient},
         cpc'[c] \in StartingPC =>
           /\ req'[c].via # "rerun" => lock'[Target(c)'] = c
           /\ IF cpc'[c] = "answering" THEN req'[c].via # "start"
              ELSE req'[c].via = "start" => Overrun(Target(c)')
  PROVE  WriterInv'
  <1>1. \A s \in Session : Overrun(s) => Overrun(s)'
    BY DEF Overrun, Sid
  <1>2. \A d \in Client : /\ Target(d) \in Session /\ Target(d)' \in Session
                          /\ d # c => Target(d)' = Target(d)
    BY DEF WriterInv, TypeOK, Target, Request
  <1>3. WritersTracked'
    BY DEF WriterInv, WritersTracked, Sid
  <1>4. StartersAlone'
    <2> SUFFICES ASSUME NEW d \in Client, cpc'[d] \in {"starting", "spawning"},
                        req'[d].via = "start"
                 PROVE  Overrun(Target(d))'
      BY DEF StartersAlone
    <2>1. CASE d = c
      BY <2>1, <1>1, <1>2 DEF StartingPC
    <2>2. CASE d # c
      BY <2>2, <1>1, <1>2 DEF WriterInv, StartersAlone
    <2> QED BY <2>1, <2>2
  <1>5. StartersLocked'
    <2> SUFFICES ASSUME NEW d \in Client, cpc'[d] \in StartingPC
                 PROVE  /\ req'[d].via # "rerun" => lock'[Target(d)'] = d
                        /\ cpc'[d] = "answering" => req'[d].via # "start"
      BY DEF StartersLocked
    <2>1. CASE d = c
      BY <2>1
    <2>2. CASE d # c
      BY <2>2, <1>2, ClientAssumption DEF WriterInv, StartersLocked
    <2> QED BY <2>1, <2>2
  <1> QED BY <1>3, <1>4, <1>5 DEF WriterInv

\* A new task n of s becomes the tracked one: what else still writes s is loose, and
\* n too if a start of s is under way.
LEMMA WriterLaunched ==
  ASSUME WriterInv, TypeOK', NEW s \in Session, NEW n \in Run,
         run'[n].sid = s, tasks' = [tasks EXCEPT ![s] = n],
         \A q \in Run \ {n} : pc'[q] \in Writing =>
           /\ pc[q] \in Writing /\ run'[q].sid = run[q].sid
           /\ run[q].loose => run'[q].loose
           /\ run[q].sid = s => run'[q].loose,
         \A c \in Client : cpc'[c] \in StartingPC =>
           /\ cpc'[c] = cpc[c] /\ req'[c] = req[c]
           /\ lock[Target(c)] = c => lock'[Target(c)] = c
           /\ Target(c) = s /\ cpc[c] # "answering" /\ req[c].via = "start" => run'[n].loose
  PROVE  WriterInv'
  <1>1. /\ tasks \in [Session -> Run \cup {NoRun}]
        /\ \A c \in Client : Target(c) \in Session
        /\ \A q \in Run : run[q].sid \in Session /\ run'[q].sid \in Session
    BY DEF WriterInv, TypeOK, Target, Request, RunLocals
  <1>2. WritersTracked'
    BY <1>1 DEF WriterInv, WritersTracked, Sid
  <1>3. StartersAlone'
    <2> SUFFICES ASSUME NEW c \in Client, cpc'[c] \in {"starting", "spawning"},
                        req'[c].via = "start",
                        NEW q \in Run, run'[q].sid = Target(c)', pc'[q] \in Writing
                 PROVE  run'[q].loose
      BY DEF StartersAlone, Overrun, Sid
    <2>1. /\ cpc[c] = cpc'[c] /\ req[c] = req'[c] /\ Target(c)' = Target(c)
          /\ Overrun(Target(c))
      BY DEF WriterInv, StartersAlone, StartingPC, Target
    <2>2. CASE q = n
      BY <2>1, <2>2 DEF StartingPC
    <2>3. CASE q # n
      BY <2>1, <2>3 DEF Overrun, Sid
    <2> QED BY <2>2, <2>3
  <1>4. StartersLocked'
    BY DEF WriterInv, StartersLocked, Target
  <1> QED BY <1>2, <1>3, <1>4 DEF WriterInv

\* A task's own steps: its retry inherits whether it is loose.
LEMMA WriterTask ==
  ASSUME WriterInv, TypeOK', NEW r \in Run, TaskStep(r)
  PROVE  WriterInv'
  <1> DEFINE s == Sid(r)
             view == run[r].view
             \* r goes on as a writer of its session or stops being one.
             GoesOn == /\ \A q \in Run : q # r => pc'[q] = pc[q] /\ run'[q] = run[q]
                       /\ pc'[r] \in Writing => /\ pc[r] \in Writing
                                                /\ run'[r].sid = run[r].sid
                                                /\ run'[r].loose = run[r].loose
                       /\ UNCHANGED <<tasks, lock, cpc, req>>
  <1>1. /\ pc \in [Run -> RunPC] /\ run \in [Run -> RunLocals] /\ run[r] \in RunLocals
        /\ s \in Session /\ NoTask \in RunLocals
    BY NoTaskType DEF WriterInv, TypeOK, Sid, RunLocals
  <1>2. GoesOn => WriterInv'
    BY WriterGoesOn
  <1>3. ASSUME NEW at, NEW l, GotoWith(r, at, l), l.sid = run[r].sid,
               l.loose = run[r].loose, pc[r] \in Writing, UNCHANGED <<tasks, lock, cpc, req>>
        PROVE  GoesOn
    BY <1>1, <1>3 DEF GotoWith, Goto
  <1>4. ASSUME NEW v
        PROVE  /\ [run[r] EXCEPT !.view = v].sid = run[r].sid
               /\ [run[r] EXCEPT !.view = v].loose = run[r].loose
    BY <1>1 DEF RunLocals
  <1>5. ASSUME Leave(r), UNCHANGED <<tasks, lock, cpc, req>>
        PROVE  GoesOn
    BY <1>1, <1>5 DEF Leave, GotoWith, Goto, Writing
  <1>6. ASSUME Raise(r), pc[r] \in Writing, UNCHANGED <<tasks, lock, cpc, req>>
        PROVE  GoesOn
    BY <1>1, <1>6, RaisedLocals DEF WriterInv
  <1>7. CASE TakeSlot(r) \/ SaveEvent(r) \/ SaveSpent(r) \/ Teardown(r)
    BY <1>1, <1>2, <1>7
    DEF TakeSlot, SaveEvent, SaveSpent, Teardown, At, Goto, Writing, Live, RunPC
  <1>8. CASE LoadRow(r)
    <2>1. CASE row[s] = Gone
      BY <2>1, <1>1, <1>2, <1>8 DEF LoadRow, Goto, Writing, Live
    <2>2. CASE row[s] # Gone
      <3>1. \E l \in {run[r], [run[r] EXCEPT !.view = row[s]]} : GotoWith(r, "flow", l)
        BY <2>2, <1>8 DEF LoadRow
      <3>2. pc[r] \in Writing /\ UNCHANGED <<tasks, lock, cpc, req>>
        BY <1>8 DEF LoadRow, At, Writing, Live, RunPC
      <3> HIDE DEF GoesOn
      <3> QED BY <3>1, <3>2, <1>2, <1>3, <1>4
    <2> QED BY <2>1, <2>2
  <1>9. CASE FlowRaises(r)
    BY <1>2, <1>6, <1>9 DEF FlowRaises, At, Writing, Live, RunPC
  <1>10. CASE PauseFlow(r) \/ FlowEnds(r) \/ Reload(r)
    <2>1. \E at, v : GotoWith(r, at, [run[r] EXCEPT !.view = v])
      BY <1>10 DEF PauseFlow, FlowEnds, Reload
    <2>2. pc[r] \in Writing /\ UNCHANGED <<tasks, lock, cpc, req>>
      BY <1>10 DEF PauseFlow, FlowEnds, Reload, At, Writing, Live, RunPC
    <2> HIDE DEF GoesOn
    <2> QED BY <2>1, <2>2, <1>2, <1>3, <1>4
  <1>11. CASE SavePause(r)
    <2>1. pc[r] \in Writing /\ UNCHANGED <<tasks, lock, cpc, req>>
      BY <1>11 DEF SavePause, At, Writing, Live, RunPC
    <2>2. CASE Raise(r)
      BY <2>1, <2>2, <1>2, <1>6
    <2>3. CASE Goto(r, "closing") /\ UNCHANGED run
      BY <2>1, <2>3, <1>1, <1>2 DEF Goto
    <2> QED BY <2>2, <2>3, <1>11 DEF SavePause
  <1>12. CASE SaveFinal(r) \/ AnnounceFailed(r)
    BY <1>2, <1>5, <1>12 DEF SaveFinal, AnnounceFailed
  <1>13. CASE SaveRelaunch(r)
    <2>1. CASE Leave(r) /\ UNCHANGED row
      BY <2>1, <1>2, <1>5, <1>13 DEF SaveRelaunch
    <2>2. CASE Goto(r, "respawning") /\ UNCHANGED run
      BY <2>2, <1>1, <1>2, <1>13 DEF SaveRelaunch, At, Goto, Writing, Live, RunPC
    <2> QED BY <2>1, <2>2, <1>13 DEF SaveRelaunch
  <1>14. CASE SaveFailed(r)
    <2>1. CASE Leave(r) /\ UNCHANGED row
      BY <2>1, <1>2, <1>5, <1>14 DEF SaveFailed
    <2>2. CASE Goto(r, "tolling") /\ UNCHANGED run
      BY <2>2, <1>1, <1>2, <1>14 DEF SaveFailed, Goto, Writing
    <2> QED BY <2>1, <2>2, <1>14 DEF SaveFailed
  <1>15. CASE Cancelled(r)
    <2>1. /\ \A q \in Run : q # r => pc'[q] = pc[q] /\ run'[q] = run[q]
          /\ pc'[r] \in {"teardown", "done"}
      BY <1>1, <1>15 DEF Cancelled, Leave, GotoWith, Goto
    <2> QED BY <2>1, <1>2, <1>15 DEF Cancelled, Writing, Live
  <1>16. CASE Cleanup(r)
    <2>1. /\ pc[r] = "done" /\ pc' = [pc EXCEPT ![r] = "free"]
          /\ "free" \notin Writing /\ UNCHANGED <<lock, req>>
      BY <1>16 DEF Cleanup, Goto, Writing, Live
    <2>2. \A q \in Run : q # r => /\ run'[q].sid = run[q].sid
                                  /\ run'[q].loose = run[q].loose
                                  /\ pc'[q] = pc[q]
      <3>1. \A q \in Run : /\ [run[q] EXCEPT !.ref = FALSE].sid = run[q].sid
                           /\ [run[q] EXCEPT !.ref = FALSE].loose = run[q].loose
        BY <1>1 DEF RunLocals
      <3>2. \A q \in Run : q # r =>
              run'[q] \in {run[q], [run[q] EXCEPT !.ref = FALSE]}
        BY <1>16 DEF Cleanup
      <3> QED BY <3>1, <3>2, <2>1, <1>1
    <2>3. \A q \in Run : q # r /\ tasks[Sid(q)] = q => tasks'[Sid(q)] = q
      <3>1. tasks \in [Session -> Run \cup {NoRun}] /\ \A q \in Run : Sid(q) \in Session
        BY DEF WriterInv, TypeOK, Sid, RunLocals
      <3> QED BY <3>1, <1>16 DEF Cleanup, IsTracked
    <2>4. \A c \in Client : cpc'[c] \in StartingPC => cpc'[c] = cpc[c]
      BY <1>16 DEF Cleanup, StartingPC, WriterInv, TypeOK
    <2> QED BY <2>1, <2>2, <2>3, <2>4, <1>1, WriterGoesOn
  <1>17. CASE Respawn(r)
    <2>1. /\ pc[r] \in Writing /\ UNCHANGED <<row, lock, cpc, req>>
      BY <1>17 DEF Respawn, At, Writing, Live, RunPC
    <2>2. CASE Leave(r) /\ UNCHANGED tasks
      BY <2>1, <2>2, <1>2, <1>5
    <2> DEFINE ended == [pc EXCEPT ![r] = "teardown"]
               left == [Overtaken(s) EXCEPT ![r] = [NoTask EXCEPT !.sid = s]]
    <2>3. CASE Launch(s, view, run[r].ans, run[r].loose, ended, left)
      <3>1. PICK n \in Run :
              /\ ended[n] = "free" /\ pc' = [ended EXCEPT ![n] = "slot"]
              /\ run' = [left EXCEPT ![n] = [sid |-> s, view |-> view, kill |-> FALSE,
                                             ref |-> FALSE, ans |-> run[r].ans,
                                             loose |-> run[r].loose]]
              /\ tasks' = [tasks EXCEPT ![s] = n]
        BY <2>3 DEF Launch
      <3>2. /\ left \in [Run -> RunLocals]
            /\ \A q \in Run : q # r => left[q] = Overtaken(s)[q]
        BY <1>1, OvertakenType DEF WriterInv, RunLocals
      <3>3. /\ n # r /\ pc'[r] = "teardown" /\ "teardown" \notin Writing
            /\ \A q \in Run \ {n, r} : pc'[q] = pc[q] /\ run'[q] = Overtaken(s)[q]
            /\ run'[n].sid = s /\ run'[n].loose = run[r].loose
        BY <3>1, <3>2, <1>1 DEF Writing
      <3>4. \A q \in Run :
              /\ Overtaken(s)[q].sid = run[q].sid
              /\ run[q].loose => Overtaken(s)[q].loose
              /\ pc[q] \in Writing /\ run[q].sid = s => Overtaken(s)[q].loose
        <4>1. \A q \in Run : [run[q] EXCEPT !.loose = TRUE].loose
          BY <1>1 DEF RunLocals
        <4> QED BY <4>1, <1>1, OvertakenType DEF Overtaken, WriterInv, WritersTracked, Sid
      <3>5. \A c \in Client : cpc[c] \in {"starting", "spawning"} /\ req[c].via = "start"
                                /\ Target(c) = s => run[r].loose
        BY <2>1 DEF WriterInv, StartersAlone, Overrun
      <3> HIDE DEF ended, left
      <3>6. \A q \in Run \ {n} : pc'[q] \in Writing =>
              /\ pc[q] \in Writing /\ run'[q].sid = run[q].sid
              /\ run[q].loose => run'[q].loose
              /\ run[q].sid = s => run'[q].loose
        BY <3>3, <3>4
      <3>7. \A c \in Client : cpc'[c] \in StartingPC =>
              /\ cpc'[c] = cpc[c] /\ req'[c] = req[c]
              /\ lock[Target(c)] = c => lock'[Target(c)] = c
              /\ Target(c) = s /\ cpc[c] # "answering" /\ req[c].via = "start"
                   => run'[n].loose
        BY <3>3, <3>5, <2>1 DEF StartingPC
      <3>8. run'[n].sid = s /\ tasks' = [tasks EXCEPT ![s] = n]
        BY <3>1, <3>3
      <3> HIDE DEF s
      <3> QED BY <3>6, <3>7, <3>8, <1>1, WriterLaunched
    <2> QED
      <3> HIDE DEF ended, left
      <3> QED BY <2>2, <2>3, <1>17 DEF Respawn, ended, left
  <1> QED
    BY <1>7, <1>8, <1>9, <1>10, <1>11, <1>12, <1>13, <1>14, <1>15, <1>16, <1>17
    DEF TaskStep, Advance

LEMMA WriterRequest ==
  ASSUME WriterInv, TypeOK', NEW c \in Client,
         RequestStep(c) \/ RequestChoice(c) \/ NewRequest(c)
  PROVE  WriterInv'
  <1> DEFINE s == Target(c)
             copy == req[c].copy
             Others == \A d \in Client : d # c => cpc'[d] = cpc[d] /\ req'[d] = req[d]
  <1>1. /\ pc \in [Run -> RunPC] /\ run \in [Run -> RunLocals]
        /\ cpc \in [Client -> ClientPC] /\ req \in [Client -> Request]
        /\ req[c] \in Request /\ s \in Session
        /\ lock \in [Session -> Client \cup {NoClient}]
        /\ tasks \in [Session -> Run \cup {NoRun}]
    BY DEF WriterInv, TypeOK, Target, Request
  <1>2. \A at : CGoto(c, at) => /\ \A d \in Client : d # c => cpc'[d] = cpc[d]
                                /\ cpc'[c] = at
    BY <1>1 DEF CGoto
  <1>3. Finish(c) => Others /\ cpc'[c] = "idle"
    BY <1>1 DEF Finish, CGoto
  <1>4. Unlock(c) => \A x \in Session : lock'[x] = lock[x] \/ lock[x] \in {c, NoClient}
    BY <1>1 DEF Unlock
  <1>5. ASSUME Others, cpc'[c] \notin StartingPC, UNCHANGED <<tasks, pc, run>>,
               UNCHANGED lock \/ Unlock(c)
        PROVE  WriterInv'
    BY <1>4, <1>5, WriterRequested
  <1>6. CASE \E x \in Session : Arrive(c, x)
    BY <1>1, <1>2, <1>5, <1>6 DEF Arrive, StartingPC
  <1>7. CASE \E x \in Session : RerunFailed(c, x)
    <2>1. PICK x, v :
            /\ req' = [req EXCEPT ![c] = [sid |-> x, copy |-> v, via |-> "rerun",
                                          del |-> FALSE, on |-> NoRun]]
            /\ CGoto(c, "starting") /\ UNCHANGED <<tasks, lock, pc, run>>
      BY <1>7 DEF RerunFailed
    <2>2. Others /\ cpc'[c] = "starting" /\ req'[c].via = "rerun"
      BY <2>1, <1>1, <1>2
    <2> QED BY <2>1, <2>2, WriterRequested
  <1>8. CASE RunSession(c) \/ DispatchStart(c) \/ DispatchResume(c)
    BY <1>2, <1>5, <1>8 DEF RunSession, DispatchStart, DispatchResume, StartingPC
  <1>9. CASE SteerOrRefuse(c)
    BY <1>3, <1>5, <1>9 DEF SteerOrRefuse, StartingPC
  <1>10. CASE CancelSession(c)
    <2>1. /\ cpc'[c] \in {"joining", "removing", "settling"} /\ Others
          /\ UNCHANGED <<tasks, lock, pc>>
      BY <1>1, <1>2, <1>10 DEF CancelSession
    <2>2. \A r \in Run : run'[r].sid = run[r].sid /\ run'[r].loose = run[r].loose
      <3>1. \A q \in Run : /\ [run[q] EXCEPT !.kill = TRUE].sid = run[q].sid
                           /\ [run[q] EXCEPT !.kill = TRUE].loose = run[q].loose
        BY <1>1 DEF RunLocals
      <3>2. run' = run \/ \E n : run' = [run EXCEPT ![n].kill = TRUE]
        BY <1>10 DEF CancelSession
      <3>3. \A r \in Run : run'[r] = run[r] \/ run'[r] = [run[r] EXCEPT !.kill = TRUE]
        BY <1>1, <3>2
      <3> QED BY <3>1, <3>3
    <2> QED BY <2>1, <2>2, WriterRequested DEF StartingPC
  <1>11. CASE StartSession(c)
    <2>1. CASE Finish(c) /\ UNCHANGED lock
      BY <2>1, <1>3, <1>5, <1>11 DEF StartSession, StartingPC
    <2>2. CASE ~Running(s)
      <3>1. /\ lock[s] = NoClient /\ lock' = [lock EXCEPT ![s] = c]
            /\ cpc'[c] = "starting" /\ Others /\ req' = req
            /\ UNCHANGED <<tasks, pc, run>>
        BY <2>2, <1>2, <1>11 DEF StartSession
      <3>2. Overrun(s)
        <4>1. "done" \notin Writing
          BY DEF Writing, Live
        <4> QED BY <4>1, <2>2, RunAssumption DEF Overrun, Running, WriterInv, WritersTracked
      <3>3. lock'[s] = c /\ \A x \in Session : lock'[x] = lock[x] \/ lock[x] = NoClient
        BY <3>1, <1>1
      <3>4. Target(c)' = s
        BY <3>1 DEF Target
      <3> HIDE DEF s
      <3> QED BY <3>1, <3>2, <3>3, <3>4, WriterRequested
    <2> QED BY <2>1, <2>2, <1>11 DEF StartSession
  <1>12. CASE ResumeSession(c) \/ ResumeFromCheckpoint(c)
    <2>1. CASE Finish(c) /\ UNCHANGED lock
      BY <2>1, <1>3, <1>5, <1>12 DEF ResumeSession, ResumeFromCheckpoint, StartingPC
    <2>2. ASSUME NEW x, NEW v \in {"answer", "restore"}, lock[s] = NoClient,
                 lock' = [lock EXCEPT ![s] = c], CGoto(c, "answering"),
                 req' = [req EXCEPT ![c].copy = x, ![c].via = v],
                 UNCHANGED <<tasks, pc, run>>
          PROVE  WriterInv'
      <3>1. Others /\ cpc'[c] = "answering" /\ req'[c].via = v /\ Target(c)' = s
        BY <1>1, <1>2, <2>2 DEF Request, Target
      <3>2. lock'[s] = c /\ \A y \in Session : lock'[y] = lock[y] \/ lock[y] = NoClient
        BY <1>1, <2>2
      <3> HIDE DEF s
      <3> QED BY <3>1, <3>2, <2>2, WriterRequested
    <2>3. CASE ResumeSession(c)
      BY <2>1, <2>2, <2>3, Zenon DEF ResumeSession
    <2>4. CASE ResumeFromCheckpoint(c)
      BY <2>1, <2>2, <2>4, Zenon DEF ResumeFromCheckpoint
    <2> QED BY <2>3, <2>4, <1>12
  <1>13. CASE SaveResumed(c)
    <2>1. CASE Finish(c) /\ Unlock(c)
      BY <2>1, <1>3, <1>5, <1>13 DEF SaveResumed, StartingPC
    <2>2. CASE CGoto(c, "starting") /\ UNCHANGED <<lock, req>>
      <3>1. cpc[c] = "answering" /\ UNCHANGED <<tasks, pc, run>>
        BY <1>13 DEF SaveResumed
      <3>2. req[c].via # "start" /\ (req[c].via # "rerun" => lock[s] = c)
        BY <3>1 DEF WriterInv, StartersLocked, StartingPC
      <3> QED BY <3>1, <3>2, <2>2, <1>2, WriterRequested DEF Target
    <2> QED BY <2>1, <2>2, <1>13 DEF SaveResumed
  <1>14. CASE SaveStart(c)
    <2>1. CASE Finish(c) /\ Unlock(c)
      BY <2>1, <1>3, <1>5, <1>14 DEF SaveStart, StartingPC
    <2>2. CASE /\ CGotoWith(c, "spawning", [copy EXCEPT !.st = "RUNNING"])
               /\ UNCHANGED lock
      <3>1. cpc[c] = "starting" /\ UNCHANGED <<tasks, pc, run>>
        BY <1>14 DEF SaveStart
      <3>2. /\ Others /\ cpc'[c] = "spawning"
            /\ req'[c].via = req[c].via /\ Target(c)' = s
        BY <2>2, <1>1, <1>2 DEF CGotoWith, Request, Target
      <3>3. /\ req[c].via # "rerun" => lock[s] = c
            /\ req[c].via = "start" => Overrun(s)
        BY <3>1 DEF WriterInv, StartersLocked, StartersAlone, StartingPC
      <3> HIDE DEF s
      <3> QED BY <3>1, <3>2, <3>3, <2>2, WriterRequested
    <2> QED BY <2>1, <2>2, <1>14 DEF SaveStart
  <1>15. CASE StartTask(c)
    <2>1. /\ Others /\ cpc'[c] = "idle" /\ cpc[c] = "spawning" /\ Unlock(c)
      BY <1>3, <1>15 DEF StartTask
    <2>2. CASE UNCHANGED <<tasks, pc, run>>
      BY <2>1, <2>2, <1>5 DEF StartingPC
    <2> DEFINE left == IF req[c].via = "start" THEN run ELSE Overtaken(s)
    <2>3. CASE Launch(s, copy, req[c].via = "answer", req[c].via = "rerun", pc, left)
      <3>1. PICK n \in Run :
              /\ pc[n] = "free" /\ pc' = [pc EXCEPT ![n] = "slot"]
              /\ run' = [left EXCEPT ![n] = [sid |-> s, view |-> copy, kill |-> FALSE,
                                             ref |-> FALSE, ans |-> req[c].via = "answer",
                                             loose |-> req[c].via = "rerun"]]
              /\ tasks' = [tasks EXCEPT ![s] = n]
        BY <2>3 DEF Launch
      <3>2. /\ left \in [Run -> RunLocals]
            /\ \A q \in Run :
                 /\ left[q].sid = run[q].sid
                 /\ run[q].loose => left[q].loose
                 /\ pc[q] \in Writing /\ run[q].sid = s => left[q].loose
        <4>1. \A q \in Run : [run[q] EXCEPT !.loose = TRUE].loose
          BY <1>1 DEF RunLocals
        <4>2. CASE req[c].via = "start"
          <5>1. Overrun(s)
            BY <4>2, <2>1 DEF WriterInv, StartersAlone
          <5> QED BY <5>1, <4>2, <1>1 DEF Overrun, Sid
        <4>3. CASE req[c].via # "start"
          <5>1. left = Overtaken(s)
            BY <4>3
          <5>2. \A q \in Run : /\ run[q].loose => Overtaken(s)[q].loose
                               /\ q = tasks[s] => Overtaken(s)[q].loose
            BY <4>1 DEF Overtaken
          <5>3. \A q \in Run : pc[q] \in Writing /\ run[q].sid = s /\ ~run[q].loose
                                => q = tasks[s]
            BY DEF WriterInv, WritersTracked, Sid
          <5> HIDE DEF left
          <5> QED BY <5>1, <5>2, <5>3, <1>1, OvertakenType DEF WriterInv
        <4> QED BY <4>2, <4>3
      <3> HIDE DEF left
      <3>3. /\ \A q \in Run \ {n} : pc'[q] = pc[q] /\ run'[q] = left[q]
            /\ run'[n].sid = s /\ run'[n].loose = (req[c].via = "rerun")
        BY <3>1, <3>2, <1>1
      <3>4. ASSUME NEW d \in Client, cpc'[d] \in StartingPC
            PROVE  /\ d # c /\ cpc'[d] = cpc[d] /\ req'[d] = req[d]
                   /\ lock[Target(d)] = d => lock'[Target(d)] = d
                   /\ Target(d) = s /\ req[d].via = "start" => req[c].via = "rerun"
        <4>1. d # c /\ cpc'[d] = cpc[d] /\ req'[d] = req[d]
          BY <2>1, <3>4 DEF StartingPC
        <4>2. Target(d) \in Session
          BY DEF WriterInv, TypeOK, Target, Request
        <4>3. req[d].via # "rerun" => lock[Target(d)] = d
          BY <4>1, <3>4 DEF WriterInv, StartersLocked
        <4>4. req[c].via # "rerun" => lock[s] = c
          BY <2>1 DEF WriterInv, StartersLocked, StartingPC
        <4>5. lock[Target(d)] = d => lock'[Target(d)] = d
          BY <4>1, <4>2, <2>1 DEF Unlock
        <4> QED BY <4>1, <4>3, <4>4, <4>5
      <3>5. \A q \in Run \ {n} : pc'[q] \in Writing =>
              /\ pc[q] \in Writing /\ run'[q].sid = run[q].sid
              /\ run[q].loose => run'[q].loose
              /\ run[q].sid = s => run'[q].loose
        BY <3>2, <3>3
      <3>6. \A d \in Client : cpc'[d] \in StartingPC =>
              /\ cpc'[d] = cpc[d] /\ req'[d] = req[d]
              /\ lock[Target(d)] = d => lock'[Target(d)] = d
              /\ Target(d) = s /\ cpc[d] # "answering" /\ req[d].via = "start"
                   => run'[n].loose
        BY <3>3, <3>4
      <3>7. run'[n].sid = s /\ tasks' = [tasks EXCEPT ![s] = n]
        BY <3>1, <3>3
      <3> HIDE DEF s
      <3> QED BY <3>5, <3>6, <3>7, <1>1, WriterLaunched
    <2> QED
      <3> HIDE DEF left
      <3> QED BY <2>2, <2>3, <1>15 DEF StartTask, left
  <1>16. CASE MarkCancelled(c) \/ SettleCancelled(c) \/ RemoveRow(c)
    <2>1. /\ Others /\ cpc'[c] \notin StartingPC
          /\ UNCHANGED <<tasks, lock, pc, run>>
      BY <1>2, <1>3, <1>16 DEF MarkCancelled, SettleCancelled, RemoveRow, StartingPC
    <2> QED BY <2>1, <1>5
  <1> QED
    BY <1>6, <1>7, <1>8, <1>9, <1>10, <1>11, <1>12, <1>13, <1>14, <1>15, <1>16
    DEF RequestStep, RequestChoice, NewRequest

\* Two flows never write the same session unless one of them was overtaken, or started
\* beside the lock: whoever persists the session, whatever is asked for, fails or stops.
THEOREM OneWriterKept == Spec => []OneWriter
  <1>1. Init => WriterInv
    <2> SUFFICES ASSUME Init
                 PROVE  WriterInv
      OBVIOUS
    <2>1. "free" \notin Writing
      BY DEF Writing, Live
    <2> QED
      BY <2>1, InitType
      DEF Init, WriterInv, WritersTracked, StartersAlone, StartersLocked, StartingPC
  <1>2. WriterInv /\ TypeOK' /\ [Next]_vars => WriterInv'
    <2> SUFFICES ASSUME WriterInv, TypeOK', [Next]_vars
                 PROVE  WriterInv'
      OBVIOUS
    <2>1. CASE UNCHANGED vars
      BY <2>1
      DEF vars, WriterInv, WritersTracked, StartersAlone, StartersLocked, Overrun, Sid, Target
    <2>2. CASE Crash
      <3>1. "free" \notin Writing
        BY DEF Writing, Live
      <3>2. /\ \A r \in Run : pc'[r] = "free"
            /\ \A c \in Client : cpc'[c] = "idle"
        BY <2>2 DEF Crash
      <3> QED
        BY <3>1, <3>2
        DEF WriterInv, WritersTracked, StartersAlone, StartersLocked, StartingPC
    <2>3. CASE Startup
      BY <2>3, WriterGoesOn DEF Startup, Serve, InterruptOrphan
    <2> QED BY <2>1, <2>2, <2>3, WriterTask, WriterRequest DEF Next
  <1>3. WriterInv => OneWriter
    BY DEF WriterInv, WritersTracked, OneWriter
  <1> QED BY <1>1, <1>2, <1>3, TypeCorrect, PTL DEF Spec

-----------------------------------------------------------------------------
(* No session is left RUNNING with nobody to end it *)

\* A cancelled task has the request that cancelled it waiting for its end.
KilledIsJoined ==
  \A r \in Run : run[r].kill =>
    \E c \in Client : cpc[c] = "joining" /\ req[c].on = r /\ Target(c) = Sid(r)

\* What a task's last save writes is not RUNNING.
LastIsFinal ==
  \A r \in Run : pc[r] \in {"closing", "pausing", "burying"} => run[r].view.st # "RUNNING"

\* A tracked task is one of its session, and its identity is in use.
TrackedIsOwn ==
  \A s \in Session : tasks[s] # NoRun => Sid(tasks[s]) = s /\ pc[tasks[s]] # "free"

AttendInv ==
  /\ TypeOK
  /\ KilledIsJoined
  /\ LastIsFinal
  /\ TrackedIsOwn
  /\ RunningIsAttended

\* The suspension points of a request that is going to write its session's row
\* or to create its task.
AttendingPC == {"starting", "spawning", "joining", "marking"}

\* A step of task r that leaves the tables and the requests alone: it goes on
\* attending its session, or is cancelled, or its session is not left RUNNING,
\* or it attended to nothing.
LEMMA AttendGoesOn ==
  ASSUME AttendInv, TypeOK', NEW r \in Run, UNCHANGED <<tasks, cpc, req, up>>,
         pc' = [pc EXCEPT ![r] = pc'[r]], pc'[r] # "free",
         run' = [run EXCEPT ![r] = run'[r]], run'[r].sid = run[r].sid,
         run'[r].kill => run[r].kill,
         pc'[r] \in {"closing", "pausing", "burying"} => run'[r].view.st # "RUNNING",
         \A s \in Session : s # Sid(r) => row'[s] = row[s],
         \/ pc'[r] \in Writing
         \/ run[r].kill
         \/ row'[Sid(r)].st # "RUNNING"
         \/ pc[r] \notin Writing /\ UNCHANGED row
  PROVE  AttendInv'
  <1>1. /\ pc \in [Run -> RunPC] /\ run \in [Run -> RunLocals]
        /\ tasks \in [Session -> Run \cup {NoRun}]
    BY DEF AttendInv, TypeOK
  <1>2. \A q \in Run : /\ run'[q].sid = run[q].sid /\ (run'[q].kill => run[q].kill)
                       /\ q # r => pc'[q] = pc[q] /\ run'[q] = run[q]
    BY <1>1
  <1>3. KilledIsJoined'
    BY <1>2 DEF AttendInv, KilledIsJoined, Sid, Target
  <1>4. LastIsFinal'
    BY <1>2 DEF AttendInv, LastIsFinal
  <1>5. TrackedIsOwn'
    BY <1>1, <1>2 DEF AttendInv, TrackedIsOwn, Sid
  <1>6. RunningIsAttended'
    <2> SUFFICES ASSUME up, NEW s \in Session, row'[s].st = "RUNNING"
                 PROVE  TaskAttends(s)' \/ RequestAttends(s)'
      BY DEF RunningIsAttended
    <2>1. RequestAttends(s) => RequestAttends(s)'
      BY DEF RequestAttends, Target
    <2>2. ASSUME NEW q \in Run, q # r, Sid(q) = s, ~run[q].kill, pc[q] \in Writing
          PROVE  TaskAttends(s)'
      BY <2>2, <1>2 DEF TaskAttends, Sid
    <2>3. CASE s # Sid(r)
      <3>1. TaskAttends(s) \/ RequestAttends(s)
        BY <2>3 DEF AttendInv, RunningIsAttended
      <3> QED BY <3>1, <2>1, <2>2, <2>3 DEF TaskAttends
    <2>4. CASE s = Sid(r) /\ run[r].kill
      BY <2>4 DEF AttendInv, KilledIsJoined, RequestAttends, Target
    <2>5. CASE s = Sid(r) /\ ~run[r].kill /\ pc'[r] \in Writing
      BY <2>5, <1>2 DEF TaskAttends, Sid
    <2>6. CASE s = Sid(r) /\ pc[r] \notin Writing /\ UNCHANGED row
      <3>1. TaskAttends(s) \/ RequestAttends(s)
        BY <2>6 DEF AttendInv, RunningIsAttended
      <3> QED BY <3>1, <2>1, <2>2, <2>6 DEF TaskAttends
    <2> QED BY <2>3, <2>4, <2>5, <2>6
  <1> QED BY <1>3, <1>4, <1>5, <1>6 DEF AttendInv

\* A new task n of s, created by a request, or by a task that ends with it.
LEMMA AttendLaunched ==
  ASSUME AttendInv, TypeOK', NEW s \in Session, NEW n \in Run,
         pc[n] = "free", pc'[n] = "slot", run'[n].sid = s, run'[n].kill = FALSE,
         tasks' = [tasks EXCEPT ![s] = n],
         \A q \in Run \ {n} :
            \/ /\ pc'[q] = pc[q] /\ run'[q].sid = run[q].sid
               /\ run'[q].view = run[q].view /\ run'[q].kill = run[q].kill
            \/ /\ pc'[q] = "teardown" /\ run[q].sid = s
               /\ run'[q].sid = s /\ ~run'[q].kill,
         \A c \in Client :
            \/ cpc'[c] = cpc[c] /\ req'[c] = req[c]
            \/ cpc[c] = "spawning" /\ Target(c) = s /\ cpc'[c] = "idle",
         UNCHANGED <<row, up>>
  PROVE  AttendInv'
  <1>1. /\ tasks \in [Session -> Run \cup {NoRun}]
        /\ "slot" \in Writing /\ "slot" # "free" /\ "teardown" # "free"
        /\ "free" \notin Writing
    BY DEF AttendInv, TypeOK, Writing, Live, RunPC
  <1>2. KilledIsJoined'
    <2> SUFFICES ASSUME NEW q \in Run, run'[q].kill
                 PROVE  \E c \in Client : cpc'[c] = "joining" /\ req'[c].on = q
                                         /\ Target(c)' = Sid(q)'
      BY DEF KilledIsJoined
    <2>1. run'[q].sid = run[q].sid /\ run[q].kill
      OBVIOUS
    <2>2. PICK c \in Client : cpc[c] = "joining" /\ req[c].on = q /\ Target(c) = Sid(q)
      BY <2>1 DEF AttendInv, KilledIsJoined
    <2>3. cpc'[c] = cpc[c] /\ req'[c] = req[c]
      BY <2>2
    <2> QED BY <2>1, <2>2, <2>3 DEF Target, Sid
  <1>3. LastIsFinal'
    BY <1>1 DEF AttendInv, LastIsFinal
  <1>4. TrackedIsOwn'
    <2> SUFFICES ASSUME NEW x \in Session, tasks'[x] # NoRun
                 PROVE  Sid(tasks[x])' = x /\ pc'[tasks'[x]] # "free"
      BY DEF TrackedIsOwn
    <2>1. CASE x = s
      BY <2>1, <1>1 DEF Sid
    <2>2. CASE x # s
      <3>1. /\ tasks'[x] = tasks[x] /\ tasks[x] \in Run
            /\ Sid(tasks[x]) = x /\ pc[tasks[x]] # "free"
        BY <2>2, <1>1 DEF AttendInv, TrackedIsOwn
      <3> QED BY <2>2, <3>1, <1>1 DEF Sid
    <2> QED BY <2>1, <2>2
  <1>5. RunningIsAttended'
    <2> SUFFICES ASSUME up, NEW x \in Session, row[x].st = "RUNNING"
                 PROVE  TaskAttends(x)' \/ RequestAttends(x)'
      BY DEF RunningIsAttended
    <2>1. CASE x = s
      BY <2>1, <1>1 DEF TaskAttends, Sid
    <2>2. ASSUME x # s, TaskAttends(x)
          PROVE  TaskAttends(x)'
      BY <2>2, <1>1 DEF TaskAttends, Sid
    <2>3. ASSUME x # s, RequestAttends(x)
          PROVE  RequestAttends(x)'
      BY <2>3 DEF RequestAttends, Target
    <2> QED BY <2>1, <2>2, <2>3 DEF AttendInv, RunningIsAttended
  <1> QED BY <1>2, <1>3, <1>4, <1>5 DEF AttendInv

\* A step of request c that starts no task: it may cancel the tracked one, and
\* then waits for it; it stops attending only to a session that is not RUNNING.
LEMMA AttendRequested ==
  ASSUME AttendInv, TypeOK', NEW c \in Client, UNCHANGED <<tasks, pc, up>>,
         cpc[c] # "joining",
         \A d \in Client : d # c => cpc'[d] = cpc[d] /\ req'[d] = req[d],
         \A r \in Run : /\ run'[r].sid = run[r].sid /\ run'[r].view = run[r].view
                        /\ \/ run'[r].kill = run[r].kill
                           \/ cpc'[c] = "joining" /\ req'[c].on = r /\ Target(c)' = Sid(r),
         \A s \in Session : row'[s].st = "RUNNING"
                              => \/ row[s].st = "RUNNING"
                                 \/ s = Target(c)' /\ cpc'[c] \in AttendingPC,
         cpc[c] \in AttendingPC => \/ row'[Target(c)].st # "RUNNING"
                                   \/ cpc'[c] \in AttendingPC /\ Target(c)' = Target(c)
  PROVE  AttendInv'
  <1>1. KilledIsJoined'
    <2> SUFFICES ASSUME NEW q \in Run, run'[q].kill
                 PROVE  \E d \in Client : cpc'[d] = "joining" /\ req'[d].on = q
                                         /\ Target(d)' = Sid(q)'
      BY DEF KilledIsJoined
    <2>1. CASE run'[q].kill = run[q].kill
      <3>1. PICK d \in Client : cpc[d] = "joining" /\ req[d].on = q /\ Target(d) = Sid(q)
        BY <2>1 DEF AttendInv, KilledIsJoined
      <3> QED BY <3>1 DEF Target, Sid
    <2>2. CASE run'[q].kill # run[q].kill
      BY <2>2 DEF Target, Sid
    <2> QED BY <2>1, <2>2
  <1>2. LastIsFinal'
    BY DEF AttendInv, LastIsFinal
  <1>3. TrackedIsOwn'
    BY DEF AttendInv, TypeOK, TrackedIsOwn, Sid
  <1>4. RunningIsAttended'
    <2> SUFFICES ASSUME up, NEW s \in Session, row'[s].st = "RUNNING"
                 PROVE  TaskAttends(s)' \/ RequestAttends(s)'
      BY DEF RunningIsAttended
    <2>1. ASSUME s = Target(c)', cpc'[c] \in AttendingPC
          PROVE  RequestAttends(s)'
      BY <2>1 DEF RequestAttends, AttendingPC
    <2>2. ASSUME NEW r \in Run, Sid(r) = s, ~run[r].kill, pc[r] \in Writing
          PROVE  TaskAttends(s)' \/ RequestAttends(s)'
      <3>1. CASE run'[r].kill = run[r].kill
        BY <2>2, <3>1 DEF TaskAttends, Sid
      <3>2. CASE run'[r].kill # run[r].kill
        <4>1. cpc'[c] = "joining" /\ Target(c)' = s
          BY <2>2, <3>2
        <4> QED BY <4>1, <2>1 DEF AttendingPC
      <3> QED BY <3>1, <3>2
    <2>3. ASSUME NEW d \in Client, Target(d) = s, cpc[d] \in AttendingPC
          PROVE  RequestAttends(s)'
      <3>1. CASE d = c
        BY <2>1, <2>3, <3>1
      <3>2. CASE d # c
        BY <2>3, <3>2 DEF RequestAttends, AttendingPC, Target
      <3> QED BY <3>1, <3>2
    <2>4. row[s].st = "RUNNING" => TaskAttends(s) \/ RequestAttends(s)
      BY DEF AttendInv, RunningIsAttended
    <2> QED BY <2>1, <2>2, <2>3, <2>4 DEF TaskAttends, RequestAttends, AttendingPC
  <1> QED BY <1>1, <1>2, <1>3, <1>4 DEF AttendInv

LEMMA AttendTask ==
  ASSUME AttendInv, TypeOK', Faults \cap {"save", "factory"} = {},
         NEW r \in Run, TaskStep(r)
  PROVE  AttendInv'
  <1> DEFINE s == Sid(r)
             view == run[r].view
  <1>1. /\ pc \in [Run -> RunPC] /\ run \in [Run -> RunLocals] /\ run[r] \in RunLocals
        /\ s \in Session /\ row \in [Session -> Row] /\ view \in Copy
        /\ NoTask \in RunLocals /\ tasks \in [Session -> Run \cup {NoRun}]
    BY NoTaskType DEF AttendInv, TypeOK, Sid, RunLocals
  <1>2. Leave(r) => /\ pc' = [pc EXCEPT ![r] = pc'[r]] /\ pc'[r] = "teardown"
                    /\ run' = [run EXCEPT ![r] = run'[r]] /\ run'[r].sid = run[r].sid
                    /\ ~run'[r].kill
    BY LeftLocals DEF AttendInv
  <1>3. Raise(r) => /\ pc' = [pc EXCEPT ![r] = pc'[r]]
                    /\ run' = [run EXCEPT ![r] = run'[r]] /\ run'[r].sid = run[r].sid
                    /\ run'[r].kill = run[r].kill
                    /\ \/ pc'[r] = "spending"
                       \/ pc'[r] = "burying" /\ run'[r].view.st = "FAILED"
    BY RaisedLocals DEF AttendInv
  <1>4. ASSUME NEW x, Save(s, x)
        PROVE  /\ \A y \in Session : y # s => row'[y] = row[y]
               /\ row'[s] = x
    BY <1>1, <1>4 DEF Save
  <1>5. pc[r] \in {"closing", "pausing", "burying"} => view.st # "RUNNING"
    BY DEF AttendInv, LastIsFinal
  <1>6. ASSUME NEW x \in Copy, run' = [run EXCEPT ![r] = [run[r] EXCEPT !.view = x]]
        PROVE  run' = [run EXCEPT ![r] = run'[r]] /\ run'[r].view = x
               /\ run'[r].sid = run[r].sid /\ run'[r].kill = run[r].kill
    BY <1>1, <1>6 DEF RunLocals
  <1>7. ASSUME NEW st \in Status
        PROVE  [view EXCEPT !.st = st] \in Copy /\ [view EXCEPT !.st = st].st = st
    BY <1>1, <1>7 DEF Copy
  <1>8. ~Fault("save") /\ ~Fault("factory")
    BY DEF Fault
  <1>9. CASE TakeSlot(r)
    BY <1>1, <1>9, AttendGoesOn DEF TakeSlot, At, Goto, Writing, Live, RunPC
  <1>10. CASE LoadRow(r)
    <2>1. CASE row[s] = Gone
      <3>1. row'[s].st # "RUNNING"
        BY <2>1, <1>10 DEF LoadRow, Gone
      <3> QED BY <2>1, <3>1, <1>1, <1>10, AttendGoesOn DEF LoadRow, At, Goto
    <2>2. CASE row[s] # Gone
      <3>1. /\ run' = [run EXCEPT ![r] = run'[r]]
            /\ run'[r].sid = run[r].sid /\ run'[r].kill = run[r].kill
            /\ pc' = [pc EXCEPT ![r] = "flow"]
        BY <2>2, <1>1, <1>10 DEF LoadRow, GotoWith, Goto, RunLocals
      <3> QED BY <3>1, <1>1, <1>10, AttendGoesOn DEF LoadRow, Writing, Live, RunPC
    <2> QED BY <2>1, <2>2
  <1>11. CASE SaveEvent(r)
    BY <1>1, <1>4, <1>11, AttendGoesOn DEF SaveEvent, At, Writing, Live, RunPC
  <1>12. CASE FlowRaises(r)
    BY <1>1, <1>3, <1>12, AttendGoesOn DEF FlowRaises, Writing, Live, RunPC
  <1>13. CASE PauseFlow(r)
    <2> DEFINE paused == [view EXCEPT !.st = "WAITING"]
    <2>1. /\ pc' = [pc EXCEPT ![r] = "pausing"] /\ Save(s, paused)
          /\ run' = [run EXCEPT ![r] = [run[r] EXCEPT !.view = paused]]
          /\ UNCHANGED <<tasks, cpc, req, up>>
      BY <1>13 DEF PauseFlow, GotoWith, Goto
    <2>2. paused \in Copy /\ paused.st = "WAITING"
      BY <1>7 DEF Status
    <2> HIDE DEF paused
    <2> QED BY <2>1, <2>2, <1>1, <1>4, <1>6, AttendGoesOn DEF Writing, Live, RunPC
  <1>14. CASE SavePause(r)
    BY <1>1, <1>4, <1>5, <1>8, <1>14, AttendGoesOn DEF SavePause, At, Goto, Writing, Live, RunPC
  <1>15. CASE FlowEnds(r)
    <2>1. PICK st \in {"COMPLETED", "FAILED", "WAITING"} :
            /\ run' = [run EXCEPT ![r] = [run[r] EXCEPT !.view = [view EXCEPT !.st = st]]]
            /\ pc' = [pc EXCEPT ![r] = "closing"]
            /\ UNCHANGED row \/ Save(s, [view EXCEPT !.st = st])
            /\ UNCHANGED <<tasks, cpc, req, up>>
      BY <1>15 DEF FlowEnds, GotoWith, Goto
    <2> DEFINE last == [view EXCEPT !.st = st]
    <2>2. last \in Copy /\ last.st # "RUNNING"
      BY <1>7 DEF Status
    <2> HIDE DEF last
    <2> QED BY <2>1, <2>2, <1>1, <1>4, <1>6, AttendGoesOn DEF last, Writing, Live, RunPC
  <1>16. CASE SaveFinal(r)
    BY <1>1, <1>2, <1>4, <1>5, <1>8, <1>16, AttendGoesOn DEF SaveFinal, At
  <1>17. CASE SaveSpent(r)
    BY <1>1, <1>4, <1>8, <1>17, AttendGoesOn DEF SaveSpent, Goto, Writing, Live, RunPC
  <1>18. CASE Reload(r)
    <2>1. CASE row[s] = Gone
      <3>1. /\ run'[r].view.st = "FAILED" /\ run' = [run EXCEPT ![r] = run'[r]]
            /\ run'[r].sid = run[r].sid /\ run'[r].kill = run[r].kill
            /\ pc' = [pc EXCEPT ![r] = "burying"]
        BY <2>1, <1>6, <1>18, FailedType DEF Reload, GotoWith, Goto
      <3> QED BY <3>1, <1>1, <1>18, AttendGoesOn DEF Reload, Writing, Live, RunPC
    <2>2. CASE row[s] # Gone
      <3>1. /\ run' = [run EXCEPT ![r] = run'[r]]
            /\ run'[r].sid = run[r].sid /\ run'[r].kill = run[r].kill
            /\ pc' = [pc EXCEPT ![r] = "relaunching"]
        BY <2>2, <1>1, <1>18 DEF Reload, GotoWith, Goto, RunLocals
      <3> QED BY <3>1, <1>1, <1>18, AttendGoesOn DEF Reload, Writing, Live, RunPC
    <2> QED BY <2>1, <2>2
  <1>19. CASE SaveRelaunch(r)
    BY <1>1, <1>4, <1>8, <1>19, AttendGoesOn DEF SaveRelaunch, Goto, Writing, Live, RunPC
  <1>20. CASE Respawn(r)
    <2>1. PICK n \in Run :
            /\ [pc EXCEPT ![r] = "teardown"][n] = "free"
            /\ pc' = [[pc EXCEPT ![r] = "teardown"] EXCEPT ![n] = "slot"]
            /\ run' = [[Overtaken(s) EXCEPT ![r] = [NoTask EXCEPT !.sid = s]] EXCEPT
                         ![n] = [sid |-> s, view |-> view, kill |-> FALSE, ref |-> FALSE,
                                 ans |-> run[r].ans, loose |-> run[r].loose]]
            /\ tasks' = [tasks EXCEPT ![s] = n]
      BY <1>8, <1>20 DEF Respawn, Launch
    <2>5. /\ Overtaken(s) \in [Run -> RunLocals]
          /\ \A q \in Run : /\ Overtaken(s)[q].sid = run[q].sid
                            /\ Overtaken(s)[q].view = run[q].view
                            /\ Overtaken(s)[q].kill = run[q].kill
      BY <1>1, OvertakenType DEF AttendInv
    <2>2. /\ n # r /\ pc[n] = "free" /\ pc'[n] = "slot" /\ pc'[r] = "teardown"
          /\ run'[n].sid = s /\ run'[n].kill = FALSE
          /\ \A q \in Run : q # n /\ q # r => pc'[q] = pc[q] /\ run'[q] = Overtaken(s)[q]
      BY <2>1, <2>5, <1>1
    <2>3. run'[r].sid = s /\ ~run'[r].kill
      <3>1. [NoTask EXCEPT !.sid = s].sid = s /\ [NoTask EXCEPT !.sid = s].kill = FALSE
        BY <1>1 DEF NoTask, RunLocals
      <3> QED BY <2>1, <2>2, <2>5, <3>1, <1>1
    <2>4. \A q \in Run \ {n} :
            \/ /\ pc'[q] = pc[q] /\ run'[q].sid = run[q].sid
               /\ run'[q].view = run[q].view /\ run'[q].kill = run[q].kill
            \/ pc'[q] = "teardown" /\ run[q].sid = s /\ run'[q].sid = s /\ ~run'[q].kill
      BY <2>2, <2>3, <2>5 DEF Sid
    <2> QED BY <2>1, <2>2, <2>4, <1>1, <1>20, AttendLaunched DEF Respawn
  <1>21. CASE SaveFailed(r)
    BY <1>1, <1>4, <1>5, <1>8, <1>21, AttendGoesOn DEF SaveFailed, At, Goto
  <1>22. CASE AnnounceFailed(r)
    BY <1>1, <1>2, <1>22, AttendGoesOn DEF AnnounceFailed, At, Writing
  <1>23. CASE Teardown(r)
    <2>1. /\ pc[r] = "teardown" /\ pc' = [pc EXCEPT ![r] = "done"]
          /\ run' = [run EXCEPT ![r] = run'[r]] /\ run'[r] = run[r]
          /\ UNCHANGED <<row, tasks, cpc, req, up>>
      BY <1>1, <1>23 DEF Teardown, At, Goto
    <2>2. pc'[r] = "done" /\ pc[r] \notin Writing
      BY <2>1, <1>1 DEF Writing
    <2> QED BY <2>1, <2>2, AttendGoesOn
  <1>24. CASE Cancelled(r)
    <2>1. /\ pc' = [pc EXCEPT ![r] = pc'[r]] /\ pc'[r] \in {"teardown", "done"}
          /\ run' = [run EXCEPT ![r] = run'[r]] /\ run'[r].sid = run[r].sid
          /\ run[r].kill
      BY <1>1, <1>2, <1>24 DEF Cancelled, GotoWith, Goto, Sid, RunLocals
    <2>2. \A y \in Session : y # s => row'[y] = row[y]
      BY <1>4, <1>24 DEF Cancelled
    <2> QED BY <2>1, <2>2, <1>24, AttendGoesOn DEF Cancelled
  <1>25. CASE Cleanup(r)
    <2>1. /\ pc[r] = "done" /\ pc' = [pc EXCEPT ![r] = "free"] /\ UNCHANGED <<row, req, up>>
          /\ "done" \notin Writing
      BY <1>25 DEF Cleanup, Goto, Writing, Live
    <2>2. /\ \A q \in Run : q # r => /\ run'[q].sid = run[q].sid /\ run'[q].kill = run[q].kill
                                     /\ run'[q].view = run[q].view /\ pc'[q] = pc[q]
          /\ pc'[r] = "free" /\ run'[r].kill = FALSE
      BY <2>1, <1>1, <1>25 DEF Cleanup, RunLocals, NoTask
    <2>3. \A c \in Client : /\ cpc'[c] = cpc[c] \/ (cpc[c] = "joining" /\ cpc'[c] = "marking")
                            /\ req[c].on # r => cpc'[c] = cpc[c]
      BY <1>25 DEF Cleanup, AttendInv, TypeOK
    <2>4. KilledIsJoined'
      <3> SUFFICES ASSUME NEW q \in Run, run'[q].kill
                   PROVE  \E c \in Client : cpc'[c] = "joining" /\ req'[c].on = q
                                           /\ Target(c)' = Sid(q)'
        BY DEF KilledIsJoined
      <3>1. q # r /\ run[q].kill /\ run'[q].sid = run[q].sid
        BY <2>2
      <3>2. PICK c \in Client : cpc[c] = "joining" /\ req[c].on = q /\ Target(c) = Sid(q)
        BY <3>1 DEF AttendInv, KilledIsJoined
      <3> QED BY <2>1, <2>3, <3>1, <3>2 DEF Target, Sid
    <2>5. LastIsFinal'
      BY <2>2 DEF AttendInv, LastIsFinal
    <2>6. TrackedIsOwn'
      <3> SUFFICES ASSUME NEW x \in Session, tasks'[x] # NoRun
                   PROVE  Sid(tasks[x])' = x /\ pc'[tasks'[x]] # "free"
        BY DEF TrackedIsOwn
      <3>1. /\ tasks'[x] = tasks[x] /\ tasks[x] \in Run
            /\ ~(x = s /\ tasks[x] = r)
        BY <1>1, <1>25 DEF Cleanup, IsTracked
      <3>2. Sid(tasks[x]) = x /\ pc[tasks[x]] # "free"
        BY <3>1, RunAssumption DEF AttendInv, TrackedIsOwn
      <3>3. tasks[x] # r
        BY <3>1, <3>2
      <3> QED BY <2>2, <3>1, <3>2, <3>3 DEF Sid
    <2>7. RunningIsAttended'
      <3> SUFFICES ASSUME up, NEW x \in Session, row[x].st = "RUNNING"
                   PROVE  TaskAttends(x)' \/ RequestAttends(x)'
        BY <2>1 DEF RunningIsAttended
      <3>1. TaskAttends(x) => TaskAttends(x)'
        BY <2>1, <2>2 DEF TaskAttends, Sid
      <3>2. RequestAttends(x) => RequestAttends(x)'
        BY <2>1, <2>3 DEF RequestAttends, Target
      <3> QED BY <3>1, <3>2 DEF AttendInv, RunningIsAttended
    <2>8. TypeOK'
      OBVIOUS
    <2> QED BY <2>4, <2>5, <2>6, <2>7, <2>8 DEF AttendInv
  <1> QED
    BY <1>9, <1>10, <1>11, <1>12, <1>13, <1>14, <1>15, <1>16, <1>17, <1>18, <1>19,
       <1>20, <1>21, <1>22, <1>23, <1>24, <1>25 DEF TaskStep, Advance

LEMMA AttendRequest ==
  ASSUME AttendInv, TypeOK', Faults \cap {"save", "factory"} = {},
         NEW c \in Client, RequestStep(c) \/ RequestChoice(c) \/ NewRequest(c)
  PROVE  AttendInv'
  <1> DEFINE s == Target(c)
             copy == req[c].copy
  <1>1. /\ pc \in [Run -> RunPC] /\ run \in [Run -> RunLocals]
        /\ cpc \in [Client -> ClientPC] /\ req \in [Client -> Request]
        /\ req[c] \in Request /\ copy \in Copy /\ s \in Session
        /\ row \in [Session -> Row] /\ tasks \in [Session -> Run \cup {NoRun}]
    BY DEF AttendInv, TypeOK, Target, Request
  <1>2. \A at : CGoto(c, at) => /\ \A d \in Client : d # c => cpc'[d] = cpc[d]
                                /\ cpc'[c] = at
    BY <1>1 DEF CGoto
  <1>3. Finish(c) => /\ \A d \in Client : d # c => cpc'[d] = cpc[d] /\ req'[d] = req[d]
                     /\ cpc'[c] = "idle"
    BY <1>1 DEF Finish, CGoto
  <1>4. ASSUME NEW x, Save(s, x)
        PROVE  /\ row'[s] = x
               /\ \A y \in Session : y # s => row'[y] = row[y]
    BY <1>1, <1>4 DEF Save
  <1>5. ~Fault("save") /\ ~Fault("factory")
    BY DEF Fault
  <1>6. UNCHANGED req => Target(c)' = s
    BY DEF Target
  <1>7. CASE \E x \in Session : Arrive(c, x)
    <2>1. PICK x \in Session : Arrive(c, x)
      BY <1>7
    <2> QED BY <2>1, <1>1, <1>2, AttendRequested DEF Arrive, AttendingPC
  <1>8. CASE \E x \in Session : RerunFailed(c, x)
    <2>1. PICK x \in Session : RerunFailed(c, x)
      BY <1>8
    <2> QED BY <2>1, <1>1, <1>2, AttendRequested DEF RerunFailed, AttendingPC
  <1>9. CASE RunSession(c)
    BY <1>9, <1>2, AttendRequested DEF RunSession, AttendingPC
  <1>10. CASE DispatchStart(c)
    BY <1>10, <1>2, <1>4, AttendRequested DEF DispatchStart, AttendingPC
  <1>11. CASE DispatchResume(c)
    BY <1>11, <1>2, <1>4, AttendRequested DEF DispatchResume, AttendingPC
  <1>12. CASE SteerOrRefuse(c)
    BY <1>12, <1>3, AttendRequested DEF SteerOrRefuse, AttendingPC
  <1>13. CASE ResumeFromCheckpoint(c)
    <2>1. /\ \A d \in Client : d # c => cpc'[d] = cpc[d] /\ req'[d] = req[d]
          /\ cpc'[c] \in {"idle", "answering"}
      BY <1>1, <1>2, <1>3, <1>13 DEF ResumeFromCheckpoint
    <2> QED BY <2>1, <1>13, AttendRequested DEF ResumeFromCheckpoint, AttendingPC
  <1>14. CASE CancelSession(c)
    <2>1. CASE Running(s)
      <3>1. PICK del \in BOOLEAN :
              /\ run' = [run EXCEPT ![tasks[s]].kill = TRUE]
              /\ CGoto(c, "joining")
              /\ req' = [req EXCEPT ![c].del = del, ![c].on = tasks[s]]
        BY <2>1, <1>14 DEF CancelSession
      <3>2. tasks[s] \in Run /\ Sid(tasks[s]) = s
        BY <2>1, <1>1 DEF Running, AttendInv, TrackedIsOwn
      <3>3. /\ \A d \in Client : d # c => cpc'[d] = cpc[d] /\ req'[d] = req[d]
            /\ cpc'[c] = "joining" /\ req'[c].on = tasks[s] /\ Target(c)' = s
        BY <3>1, <1>1, <1>2 DEF Target, Request
      <3>4. \A r \in Run : /\ run'[r].sid = run[r].sid /\ run'[r].view = run[r].view
                           /\ run'[r].kill = run[r].kill \/ r = tasks[s]
        BY <3>1, <1>1 DEF RunLocals
      <3>5. cpc[c] = "ready" /\ UNCHANGED <<row, tasks, pc, up>>
        BY <1>14 DEF CancelSession
      <3> QED BY <3>2, <3>3, <3>4, <3>5, AttendRequested DEF AttendingPC
    <2>2. CASE ~Running(s)
      <3>1. cpc'[c] \in {"removing", "settling"} /\ UNCHANGED <<run, req>>
        BY <2>2, <1>2, <1>14 DEF CancelSession
      <3> QED BY <3>1, <1>2, <1>14, AttendRequested DEF CancelSession, AttendingPC
    <2> QED BY <2>1, <2>2
  <1>15. CASE StartSession(c)
    <2>1. /\ \A d \in Client : d # c => cpc'[d] = cpc[d] /\ req'[d] = req[d]
          /\ cpc[c] = "queued" /\ UNCHANGED <<row, tasks, pc, run, up>>
      BY <1>1, <1>2, <1>3, <1>15 DEF StartSession
    <2> QED BY <2>1, AttendRequested DEF AttendingPC
  <1>16. CASE ResumeSession(c)
    <2>1. /\ \A d \in Client : d # c => cpc'[d] = cpc[d] /\ req'[d] = req[d]
          /\ cpc[c] = "answer" /\ UNCHANGED <<row, tasks, pc, run, up>>
      BY <1>1, <1>2, <1>3, <1>16 DEF ResumeSession
    <2> QED BY <2>1, AttendRequested DEF AttendingPC
  <1>17. CASE SaveResumed(c)
    BY <1>17, <1>2, <1>4, <1>5, <1>6, AttendRequested DEF SaveResumed, AttendingPC
  <1>18. CASE SaveStart(c)
    <2> DEFINE started == [copy EXCEPT !.st = "RUNNING"]
    <2>1. /\ Save(s, started) /\ CGotoWith(c, "spawning", started) /\ cpc[c] = "starting"
          /\ UNCHANGED <<tasks, pc, run, up>>
      BY <1>5, <1>18 DEF SaveStart
    <2>2. /\ \A d \in Client : d # c => cpc'[d] = cpc[d] /\ req'[d] = req[d]
          /\ cpc'[c] = "spawning" /\ Target(c)' = s
      BY <2>1, <1>1, <1>2 DEF CGotoWith, Target, Request
    <2> HIDE DEF started
    <2> QED BY <2>1, <2>2, <1>4, AttendRequested DEF AttendingPC
  <1>19. CASE StartTask(c)
    <2> DEFINE left == IF req[c].via = "start" THEN run ELSE Overtaken(s)
    <2>4. /\ left \in [Run -> RunLocals]
          /\ \A q \in Run : /\ left[q].sid = run[q].sid /\ left[q].view = run[q].view
                            /\ left[q].kill = run[q].kill
      BY <1>1, OvertakenType DEF AttendInv
    <2>1. PICK n \in Run :
            /\ pc[n] = "free" /\ pc' = [pc EXCEPT ![n] = "slot"]
            /\ run' = [left EXCEPT ![n] = [sid |-> s, view |-> copy, kill |-> FALSE,
                                           ref |-> FALSE, ans |-> req[c].via = "answer",
                                           loose |-> req[c].via = "rerun"]]
            /\ tasks' = [tasks EXCEPT ![s] = n]
      BY <1>5, <1>19 DEF StartTask, Launch
    <2> HIDE DEF left
    <2>2. /\ pc'[n] = "slot" /\ run'[n].sid = s /\ run'[n].kill = FALSE
          /\ \A q \in Run : q # n => pc'[q] = pc[q] /\ run'[q] = left[q]
      BY <2>1, <2>4, <1>1
    <2>3. /\ \A d \in Client : d # c => cpc'[d] = cpc[d] /\ req'[d] = req[d]
          /\ cpc'[c] = "idle" /\ cpc[c] = "spawning" /\ UNCHANGED <<row, up>>
      BY <1>3, <1>19 DEF StartTask
    <2>5. \A q \in Run \ {n} :
            /\ pc'[q] = pc[q] /\ run'[q].sid = run[q].sid
            /\ run'[q].view = run[q].view /\ run'[q].kill = run[q].kill
      BY <2>2, <2>4
    <2>6. \A d \in Client :
            \/ cpc'[d] = cpc[d] /\ req'[d] = req[d]
            \/ cpc[d] = "spawning" /\ Target(d) = s /\ cpc'[d] = "idle"
      BY <2>3
    <2>7. /\ pc[n] = "free" /\ pc'[n] = "slot" /\ run'[n].sid = s /\ run'[n].kill = FALSE
          /\ tasks' = [tasks EXCEPT ![s] = n] /\ UNCHANGED <<row, up>>
      BY <2>1, <2>2, <2>3
    <2> HIDE DEF s
    <2> QED BY <2>5, <2>6, <2>7, <1>1, AttendLaunched
  <1>20. CASE MarkCancelled(c)
    <2>1. /\ MarkFailed(s) /\ cpc[c] = "marking" /\ UNCHANGED <<tasks, pc, run, up>>
          /\ \A d \in Client : d # c => cpc'[d] = cpc[d] /\ req'[d] = req[d]
      BY <1>1, <1>2, <1>3, <1>5, <1>20 DEF MarkCancelled
    <2>2. row'[s].st # "RUNNING" /\ \A y \in Session : y # s => row'[y] = row[y]
      <3>1. CASE row[s] = Gone
        BY <2>1, <3>1 DEF MarkFailed, Gone
      <3>2. CASE row[s] # Gone
        <4>1. row' = [row EXCEPT ![s].st = "FAILED"] /\ row[s] \in Copy
          BY <2>1, <3>2, <1>1, RowIsCopy DEF MarkFailed
        <4> QED BY <4>1, <1>1 DEF Copy
      <3> QED BY <3>1, <3>2
    <2>3. \A y \in Session : row'[y].st = "RUNNING" => row[y].st = "RUNNING"
      BY <2>2
    <2> QED BY <2>1, <2>2, <2>3, AttendRequested
  <1>21. CASE SettleCancelled(c)
    <2>1. [copy EXCEPT !.st = "FAILED"].st = "FAILED"
      BY <1>1 DEF Copy
    <2>2. /\ \A y \in Session : row'[y].st = "RUNNING" => row[y].st = "RUNNING"
          /\ \A d \in Client : d # c => cpc'[d] = cpc[d] /\ req'[d] = req[d]
          /\ cpc[c] = "settling" /\ UNCHANGED <<tasks, pc, run, up>>
      BY <2>1, <1>3, <1>4, <1>5, <1>21 DEF SettleCancelled
    <2> QED BY <2>2, AttendRequested DEF AttendingPC
  <1>22. CASE RemoveRow(c)
    BY <1>3, <1>4, <1>5, <1>22, AttendRequested DEF RemoveRow, AttendingPC, Gone
  <1> QED
    BY <1>7, <1>8, <1>9, <1>10, <1>11, <1>12, <1>13, <1>14, <1>15, <1>16, <1>17,
       <1>18, <1>19, <1>20, <1>21, <1>22 DEF RequestStep, RequestChoice, NewRequest

\* Nothing is left RUNNING with nobody running it: through overlapping tasks,
\* retries, cancellations, deletions and restarts of the server, for all ways to
\* persist - provided saves and factories do not fail (one that fails leaves
\* RUNNING behind, which the server's next startup repairs).
THEOREM RunningAttended ==
  ASSUME Faults \cap {"save", "factory"} = {}
  PROVE  Spec => []RunningIsAttended
  <1>1. Init => AttendInv
    <2> SUFFICES ASSUME Init
                 PROVE  AttendInv
      OBVIOUS
    <2>1. \A s \in Session : row[s].st # "RUNNING"
      BY DEF Init, NewCopy
    <2> QED
      BY <2>1, InitType
      DEF Init, AttendInv, KilledIsJoined, LastIsFinal, TrackedIsOwn,
          RunningIsAttended, NoTask
  <1>2. AttendInv /\ TypeOK' /\ [Next]_vars => AttendInv'
    <2> SUFFICES ASSUME AttendInv, TypeOK', [Next]_vars
                 PROVE  AttendInv'
      OBVIOUS
    <2>1. CASE UNCHANGED vars
      BY <2>1
      DEF vars, AttendInv, KilledIsJoined, LastIsFinal, TrackedIsOwn,
          RunningIsAttended, TaskAttends, RequestAttends, Sid, Target
    <2>2. CASE Crash
      BY <2>2
      DEF Crash, AttendInv, KilledIsJoined, LastIsFinal, TrackedIsOwn,
          RunningIsAttended, NoTask
    <2>3. CASE Startup
      <3>1. UNCHANGED <<tasks, pc, run, cpc, req>>
        BY <2>3 DEF Startup, Serve, InterruptOrphan
      <3>2. ~up /\ (up' => \A s \in Session : row'[s].st # "RUNNING")
        <4>1. CASE Serve
          BY <4>1 DEF Serve
        <4>2. CASE \E s \in Session : InterruptOrphan(s)
          BY <4>2 DEF InterruptOrphan, Fault
        <4> QED BY <2>3, <4>1, <4>2 DEF Startup
      <3> QED
        BY <3>1, <3>2
        DEF AttendInv, KilledIsJoined, LastIsFinal, TrackedIsOwn, RunningIsAttended,
            Sid, Target
    <2> QED BY <2>1, <2>2, <2>3, AttendTask, AttendRequest DEF Next
  <1>3. AttendInv => RunningIsAttended
    BY DEF AttendInv
  <1> QED BY <1>1, <1>2, <1>3, TypeCorrect, PTL DEF Spec
=============================================================================
