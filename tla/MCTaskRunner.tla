---------------------------- MODULE MCTaskRunner ----------------------------
(* Instances of TaskRunner for TLC. *)
EXTENDS TaskRunner, TLC

\* Tasks and requests are interchangeable; sessions are too, but Init chooses one.
Symmetric == Permutations(Run) \cup Permutations(Client)

\* The view under which states are told apart: what a task or a request still uses of its
\* locals at its suspension point.  Beyond their types no property checked with it looks
\* at the rest, nor at ans; OneWriter looks at loose and via.
TaskView(r) ==
  [run[r] EXCEPT !.ans = FALSE,
                 !.loose = @ /\ pc[r] \in Writing,
                 !.ref = @ /\ pc[r] \notin {"relaunching", "respawning"},
                 !.view = IF pc[r] \in {"sleeping", "tolling", "done"} THEN NewCopy ELSE @]

\* The copies that are not used any more: an answer loads its own, and that of a request
\* that joins a task is used again only after a failed save.
Unused(c) ==
  \/ cpc[c] \in {"answer", "removing"}
  \/ cpc[c] \in {"joining", "marking"} /\ "save" \notin Faults

\* A start saves its copy as RUNNING, and POST /cancel as FAILED, whatever it says.
RequestView(c) ==
  [req[c] EXCEPT !.via = IF @ = "restore" THEN "answer" ELSE @,
                 !.copy = IF Unused(c) THEN NewCopy
                          ELSE IF cpc[c] \in {"queued", "starting", "settling"}
                            THEN [@ EXCEPT !.st = "RUNNING"] ELSE @,
                 !.del = @ /\ cpc[c] # "removing",
                 !.on = IF cpc[c] = "joining" THEN @ ELSE NoRun]

StateView ==
  <<row, tasks, budget, lock, pc, [r \in Run |-> TaskView(r)],
    cpc, [c \in Client |-> RequestView(c)], up, faults>>
=============================================================================
