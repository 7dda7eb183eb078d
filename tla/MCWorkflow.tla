----------------------------- MODULE MCWorkflow -----------------------------
(* A call with a graph of three tasks or a refused one, and a call with one
   task, under one id: calls of different ids share nothing. *)
EXTENDS Workflow, TLC

CONSTANTS a, b, c, x1, x2

MCTask == {a, b, c}
MCOrder == <<a, b, c>>
MCExec == {x1, x2}

Fork == (a :> {}) @@ (b :> {}) @@ (c :> {a, b})
Wide == (a :> {}) @@ (b :> {}) @@ (c :> {})
Cycle == (a :> {}) @@ (b :> {c}) @@ (c :> {b})
Missing == (a :> {b})

MCGraphsOf == (x1 :> {Fork, Wide, Cycle, Missing}) @@ (x2 :> {a :> {}})
=============================================================================
