--------------------------- MODULE MCPlanActFlow ---------------------------
(* Instances of PlanActFlow for TLC. *)
EXTENDS PlanActFlow

\* No plan, a plan of one step, one of two.
MCPlans == {<<>>, <<"s1">>, <<"s1", "s2">>}

\* The user strikes the first step.
MCEdits == {<<"s2">>}
=============================================================================
