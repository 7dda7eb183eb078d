-------------------------- MODULE MCDependencyGraph --------------------------
(* Four tasks: every graph on them, so every order of a smaller one. *)
EXTENDS DependencyGraph

CONSTANTS a, b, c, d

MCTask == {a, b, c, d}
MCOrder == <<a, b, c, d>>
=============================================================================
