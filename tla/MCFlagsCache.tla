---------------------------- MODULE MCFlagsCache ----------------------------
(* Two tickets that may wait on each other, an agent that reads, a person   *)
(* who may cease to be one.                                                *)
EXTENDS FlagsCache, TLC

CONSTANTS t1, t2, agent, person

Symmetry == Permutations(Tickets)
=============================================================================
