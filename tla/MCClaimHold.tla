---------------------------- MODULE MCClaimHold ----------------------------
(* Instances of ClaimHold for TLC: two agents, one moderator. *)
EXTENDS ClaimHold, TLC

CONSTANTS a1, a2, h, t1, t2

MCReporter == [t \in Tickets |-> h]
MCSees == [a \in Agents |-> Tickets]
Symmetry == Permutations(Agents) \cup Permutations(Tickets)
=============================================================================
