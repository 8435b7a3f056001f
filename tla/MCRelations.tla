----------------------------- MODULE MCRelations -----------------------------
(* Three tickets: a cycle of three passes through one that no guard looks   *)
(* at directly.                                                             *)
EXTENDS Relations, TLC

CONSTANTS t1, t2, t3

\* Lineage makes nobody wait: it is drawn while no step does.
Apart ==
    (\A t \in Tickets : resume[t] = NoStep)
        \/ (owed = {} /\ \A p \in Tickets \X Tickets : rel[p]["lineage"] = "none")

Symmetry == Permutations(Tickets)
=============================================================================
