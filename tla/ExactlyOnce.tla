----------------------------- MODULE ExactlyOnce -----------------------------
(***************************************************************************)
(* What the board promises the author of a write: it lands in the thread   *)
(* once, or the author is told it does not, or it is set aside in          *)
(* spool/failed for a person to look at; and one of the three happens.     *)
(***************************************************************************)
CONSTANTS Writes

VARIABLE fate       \* "unsent" | "pending" | "landed" | "rejected"

Init == fate = [w \in Writes |-> "unsent"]

Send(w) == fate[w] = "unsent" /\ fate' = [fate EXCEPT ![w] = "pending"]

Settle(w) == fate[w] = "pending" /\ \E f \in {"landed", "rejected"} : fate' = [fate EXCEPT ![w] = f]

Next == \E w \in Writes : Send(w) \/ Settle(w)

Safety == Init /\ [][Next]_fate

Spec == Safety /\ \A w \in Writes : WF_fate(Settle(w))
=============================================================================
