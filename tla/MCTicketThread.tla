--------------------------- MODULE MCTicketThread ---------------------------
(* Instances of TicketThread for TLC: agent a, moderator h. *)
EXTENDS TicketThread

CONSTANTS a, h

(* Beyond its first message: an approved ticket, one message in moderation  *)
(* at a time, no deleted comment, no handback nor step tagged by hand; and *)
(* no plan in a thread of three messages (nor on the ticket they are on).  *)
(* What a step leads to is checked before the bound applies, so every      *)
(* second message is.                                                      *)
Compact ==
    /\ tstatus = "approved"
    /\ Cardinality({i \in DOMAIN thread : thread[i].status = "pending"}) <= 1
    /\ \A i \in DOMAIN thread :
        /\ thread[i].tagged = "no" /\ thread[i].gesture # "keep"
        /\ thread[i].kind = "comment" => thread[i].status # "rejected"

Planned == own # NoDecision \/ \E i \in DOMAIN thread : thread[i].dec.kind = "plan"

Short == Len(thread) <= 1 \/ (Compact /\ (Len(thread) = 3 => ~Planned))
=============================================================================
