------------------------------ MODULE Relations ------------------------------
(* The graph of the tickets: the relations their threads declare (lineage   *)
(* and gates), read from either side, and who waits on whom through a gate  *)
(* or through the ticket a step names to resume on (src/relations.ts,       *)
(* src/db/messages.ts, src/db/wait-graph.ts, src/db/last-move.ts,           *)
(* ticket.relate, the step's checks in src/messages.ts).  The cross-        *)
(* references and duplicates, on axes of their own, wait on nothing.        *)
EXTENDS FiniteSets, Integers

CONSTANTS
    Tickets,        \* the identities tickets may take
    None,           \* no ticket
    MaxRelations    \* bound: relations in force

ASSUME NoneAssumption == None \notin Tickets

VARIABLES
    exists,     \* the tickets filed
    rel,        \* rel[<<a, b>>]: per axis, a's latest event on b that no tombstone has cut since
    owed,       \* <<child, parent>>: linked by the column alone, the event having failed
    restored,   \* <<child, parent>>: written by the backfill and by nobody since
    closed,
    resume      \* what a ticket waits for, when its last action is a step that says

relVars == <<exists, rel, owed, restored>>
vars == <<exists, rel, owed, restored, closed, resume>>

Lineage == {"child_of", "parent_of"}
Gate == {"depends_on", "blocks"}
Axes == {"lineage", "gate"}
Kinds(axis) == IF axis = "lineage" THEN Lineage ELSE Gate
Unrelated == [axis \in Axes |-> "none"]

Inverse(k) ==
    CASE k = "child_of" -> "parent_of"
      [] k = "parent_of" -> "child_of"
      [] k = "depends_on" -> "blocks"
      [] k = "blocks" -> "depends_on"
      [] OTHER -> k

-----------------------------------------------------------------------------
(* Reading the relations.                                                  *)

\* a's own event holds its slot; what b's thread says of a shows only where a's says nothing.
Seen(a, b, axis) ==
    IF rel[<<a, b>>][axis] # "none" THEN rel[<<a, b>>][axis] ELSE Inverse(rel[<<b, a>>][axis])

Parents(t) == {p \in exists : Seen(t, p, "lineage") = "child_of"}
Dependencies(t) == {d \in exists : Seen(t, d, "gate") = "depends_on"}

\* What a walk from t visits, going on along next: the least set closed under it that holds t.
ClosedUnder(S, next) == \A s \in S : next[s] \subseteq S
Walk(t, next) ==
    {u \in exists : \A S \in SUBSET exists : t \in S /\ ClosedUnder(S, next) => u \in S}

\* Variant: the parent's own parents are not walked.
LineageWouldCycleAtOnce(child, parent) == child \in {parent} \cup Parents(parent)

LineageWouldCycle(child, parent) == child \in Walk(parent, [t \in exists |-> Parents(t)])

-----------------------------------------------------------------------------
(* Waiting.                                                                *)

\* The ticket a step names, until that ticket moves or another action follows the step; the
\* step may be in moderation, or have come out of it late.
NoStep == [on |-> None, status |-> "none"]

LiveResumeOn(t) == IF resume[t].status \in {"approved", "late"} THEN {resume[t].on} ELSE {}

WaitsOf(t) == IF t \in closed THEN {} ELSE (Dependencies(t) \ closed) \cup LiveResumeOn(t)

\* Variant: what the awaited ticket itself waits on, and no further.
ResumeWouldCycleAtOnce(t, on) == t \in WaitsOf(on)

ResumeWouldCycle(t, on) == t \in Walk(on, [u \in exists |-> WaitsOf(u)])

\* t moves: the steps that named it have what they waited for.
Moved(t) == [u \in Tickets |-> IF resume[u].on = t THEN NoStep ELSE resume[u]]

-----------------------------------------------------------------------------
(* Relating.                                                               *)

Init ==
    /\ exists = {} /\ owed = {} /\ restored = {} /\ closed = {}
    /\ rel = [p \in Tickets \X Tickets |-> Unrelated]
    /\ resume = [t \in Tickets |-> NoStep]

InForce == {q \in (Tickets \X Tickets) \X Axes : rel[q[1]][q[2]] # "none"}
Room == Cardinality(InForce) < MaxRelations

\* The event a's thread gets on b, whoever is owed one on that pair.
InsertTypedRelation(a, b, axis, k) ==
    /\ rel' = [rel EXCEPT ![<<a, b>>] = [@ EXCEPT ![axis] = k]]
    /\ owed' = owed \ {<<a, b>>}
    /\ restored' = IF axis = "lineage" THEN restored \ {<<a, b>>, <<b, a>>} ELSE restored

\* A human, the reporter of either ticket, an owner of either project, or on gates the
\* assignee of either: callers who may are not told apart.
Relate(a, b, axis, k) ==
    /\ {a, b} \subseteq exists /\ a # b /\ Room
    /\ k = "child_of" => ~LineageWouldCycle(a, b)
    /\ k = "parent_of" => ~LineageWouldCycle(b, a)
    /\ Seen(a, b, axis) # k
    /\ InsertTypedRelation(a, b, axis, k)
    /\ UNCHANGED <<exists, closed, resume>>

\* A tombstone on the axes it names, from either side: it cuts what both threads said before.
Unrelate(a, b, axes) ==
    /\ {a, b} \subseteq exists /\ a # b
    /\ \E axis \in axes : Seen(a, b, axis) # "none"
    /\ LET Cut(r) == [axis \in Axes |-> IF axis \in axes THEN "none" ELSE r[axis]]
       IN rel' = [rel EXCEPT ![<<a, b>>] = Cut(@), ![<<b, a>>] = Cut(@)]
    /\ owed' = owed \ {<<a, b>>}
    /\ restored' = IF "lineage" \in axes THEN restored \ {<<a, b>>, <<b, a>>} ELSE restored
    /\ UNCHANGED <<exists, closed, resume>>

\* A cross-reference or a duplicate, set or cut, is an event on the pair too.
RelateOtherwise(a, b) ==
    /\ <<a, b>> \in owed
    /\ owed' = owed \ {<<a, b>>}
    /\ UNCHANGED <<exists, rel, restored, closed, resume>>

Create(t) ==
    /\ t \notin exists
    /\ exists' = exists \cup {t}
    /\ UNCHANGED <<rel, owed, restored, closed, resume>>

\* A sub-ticket keeps its parent in a column; the lineage event is best effort.
CreateSub(t, parent, linked) ==
    /\ t \notin exists /\ parent \in exists /\ Room
    /\ exists' = exists \cup {t}
    /\ IF linked
       THEN InsertTypedRelation(t, parent, "lineage", "child_of")
       ELSE owed' = owed \cup {<<t, parent>>} /\ UNCHANGED <<rel, restored>>
    /\ UNCHANGED <<closed, resume>>

\* At each start of the daemon, a child whose thread has no event on its parent gets one.
BackfillParentTicketRelations ==
    /\ owed # {}
    /\ rel' = [p \in Tickets \X Tickets |->
                IF p \in owed THEN [rel[p] EXCEPT !["lineage"] = "child_of"] ELSE rel[p]]
    /\ restored' = restored \cup owed
    /\ owed' = {}
    /\ UNCHANGED <<exists, closed, resume>>

-----------------------------------------------------------------------------
(* Acting on tickets.                                                      *)

\* A comment, a verdict, a lifecycle proposal in moderation: any action but a step.
Act(t) ==
    /\ t \in exists
    /\ resume' = [Moved(t) EXCEPT ![t] = NoStep]
    /\ UNCHANGED <<exists, rel, owed, restored, closed>>

\* A step that resumes on a timer names no ticket.  Without a commit it moves nothing.
Step(t, on, delivers, status) ==
    /\ t \in exists
    /\ on # None => on \in exists \ (closed \cup {t}) /\ ~ResumeWouldCycle(t, on)
    /\ LET others == IF delivers THEN Moved(t) ELSE resume
           said == IF on = None THEN NoStep ELSE [on |-> on, status |-> status]
       IN resume' = [others EXCEPT ![t] = said]
    /\ UNCHANGED <<exists, rel, owed, restored, closed>>

\* Moderation, and the deletion of an approved step, are no actions on the ticket.
ApproveStep(t) ==
    /\ resume[t].status = "pending"
    /\ resume' = [resume EXCEPT ![t].status = "late"]
    /\ UNCHANGED <<exists, rel, owed, restored, closed>>

\* Variant: the step still names its ticket.
RejectStepNamed(t) ==
    /\ resume[t].status # "none"
    /\ resume' = [resume EXCEPT ![t].status = "none"]
    /\ UNCHANGED <<exists, rel, owed, restored, closed>>

RejectStep(t) ==
    /\ resume[t].status # "none"
    /\ resume' = [resume EXCEPT ![t] = NoStep]
    /\ UNCHANGED <<exists, rel, owed, restored, closed>>

Close(t) ==
    /\ t \in exists
    /\ closed' = closed \cup {t}
    /\ resume' = [Moved(t) EXCEPT ![t] = NoStep]
    /\ UNCHANGED <<exists, rel, owed, restored>>

\* Posted by one who may, it is an action; proposed and approved later, it was one.
Reopen(t, posted) ==
    /\ t \in closed
    /\ closed' = closed \ {t}
    /\ resume' = IF posted THEN [Moved(t) EXCEPT ![t] = NoStep] ELSE resume
    /\ UNCHANGED <<exists, rel, owed, restored>>

-----------------------------------------------------------------------------

Next ==
    \/ \E a, b \in Tickets, axis \in Axes : \E k \in Kinds(axis) : Relate(a, b, axis, k)
    \/ \E a, b \in Tickets, axes \in {Axes, {"lineage"}, {"gate"}} : Unrelate(a, b, axes)
    \/ \E a, b \in Tickets : RelateOtherwise(a, b)
    \/ \E t \in Tickets : Create(t) \/ Act(t) \/ Close(t) \/ ApproveStep(t) \/ RejectStep(t)
    \/ \E t, parent \in Tickets, linked \in BOOLEAN : CreateSub(t, parent, linked)
    \/ BackfillParentTicketRelations
    \/ \E t \in Tickets, on \in Tickets \cup {None}, delivers \in BOOLEAN, s \in {"pending", "approved"} :
        Step(t, on, delivers, s)
    \/ \E t \in Tickets, posted \in BOOLEAN : Reopen(t, posted)

Spec == Init /\ [][Next]_vars

-----------------------------------------------------------------------------
(* Properties.                                                             *)

(* Relations, debts and waits are between tickets filed, and each axis      *)
(* holds its own kinds (ActiveRelation, WaitEdge).                         *)
TypeOK ==
    /\ exists \subseteq Tickets /\ closed \subseteq exists
    /\ rel \in [Tickets \X Tickets -> [Axes -> Lineage \cup Gate \cup {"none"}]]
    /\ \A p \in Tickets \X Tickets, axis \in Axes : rel[p][axis] \in Kinds(axis) \cup {"none"}
    /\ \A p \in Tickets \X Tickets : rel[p] # Unrelated => p \in exists \X exists
    /\ owed \subseteq exists \X exists /\ restored \subseteq exists \X exists
    /\ resume \in [Tickets -> {NoStep} \cup
                   [on : exists, status : {"pending", "approved", "late"}]]
    /\ \A t \in Tickets \ exists : resume[t] = NoStep

(* The lineage that people draw stays without a cycle, however links and    *)
(* cuts follow each other from either side of a pair: only a link that      *)
(* failed at the creation of a sub-ticket, and that the daemon writes when  *)
(* it starts again, may close one (lineageWouldCycle,                       *)
(* backfillParentTicketRelations).                                          *)
DrawnParents(t) == {p \in Parents(t) : <<t, p>> \notin restored}

LineageIsAcyclic ==
    \A S \in SUBSET exists : S # {} => \E t \in S : DrawnParents(t) \cap S = {}

(* No ring of tickets sleeps on steps alone, each to resume when the next   *)
(* one moves: whatever moves, parks, closes and reopens between the steps,  *)
(* the last of them is refused, unless one was still in moderation when the *)
(* others were posted (deadResumeRefusal).                                  *)
Awaited(t) == IF resume[t].status = "late" THEN {} ELSE LiveResumeOn(t)

NoSleepingRing ==
    \A S \in SUBSET (exists \ closed) : S # {} => \E t \in S : Awaited(t) \cap S = {}
=============================================================================
