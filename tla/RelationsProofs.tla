--------------------------- MODULE RelationsProofs ---------------------------
(***************************************************************************)
(* Theorems about Relations, for any set of tickets.  "No cycle" is said   *)
(* of sets: every set of tickets has one with no edge into the set.  The   *)
(* guards of ticket.relate and of a step refuse the edge whose end is      *)
(* among what a walk from its head visits; a set closed under the walk     *)
(* that the new edge enters and never leaves is what both proofs turn on.  *)
(***************************************************************************)
EXTENDS Relations, TLAPS

(* Every variable keeps its type, and relations and waits are between      *)
(* tickets that were filed (ActiveRelation, WaitEdge).                     *)
LEMMA KindsOfAxes ==
    /\ Kinds("lineage") = Lineage /\ Kinds("gate") = Gate
    /\ \A axis \in Axes : Kinds(axis) \subseteq Lineage \cup Gate
  BY DEF Kinds, Axes

LEMMA InsertTypes ==
  ASSUME TypeOK, NEW a \in exists', NEW b \in exists', NEW axis \in Axes, NEW k \in Kinds(axis),
         InsertTypedRelation(a, b, axis, k), exists \subseteq exists', exists' \subseteq Tickets,
         UNCHANGED <<closed, resume>>
  PROVE  TypeOK'
<1>1. rel' \in [Tickets \X Tickets -> [Axes -> Lineage \cup Gate \cup {"none"}]]
  BY KindsOfAxes DEF TypeOK, InsertTypedRelation
<1>2. \A p \in Tickets \X Tickets, x \in Axes : rel'[p][x] \in Kinds(x) \cup {"none"}
  BY DEF TypeOK, InsertTypedRelation
<1> QED
  BY <1>1, <1>2 DEF TypeOK, InsertTypedRelation

LEMMA NoStepType == NoStep \in {NoStep} \cup [on : exists, status : {"pending", "approved", "late"}]
  OBVIOUS

(* A ticket that moves leaves the steps that named it behind.              *)
LEMMA MovedTypes ==
  ASSUME TypeOK, NEW t \in exists
  PROVE  /\ Moved(t) \in [Tickets -> {NoStep} \cup
                            [on : exists, status : {"pending", "approved", "late"}]]
         /\ \A u \in Tickets : Moved(t)[u] \in {NoStep, resume[u]}
  BY DEF TypeOK, Moved

LEMMA ActTypes ==
  ASSUME TypeOK, NEW t \in exists, resume' = [Moved(t) EXCEPT ![t] = NoStep],
         closed' \subseteq exists, UNCHANGED <<exists, rel, owed, restored>>
  PROVE  TypeOK'
<1>1. resume' \in [Tickets -> {NoStep} \cup [on : exists, status : {"pending", "approved", "late"}]]
  BY MovedTypes
<1>2. \A u \in Tickets \ exists : resume'[u] = NoStep
  BY MovedTypes DEF TypeOK
<1> QED
  BY <1>1, <1>2 DEF TypeOK

LEMMA StepTypes ==
  ASSUME TypeOK, NEW t \in Tickets, NEW on \in Tickets \cup {None}, NEW delivers \in BOOLEAN,
         NEW status \in {"pending", "approved"}, Step(t, on, delivers, status)
  PROVE  TypeOK'
<1> DEFINE others == IF delivers THEN Moved(t) ELSE resume
           said == IF on = None THEN NoStep ELSE [on |-> on, status |-> status]
           Resumes == {NoStep} \cup [on : exists, status : {"pending", "approved", "late"}]
<1>1. /\ t \in exists
      /\ resume' = [others EXCEPT ![t] = said]
      /\ UNCHANGED <<exists, rel, owed, restored, closed>>
  BY DEF Step
<1>2. said \in Resumes
  BY DEF Step
<1>3. /\ others \in [Tickets -> Resumes]
      /\ \A u \in Tickets : others[u] \in {NoStep, resume[u]}
  BY <1>1, MovedTypes DEF TypeOK
<1> HIDE DEF others, said
<1>4. resume' \in [Tickets -> Resumes] /\ \A u \in Tickets \ exists : resume'[u] = NoStep
  BY <1>1, <1>2, <1>3 DEF TypeOK
<1> QED
  BY <1>1, <1>4 DEF TypeOK

LEMMA BackfillTypes == ASSUME TypeOK, BackfillParentTicketRelations PROVE TypeOK'
<1>1. rel' \in [Tickets \X Tickets -> [Axes -> Lineage \cup Gate \cup {"none"}]]
  BY DEF TypeOK, BackfillParentTicketRelations, Lineage
<1>2. \A p \in Tickets \X Tickets, x \in Axes : rel'[p][x] \in Kinds(x) \cup {"none"}
  BY KindsOfAxes DEF TypeOK, BackfillParentTicketRelations, Lineage
<1> QED
  BY <1>1, <1>2 DEF TypeOK, BackfillParentTicketRelations

LEMMA UnrelateTypes ==
  ASSUME TypeOK, NEW a \in Tickets, NEW b \in Tickets, NEW axes, Unrelate(a, b, axes)
  PROVE  TypeOK'
<1> DEFINE Cut(r) == [axis \in Axes |-> IF axis \in axes THEN "none" ELSE r[axis]]
<1>1. rel' = [rel EXCEPT ![<<a, b>>] = Cut(@), ![<<b, a>>] = Cut(@)]
  BY DEF Unrelate
<1>2. a # b /\ {a, b} \subseteq exists /\ UNCHANGED <<exists, closed, resume>>
  BY DEF Unrelate
<1>3. \A p \in Tickets \X Tickets :
        rel'[p] = IF p \in {<<a, b>>, <<b, a>>} THEN Cut(rel[p]) ELSE rel[p]
  BY <1>1, <1>2 DEF TypeOK
<1>4. rel' \in [Tickets \X Tickets -> [Axes -> Lineage \cup Gate \cup {"none"}]]
  <2>1. \A p \in Tickets \X Tickets : rel[p] \in [Axes -> Lineage \cup Gate \cup {"none"}]
    BY DEF TypeOK
  <2>2. \A r \in [Axes -> Lineage \cup Gate \cup {"none"}] :
          Cut(r) \in [Axes -> Lineage \cup Gate \cup {"none"}]
    OBVIOUS
  <2>3. DOMAIN rel' = Tickets \X Tickets
    BY <1>1 DEF TypeOK
  <2>4. rel' = [p \in Tickets \X Tickets |-> rel'[p]]
    BY <1>1, <2>3 DEF TypeOK
  <2> HIDE DEF Cut
  <2>5. \A p \in Tickets \X Tickets : rel'[p] \in [Axes -> Lineage \cup Gate \cup {"none"}]
    BY <1>3, <2>1, <2>2
  <2> QED
    BY <2>4, <2>5
<1>5. \A p \in Tickets \X Tickets, x \in Axes : rel'[p][x] \in Kinds(x) \cup {"none"}
  <2>1. \A r : \A x \in Axes : Cut(r)[x] \in {"none", r[x]}
    OBVIOUS
  <2> HIDE DEF Cut
  <2> QED
    BY <1>3, <2>1 DEF TypeOK
<1>6. \A p \in Tickets \X Tickets : rel'[p] # Unrelated => p \in exists \X exists
  <2> HIDE DEF Cut
  <2>1. \A p \in Tickets \X Tickets : rel'[p] = rel[p] \/ p \in {<<a, b>>, <<b, a>>}
    BY <1>3
  <2>2. \A p \in {<<a, b>>, <<b, a>>} : p \in exists \X exists
    BY <1>2
  <2> QED
    BY <1>2, <2>1, <2>2 DEF TypeOK
<1>7. owed' \subseteq owed /\ restored' \subseteq restored
  BY DEF Unrelate
<1> HIDE DEF Cut
<1> QED
  BY <1>2, <1>4, <1>5, <1>6, <1>7 DEF TypeOK

THEOREM TypeCorrect == Spec => []TypeOK
<1>1. Init => TypeOK
  BY DEF Init, TypeOK, Unrelated
<1>2. TypeOK /\ [Next]_vars => TypeOK'
  <2> SUFFICES ASSUME TypeOK, [Next]_vars PROVE TypeOK'
    OBVIOUS
  <2>1. ASSUME NEW a \in Tickets, NEW b \in Tickets, NEW axis \in Axes, NEW k \in Kinds(axis),
               Relate(a, b, axis, k)
        PROVE  TypeOK'
    <3>1. a \in exists /\ b \in exists /\ exists' = exists
      BY <2>1 DEF Relate
    <3> QED
      BY <2>1, <3>1, InsertTypes DEF Relate, TypeOK
  <2>2. ASSUME NEW a \in Tickets, NEW b \in Tickets, NEW axes, Unrelate(a, b, axes) PROVE TypeOK'
    BY <2>2, UnrelateTypes
  <2>3. ASSUME NEW a \in Tickets, NEW b \in Tickets, RelateOtherwise(a, b) PROVE TypeOK'
    BY <2>3 DEF RelateOtherwise, TypeOK
  <2>4. ASSUME NEW t \in Tickets, Create(t) PROVE TypeOK'
    BY <2>4 DEF Create, TypeOK
  <2>5. ASSUME NEW t \in Tickets, Act(t) PROVE TypeOK'
    BY <2>5, ActTypes DEF Act, TypeOK
  <2>6. ASSUME NEW t \in Tickets, Close(t) PROVE TypeOK'
    BY <2>6, ActTypes DEF Close, TypeOK
  <2>7. ASSUME NEW t \in Tickets, ApproveStep(t) PROVE TypeOK'
    BY <2>7 DEF ApproveStep, TypeOK, NoStep
  <2>8. ASSUME NEW t \in Tickets, RejectStep(t) PROVE TypeOK'
    BY <2>8 DEF RejectStep, TypeOK
  <2>9. ASSUME NEW t \in Tickets, NEW parent \in Tickets, NEW linked \in BOOLEAN,
               CreateSub(t, parent, linked)
        PROVE  TypeOK'
    <3>1. /\ t \in Tickets /\ parent \in exists /\ exists' = exists \cup {t}
          /\ UNCHANGED <<closed, resume>>
      BY <2>9 DEF CreateSub
    <3>2. CASE linked
      <4>1. InsertTypedRelation(t, parent, "lineage", "child_of")
        BY <2>9, <3>2 DEF CreateSub
      <4>2. "lineage" \in Axes /\ "child_of" \in Kinds("lineage")
        BY KindsOfAxes DEF Axes, Lineage
      <4> QED
        BY <3>1, <4>1, <4>2, InsertTypes DEF TypeOK
    <3>3. CASE ~linked
      BY <2>9, <3>1, <3>3 DEF CreateSub, TypeOK
    <3> QED
      BY <3>2, <3>3
  <2>10. CASE BackfillParentTicketRelations
    BY <2>10, BackfillTypes
  <2>11. ASSUME NEW t \in Tickets, NEW on \in Tickets \cup {None}, NEW delivers \in BOOLEAN,
                NEW s \in {"pending", "approved"}, Step(t, on, delivers, s)
         PROVE  TypeOK'
    BY <2>11, StepTypes
  <2>12. ASSUME NEW t \in Tickets, NEW posted \in BOOLEAN, Reopen(t, posted) PROVE TypeOK'
    <3>1. t \in exists /\ closed' \subseteq exists /\ UNCHANGED <<exists, rel, owed, restored>>
      BY <2>12 DEF Reopen, TypeOK
    <3>2. CASE posted
      BY <2>12, <3>1, <3>2, ActTypes DEF Reopen
    <3>3. CASE ~posted
      BY <2>12, <3>1, <3>3 DEF Reopen, TypeOK
    <3> QED
      BY <3>2, <3>3
  <2>13. CASE UNCHANGED vars
    BY <2>13 DEF vars, TypeOK
  <2> QED
    BY <2>1, <2>2, <2>3, <2>4, <2>5, <2>6, <2>7, <2>8, <2>9, <2>10, <2>11, <2>12, <2>13 DEF Next
<1> QED
  BY <1>1, <1>2, PTL DEF Spec

-----------------------------------------------------------------------------
(* Cycles, said of a set of edges.                                         *)

Acyclic(E, R) == \A S \in SUBSET E : S # {} => \E t \in S : \A u \in S : <<t, u>> \notin R

LEMMA Fewer ==
  ASSUME NEW E, NEW R, NEW Q, Acyclic(E, R), \A t, u \in E : <<t, u>> \in Q => <<t, u>> \in R
  PROVE  Acyclic(E, Q)
<1> SUFFICES ASSUME NEW S \in SUBSET E, S # {} PROVE \E t \in S : \A u \in S : <<t, u>> \notin Q
  BY DEF Acyclic
<1>1. PICK t \in S : \A u \in S : <<t, u>> \notin R
  BY DEF Acyclic
<1> QED
  BY <1>1

(* The edge <<c, p>> closes no cycle when p lies in a set closed under the *)
(* edges drawn that leaves c out: a set all of whose tickets have an edge  *)
(* into it would have had one before, itself or within the closed set.     *)
LEMMA OneEdgeMore ==
  ASSUME NEW E, NEW R, NEW Q, NEW c, NEW p, NEW A,
         Acyclic(E, R), p \in A, c \notin A,
         \A t, u \in E : t \in A /\ <<t, u>> \in R => u \in A,
         \A t, u \in E : <<t, u>> \in Q => <<t, u>> \in R \/ (t = c /\ u = p)
  PROVE  Acyclic(E, Q)
<1> SUFFICES ASSUME NEW S \in SUBSET E, S # {} PROVE \E t \in S : \A u \in S : <<t, u>> \notin Q
  BY DEF Acyclic
<1>1. CASE S \cap A = {}
  <2>1. PICK t \in S : \A u \in S : <<t, u>> \notin R
    BY DEF Acyclic
  <2>2. \A u \in S : u # p
    BY <1>1
  <2> QED
    BY <2>1, <2>2
<1>2. CASE S \cap A # {}
  <2>1. S \cap A \in SUBSET E
    OBVIOUS
  <2>2. PICK t \in S \cap A : \A u \in S \cap A : <<t, u>> \notin R
    BY <1>2, <2>1 DEF Acyclic
  <2>3. \A u \in S : <<t, u>> \notin R
    BY <2>2
  <2> QED
    BY <2>2, <2>3
<1> QED
  BY <1>1, <1>2

(* A ticket nothing leads to may join, whatever it leads to but itself.    *)
LEMMA OneTicketMore ==
  ASSUME NEW E, NEW R, NEW Q, NEW n, Acyclic(E, R), <<n, n>> \notin Q,
         \A t \in E : <<t, n>> \notin Q,
         \A t, u \in E : <<t, u>> \in Q => <<t, u>> \in R
  PROVE  Acyclic(E \cup {n}, Q)
<1> SUFFICES ASSUME NEW S \in SUBSET (E \cup {n}), S # {}
             PROVE  \E t \in S : \A u \in S : <<t, u>> \notin Q
  BY DEF Acyclic
<1>1. CASE S = {n}
  BY <1>1
<1>2. CASE S # {n}
  <2>1. S \cap E # {} /\ S \cap E \in SUBSET E
    BY <1>2
  <2>2. PICK t \in S \cap E : \A u \in S \cap E : <<t, u>> \notin R
    BY <2>1 DEF Acyclic
  <2> QED
    BY <2>2
<1> QED
  BY <1>1, <1>2

-----------------------------------------------------------------------------
(* The lineage.                                                            *)

Drawn == {q \in exists \X exists : q[2] \in DrawnParents(q[1])}

LEMMA LineageAsEdges == LineageIsAcyclic <=> Acyclic(exists, Drawn)
<1>1. \A t, u \in exists : <<t, u>> \in Drawn <=> u \in DrawnParents(t)
  BY DEF Drawn
<1>2. ASSUME NEW S \in SUBSET exists, NEW t \in S
      PROVE  DrawnParents(t) \cap S = {} <=> \A u \in S : <<t, u>> \notin Drawn
  BY <1>1
<1> QED
  BY <1>2 DEF LineageIsAcyclic, Acyclic

LEMMA LineageAsEdgesNext == LineageIsAcyclic' <=> Acyclic(exists', Drawn')
<1>1. \A t, u \in exists' : <<t, u>> \in Drawn' <=> u \in DrawnParents(t)'
  BY DEF Drawn
<1>2. ASSUME NEW S \in SUBSET exists', NEW t \in S
      PROVE  DrawnParents(t)' \cap S = {} <=> \A u \in S : <<t, u>> \notin Drawn'
  BY <1>1
<1> QED
  BY <1>2 DEF LineageIsAcyclic, Acyclic

(* A ticket is drawn under the parents its view shows, the restored links  *)
(* left out.                                                               *)
LEMMA DrawnEdge ==
  ASSUME NEW t \in exists, NEW u \in exists
  PROVE  <<t, u>> \in Drawn <=> Seen(t, u, "lineage") = "child_of" /\ <<t, u>> \notin restored
  BY DEF Drawn, DrawnParents, Parents

(* The check of ticket.relate leaves, around the parent, a set of tickets  *)
(* that holds all their parents and not the child.                         *)
LEMMA LineageGuard ==
  ASSUME NEW c \in exists, NEW p \in exists, ~LineageWouldCycle(c, p)
  PROVE  \E A \in SUBSET exists :
            /\ p \in A /\ c \notin A
            /\ \A t \in A : \A u \in exists : Seen(t, u, "lineage") = "child_of" => u \in A
  BY DEF LineageWouldCycle, Walk, ClosedUnder, Parents

(* A link c child_of p that passed the check, whichever thread holds it.   *)
LEMMA LinkKeepsAcyclic ==
  ASSUME LineageIsAcyclic, NEW c \in exists, NEW p \in exists, c # p, ~LineageWouldCycle(c, p),
         exists' = exists, restored' = restored \ {<<c, p>>, <<p, c>>},
         \A t, u \in exists : Seen(t, u, "lineage")' = "child_of"
            => Seen(t, u, "lineage") = "child_of" \/ (t = c /\ u = p)
  PROVE  LineageIsAcyclic'
<1>1. PICK A \in SUBSET exists :
        /\ p \in A /\ c \notin A
        /\ \A t \in A : \A u \in exists : Seen(t, u, "lineage") = "child_of" => u \in A
  BY LineageGuard
<1>2. Acyclic(exists, Drawn)
  BY LineageAsEdges
<1>3. \A t, u \in exists : t \in A /\ <<t, u>> \in Drawn => u \in A
  BY <1>1, DrawnEdge
<1>4. ASSUME NEW t \in exists, NEW u \in exists, <<t, u>> \in Drawn', ~(t = c /\ u = p)
      PROVE  <<t, u>> \in Drawn
  <2>1. Seen(t, u, "lineage")' = "child_of" /\ <<t, u>> \notin restored'
    BY <1>4 DEF Drawn, DrawnParents, Parents
  <2>2. Seen(t, u, "lineage") = "child_of"
    BY <1>4, <2>1
  <2>3. ~(t = p /\ u = c)
    BY <1>1, <2>2
  <2>4. <<t, u>> \notin restored
    BY <1>4, <2>1, <2>3
  <2> QED
    BY <2>2, <2>4, DrawnEdge
<1>5. \A t, u \in exists : <<t, u>> \in Drawn' => <<t, u>> \in Drawn \/ (t = c /\ u = p)
  BY <1>4
<1>6. Acyclic(exists, Drawn')
  BY <1>1, <1>2, <1>3, <1>5, OneEdgeMore
<1>7. Acyclic(exists', Drawn')
  BY <1>6
<1> QED
  BY <1>7, LineageAsEdgesNext

(* An action that links nothing, and restores nothing it uncovers.         *)
LEMMA NoLinkKeepsAcyclic ==
  ASSUME LineageIsAcyclic, exists' = exists,
         \A t, u \in exists : Seen(t, u, "lineage")' = "child_of" /\ <<t, u>> \notin restored'
            => Seen(t, u, "lineage") = "child_of" /\ <<t, u>> \notin restored
  PROVE  LineageIsAcyclic'
<1>1. \A t, u \in exists : <<t, u>> \in Drawn' => <<t, u>> \in Drawn
  BY DEF Drawn, DrawnParents, Parents
<1>2. Acyclic(exists', Drawn')
  BY <1>1, LineageAsEdges, Fewer
<1> QED
  BY <1>2, LineageAsEdgesNext

(* A new ticket, under no ticket or under one that was there.              *)
LEMMA NewTicketKeepsAcyclic ==
  ASSUME LineageIsAcyclic, NEW n \in Tickets, exists' = exists \cup {n}, n \notin exists,
         \A t \in exists' : Seen(t, n, "lineage")' # "child_of",
         \A t, u \in exists : Seen(t, u, "lineage")' = "child_of" /\ <<t, u>> \notin restored'
            => Seen(t, u, "lineage") = "child_of" /\ <<t, u>> \notin restored
  PROVE  LineageIsAcyclic'
<1>1. \A t, u \in exists' : <<t, u>> \in Drawn' =>
        Seen(t, u, "lineage")' = "child_of" /\ <<t, u>> \notin restored'
  BY DEF Drawn, DrawnParents, Parents
<1>2. <<n, n>> \notin Drawn' /\ \A t \in exists : <<t, n>> \notin Drawn'
  BY <1>1
<1>3. \A t, u \in exists : <<t, u>> \in Drawn' => <<t, u>> \in Drawn
  BY <1>1, DrawnEdge
<1>4. Acyclic(exists \cup {n}, Drawn')
  BY <1>2, <1>3, LineageAsEdges, OneTicketMore
<1>5. Acyclic(exists', Drawn')
  BY <1>4
<1> QED
  BY <1>5, LineageAsEdgesNext

(* What an event of a on b changes of what each side shows.                *)
LEMMA SeenAfterInsert ==
  ASSUME TypeOK, NEW a \in Tickets, NEW b \in Tickets, a # b, NEW k \in Kinds("lineage"),
         InsertTypedRelation(a, b, "lineage", k)
  PROVE  \A t, u \in Tickets :
            /\ Seen(t, u, "lineage")' = "child_of" =>
                \/ Seen(t, u, "lineage") = "child_of"
                \/ k = "child_of" /\ t = a /\ u = b
                \/ k = "parent_of" /\ t = b /\ u = a
<1>1. "lineage" \in Axes /\ k \in {"child_of", "parent_of"}
  BY KindsOfAxes DEF Axes, Lineage
<1>2. ASSUME NEW p \in Tickets \X Tickets
      PROVE  rel'[p]["lineage"] = IF p = <<a, b>> THEN k ELSE rel[p]["lineage"]
  BY <1>1, <1>2 DEF InsertTypedRelation, TypeOK
<1>3. \A t, u \in Tickets :
        /\ rel'[<<t, u>>]["lineage"] = IF t = a /\ u = b THEN k ELSE rel[<<t, u>>]["lineage"]
        /\ rel'[<<u, t>>]["lineage"] = IF u = a /\ t = b THEN k ELSE rel[<<u, t>>]["lineage"]
  BY <1>2
<1> QED
  BY <1>1, <1>3 DEF Seen, Inverse

LEMMA GateLeavesLineage ==
  ASSUME TypeOK, NEW a \in Tickets, NEW b \in Tickets, NEW k, InsertTypedRelation(a, b, "gate", k)
  PROVE  \A t, u \in Tickets : Seen(t, u, "lineage")' = Seen(t, u, "lineage")
<1>1. "lineage" \in Axes
  BY DEF Axes
<1>2. \A p \in Tickets \X Tickets : rel'[p]["lineage"] = rel[p]["lineage"]
  BY <1>1 DEF InsertTypedRelation, TypeOK
<1> QED
  BY <1>2 DEF Seen

LEMMA RelateKeepsAcyclic ==
  ASSUME TypeOK, LineageIsAcyclic, NEW a \in Tickets, NEW b \in Tickets, NEW axis \in Axes,
         NEW k \in Kinds(axis), Relate(a, b, axis, k)
  PROVE  LineageIsAcyclic'
<1>1. /\ a \in exists /\ b \in exists /\ a # b /\ exists' = exists
      /\ InsertTypedRelation(a, b, axis, k)
      /\ exists \subseteq Tickets
  BY DEF Relate, TypeOK
<1>2. CASE axis = "gate"
  BY <1>1, <1>2, GateLeavesLineage, NoLinkKeepsAcyclic DEF InsertTypedRelation
<1>3. CASE axis = "lineage"
  <2>1. restored' = restored \ {<<a, b>>, <<b, a>>}
    BY <1>1, <1>3 DEF InsertTypedRelation
  <2>2. CASE k = "child_of"
    <3>1. ~LineageWouldCycle(a, b)
      BY <2>2 DEF Relate
    <3>2. \A t, u \in exists : Seen(t, u, "lineage")' = "child_of"
            => Seen(t, u, "lineage") = "child_of" \/ (t = a /\ u = b)
      BY <1>1, <1>3, <2>2, SeenAfterInsert
    <3> QED
      BY <1>1, <2>1, <3>1, <3>2, LinkKeepsAcyclic
  <2>3. CASE k = "parent_of"
    <3>1. ~LineageWouldCycle(b, a)
      BY <2>3 DEF Relate
    <3>2. \A t, u \in exists : Seen(t, u, "lineage")' = "child_of"
            => Seen(t, u, "lineage") = "child_of" \/ (t = b /\ u = a)
      BY <1>1, <1>3, <2>3, SeenAfterInsert
    <3>3. restored' = restored \ {<<b, a>>, <<a, b>>}
      BY <2>1
    <3> QED
      BY <1>1, <3>1, <3>2, <3>3, LinkKeepsAcyclic
  <2> QED
    BY <1>3, <2>2, <2>3, KindsOfAxes DEF Lineage
<1> QED
  BY <1>2, <1>3 DEF Axes

LEMMA UnrelateKeepsAcyclic ==
  ASSUME TypeOK, LineageIsAcyclic, NEW a \in Tickets, NEW b \in Tickets, NEW axes,
         Unrelate(a, b, axes)
  PROVE  LineageIsAcyclic'
<1> DEFINE Cut(r) == [axis \in Axes |-> IF axis \in axes THEN "none" ELSE r[axis]]
<1>1. /\ rel' = [rel EXCEPT ![<<a, b>>] = Cut(@), ![<<b, a>>] = Cut(@)]
      /\ restored' = IF "lineage" \in axes THEN restored \ {<<a, b>>, <<b, a>>} ELSE restored
      /\ a # b /\ exists' = exists /\ exists \subseteq Tickets
  BY DEF Unrelate, TypeOK
<1>2. \A p \in Tickets \X Tickets :
        rel'[p] = IF p \in {<<a, b>>, <<b, a>>} THEN Cut(rel[p]) ELSE rel[p]
  BY <1>1 DEF TypeOK
<1>3. \A r : Cut(r)["lineage"] = IF "lineage" \in axes THEN "none" ELSE r["lineage"]
  BY DEF Axes
<1> HIDE DEF Cut
<1>4. \A p \in Tickets \X Tickets : rel'[p]["lineage"] =
        IF p \in {<<a, b>>, <<b, a>>} /\ "lineage" \in axes THEN "none" ELSE rel[p]["lineage"]
  BY <1>2, <1>3
<1>5. ASSUME NEW t \in exists, NEW u \in exists,
             Seen(t, u, "lineage")' = "child_of", <<t, u>> \notin restored'
      PROVE  Seen(t, u, "lineage") = "child_of" /\ <<t, u>> \notin restored
  <2>1. <<t, u>> \in Tickets \X Tickets /\ <<u, t>> \in Tickets \X Tickets
    BY <1>1
  <2>2. CASE <<t, u>> \in {<<a, b>>, <<b, a>>} /\ "lineage" \in axes
    <3>1. <<u, t>> \in {<<a, b>>, <<b, a>>}
      BY <2>2
    <3>2. rel'[<<t, u>>]["lineage"] = "none" /\ rel'[<<u, t>>]["lineage"] = "none"
      BY <1>4, <2>1, <2>2, <3>1
    <3> QED
      BY <1>5, <3>2 DEF Seen, Inverse
  <2>3. CASE ~(<<t, u>> \in {<<a, b>>, <<b, a>>} /\ "lineage" \in axes)
    <3>1. <<u, t>> \in {<<a, b>>, <<b, a>>} => <<t, u>> \in {<<a, b>>, <<b, a>>}
      OBVIOUS
    <3>2. /\ rel'[<<t, u>>]["lineage"] = rel[<<t, u>>]["lineage"]
          /\ rel'[<<u, t>>]["lineage"] = rel[<<u, t>>]["lineage"]
      BY <1>4, <2>1, <2>3, <3>1
    <3>3. <<t, u>> \notin restored
      BY <1>1, <1>5, <2>3
    <3> QED
      BY <1>5, <3>2, <3>3 DEF Seen
  <2> QED
    BY <2>2, <2>3
<1> QED
  BY <1>1, <1>5, NoLinkKeepsAcyclic

(* A ticket not filed has no relation, on either side.                     *)
LEMMA NewTicketUnrelated ==
  ASSUME TypeOK, NEW n \in Tickets, n \notin exists
  PROVE  \A x \in Tickets : rel[<<x, n>>]["lineage"] = "none" /\ rel[<<n, x>>]["lineage"] = "none"
  BY DEF TypeOK, Unrelated, Axes

LEMMA CreateKeepsAcyclic ==
  ASSUME TypeOK, LineageIsAcyclic, NEW t \in Tickets, t \notin exists, exists' = exists \cup {t},
         UNCHANGED <<rel, restored>>
  PROVE  LineageIsAcyclic'
<1>1. exists' \subseteq Tickets
  BY DEF TypeOK
<1>2. \A x, u \in Tickets : Seen(x, u, "lineage")' = Seen(x, u, "lineage")
  BY DEF Seen
<1>3. \A x \in exists' : Seen(x, t, "lineage")' # "child_of"
  BY <1>1, NewTicketUnrelated DEF Seen, Inverse
<1>4. \A x, u \in exists : Seen(x, u, "lineage")' = "child_of" /\ <<x, u>> \notin restored'
        => Seen(x, u, "lineage") = "child_of" /\ <<x, u>> \notin restored
  BY <1>1, <1>2
<1> QED
  BY <1>3, <1>4, NewTicketKeepsAcyclic

LEMMA CreateSubKeepsAcyclic ==
  ASSUME TypeOK, LineageIsAcyclic, NEW t \in Tickets, NEW parent \in Tickets,
         NEW linked \in BOOLEAN, CreateSub(t, parent, linked)
  PROVE  LineageIsAcyclic'
<1>1. t \notin exists /\ parent \in exists /\ exists' = exists \cup {t} /\ exists' \subseteq Tickets
  BY DEF CreateSub, TypeOK
<1>2. CASE ~linked
  BY <1>1, <1>2, CreateKeepsAcyclic DEF CreateSub
<1>3. CASE linked
  <2>1. InsertTypedRelation(t, parent, "lineage", "child_of")
    BY <1>3 DEF CreateSub
  <2>2. \A p \in Tickets \X Tickets :
          rel'[p]["lineage"] = IF p = <<t, parent>> THEN "child_of" ELSE rel[p]["lineage"]
    BY <2>1 DEF InsertTypedRelation, TypeOK, Axes
  <2>3. ASSUME NEW x \in exists' PROVE Seen(x, t, "lineage")' # "child_of"
    <3>1. /\ rel'[<<x, t>>]["lineage"] = "none"
          /\ rel'[<<t, x>>]["lineage"] \in {"none", "child_of"}
      BY <1>1, <2>2, NewTicketUnrelated
    <3> QED
      BY <3>1 DEF Seen, Inverse
  <2>4. ASSUME NEW x \in exists, NEW u \in exists, Seen(x, u, "lineage")' = "child_of",
               <<x, u>> \notin restored'
        PROVE  Seen(x, u, "lineage") = "child_of" /\ <<x, u>> \notin restored
    <3>1. /\ rel'[<<x, u>>]["lineage"] = rel[<<x, u>>]["lineage"]
          /\ rel'[<<u, x>>]["lineage"] = rel[<<u, x>>]["lineage"]
      BY <1>1, <2>2
    <3>2. <<x, u>> \notin restored
      BY <1>1, <2>1, <2>4 DEF InsertTypedRelation
    <3> QED
      BY <2>4, <3>1, <3>2 DEF Seen
  <2> QED
    BY <1>1, <2>3, <2>4, NewTicketKeepsAcyclic
<1> QED
  BY <1>2, <1>3

(* What the backfill writes, it marks.                                     *)
LEMMA BackfillKeepsAcyclic ==
  ASSUME TypeOK, LineageIsAcyclic, BackfillParentTicketRelations
  PROVE  LineageIsAcyclic'
<1>1. /\ exists' = exists /\ exists \subseteq Tickets
      /\ restored' = restored \cup owed
  BY DEF BackfillParentTicketRelations, TypeOK
<1>2. \A p \in Tickets \X Tickets :
        rel'[p]["lineage"] = IF p \in owed THEN "child_of" ELSE rel[p]["lineage"]
  BY DEF BackfillParentTicketRelations, TypeOK, Axes
<1>3. ASSUME NEW t \in exists, NEW u \in exists,
             Seen(t, u, "lineage")' = "child_of", <<t, u>> \notin restored'
      PROVE  Seen(t, u, "lineage") = "child_of" /\ <<t, u>> \notin restored
  <2>1. <<t, u>> \notin owed /\ <<t, u>> \notin restored
    BY <1>1, <1>3
  <2>2. rel'[<<t, u>>]["lineage"] = rel[<<t, u>>]["lineage"]
    BY <1>1, <1>2, <2>1
  <2>3. rel'[<<u, t>>]["lineage"] \in {"child_of", rel[<<u, t>>]["lineage"]}
    BY <1>1, <1>2
  <2> QED
    BY <1>3, <2>1, <2>2, <2>3 DEF Seen, Inverse
<1> QED
  BY <1>1, <1>3, NoLinkKeepsAcyclic

(* Whatever links and cuts follow each other, the lineage people draw has  *)
(* no cycle: each link is checked against the lineage as both threads show *)
(* it, and nothing but the backfill links unchecked.                       *)
THEOREM DrawnLineageIsAcyclic == Spec => []LineageIsAcyclic
<1>1. Init => LineageIsAcyclic
  BY DEF Init, LineageIsAcyclic
<1>2. TypeOK /\ LineageIsAcyclic /\ [Next]_vars => LineageIsAcyclic'
  <2> SUFFICES ASSUME TypeOK, LineageIsAcyclic, [Next]_vars PROVE LineageIsAcyclic'
    OBVIOUS
  <2>1. ASSUME UNCHANGED <<exists, rel, restored>> PROVE LineageIsAcyclic'
    <3>1. \A t, u \in exists : Seen(t, u, "lineage")' = Seen(t, u, "lineage")
      BY <2>1 DEF Seen
    <3> QED
      BY <2>1, <3>1, NoLinkKeepsAcyclic
  <2>2. ASSUME NEW a \in Tickets, NEW b \in Tickets, NEW axis \in Axes, NEW k \in Kinds(axis),
               Relate(a, b, axis, k)
        PROVE  LineageIsAcyclic'
    BY <2>2, RelateKeepsAcyclic
  <2>3. ASSUME NEW a \in Tickets, NEW b \in Tickets, NEW axes, Unrelate(a, b, axes)
        PROVE  LineageIsAcyclic'
    BY <2>3, UnrelateKeepsAcyclic
  <2>4. ASSUME NEW a \in Tickets, NEW b \in Tickets, RelateOtherwise(a, b) PROVE LineageIsAcyclic'
    BY <2>1, <2>4 DEF RelateOtherwise
  <2>5. ASSUME NEW t \in Tickets, Create(t) PROVE LineageIsAcyclic'
    BY <2>5, CreateKeepsAcyclic DEF Create
  <2>6. ASSUME NEW t \in Tickets, Act(t) \/ Close(t) \/ ApproveStep(t) \/ RejectStep(t)
        PROVE  LineageIsAcyclic'
    BY <2>1, <2>6 DEF Act, Close, ApproveStep, RejectStep
  <2>7. ASSUME NEW t \in Tickets, NEW parent \in Tickets, NEW linked \in BOOLEAN,
               CreateSub(t, parent, linked)
        PROVE  LineageIsAcyclic'
    BY <2>7, CreateSubKeepsAcyclic
  <2>8. CASE BackfillParentTicketRelations
    BY <2>8, BackfillKeepsAcyclic
  <2>9. ASSUME NEW t \in Tickets, NEW on \in Tickets \cup {None}, NEW delivers \in BOOLEAN,
               NEW s \in {"pending", "approved"}, Step(t, on, delivers, s)
        PROVE  LineageIsAcyclic'
    BY <2>1, <2>9 DEF Step
  <2>10. ASSUME NEW t \in Tickets, NEW posted \in BOOLEAN, Reopen(t, posted)
         PROVE  LineageIsAcyclic'
    BY <2>1, <2>10 DEF Reopen
  <2>11. CASE UNCHANGED vars
    BY <2>1, <2>11 DEF vars
  <2> QED
    BY <2>2, <2>3, <2>4, <2>5, <2>6, <2>7, <2>8, <2>9, <2>10, <2>11 DEF Next
<1> QED
  BY <1>1, <1>2, TypeCorrect, PTL DEF Spec

-----------------------------------------------------------------------------
(* The steps.                                                              *)

Open == exists \ closed
Waiting == {q \in Open \X Open : q[2] \in Awaited(q[1])}

(* No step names a ticket closed: closing it is what the step waited for.  *)
NamesOpen == \A u \in Tickets : resume[u].on \notin closed

LEMMA WaitsAsEdges == NoSleepingRing <=> Acyclic(Open, Waiting)
<1>1. \A t, u \in Open : <<t, u>> \in Waiting <=> u \in Awaited(t)
  BY DEF Waiting
<1>2. ASSUME NEW S \in SUBSET Open, NEW t \in S
      PROVE  Awaited(t) \cap S = {} <=> \A u \in S : <<t, u>> \notin Waiting
  BY <1>1
<1> QED
  BY <1>2 DEF NoSleepingRing, Acyclic, Open

LEMMA WaitsAsEdgesNext == NoSleepingRing' <=> Acyclic(Open', Waiting')
<1>1. \A t, u \in Open' : <<t, u>> \in Waiting' <=> u \in Awaited(t)'
  BY DEF Waiting
<1>2. ASSUME NEW S \in SUBSET Open', NEW t \in S
      PROVE  Awaited(t)' \cap S = {} <=> \A u \in S : <<t, u>> \notin Waiting'
  BY <1>1
<1> QED
  BY <1>2 DEF NoSleepingRing, Acyclic, Open

LEMMA WaitingEdge ==
  /\ \A t, u \in Open :
        <<t, u>> \in Waiting <=> resume[t].status = "approved" /\ resume[t].on = u
  /\ \A t, u \in Open' :
        <<t, u>> \in Waiting' <=> resume'[t].status = "approved" /\ resume'[t].on = u
  BY DEF Waiting, Awaited, LiveResumeOn

LEMMA AmongFewer ==
  ASSUME NEW E, NEW R, NEW D \in SUBSET E, Acyclic(E, R) PROVE Acyclic(D, R)
  BY DEF Acyclic

(* Steps dropped or held, tickets closed: no wait more.                    *)
LEMMA FewerWaits ==
  ASSUME TypeOK, NoSleepingRing, Open' \subseteq Open,
         \A u \in Tickets : resume'[u].status = "approved" => resume'[u] = resume[u]
  PROVE  NoSleepingRing'
<1>1. Open \subseteq Tickets
  BY DEF Open, TypeOK
<1>2. Acyclic(Open', Waiting)
  BY WaitsAsEdges, AmongFewer
<1>3. \A t, u \in Open' : <<t, u>> \in Waiting' => <<t, u>> \in Waiting
  BY <1>1, WaitingEdge
<1>4. Acyclic(Open', Waiting')
  BY <1>2, <1>3, Fewer
<1> QED
  BY <1>4, WaitsAsEdgesNext

(* A ticket opened that no step names may itself wait.                     *)
LEMMA OneMoreOpen ==
  ASSUME TypeOK, NoSleepingRing, NEW n \in Tickets, Open' = Open \cup {n},
         \A u \in Tickets : resume[u].on # n /\ resume'[u] \in {resume[u], NoStep}
  PROVE  NoSleepingRing'
<1>1. Open \subseteq Tickets
  BY DEF Open, TypeOK
<1>2. \A t \in Open' : <<t, n>> \notin Waiting'
  <2>1. \A t \in Open' : t \in Tickets /\ n \in Open'
    BY <1>1
  <2>2. n # None
    BY NoneAssumption
  <2> QED
    BY <2>1, <2>2, WaitingEdge DEF NoStep
<1>3. \A t, u \in Open : <<t, u>> \in Waiting' => <<t, u>> \in Waiting
  BY <1>1, WaitingEdge DEF NoStep
<1>4. Acyclic(Open \cup {n}, Waiting')
  BY <1>2, <1>3, WaitsAsEdges, OneTicketMore
<1>5. Acyclic(Open', Waiting')
  BY <1>4
<1> QED
  BY <1>5, WaitsAsEdgesNext

(* The step's check leaves, around the ticket named, a set of tickets that *)
(* holds all they wait on and not the ticket of the step.                  *)
LEMMA ResumeGuard ==
  ASSUME NEW t \in exists, NEW on \in exists, ~ResumeWouldCycle(t, on)
  PROVE  \E A \in SUBSET exists :
            on \in A /\ t \notin A /\ \A s \in A : WaitsOf(s) \subseteq A
  BY DEF ResumeWouldCycle, Walk, ClosedUnder

LEMMA StepSaid ==
  ASSUME TypeOK, NEW t \in Tickets, NEW on, NEW delivers \in BOOLEAN, NEW status,
         Step(t, on, delivers, status)
  PROVE  /\ \A u \in Tickets \ {t} : resume'[u] \in {resume[u], NoStep}
         /\ resume'[t] = IF on = None THEN NoStep ELSE [on |-> on, status |-> status]
<1> DEFINE others == IF delivers THEN Moved(t) ELSE resume
           said == IF on = None THEN NoStep ELSE [on |-> on, status |-> status]
<1>1. resume' = [others EXCEPT ![t] = said]
  BY DEF Step
<1>2. DOMAIN others = Tickets /\ \A u \in Tickets : others[u] \in {resume[u], NoStep}
  BY DEF TypeOK, Moved
<1> HIDE DEF others
<1> QED
  BY <1>1, <1>2

LEMMA StepKeepsAwake ==
  ASSUME TypeOK, NoSleepingRing, NEW t \in Tickets, NEW on \in Tickets \cup {None},
         NEW delivers \in BOOLEAN, NEW status \in {"pending", "approved"},
         Step(t, on, delivers, status)
  PROVE  NoSleepingRing'
<1>0. /\ \A u \in Tickets \ {t} : resume'[u] \in {resume[u], NoStep}
      /\ resume'[t] = IF on = None THEN NoStep ELSE [on |-> on, status |-> status]
  BY StepSaid
<1>1. t \in exists /\ exists' = exists /\ closed' = closed /\ Open' = Open /\ Open \subseteq Tickets
  BY DEF Step, Open, TypeOK
<1>2. CASE on = None
  <2>1. \A u \in Tickets : resume'[u] \in {resume[u], NoStep}
    BY <1>2, <1>0
  <2> QED
    BY <1>1, <2>1, FewerWaits DEF NoStep
<1>3. CASE on # None
  <2>1. on \in exists /\ ~ResumeWouldCycle(t, on)
    BY <1>3 DEF Step
  <2>2. PICK A \in SUBSET exists :
          on \in A /\ t \notin A /\ \A s \in A : WaitsOf(s) \subseteq A
    BY <1>1, <2>1, ResumeGuard
  <2>3. ASSUME NEW s \in Open, NEW u \in Open, s \in A, <<s, u>> \in Waiting PROVE u \in A
    <3>1. resume[s].status = "approved" /\ resume[s].on = u
      BY <2>3, WaitingEdge
    <3>2. u \in WaitsOf(s)
      BY <3>1 DEF WaitsOf, LiveResumeOn, Open
    <3> QED
      BY <2>2, <2>3, <3>2
  <2>4. ASSUME NEW s \in Open, NEW u \in Open, <<s, u>> \in Waiting'
        PROVE  <<s, u>> \in Waiting \/ (s = t /\ u = on)
    <3>1. resume'[s].status = "approved" /\ resume'[s].on = u
      BY <1>1, <2>4, WaitingEdge
    <3>2. CASE s = t
      BY <1>3, <3>1, <3>2, <1>0
    <3>3. CASE s # t
      <4>1. resume'[s] = resume[s]
        BY <1>1, <3>1, <3>3, <1>0 DEF NoStep
      <4> QED
        BY <3>1, <4>1, WaitingEdge
    <3> QED
      BY <3>2, <3>3
  <2>5. \A s, u \in Open : s \in A /\ <<s, u>> \in Waiting => u \in A
    BY <2>3
  <2>6. \A s, u \in Open : <<s, u>> \in Waiting' => <<s, u>> \in Waiting \/ (s = t /\ u = on)
    BY <2>4
  <2>7. Acyclic(Open, Waiting)
    BY WaitsAsEdges
  <2>8. Acyclic(Open, Waiting')
    BY <2>2, <2>5, <2>6, <2>7, OneEdgeMore
  <2> QED
    BY <1>1, <2>8, WaitsAsEdgesNext
<1> QED
  BY <1>2, <1>3

LEMMA StepNamesOpen ==
  ASSUME TypeOK, NamesOpen, NEW t \in Tickets, NEW on \in Tickets \cup {None},
         NEW delivers \in BOOLEAN, NEW status, Step(t, on, delivers, status)
  PROVE  NamesOpen'
<1>0. /\ \A u \in Tickets \ {t} : resume'[u] \in {resume[u], NoStep}
      /\ resume'[t] = IF on = None THEN NoStep ELSE [on |-> on, status |-> status]
  BY StepSaid
<1>1. closed' = closed /\ None \notin closed /\ (on # None => on \notin closed)
  BY NoneAssumption DEF Step, TypeOK
<1>2. ASSUME NEW u \in Tickets PROVE resume'[u].on \notin closed
  <2>1. CASE u = t
    BY <1>1, <2>1, <1>0 DEF NoStep
  <2>2. CASE u # t
    BY <1>1, <2>2, <1>0 DEF NamesOpen, NoStep
  <2> QED
    BY <2>1, <2>2
<1> QED
  BY <1>1, <1>2 DEF NamesOpen

LEMMA DropsNameOpen ==
  ASSUME TypeOK, NamesOpen, closed' \subseteq closed,
         \A u \in Tickets : resume'[u].on \in {resume[u].on, None}
  PROVE  NamesOpen'
  BY NoneAssumption DEF TypeOK, NamesOpen

(* What acting on t leaves of the steps: nobody's names t any more.        *)
LEMMA ActLeaves ==
  ASSUME TypeOK, NEW t \in exists, resume' = [Moved(t) EXCEPT ![t] = NoStep]
  PROVE  \A u \in Tickets : resume'[u] \in {resume[u], NoStep} /\ resume'[u].on # t
<1>1. t # None /\ \A u \in Tickets : Moved(t)[u] \in {resume[u], NoStep} /\ Moved(t)[u].on # t
  BY NoneAssumption DEF TypeOK, Moved, NoStep
<1>2. DOMAIN Moved(t) = Tickets
  BY DEF Moved
<1> QED
  BY <1>1, <1>2 DEF NoStep

(* However steps, closes and reopens follow each other, no ring of tickets *)
(* sleeps on steps alone: the step that would close one is refused, a      *)
(* ticket that closes frees the steps that named it, and so no step waits  *)
(* for a ticket that comes back.                                           *)
THEOREM StepsNeverSleepInARing == Spec => []NoSleepingRing
<1>1. Init => NamesOpen /\ NoSleepingRing
  BY DEF Init, NamesOpen, NoSleepingRing
<1>2. TypeOK /\ NamesOpen /\ NoSleepingRing /\ [Next]_vars => NamesOpen' /\ NoSleepingRing'
  <2> SUFFICES ASSUME TypeOK, NamesOpen, NoSleepingRing, [Next]_vars
               PROVE  NamesOpen' /\ NoSleepingRing'
    OBVIOUS
  <2>1. ASSUME UNCHANGED <<exists, closed, resume>> PROVE NamesOpen' /\ NoSleepingRing'
    BY <2>1, FewerWaits, DropsNameOpen DEF Open
  <2>2. ASSUME closed' \subseteq closed, Open' \subseteq Open,
               \A u \in Tickets : resume'[u] \in {resume[u], NoStep}
        PROVE  NamesOpen' /\ NoSleepingRing'
    BY <2>2, FewerWaits, DropsNameOpen DEF NoStep
  <2>3. ASSUME NEW t \in Tickets, t \notin exists, exists' = exists \cup {t},
               UNCHANGED <<closed, resume>>
        PROVE  NamesOpen' /\ NoSleepingRing'
    <3>1. Open' = Open \cup {t}
      BY <2>3 DEF Open, TypeOK
    <3>2. \A u \in Tickets : resume[u].on # t /\ resume'[u] \in {resume[u], NoStep}
      BY <2>3, NoneAssumption DEF TypeOK, NoStep
    <3>3. NoSleepingRing'
      BY <3>1, <3>2, OneMoreOpen
    <3> QED
      BY <2>3, <3>3, DropsNameOpen
  <2>4. ASSUME NEW a \in Tickets, NEW b \in Tickets, NEW axis \in Axes, NEW k \in Kinds(axis),
               Relate(a, b, axis, k)
        PROVE  NamesOpen' /\ NoSleepingRing'
    BY <2>1, <2>4 DEF Relate
  <2>5. ASSUME NEW a \in Tickets, NEW b \in Tickets, NEW axes,
               Unrelate(a, b, axes) \/ RelateOtherwise(a, b)
        PROVE  NamesOpen' /\ NoSleepingRing'
    BY <2>1, <2>5 DEF Unrelate, RelateOtherwise
  <2>6. ASSUME NEW t \in Tickets, Create(t) PROVE NamesOpen' /\ NoSleepingRing'
    BY <2>3, <2>6 DEF Create
  <2>7. ASSUME NEW t \in Tickets, NEW parent \in Tickets, NEW linked \in BOOLEAN,
               CreateSub(t, parent, linked)
        PROVE  NamesOpen' /\ NoSleepingRing'
    BY <2>3, <2>7 DEF CreateSub
  <2>8. ASSUME NEW t \in Tickets, Act(t) PROVE NamesOpen' /\ NoSleepingRing'
    BY <2>2, <2>8, ActLeaves DEF Act, Open
  <2>9. ASSUME NEW t \in Tickets, ApproveStep(t) PROVE NamesOpen' /\ NoSleepingRing'
    <3>1. \A u \in Tickets : /\ resume'[u].on = resume[u].on
                             /\ resume'[u] = resume[u] \/ resume'[u].status = "late"
      BY <2>9 DEF ApproveStep, TypeOK, NoStep
    <3>2. closed' = closed /\ Open' = Open
      BY <2>9 DEF ApproveStep, Open
    <3> QED
      BY <3>1, <3>2, FewerWaits, DropsNameOpen
  <2>10. ASSUME NEW t \in Tickets, RejectStep(t) PROVE NamesOpen' /\ NoSleepingRing'
    <3>1. \A u \in Tickets : resume'[u] \in {resume[u], NoStep}
      BY <2>10 DEF RejectStep, TypeOK
    <3> QED
      BY <2>2, <2>10, <3>1 DEF RejectStep, Open
  <2>11. CASE BackfillParentTicketRelations
    BY <2>1, <2>11 DEF BackfillParentTicketRelations
  <2>12. ASSUME NEW t \in Tickets, NEW on \in Tickets \cup {None}, NEW delivers \in BOOLEAN,
                NEW s \in {"pending", "approved"}, Step(t, on, delivers, s)
         PROVE  NamesOpen' /\ NoSleepingRing'
    BY <2>12, StepKeepsAwake, StepNamesOpen
  <2>13. ASSUME NEW t \in Tickets, Close(t) PROVE NamesOpen' /\ NoSleepingRing'
    <3>1. /\ \A u \in Tickets : resume'[u] \in {resume[u], NoStep} /\ resume'[u].on # t
          /\ closed' = closed \cup {t} /\ Open' \subseteq Open
      BY <2>13, ActLeaves DEF Close, Open
    <3>2. NamesOpen'
      BY <3>1, NoneAssumption DEF NamesOpen, NoStep, TypeOK
    <3> QED
      BY <3>1, <3>2, FewerWaits DEF NoStep
  <2>14. ASSUME NEW t \in Tickets, NEW posted \in BOOLEAN, Reopen(t, posted)
         PROVE  NamesOpen' /\ NoSleepingRing'
    <3>1. t \in exists /\ closed' \subseteq closed /\ Open' = Open \cup {t}
      BY <2>14 DEF Reopen, Open, TypeOK
    <3>2. \A u \in Tickets : resume'[u] \in {resume[u], NoStep}
      BY <2>14, <3>1, ActLeaves DEF Reopen
    <3>3. \A u \in Tickets : resume[u].on # t
      BY <2>14 DEF Reopen, NamesOpen
    <3>4. NoSleepingRing'
      BY <3>1, <3>2, <3>3, OneMoreOpen
    <3> QED
      BY <3>1, <3>2, <3>4, DropsNameOpen DEF NoStep
  <2>15. CASE UNCHANGED vars
    BY <2>1, <2>15 DEF vars
  <2> QED
    BY <2>4, <2>5, <2>6, <2>7, <2>8, <2>9, <2>10, <2>11, <2>12, <2>13, <2>14, <2>15 DEF Next
<1> QED
  BY <1>1, <1>2, TypeCorrect, PTL DEF Spec
===============================================================================
