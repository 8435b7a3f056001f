------------------------- MODULE TicketThreadProofs -------------------------
(***************************************************************************)
(* Theorems about TicketThread, for any consumers, reporter, decision      *)
(* kinds and thread length.  They rest on one fact about every step of the *)
(* thread (StepAdvances): messages are only added at its end, each message *)
(* already there evolves along Evolves, and a close lands with its cleanup *)
(* done.                                                                   *)
(***************************************************************************)
EXTENDS TicketThread, WellFoundedInduction, TLAPS

Final(d) == d.status \in {"accepted", "rejected", "withdrawn"}

\* What one step may make of message m.
Evolves(m, n) ==
    /\ n \in Messages
    /\ n.kind = m.kind /\ n.by = m.by
    /\ n.status = "pending" => m.status = "pending"
    /\ Final(m.dec) => n.dec = m.dec

\* A close: by who may, with no reopen left pending before it.
LandsClean(U, i) ==
    U[i].kind = "closed" =>
        /\ U[i].by \in Humans \cup {Reporter}
        /\ \A j \in 1..(i - 1) : U[j].kind = "reopened" => U[j].status # "pending"

Advances(T, U) ==
    /\ U \in Seq(Messages)
    /\ Len(U) >= Len(T)
    /\ \A i \in 1..Len(T) : Evolves(T[i], U[i])
    /\ \A i \in 1..Len(U) : i > Len(T) => LandsClean(U, i)

-----------------------------------------------------------------------------
LEMMA EvolvesItself == ASSUME NEW m \in Messages PROVE Evolves(m, m)
BY DEF Evolves

LEMMA EvolvesTwice ==
    ASSUME NEW m \in Messages, NEW n \in Messages, NEW o \in Messages,
           Evolves(m, n), Evolves(n, o)
    PROVE  Evolves(m, o)
BY DEF Evolves, Final

LEMMA DecisionTypes ==
    ASSUME NEW c \in Consumers, NEW k \in Kinds, NEW verdict \in {"accepted", "rejected"},
           NEW d \in Decisions
    PROVE  /\ NoDecision \in Decisions
           /\ PendingDecision(k) \in Decisions
           /\ Decision(k, verdict, c) \in Decisions
           /\ Withdrawn(d, c) \in Decisions
           /\ Applied(d, k, verdict, c) \in Decisions
BY ThreadParameters
   DEF NoDecision, PendingDecision, Decision, Withdrawn, Applied, Decisions

\* A message put at the end of the thread, the others left as they are.
LEMMA AppendAdvances ==
    ASSUME NEW T \in Seq(Messages), NEW m \in Messages, m.kind # "closed"
    PROVE  Advances(T, Append(T, m))
<1>1. /\ Append(T, m) \in Seq(Messages)
      /\ Len(Append(T, m)) = Len(T) + 1
      /\ \A i \in 1..Len(T) : Append(T, m)[i] = T[i] /\ T[i] \in Messages
      /\ Append(T, m)[Len(T) + 1] = m
  OBVIOUS
<1> QED
  BY <1>1, EvolvesItself DEF Advances, LandsClean

\* One message replaced by what it may become.
LEMMA ExceptAdvances ==
    ASSUME NEW T \in Seq(Messages), NEW i \in 1..Len(T), NEW m, Evolves(T[i], m)
    PROVE  Advances(T, [T EXCEPT ![i] = m])
<1> DEFINE U == [T EXCEPT ![i] = m]
<1>1. m \in Messages
  BY DEF Evolves
<1>2. U \in Seq(Messages) /\ Len(U) = Len(T)
  BY <1>1
<1>3. \A j \in 1..Len(T) : T[j] \in Messages /\ U[j] = IF j = i THEN m ELSE T[j]
  OBVIOUS
<1> QED
  BY <1>2, <1>3, EvolvesItself DEF Advances

\* The close of a thread, by someone who may close it.
LEMMA CloseAdvances ==
    ASSUME NEW T \in Seq(Messages), NEW c \in Consumers, MayClose(c)
    PROVE  /\ Advances(T, CloseThread(T, c))
           /\ Len(CloseThread(T, c)) = Len(T) + 1
           /\ CloseThread(T, c)[Len(T) + 1].kind = "closed"
<1> DEFINE l == Latest({i \in DOMAIN T :
                T[i].kind = "comment" /\ T[i].status = "approved" /\ T[i].dec # NoDecision})
           Validated(i) ==
               i = l /\ T[i].kind = "comment" /\ T[i].dec.kind = "resolution" /\ T[i].dec.status = "pending"
           Cleaned(i) ==
            CASE Validated(i) -> [T[i] EXCEPT !.dec = Decision("resolution", "accepted", c)]
              [] T[i].kind = "resolved" /\ T[i].status = "pending" -> [T[i] EXCEPT !.status = "approved"]
              [] T[i].kind \in {"closed", "reopened"} /\ T[i].status = "pending" ->
                    [T[i] EXCEPT !.status = "rejected"]
              [] OTHER -> T[i]
           D == [i \in DOMAIN T |-> Cleaned(i)]
           m == Message("closed", c, "approved", NoDecision, "back")
<1>1. CloseThread(T, c) = Append(D, m)
  BY DEF CloseThread
<1>2. ASSUME NEW i \in 1..Len(T)
      PROVE  Evolves(T[i], Cleaned(i)) /\ (T[i].kind = "reopened" => Cleaned(i).status # "pending")
  <2>1. T[i] \in Messages /\ T[i].dec \in Decisions
    <3>1. T[i] \in Messages
      OBVIOUS
    <3> QED
      BY <3>1 DEF Messages
  <2>2. CASE Validated(i)
    <3>1. Decision("resolution", "accepted", c) \in Decisions
      BY DEF Decision, Decisions, Closing
    <3>2. T[i].dec.status = "pending" /\ T[i].kind = "comment"
      BY <2>2
    <3>3. Cleaned(i) = [T[i] EXCEPT !.dec = Decision("resolution", "accepted", c)]
      BY <2>2, <3>2
    <3> QED
      BY <2>1, <3>1, <3>2, <3>3 DEF Evolves, Messages, Final
  <2>3. CASE ~Validated(i)
    BY <2>1, <2>3 DEF Evolves, Messages
  <2> QED
    BY <2>2, <2>3
<1> HIDE DEF Cleaned, Validated, l
<1>3. \A i \in 1..Len(T) : Cleaned(i) \in Messages /\ Cleaned(i).kind = T[i].kind
  BY <1>2 DEF Evolves
<1>4. D \in Seq(Messages) /\ Len(D) = Len(T) /\ \A i \in 1..Len(T) : D[i] = Cleaned(i)
  BY <1>3
<1>5. m \in Messages /\ m.kind = "closed" /\ m.by = c
  BY DEF Message, Messages, NoDecision, Decisions
<1> HIDE DEF D, m
<1>6. /\ Append(D, m) \in Seq(Messages)
      /\ Len(Append(D, m)) = Len(T) + 1
      /\ \A i \in 1..Len(T) : Append(D, m)[i] = Cleaned(i)
      /\ Append(D, m)[Len(T) + 1] = m
  BY <1>4, <1>5
<1>7. LandsClean(Append(D, m), Len(T) + 1)
  BY <1>2, <1>3, <1>5, <1>6 DEF LandsClean, MayClose
<1> QED
  BY <1>1, <1>2, <1>5, <1>6, <1>7 DEF Advances

LEMMA AdvancesTwice ==
    ASSUME NEW T \in Seq(Messages), NEW U, NEW V,
           Advances(T, U), Len(U) = Len(T), Advances(U, V)
    PROVE  Advances(T, V)
<1>1. U \in Seq(Messages) /\ V \in Seq(Messages) /\ Len(V) >= Len(T)
  BY DEF Advances
<1>2. ASSUME NEW i \in 1..Len(T) PROVE Evolves(T[i], V[i])
  <2>1. T[i] \in Messages /\ U[i] \in Messages /\ V[i] \in Messages
    BY <1>1
  <2>2. Evolves(T[i], U[i]) /\ Evolves(U[i], V[i])
    BY DEF Advances
  <2> QED
    BY <2>1, <2>2, EvolvesTwice
<1> QED
  BY <1>1, <1>2 DEF Advances

LEMMA AdvancesItself == ASSUME NEW T \in Seq(Messages) PROVE Advances(T, T)
BY EvolvesItself DEF Advances

-----------------------------------------------------------------------------
(* What each way of writing a message does to it.                          *)

LEMMA MessageType ==
    ASSUME NEW kind \in {"comment", "closed", "reopened", "resolved", "taken_over"},
           NEW c \in Consumers, NEW approved \in BOOLEAN, NEW dec \in Decisions,
           NEW gesture \in {"back", "keep", "step"}
    PROVE  /\ Message(kind, c, Verdict(approved), dec, gesture) \in Messages
           /\ Message(kind, c, "approved", dec, gesture) \in Messages
           /\ Message(kind, c, Verdict(approved), dec, gesture).kind = kind
           /\ Message(kind, c, "approved", dec, gesture).kind = kind
BY DEF Message, Messages, Verdict

LEMMA StatusEvolves ==
    ASSUME NEW m \in Messages, NEW verdict \in {"approved", "rejected"}
    PROVE  Evolves(m, [m EXCEPT !.status = verdict])
BY DEF Evolves, Messages, Final

LEMMA DecisionEvolves ==
    ASSUME NEW m \in Messages, NEW dec \in Decisions, ~Final(m.dec)
    PROVE  Evolves(m, [m EXCEPT !.dec = dec])
BY DEF Evolves, Messages

LEMMA GestureEvolves ==
    ASSUME NEW m \in Messages, NEW gesture \in {"back", "keep", "step"},
           NEW tagged \in {"no", "back", "keep"}
    PROVE  Evolves(m, [m EXCEPT !.gesture = gesture, !.tagged = tagged])
BY DEF Evolves, Messages, Final

-----------------------------------------------------------------------------
(* One step: the types are kept, and the thread advances.                  *)
StepAdvances == TypeOK' /\ Advances(thread, thread')

LEMMA NewestTypes ==
    ASSUME TypeOK, NEW c \in Consumers
    PROVE  /\ thread \in Seq(Messages) /\ Newest \in Int /\ Narrated \in Int
           /\ NoDecision \in Decisions
           /\ \A i \in DOMAIN thread : i \in 1..Len(thread) /\ thread[i] \in Messages
           /\ \A n \in Int : [actor |-> c, msg |-> n] \in [actor : Consumers, msg : Int]
BY DEF TypeOK, Newest, Narrated, NoDecision, Decisions

LEMMA PostingAdvances ==
    ASSUME TypeOK, NEW c \in Consumers, NEW m \in Messages, m.kind # "closed",
           thread' = Append(thread, m), BumpLastActor(c, Newest), UNCHANGED <<tstatus, own>>
    PROVE  StepAdvances
<1>1. Advances(thread, thread')
  BY AppendAdvances, NewestTypes
<1>2. TypeOK'
  BY <1>1, NewestTypes DEF Advances, TypeOK, BumpLastActor
<1> QED
  BY <1>1, <1>2 DEF StepAdvances

LEMMA EditingAdvances ==
    ASSUME TypeOK, NEW i \in DOMAIN thread, NEW m, Evolves(thread[i], m),
           thread' = [thread EXCEPT ![i] = m], UNCHANGED <<tstatus, own>>,
           last' \in [actor : Consumers, msg : Int]
    PROVE  StepAdvances
<1>1. thread \in Seq(Messages) /\ i \in 1..Len(thread)
  BY DEF TypeOK
<1>2. Advances(thread, thread')
  BY <1>1, ExceptAdvances
<1>3. TypeOK'
  BY <1>2 DEF Advances, TypeOK
<1> QED
  BY <1>2, <1>3 DEF StepAdvances

LEMMA ClosingAdvances ==
    ASSUME TypeOK, NEW c \in Consumers, MayClose(c), NEW U,
           Advances(thread, U), Len(U) = Len(thread),
           thread' = CloseThread(U, c), BumpLastActor(c, Newest), UNCHANGED <<tstatus, own>>
    PROVE  StepAdvances
<1>1. U \in Seq(Messages)
  BY DEF Advances
<1>2. Advances(thread, thread')
  BY <1>1, CloseAdvances, AdvancesTwice DEF TypeOK
<1>3. TypeOK'
  BY <1>2, NewestTypes DEF Advances, TypeOK, BumpLastActor
<1> QED
  BY <1>2, <1>3 DEF StepAdvances

LEMMA PostsAdvance ==
    ASSUME TypeOK, NEW c \in Consumers, NEW approved \in BOOLEAN,
           \/ TakeOver(c) \/ Reopen(c, approved) \/ Resolve(c, approved)
           \/ \E gesture \in {"back", "keep"} : Comment(c, gesture, approved)
           \/ \E k \in Kinds : Propose(c, k, approved)
    PROVE  StepAdvances
<1>1. CASE TakeOver(c)
  BY <1>1, NewestTypes, MessageType, PostingAdvances DEF TakeOver
<1>2. CASE Reopen(c, approved)
  BY <1>2, NewestTypes, MessageType, PostingAdvances DEF Reopen
<1>3. CASE Resolve(c, approved)
  BY <1>3, NewestTypes, MessageType, PostingAdvances DEF Resolve
<1>4. ASSUME NEW gesture \in {"back", "keep"}, Comment(c, gesture, approved)
      PROVE  StepAdvances
  BY <1>4, NewestTypes, MessageType, PostingAdvances DEF Comment
<1>5. ASSUME NEW k \in Kinds, Propose(c, k, approved) PROVE StepAdvances
  <2>1. PendingDecision(k) \in Decisions
    BY ThreadParameters DEF PendingDecision, Decisions
  <2> QED
    BY <1>5, <2>1, NewestTypes, MessageType, PostingAdvances DEF Propose
<1> QED
  BY <1>1, <1>2, <1>3, <1>4, <1>5

LEMMA StepPostAdvances ==
    ASSUME TypeOK, NEW c \in Consumers, NEW approved \in BOOLEAN, Step(c, approved)
    PROVE  StepAdvances
<1> DEFINE l == LatestCommentDecision
           m == Message("comment", c, Verdict(approved), NoDecision, "step")
           withdrawing == l \in DOMAIN thread /\ thread[l].dec.status = "pending" /\ thread[l].by = c
<1>1. m \in Messages /\ m.kind # "closed"
  BY NewestTypes, MessageType
<1>2. own' \in Decisions /\ tstatus' = tstatus /\ BumpLastActor(c, Newest)
  BY DEF Step, TypeOK, Withdrawn, Decisions
<1>3. Advances(thread, thread')
  <2>1. CASE withdrawing
    <3> DEFINE U == [thread EXCEPT ![l].dec = Withdrawn(@, c)]
    <3>1. thread[l] \in Messages /\ thread[l].dec \in Decisions
      BY <2>1, NewestTypes DEF Messages
    <3>2. Withdrawn(thread[l].dec, c) \in Decisions
      BY <3>1 DEF Withdrawn, Decisions
    <3>3. Evolves(thread[l], [thread[l] EXCEPT !.dec = Withdrawn(thread[l].dec, c)])
      BY <2>1, <3>1, <3>2, DecisionEvolves DEF Final
    <3>4. Advances(thread, U) /\ Len(U) = Len(thread)
      <4>1. thread \in Seq(Messages) /\ l \in 1..Len(thread)
        BY <2>1, NewestTypes
      <4>2. U = [thread EXCEPT ![l] = [thread[l] EXCEPT !.dec = Withdrawn(thread[l].dec, c)]]
        BY <4>1
      <4>3. Advances(thread, U)
        BY <3>3, <4>1, <4>2, ExceptAdvances
      <4> QED
        BY <4>1, <4>2, <4>3
    <3>5. Advances(U, Append(U, m))
      BY <1>1, <3>4, AppendAdvances DEF Advances
    <3>6. thread' = Append(U, m)
      BY <2>1 DEF Step
    <3> QED
      BY <3>4, <3>5, <3>6, AdvancesTwice, NewestTypes
  <2>2. CASE ~withdrawing
    <3>1. thread' = Append(thread, m)
      BY <2>2 DEF Step
    <3> QED
      BY <1>1, <3>1, AppendAdvances, NewestTypes
  <2> QED
    BY <2>1, <2>2
<1>4. TypeOK'
  BY <1>2, <1>3, NewestTypes DEF TypeOK, Advances, BumpLastActor
<1> QED
  BY <1>3, <1>4 DEF StepAdvances

LEMMA EditsAdvance ==
    ASSUME TypeOK, NEW i \in DOMAIN thread,
           \/ DeleteComment(i) \/ Untag(i) \/ TagStep(i) \/ UntagStep(i)
           \/ \E verdict \in {"approved", "rejected"} : Moderate(i, verdict)
           \/ \E k \in Kinds : Retag(i, k)
           \/ \E c \in Consumers, k \in Kinds, verdict \in {"accepted", "rejected"} :
                PromoteDecided(c, i, k, verdict)
    PROVE  StepAdvances
<1> DEFINE m == thread[i]
<1>1. /\ m \in Messages /\ m.dec \in Decisions /\ thread \in Seq(Messages)
      /\ m.gesture \in {"back", "keep", "step"} /\ m.tagged \in {"no", "back", "keep"}
  <2>1. m \in Messages /\ thread \in Seq(Messages)
    BY DEF TypeOK
  <2> QED
    BY <2>1 DEF Messages
<1>2. last \in [actor : Consumers, msg : Int]
  BY DEF TypeOK
<1>3. CASE DeleteComment(i)
  BY <1>1, <1>2, <1>3, StatusEvolves, EditingAdvances DEF DeleteComment
<1>4. ASSUME NEW verdict \in {"approved", "rejected"}, Moderate(i, verdict)
      PROVE  StepAdvances
  BY <1>1, <1>2, <1>4, StatusEvolves, EditingAdvances DEF Moderate
<1>5. CASE Untag(i)
  BY <1>1, <1>2, <1>5, NewestTypes, DecisionEvolves, EditingAdvances DEF Untag, Final
<1>6. ASSUME NEW k \in Kinds, Retag(i, k) PROVE StepAdvances
  <2>1. PendingDecision(k) \in Decisions /\ ~Final(m.dec)
    BY <1>6, ThreadParameters DEF PendingDecision, Decisions, Retag, Final, NoDecision
  <2> QED
    BY <1>1, <1>2, <1>6, <2>1, DecisionEvolves, EditingAdvances DEF Retag
<1>7. ASSUME NEW c \in Consumers, NEW k \in Kinds, NEW verdict \in {"accepted", "rejected"},
             PromoteDecided(c, i, k, verdict)
      PROVE  StepAdvances
  <2>1. Decision(k, verdict, c) \in Decisions /\ ~Final(m.dec)
    BY <1>7, ThreadParameters DEF Decision, Decisions, PromoteDecided, Final, NoDecision
  <2> QED
    BY <1>1, <1>2, <1>7, <2>1, DecisionEvolves, EditingAdvances DEF PromoteDecided
<1>8. CASE TagStep(i)
  <2>1. m.gesture \in {"back", "keep"}
    BY <1>1, <1>8 DEF TagStep
  <2>2. thread' = [thread EXCEPT ![i] = [m EXCEPT !.gesture = "step", !.tagged = m.gesture]]
    BY <1>1, <1>8 DEF TagStep
  <2> QED
    BY <1>1, <1>2, <1>8, <2>1, <2>2, GestureEvolves, EditingAdvances DEF TagStep
<1>9. CASE UntagStep(i)
  <2>1. m.tagged \in {"back", "keep"}
    BY <1>1, <1>9 DEF UntagStep
  <2>2. thread' = [thread EXCEPT ![i] = [m EXCEPT !.gesture = m.tagged, !.tagged = "no"]]
    BY <1>1, <1>9 DEF UntagStep
  <2> QED
    BY <1>1, <1>2, <1>9, <2>1, <2>2, GestureEvolves, EditingAdvances DEF UntagStep
<1> QED
  BY <1>3, <1>4, <1>5, <1>6, <1>7, <1>8, <1>9

LEMMA AcceptAdvances ==
    ASSUME TypeOK, NEW i \in DOMAIN thread, NEW c \in Consumers, AcceptAndClose(c, i)
    PROVE  StepAdvances
<1> DEFINE m == [thread[i] EXCEPT !.status = "approved"]
           U == [thread EXCEPT ![i] = m]
<1>1. thread \in Seq(Messages) /\ i \in 1..Len(thread) /\ thread[i] \in Messages
  BY NewestTypes
<1>2. Evolves(thread[i], m)
  BY <1>1, StatusEvolves
<1>3. Advances(thread, U) /\ Len(U) = Len(thread)
  BY <1>1, <1>2, ExceptAdvances
<1>4. [thread EXCEPT ![i].status = "approved"] = U
  BY <1>1
<1>5. CASE MayClose(c)
  BY <1>3, <1>4, <1>5, ClosingAdvances DEF AcceptAndClose
<1>6. CASE ~MayClose(c)
  <2>1. last' \in [actor : Consumers, msg : Int]
    BY <1>6 DEF AcceptAndClose, TypeOK
  <2> QED
    BY <1>2, <1>4, <1>6, <2>1, EditingAdvances DEF AcceptAndClose
<1> QED
  BY <1>5, <1>6

LEMMA DecideAdvances ==
    ASSUME TypeOK, NEW i \in DOMAIN thread, NEW c \in Consumers, NEW k \in Kinds,
           NEW verdict \in {"accepted", "rejected"}, Decide(c, i, k, verdict)
    PROVE  StepAdvances
<1> DEFINE m == [thread[i] EXCEPT !.dec = Applied(thread[i].dec, k, verdict, c)]
           U == [thread EXCEPT ![i] = m]
           closing == verdict = "accepted" /\ k \in Closing /\ MayClose(c)
<1>1. /\ thread \in Seq(Messages) /\ i \in 1..Len(thread)
      /\ thread[i] \in Messages /\ thread[i].dec \in Decisions
  BY NewestTypes DEF Messages
<1>2. Evolves(thread[i], m)
  <2>1. CASE thread[i].dec.status = "pending"
    BY <1>1, <2>1, DecisionTypes, DecisionEvolves DEF Final
  <2>2. CASE thread[i].dec.status # "pending"
    <3>1. m = thread[i]
      BY <1>1, <2>2 DEF Applied, Messages
    <3> QED
      BY <1>1, <3>1, EvolvesItself
  <2> QED
    BY <2>1, <2>2
<1>3. Advances(thread, U) /\ Len(U) = Len(thread)
  <2> HIDE DEF m
  <2> QED
    BY <1>1, <1>2, ExceptAdvances
<1>4. [thread EXCEPT ![i].dec = Applied(@, k, verdict, c)] = U
  BY <1>1
<1>5. CASE closing
  BY <1>3, <1>4, <1>5, ClosingAdvances DEF Decide
<1>6. CASE ~closing
  <2>1. last' \in [actor : Consumers, msg : Int]
    BY <1>6, NewestTypes DEF Decide, BumpLastActor
  <2> QED
    BY <1>2, <1>4, <1>6, <2>1, EditingAdvances DEF Decide
<1> QED
  BY <1>5, <1>6

LEMMA EveryStepAdvances ==
    ASSUME TypeOK, [Next]_vars
    PROVE  StepAdvances
<1> USE DEF StepAdvances
<1>1. ASSUME NEW verdict \in {"approved", "rejected"}, ModerateTicket(verdict)
      PROVE  StepAdvances
  BY <1>1, AdvancesItself DEF ModerateTicket, TypeOK
<1>2. ASSUME NEW c \in Consumers, Close(c) PROVE StepAdvances
  BY <1>2, ClosingAdvances, AdvancesItself, NewestTypes DEF Close
<1>3. ASSUME NEW c \in Consumers, TakeOver(c) PROVE StepAdvances
  <2>1. TRUE \in BOOLEAN
    OBVIOUS
  <2> QED
    BY <1>3, <2>1, PostsAdvance
<1>4. ASSUME NEW c \in Consumers, NEW approved \in BOOLEAN, Step(c, approved)
      PROVE  StepAdvances
  BY <1>4, StepPostAdvances
<1>5. ASSUME NEW c \in Consumers, NEW approved \in BOOLEAN,
             \/ Reopen(c, approved) \/ Resolve(c, approved)
             \/ \E gesture \in {"back", "keep"} : Comment(c, gesture, approved)
             \/ \E k \in Kinds : Propose(c, k, approved)
      PROVE  StepAdvances
  BY <1>5, PostsAdvance
<1>6. ASSUME NEW c \in Consumers, NEW k \in Kinds, NEW verdict \in {"accepted", "rejected"},
             DecideOwn(c, k, verdict)
      PROVE  StepAdvances
  <2>1. own' \in Decisions
    BY <1>6, DecisionTypes DEF DecideOwn, TypeOK
  <2>2. thread' = thread /\ tstatus' = tstatus /\ last' \in [actor : Consumers, msg : Int]
    BY <1>6, NewestTypes DEF DecideOwn, BumpLastActor
  <2> QED
    BY <2>1, <2>2, AdvancesItself DEF TypeOK
<1>7. ASSUME NEW i \in DOMAIN thread,
             \/ DeleteComment(i) \/ Untag(i) \/ TagStep(i) \/ UntagStep(i)
             \/ \E verdict \in {"approved", "rejected"} : Moderate(i, verdict)
             \/ \E k \in Kinds : Retag(i, k)
             \/ \E c \in Consumers, k \in Kinds, verdict \in {"accepted", "rejected"} :
                  PromoteDecided(c, i, k, verdict)
      PROVE  StepAdvances
  BY <1>7, EditsAdvance
<1>8. ASSUME NEW i \in DOMAIN thread, NEW c \in Consumers, AcceptAndClose(c, i)
      PROVE  StepAdvances
  BY <1>8, AcceptAdvances
<1>9. ASSUME NEW i \in DOMAIN thread, NEW c \in Consumers, NEW k \in Kinds,
              NEW verdict \in {"accepted", "rejected"}, Decide(c, i, k, verdict)
       PROVE  StepAdvances
  BY <1>9, DecideAdvances
<1>10. CASE UNCHANGED vars
  BY <1>10, AdvancesItself DEF vars, TypeOK
<1> QED
  BY <1>1, <1>2, <1>3, <1>4, <1>5, <1>6, <1>7, <1>8, <1>9, <1>10 DEF Next

-----------------------------------------------------------------------------
(* Every variable keeps its type: what the tables tickets and messages     *)
(* hold of a thread.                                                       *)
THEOREM TypeCorrect == Spec => []TypeOK
<1>1. Init => TypeOK
  BY ThreadParameters
     DEF Init, TypeOK, NoDecision, PendingDecision, Decisions, Consumers
<1>2. TypeOK /\ [Next]_vars => TypeOK'
  BY EveryStepAdvances DEF StepAdvances
<1> QED
  BY <1>1, <1>2, PTL DEF Spec

(* What the two invariants of a close rest on: a close is approved from    *)
(* the start, and what was asked before it is settled.                     *)
Clean == \A i \in DOMAIN thread : LandsClean(thread, i)

THEOREM ClosesLandClean == Spec => []Clean
<1>1. Init => Clean
  BY DEF Init, Clean
<1>2. TypeOK /\ Clean /\ [Next]_vars => Clean'
  <2> SUFFICES ASSUME TypeOK, Clean, [Next]_vars, NEW i \in DOMAIN thread'
               PROVE  LandsClean(thread', i)
    BY DEF Clean
  <2>1. Advances(thread, thread')
    BY EveryStepAdvances DEF StepAdvances
  <2>2. thread \in Seq(Messages) /\ thread' \in Seq(Messages) /\ i \in 1..Len(thread')
    BY <2>1 DEF TypeOK, Advances
  <2>3. CASE i > Len(thread)
    BY <2>1, <2>2, <2>3 DEF Advances
  <2>4. CASE i <= Len(thread)
    <3>1. i \in DOMAIN thread /\ LandsClean(thread, i)
      BY <2>2, <2>4 DEF Clean
    <3>2. \A j \in 1..i : Evolves(thread[j], thread'[j])
      BY <2>1, <2>2, <2>4 DEF Advances
    <3> QED
      BY <2>2, <3>1, <3>2 DEF LandsClean, Evolves
  <2> QED
    BY <2>2, <2>3, <2>4
<1> QED
  BY <1>1, <1>2, TypeCorrect, PTL DEF Spec

(* Whatever the path that closes it (ticket.close, an accepted resolution  *)
(* or wontfix, accept-and-close), a ticket is closed by its reporter or a  *)
(* human (assertCloseAuthority).                                           *)
THEOREM ClosesAreAuthorized == Spec => []ClosedByAuthority
<1>1. Clean => ClosedByAuthority
  BY DEF Clean, ClosedByAuthority, LandsClean
<1> QED
  BY <1>1, ClosesLandClean, PTL

(* A reopen asked for before a close is never left to be approved after it *)
(* (rejectStaleClosedReopenedForTicket).                                   *)
THEOREM ReopensAreFresh == Spec => []NoStaleReopen
<1>1. TypeOK /\ Clean => NoStaleReopen
  BY DEF TypeOK, Clean, NoStaleReopen, LandsClean
<1> QED
  BY <1>1, TypeCorrect, ClosesLandClean, PTL

(* The two together: a close stands, by whichever path it came.            *)
THEOREM ClosesHold == Spec => []ClosesStand
<1>1. ClosedByAuthority /\ NoStaleReopen => ClosesStand
  BY DEF ClosesStand
<1> QED
  BY <1>1, ClosesAreAuthorized, ReopensAreFresh, PTL

(* A decision settled or withdrawn is written by no later step: decide,    *)
(* promote, reclassify, untag, a step's withdrawal or a close.             *)
THEOREM SettledIsFinal == Spec => SettledDecisionIsFinal
<1> DEFINE Stands ==
        /\ own.status \in {"accepted", "rejected", "withdrawn"} => own' = own
        /\ \A i \in DOMAIN thread :
            thread[i].dec.status \in {"accepted", "rejected", "withdrawn"}
            => i \in DOMAIN thread' /\ thread'[i].dec = thread[i].dec
<1>1. TypeOK /\ [Next]_vars => [Stands]_vars
  <2> SUFFICES ASSUME TypeOK, [Next]_vars PROVE Stands
    OBVIOUS
  <2>1. Advances(thread, thread')
    BY EveryStepAdvances DEF StepAdvances
  <2>2. thread \in Seq(Messages) /\ thread' \in Seq(Messages)
    BY <2>1 DEF TypeOK, Advances
  <2>3. ASSUME own.status \in {"accepted", "rejected", "withdrawn"} PROVE own' = own
    <3>1. \A c \in Consumers, approved \in BOOLEAN : Step(c, approved) => own' = own
      BY <2>3 DEF Step
    <3>2. \A c \in Consumers, k \in Kinds, verdict \in {"accepted", "rejected"} :
            DecideOwn(c, k, verdict) => own' = own
      BY <2>3 DEF DecideOwn, Applied
    <3>3. \A verdict \in {"approved", "rejected"} : ModerateTicket(verdict) => own' = own
      BY DEF ModerateTicket
    <3>4. \A c \in Consumers : Close(c) \/ TakeOver(c) => own' = own
      BY DEF Close, TakeOver
    <3>5. \A c \in Consumers, approved \in BOOLEAN :
            \/ Reopen(c, approved) \/ Resolve(c, approved)
            \/ \E gesture \in {"back", "keep"} : Comment(c, gesture, approved)
            \/ \E k \in Kinds : Propose(c, k, approved)
            => own' = own
      BY DEF Reopen, Resolve, Comment, Propose
    <3>6. \A i \in DOMAIN thread :
            \/ DeleteComment(i) \/ Untag(i) \/ TagStep(i) \/ UntagStep(i)
            \/ \E verdict \in {"approved", "rejected"} : Moderate(i, verdict)
            \/ \E k \in Kinds : Retag(i, k)
            => own' = own
      BY DEF DeleteComment, Untag, TagStep, UntagStep, Moderate, Retag
    <3>7. \A i \in DOMAIN thread, c \in Consumers :
            \/ AcceptAndClose(c, i)
            \/ \E k \in Kinds, verdict \in {"accepted", "rejected"} :
                Decide(c, i, k, verdict) \/ PromoteDecided(c, i, k, verdict)
            => own' = own
      <4>1. ASSUME NEW i, NEW c, AcceptAndClose(c, i) PROVE own' = own
        BY <4>1 DEF AcceptAndClose
      <4>2. ASSUME NEW i, NEW c, NEW k, NEW verdict, Decide(c, i, k, verdict) PROVE own' = own
        BY <4>2 DEF Decide
      <4>3. ASSUME NEW i, NEW c, NEW k, NEW verdict, PromoteDecided(c, i, k, verdict)
            PROVE  own' = own
        BY <4>3 DEF PromoteDecided
      <4> QED
        BY <4>1, <4>2, <4>3
    <3>8. UNCHANGED vars => own' = own
      BY DEF vars
    <3> QED
      BY <3>1, <3>2, <3>3, <3>4, <3>5, <3>6, <3>7, <3>8 DEF Next
  <2> QED
    BY <2>1, <2>2, <2>3 DEF Advances, Evolves, Final
<1> QED
  BY <1>1, TypeCorrect, PTL DEF Spec, SettledDecisionIsFinal

-----------------------------------------------------------------------------
(* The gate.  Closed(n) says in one sentence what the first n messages     *)
(* make of it; the replay computes it, message by message.                 *)

Signals(n) == {i \in 1..n : IsSignal(thread[i])}
Signal(n) == IF Latest(Signals(n)) = 0 THEN FiledGate ELSE SignalOf(thread[Latest(Signals(n))])
AnswersTo(g, m) == m.kind = "comment" /\ m.status = "approved" /\ m.by \in Humans \ {g.proposer}
Answered(n) == \E j \in (Latest(Signals(n)) + 1)..n : AnswersTo(Signal(n), thread[j])
Closed(n) == IF Signal(n).proposer # NoOne /\ Answered(n) THEN OpenGate ELSE Signal(n)

\* A set of naturals has a least element.
LEMMA LeastOf == ASSUME NEW T \in SUBSET Nat, T # {} PROVE \E x \in T : \A y \in T : x <= y
<1> DEFINE below == OpToRel(<, Nat)
<1>1. PICK x \in T : \A y \in T : ~(<<y, x>> \in below)
  BY NatLessThanWellFounded, WFMin
<1>2. ASSUME NEW y \in T, y < x PROVE <<y, x>> \in below
  <2>1. <<y, x>> \in Nat \X Nat
    OBVIOUS
  <2>2. <<y, x>>[1] < <<y, x>>[2]
    BY <1>2
  <2> QED
    BY <2>1, <2>2 DEF OpToRel
<1> HIDE DEF below
<1>3. \A y \in T : y \in Nat /\ x \in Nat /\ ~(y < x)
  BY <1>1, <1>2
<1>4. \A y \in T : x <= y
  BY <1>3
<1> QED
  BY <1>4

\* Latest is the greatest element of a set of positions.
LEMMA LatestIsGreatest ==
    ASSUME NEW n \in Nat, NEW S \in SUBSET (1..n)
    PROVE  /\ S = {} => Latest(S) = 0
           /\ S # {} => Latest(S) \in S /\ \A j \in S : j <= Latest(S)
           /\ Latest(S) \in 0..n
<1>1. CASE S # {}
  <2> DEFINE T == {n - i : i \in S}
  <2>1. T \in SUBSET Nat /\ T # {}
    <3>1. \A i \in S : i \in 1..n
      OBVIOUS
    <3>2. \A i \in S : n - i \in Nat
      BY <3>1
    <3> QED
      BY <1>1, <3>2
  <2>2. PICK x \in T : \A y \in T : x <= y
    BY <2>1, LeastOf
  <2>3. PICK i \in S : x = n - i
    BY <2>2
  <2>4. ASSUME NEW j \in S PROVE j <= i
    <3>1. n - j \in T /\ j \in 1..n /\ i \in 1..n
      OBVIOUS
    <3>2. n - i <= n - j
      BY <2>2, <2>3, <3>1
    <3> QED
      BY <3>1, <3>2
  <2> HIDE DEF T
  <2>5. \E k \in S : \A j \in S : j <= k
    BY <2>4
  <2>6. Latest(S) \in S /\ \A j \in S : j <= Latest(S)
    BY <1>1, <2>5 DEF Latest
  <2>7. Latest(S) \in 0..n
    <3>1. Latest(S) \in 1..n
      BY <2>6
    <3> QED
      BY <3>1
  <2> QED
    BY <1>1, <2>6, <2>7
<1> QED
  BY <1>1 DEF Latest

\* The greatest element, once one is known, is Latest.
LEMMA LatestIs ==
    ASSUME NEW n \in Nat, NEW S \in SUBSET (1..n), NEW i \in S, \A j \in S : j <= i
    PROVE  Latest(S) = i
<1>1. Latest(S) \in S /\ i <= Latest(S)
  BY LatestIsGreatest
<1>2. Latest(S) <= i /\ Latest(S) \in 1..n /\ i \in 1..n
  BY <1>1
<1> QED
  BY <1>1, <1>2

\* What one more message makes of the sentence is what the replay does with it.
LEMMA ClosedIsReplayed ==
    /\ Closed(0) = FiledGate
    /\ \A n \in Nat \ {0} : Closed(n) = ReplayGate(Closed(n - 1), thread[n])
<1>1. Closed(0) = FiledGate
  <2>1. Signals(0) = {}
    BY DEF Signals
  <2>2. Latest(Signals(0)) = 0 /\ Signal(0) = FiledGate
    BY <2>1 DEF Latest, Signal
  <2>3. ~Answered(0)
    BY <2>2 DEF Answered
  <2> QED
    BY <2>2, <2>3 DEF Closed
<1>2. ASSUME NEW n \in Nat \ {0} PROVE Closed(n) = ReplayGate(Closed(n - 1), thread[n])
  <2> DEFINE m == thread[n]
             before == Latest(Signals(n - 1))
  <2>1. Signals(n) \in SUBSET (1..n) /\ Signals(n - 1) \in SUBSET (1..(n - 1)) /\ n - 1 \in Nat
    BY DEF Signals
  <2>2. CASE IsSignal(m)
    <3>1. n \in Signals(n) /\ \A j \in Signals(n) : j <= n
      BY <2>2 DEF Signals
    <3>2. Latest(Signals(n)) = n
      BY <2>1, <3>1, LatestIs
    <3>3. Signal(n) = SignalOf(m) /\ ~Answered(n)
      BY <3>2 DEF Signal, Answered
    <3>4. Closed(n) = SignalOf(m)
      BY <3>3 DEF Closed
    <3>5. SignalOf(m) = ReplayGate(Closed(n - 1), m)
      BY <2>2 DEF SignalOf, ReplayGate, IsSignal
    <3> QED
      BY <3>4, <3>5
  <2>3. CASE ~IsSignal(m)
    <3>1. Signals(n) = Signals(n - 1)
      BY <2>3 DEF Signals
    <3>2. before \in 0..(n - 1)
      BY <2>1, LatestIsGreatest
    <3>3. Signal(n) = Signal(n - 1)
      BY <3>1 DEF Signal
    <3>4. Answered(n) <=> Answered(n - 1) \/ AnswersTo(Signal(n - 1), m)
      <4>1. (before + 1)..n = ((before + 1)..(n - 1)) \cup {n}
        BY <3>2
      <4> QED
        BY <3>1, <3>3, <4>1 DEF Answered
    <3> DEFINE g == Signal(n - 1)
    <3>5. ReplayGate(Closed(n - 1), m) =
            IF m.kind = "comment" /\ m.status = "approved" /\ Answers(m, Closed(n - 1))
            THEN OpenGate ELSE Closed(n - 1)
      BY <2>3 DEF ReplayGate, IsSignal
    <3> HIDE DEF m, g
    <3>6. Closed(n - 1) = IF g.proposer # NoOne /\ Answered(n - 1) THEN OpenGate ELSE g
      BY DEF Closed, g
    <3>7. Closed(n) = IF g.proposer # NoOne /\ (Answered(n - 1) \/ AnswersTo(g, m)) THEN OpenGate ELSE g
      BY <3>3, <3>4 DEF Closed, g
    <3>8. OpenGate.proposer = NoOne
      BY DEF OpenGate
    <3>9. CASE g.proposer # NoOne /\ Answered(n - 1)
      BY <3>5, <3>6, <3>7, <3>8, <3>9 DEF Answers, m
    <3>10. CASE ~(g.proposer # NoOne /\ Answered(n - 1))
      BY <3>5, <3>6, <3>7, <3>10 DEF Answers, AnswersTo, m
    <3> QED
      BY <3>9, <3>10
  <2> QED
    BY <2>2, <2>3
<1> QED
  BY <1>1, <1>2

\* The replay is the sentence: by its recursion, and the least number where they would differ.
LEMMA ReplayIsClosed == \A n \in Nat : Replay[n] = Closed(n)
<1> DEFINE closed == [n \in Nat |-> Closed(n)]
<1>1. closed = [n \in Nat |-> IF n = 0 THEN FiledGate ELSE ReplayGate(closed[n - 1], thread[n])]
  <2>1. ASSUME NEW n \in Nat
        PROVE  Closed(n) = IF n = 0 THEN FiledGate ELSE ReplayGate(closed[n - 1], thread[n])
    BY ClosedIsReplayed
  <2> QED
    BY <2>1
<1> HIDE DEF closed
<1>2. Replay = [n \in Nat |-> IF n = 0 THEN FiledGate ELSE ReplayGate(Replay[n - 1], thread[n])]
  BY <1>1 DEF Replay
<1>3. /\ Replay[0] = FiledGate
      /\ \A n \in Nat \ {0} : Replay[n] = ReplayGate(Replay[n - 1], thread[n])
  BY <1>2
<1> DEFINE differ == {n \in Nat : Replay[n] # Closed(n)}
<1>4. ASSUME differ # {} PROVE FALSE
  <2>1. PICK n \in differ : \A k \in differ : n <= k
    BY <1>4, LeastOf
  <2>2. n \in Nat /\ n # 0
    BY <1>3, ClosedIsReplayed
  <2>3. n - 1 \in Nat /\ n - 1 \notin differ
    BY <2>1, <2>2
  <2>4. Replay[n - 1] = Closed(n - 1)
    BY <2>3
  <2> QED
    BY <1>3, <2>2, <2>4, ClosedIsReplayed
<1> QED
  BY <1>4

LEMMA GateIsClosed ==
    ASSUME thread \in Seq(Messages)
    PROVE  /\ Gate = Closed(Len(thread)) /\ DOMAIN thread = 1..Len(thread) /\ Len(thread) \in Nat
           /\ {i \in DOMAIN thread : IsSignal(thread[i])} = Signals(Len(thread))
<1>1. Len(thread) \in Nat /\ DOMAIN thread = 1..Len(thread)
  OBVIOUS
<1> QED
  BY <1>1, ReplayIsClosed DEF Gate, Signals

LEMMA GateReads == TypeOK => GateIsLatestSignal
<1> SUFFICES ASSUME TypeOK PROVE GateIsLatestSignal
  OBVIOUS
<1>1. thread \in Seq(Messages)
  BY DEF TypeOK
<1> QED
  BY <1>1, GateIsClosed DEF GateIsLatestSignal, Closed, Answered, AnswersTo, Signal

(* The decision gate of a ticket, replayed event by event, is its latest   *)
(* signal, whatever thread the program writes (replayDecisionGate).        *)
THEOREM GateIsRight == Spec => []GateIsLatestSignal
  BY GateReads, TypeCorrect, PTL

\* A gate that names a proposer is its pending proposal: the ticket's own, the thread being
\* without a signal, or the latest signal's, and nobody else's word came after it.
Holding ==
    \/ /\ \A i \in DOMAIN thread : ~IsSignal(thread[i])
       /\ own.status = "pending" /\ Gate.proposer = Reporter
       /\ \A j \in DOMAIN thread : ~AnswersTo(Gate, thread[j])
    \/ \E s \in DOMAIN thread :
         /\ Decided(s) /\ thread[s].dec.status = "pending"
         /\ \A i \in DOMAIN thread : IsSignal(thread[i]) => i <= s
         /\ Gate.proposer = thread[s].by
         /\ \A j \in DOMAIN thread : j > s => ~AnswersTo(Gate, thread[j])

LEMMA ProposerHolds == TypeOK /\ Gate.proposer # NoOne => Holding
<1> SUFFICES ASSUME TypeOK, Gate.proposer # NoOne PROVE Holding
  OBVIOUS
<1> DEFINE n == Len(thread)
           s == Latest(Signals(n))
<1>1. thread \in Seq(Messages) /\ Gate = Closed(n) /\ n \in Nat /\ DOMAIN thread = 1..n
  BY GateIsClosed DEF TypeOK
<1>2. Signals(n) \in SUBSET (1..n)
  BY DEF Signals
<1>3. Gate = Signal(n) /\ ~Answered(n)
  BY <1>1 DEF Closed, OpenGate
<1>4. CASE Signals(n) = {}
  <2>1. Gate = FiledGate
    BY <1>2, <1>3, <1>4, LatestIsGreatest, <1>1 DEF Signal
  <2>2. \A i \in DOMAIN thread : ~IsSignal(thread[i])
    BY <1>1, <1>4 DEF Signals
  <2>3. \A j \in DOMAIN thread : ~AnswersTo(Gate, thread[j])
    <3>1. Latest(Signals(n)) = 0
      BY <1>4 DEF Latest
    <3> QED
      BY <1>1, <1>3, <3>1 DEF Answered
  <2> QED
    BY <2>1, <2>2, <2>3 DEF FiledGate, DecisionSignal, OpenGate, HeldGate, Holding
<1>5. CASE Signals(n) # {}
  <2>1. s \in Signals(n) /\ \A j \in Signals(n) : j <= s
    BY <1>1, <1>2, <1>5, LatestIsGreatest
  <2>2. s \in DOMAIN thread /\ IsSignal(thread[s]) /\ s # 0
    BY <1>1, <2>1 DEF Signals
  <2>3. Gate = SignalOf(thread[s])
    BY <1>3, <2>2 DEF Signal
  <2>4. Decided(s) /\ thread[s].dec.status = "pending" /\ Gate.proposer = thread[s].by
    <3>1. OpenGate.proposer = NoOne /\ HeldGate.proposer = NoOne
      BY DEF OpenGate, HeldGate
    <3>2. thread[s].kind \notin {"reopened", "resolved"}
      BY <2>3, <3>1 DEF SignalOf
    <3>3. /\ thread[s].kind = "comment" /\ thread[s].status = "approved"
          /\ thread[s].dec # NoDecision
      BY <2>2, <3>2 DEF IsSignal
    <3>4. Gate = DecisionSignal(thread[s].dec, thread[s].by)
      BY <2>3, <3>3 DEF SignalOf
    <3> QED
      BY <3>1, <3>3, <3>4 DEF DecisionSignal, Decided
  <2>5. \A i \in DOMAIN thread : IsSignal(thread[i]) => i <= s
    BY <1>1, <2>1 DEF Signals
  <2>6. \A j \in DOMAIN thread : j > s => ~AnswersTo(Gate, thread[j])
    BY <1>1, <1>3, <2>2 DEF Answered
  <2> QED
    BY <2>2, <2>4, <2>5, <2>6 DEF Holding
<1> QED
  BY <1>4, <1>5

\* The two aggregations over decided comments, of a thread without or with a latest signal.
LEMMA LatestDecisionIs ==
    ASSUME TypeOK
    PROVE  /\ (\A i \in DOMAIN thread : ~IsSignal(thread[i]))
                => LatestDecision = 0 /\ LatestCommentDecision = 0
           /\ \A s \in DOMAIN thread :
                Decided(s) /\ (\A i \in DOMAIN thread : IsSignal(thread[i]) => i <= s)
                => LatestDecision = s /\ LatestCommentDecision = s
<1> DEFINE n == Len(thread)
           counted == {i \in DOMAIN thread :
                        Decided(i) \/ (thread[i].kind = "resolved" /\ thread[i].status = "pending")}
           decided == {i \in DOMAIN thread : Decided(i)}
<1>1. n \in Nat /\ DOMAIN thread = 1..n
  BY DEF TypeOK
<1>2. counted \in SUBSET Signals(n) /\ decided \in SUBSET counted
  BY <1>1 DEF Signals, IsSignal, Decided
<1>3. LatestDecision = Latest(counted) /\ LatestCommentDecision = Latest(decided)
  BY DEF LatestDecision, LatestCommentDecision
<1>4. ASSUME \A i \in DOMAIN thread : ~IsSignal(thread[i])
      PROVE  LatestDecision = 0 /\ LatestCommentDecision = 0
  <2>1. counted = {} /\ decided = {}
    BY <1>1, <1>2, <1>4 DEF Signals
  <2> QED
    BY <1>3, <2>1 DEF Latest
<1>5. ASSUME NEW s \in DOMAIN thread, Decided(s),
             \A i \in DOMAIN thread : IsSignal(thread[i]) => i <= s
      PROVE  LatestDecision = s /\ LatestCommentDecision = s
  <2>1. counted \in SUBSET (1..n) /\ decided \in SUBSET (1..n)
    BY <1>1
  <2>2. s \in counted /\ s \in decided
    BY <1>5
  <2>3. \A j \in counted : j <= s
    BY <1>1, <1>2, <1>5 DEF Signals
  <2>4. \A j \in decided : j <= s
    BY <1>2, <2>3
  <2> HIDE DEF counted, decided
  <2>5. Latest(counted) = s
    BY <1>1, <2>1, <2>2, <2>3, LatestIs
  <2>6. Latest(decided) = s
    BY <1>1, <2>1, <2>2, <2>4, LatestIs
  <2> QED
    BY <1>3, <2>5, <2>6
<1> QED
  BY <1>4, <1>5

(* A proposal that holds an approved ticket is the one message.decide      *)
(* settles: the gate's replay and the inbox's aggregation, computed apart, *)
(* never differ on it (replayDecisionGate, aggregateTicketStatuses).       *)
THEOREM HeldIsDecidable == Spec => []PendingHoldIsDecidable
<1>1. TypeOK => PendingHoldIsDecidable
  <2> SUFFICES ASSUME TypeOK, Gate.proposer # NoOne
               PROVE  \/ LatestDecision = 0 /\ own.status = "pending"
                      \/ \E i \in DOMAIN thread :
                            i = LatestDecision /\ thread[i].dec.status = "pending"
    BY DEF PendingHoldIsDecidable
  <2> QED
    BY ProposerHolds, LatestDecisionIs DEF Holding
<1> QED
  BY <1>1, TypeCorrect, PTL

-----------------------------------------------------------------------------
(* What a posted comment does to whose turn it is.                         *)


\* The message at the end of a thread something was appended to.
LEMMA LastOfAppend ==
    ASSUME NEW U \in Seq(Messages), NEW m
    PROVE  Len(Append(U, m)) = Len(U) + 1 /\ Append(U, m)[Len(U) + 1] = m
OBVIOUS

\* Of all steps, only a Step and a plain Comment add a comment that asks for nothing.
LEMMA WhoPosts ==
    ASSUME TypeOK, [Next]_vars, NEW c \in Consumers, NEW gesture \in {"back", "step"}, Posted(c, gesture)
    PROVE  \E approved \in BOOLEAN :
              \/ gesture = "step" /\ Step(c, approved)
              \/ gesture = "back" /\ Comment(c, "back", approved)
<1> DEFINE Said == \E approved \in BOOLEAN :
                      \/ gesture = "step" /\ Step(c, approved)
                      \/ gesture = "back" /\ Comment(c, "back", approved)
           Last == thread'[Len(thread')]
<1> SUFFICES Said
  OBVIOUS
<1>1. thread \in Seq(Messages) /\ Len(thread) \in Nat
  BY DEF TypeOK
<1>2. /\ Len(thread') = Len(thread) + 1 /\ Last.kind = "comment" /\ Last.by = c
      /\ Last.gesture = gesture /\ Last.dec = NoDecision
  BY DEF Posted
<1>3. ASSUME NEW U \in Seq(Messages), NEW m, thread' = Append(U, m) PROVE Last = m
  BY <1>3, LastOfAppend
<1>4. ASSUME NEW U \in Seq(Messages), NEW d \in Consumers, MayClose(d), thread' = CloseThread(U, d)
      PROVE  FALSE
  BY <1>2, <1>4, CloseAdvances
<1>5. ASSUME NEW d \in Consumers, NEW approved \in BOOLEAN, Step(d, approved) PROVE Said
  <2> DEFINE m == Message("comment", d, Verdict(approved), NoDecision, "step")
             l == LatestCommentDecision
             U == [thread EXCEPT ![l].dec = Withdrawn(@, d)]
  <2>1. thread' = Append(thread, m) \/ (l \in DOMAIN thread /\ thread' = Append(U, m))
    BY <1>5 DEF Step
  <2>2. l \in DOMAIN thread => U \in Seq(Messages)
    <3> SUFFICES ASSUME l \in DOMAIN thread PROVE U \in Seq(Messages)
      OBVIOUS
    <3>1. thread[l] \in Messages /\ thread[l].dec \in Decisions
      BY <1>1, NewestTypes DEF Messages
    <3>2. [thread[l] EXCEPT !.dec = Withdrawn(@, d)] \in Messages
      BY <3>1, DecisionTypes DEF Messages, Withdrawn, Decisions
    <3> HIDE DEF l
    <3> QED
      BY <1>1, <3>2
  <2> HIDE DEF U, m, l
  <2>3. Last = m
    BY <1>1, <1>3, <2>1, <2>2
  <2>4. d = c /\ gesture = "step"
    BY <1>2, <2>3 DEF m, Message
  <2> QED
    BY <1>5, <2>4
<1>6. ASSUME NEW d \in Consumers, NEW approved \in BOOLEAN, NEW g \in {"back", "keep"},
             Comment(d, g, approved)
      PROVE  Said
  <2> DEFINE m == Message("comment", d, Verdict(approved), NoDecision, g)
  <2>1. thread' = Append(thread, m)
    BY <1>6 DEF Comment
  <2> HIDE DEF m
  <2>2. Last = m
    BY <1>1, <1>3, <2>1
  <2>3. d = c /\ gesture = g
    BY <1>2, <2>2 DEF m, Message
  <2>4. g = "back" /\ gesture = "back"
    BY <2>3
  <2> QED
    BY <1>6, <2>3, <2>4
<1>7. ASSUME NEW d \in Consumers, NEW approved \in BOOLEAN, NEW k \in Kinds, Propose(d, k, approved)
      PROVE  FALSE
  <2> DEFINE m == Message("comment", d, Verdict(approved), PendingDecision(k), "back")
  <2>1. thread' = Append(thread, m)
    BY <1>7 DEF Propose
  <2> HIDE DEF m
  <2>2. Last = m
    BY <1>1, <1>3, <2>1
  <2> QED
    BY <1>2, <2>2 DEF m, Message, PendingDecision, NoDecision
<1>8. ASSUME NEW d \in Consumers, NEW approved \in BOOLEAN,
             Reopen(d, approved) \/ Resolve(d, approved) \/ TakeOver(d)
      PROVE  FALSE
  <2>1. \E kind \in {"reopened", "resolved", "taken_over"}, status \in {"approved", "pending"} :
            thread' = Append(thread, Message(kind, d, status, NoDecision, "back"))
    BY <1>8 DEF Reopen, Resolve, TakeOver, Verdict
  <2>2. PICK kind \in {"reopened", "resolved", "taken_over"}, status \in {"approved", "pending"} :
            thread' = Append(thread, Message(kind, d, status, NoDecision, "back"))
    BY <2>1
  <2>3. Last = Message(kind, d, status, NoDecision, "back")
    BY <1>1, <1>3, <2>2
  <2> QED
    BY <1>2, <2>3 DEF Message
<1>9. ASSUME NEW d \in Consumers, Close(d) PROVE FALSE
  BY <1>1, <1>4, <1>9 DEF Close
<1>10. ASSUME NEW i \in DOMAIN thread, NEW d \in Consumers, AcceptAndClose(d, i) PROVE FALSE
  <2> DEFINE U == [thread EXCEPT ![i].status = "approved"]
  <2>1. U \in Seq(Messages) /\ Len(U) = Len(thread)
    <3>1. thread[i] \in Messages
      BY <1>1
    <3>2. [thread[i] EXCEPT !.status = "approved"] \in Messages
      BY <3>1 DEF Messages
    <3> QED
      BY <1>1, <3>2
  <2>2. (MayClose(d) /\ thread' = CloseThread(U, d)) \/ thread' = U
    BY <1>10 DEF AcceptAndClose
  <2> HIDE DEF U
  <2> QED
    BY <1>1, <1>2, <1>4, <2>1, <2>2
<1>11. ASSUME NEW i \in DOMAIN thread, NEW d \in Consumers, NEW k \in Kinds,
              NEW verdict \in {"accepted", "rejected"}, Decide(d, i, k, verdict)
       PROVE  FALSE
  <2> DEFINE U == [thread EXCEPT ![i].dec = Applied(@, k, verdict, d)]
  <2>1. U \in Seq(Messages) /\ Len(U) = Len(thread)
    <3>1. thread[i] \in Messages /\ thread[i].dec \in Decisions
      BY <1>1, NewestTypes DEF Messages
    <3>2. [thread[i] EXCEPT !.dec = Applied(@, k, verdict, d)] \in Messages
      BY <3>1, DecisionTypes DEF Messages
    <3> QED
      BY <1>1, <3>2
  <2>2. (MayClose(d) /\ thread' = CloseThread(U, d)) \/ thread' = U
    BY <1>11 DEF Decide
  <2> HIDE DEF U
  <2> QED
    BY <1>1, <1>2, <1>4, <2>1, <2>2
<1>12. ASSUME NEW i \in DOMAIN thread,
              \/ DeleteComment(i) \/ Untag(i) \/ TagStep(i) \/ UntagStep(i)
              \/ \E verdict \in {"approved", "rejected"} : Moderate(i, verdict)
              \/ \E k \in Kinds : Retag(i, k)
              \/ \E d \in Consumers, k \in Kinds, verdict \in {"accepted", "rejected"} :
                   PromoteDecided(d, i, k, verdict)
       PROVE  FALSE
  <2>1. \E m : thread' = [thread EXCEPT ![i] = m]
    BY <1>12 DEF DeleteComment, Untag, TagStep, UntagStep, Moderate, Retag, PromoteDecided
  <2> QED
    BY <1>1, <1>2, <2>1
<1>13. ASSUME thread' = thread PROVE FALSE
  BY <1>1, <1>2, <1>13
<1> QED
  BY <1>5, <1>6, <1>7, <1>8, <1>9, <1>10, <1>11, <1>12, <1>13
     DEF Next, vars, ModerateTicket, DecideOwn

\* What a step makes of the thread.
LEMMA StepThread ==
    ASSUME TypeOK, NEW c \in Consumers, NEW approved \in BOOLEAN, Step(c, approved)
    PROVE  /\ Len(thread') = Len(thread) + 1
           /\ thread'[Len(thread')] = Message("comment", c, Verdict(approved), NoDecision, "step")
           /\ \A i \in DOMAIN thread :
                /\ thread'[i].kind = thread[i].kind /\ thread'[i].status = thread[i].status
                /\ thread'[i].by = thread[i].by
                /\ thread'[i].dec =
                     IF i = LatestCommentDecision /\ thread[i].dec.status = "pending" /\ thread[i].by = c
                     THEN Withdrawn(thread[i].dec, c) ELSE thread[i].dec
<1> DEFINE m == Message("comment", c, Verdict(approved), NoDecision, "step")
           l == LatestCommentDecision
           withdrawing == l \in DOMAIN thread /\ thread[l].dec.status = "pending" /\ thread[l].by = c
           w == [thread[l] EXCEPT !.dec = Withdrawn(thread[l].dec, c)]
           U == IF withdrawing THEN [thread EXCEPT ![l] = w] ELSE thread
<1>1. thread \in Seq(Messages) /\ DOMAIN thread = 1..Len(thread) /\ Len(thread) \in Nat
  BY DEF TypeOK
<1>2. withdrawing => w \in Messages
  <2> SUFFICES ASSUME withdrawing PROVE w \in Messages
    OBVIOUS
  <2>1. thread[l] \in Messages /\ thread[l].dec \in Decisions
    BY <1>1, NewestTypes DEF Messages
  <2>2. Withdrawn(thread[l].dec, c) \in Decisions
    BY <2>1 DEF Withdrawn, Decisions
  <2> QED
    BY <2>1, <2>2 DEF Messages
<1>3. thread' = Append(U, m)
  <2>1. withdrawing => [thread EXCEPT ![l].dec = Withdrawn(@, c)] = [thread EXCEPT ![l] = w]
    BY <1>1
  <2> QED
    BY <2>1 DEF Step
<1>4. \A i \in DOMAIN thread : U[i] = IF i = l /\ withdrawing THEN w ELSE thread[i]
  BY <1>1
<1>5. U \in Seq(Messages) /\ Len(U) = Len(thread)
  BY <1>1, <1>2
<1>6. withdrawing => /\ w.kind = thread[l].kind /\ w.status = thread[l].status
                     /\ w.by = thread[l].by /\ w.dec = Withdrawn(thread[l].dec, c)
  <2>1. withdrawing => thread[l] \in Messages
    BY <1>1
  <2> QED
    BY <2>1 DEF Messages
<1> HIDE DEF U, w, m
<1>7. Len(thread') = Len(thread) + 1 /\ thread'[Len(thread')] = m
  BY <1>3, <1>5, LastOfAppend
<1>8. \A i \in DOMAIN thread : thread'[i] = U[i]
  BY <1>1, <1>3, <1>5
<1> QED
  BY <1>4, <1>6, <1>7, <1>8 DEF m

(* A step never leaves its author waiting: it is not excluded as the last  *)
(* actor, and no proposal of its own holds the ticket (the withdrawal that *)
(* message.post makes with a step).                                        *)
THEOREM StepKeeps == Spec => StepKeepsTheHand
<1> DEFINE Keeps == \A c \in Consumers :
                      Posted(c, "step") => ~IsExcludedForConsumer(c)' /\ Gate'.proposer # c
<1>1. (TypeOK /\ Gate.proposer # NoOne => Holding)'
  BY ProposerHolds, PTL
<1>2. TypeOK /\ TypeOK' /\ [Next]_vars => [Keeps]_vars
  <2> SUFFICES ASSUME TypeOK, TypeOK', [Next]_vars, NEW c \in Consumers, Posted(c, "step")
               PROVE  ~IsExcludedForConsumer(c)' /\ Gate'.proposer # c
    OBVIOUS
  <2>1. PICK approved \in BOOLEAN : Step(c, approved)
    BY WhoPosts
  <2> DEFINE m == Message("comment", c, Verdict(approved), NoDecision, "step")
             l == LatestCommentDecision
             withdrawn(i) == i = l /\ thread[i].dec.status = "pending" /\ thread[i].by = c
  <2>2. /\ thread \in Seq(Messages) /\ thread' \in Seq(Messages) /\ Len(thread) \in Nat
        /\ DOMAIN thread = 1..Len(thread) /\ DOMAIN thread' = 1..(Len(thread) + 1)
        /\ thread'[Len(thread) + 1] = m
    BY <2>1, StepThread DEF TypeOK
  <2>3. \A i \in DOMAIN thread :
          /\ thread'[i].kind = thread[i].kind /\ thread'[i].status = thread[i].status
          /\ thread'[i].by = thread[i].by
          /\ thread'[i].dec = IF withdrawn(i) THEN Withdrawn(thread[i].dec, c) ELSE thread[i].dec
    BY <2>1, StepThread
  <2>4. ~IsExcludedForConsumer(c)'
    <3>1. last'.msg = Len(thread) + 1
      BY <2>1 DEF Step, BumpLastActor, Newest
    <3>2. last'.msg \in DOMAIN thread' /\ thread'[last'.msg].by = c /\ thread'[last'.msg].gesture = "step"
      BY <2>2, <3>1 DEF Message
    <3> QED
      BY <3>2 DEF IsExcludedForConsumer, KeepsAuthor
  <2>5. \A i \in DOMAIN thread : IsSignal(thread[i]) => IsSignal(thread'[i])
    <3>1. ASSUME NEW i \in DOMAIN thread, withdrawn(i) PROVE thread'[i].dec # NoDecision
      <4>1. thread[i] \in Messages /\ thread[i].dec \in Decisions
        BY <2>2, NewestTypes DEF Messages
      <4>2. thread'[i].dec = Withdrawn(thread[i].dec, c)
        BY <2>3, <3>1
      <4>3. Withdrawn(thread[i].dec, c).status = "withdrawn"
        BY <4>1 DEF Withdrawn, Decisions
      <4> QED
        BY <4>2, <4>3 DEF NoDecision
    <3> QED
      BY <2>3, <3>1 DEF IsSignal
  <2>6. ASSUME Gate'.proposer = c PROVE FALSE
    <3>1. Holding'
      BY <1>1, <2>6, ConsumersAreDistinct
    <3>2. CASE (\A i \in DOMAIN thread : ~IsSignal(thread[i]))' /\ own'.status = "pending" /\ Reporter = c
      <4>1. \A i \in DOMAIN thread : ~IsSignal(thread[i])
        BY <2>2, <2>5, <3>2
      <4>2. l = 0
        BY <4>1, LatestDecisionIs
      <4>3. own \in Decisions
        BY DEF TypeOK
      <4> QED
        BY <2>1, <3>2, <4>2, <4>3 DEF Step, Withdrawn, Decisions
    <3>3. ASSUME NEW s \in DOMAIN thread', Decided(s)', thread'[s].dec.status = "pending",
                 (\A i \in DOMAIN thread : IsSignal(thread[i]) => i <= s)',
                 thread'[s].by = c
          PROVE  FALSE
      <4>1. s \in DOMAIN thread
        BY <2>2, <3>3 DEF Message, NoDecision
      <4>2. thread[s] \in Messages /\ thread[s].dec \in Decisions
        BY <2>2, <4>1, NewestTypes DEF Messages
      <4>3. ~withdrawn(s) /\ thread[s].dec = thread'[s].dec
        BY <2>3, <3>3, <4>1, <4>2 DEF Withdrawn, Decisions
      <4>4. Decided(s)
        BY <2>3, <3>3, <4>1, <4>3 DEF Decided
      <4>5. \A i \in DOMAIN thread : IsSignal(thread[i]) => i <= s
        BY <2>2, <2>5, <3>3
      <4>6. l = s
        BY <4>1, <4>4, <4>5, LatestDecisionIs
      <4> QED
        BY <2>3, <3>3, <4>1, <4>3, <4>6
    <3> QED
      BY <2>6, <3>1, <3>2, <3>3 DEF Holding
  <2> QED
    BY <2>4, <2>6
<1> QED
  BY <1>2, TypeCorrect, PTL DEF Spec, StepKeepsTheHand

(* A human's plain comment gives the ticket back: no agent stays excluded  *)
(* as the last actor, and no agent's proposal holds it.                    *)
THEOREM HumanWordReturns == Spec => HumanWordReturnsTheTicket
<1> DEFINE Returns == \A h \in Humans, a \in Agents :
                        Posted(h, "back") => ~IsExcludedForConsumer(a)' /\ Gate'.proposer # a
<1>1. (TypeOK /\ Gate.proposer # NoOne => Holding)'
  BY ProposerHolds, PTL
<1>2. TypeOK /\ TypeOK' /\ [Next]_vars => [Returns]_vars
  <2> SUFFICES ASSUME TypeOK, TypeOK', [Next]_vars, NEW h \in Humans, NEW a \in Agents, Posted(h, "back")
               PROVE  ~IsExcludedForConsumer(a)' /\ Gate'.proposer # a
    OBVIOUS
  <2>1. h \in Consumers /\ a \in Consumers /\ h # a
    BY ConsumersAreDistinct DEF Consumers
  <2>2. PICK approved \in BOOLEAN : Comment(h, "back", approved)
    BY <2>1, WhoPosts
  <2> DEFINE m == Message("comment", h, "approved", NoDecision, "back")
  <2>3. thread' = Append(thread, m) /\ last'.actor = h
    BY <2>2 DEF Comment, Moderated, Verdict, BumpLastActor
  <2>4. /\ Len(thread) \in Nat /\ DOMAIN thread' = 1..(Len(thread) + 1)
        /\ thread'[Len(thread) + 1] = m
    <3> HIDE DEF m
    <3> QED
      BY <2>3 DEF TypeOK
  <2>5. ~IsExcludedForConsumer(a)'
    BY <2>1, <2>3 DEF IsExcludedForConsumer
  <2>6. ASSUME Gate'.proposer = a PROVE FALSE
    <3>1. Holding'
      BY <1>1, <2>1, <2>6, ConsumersAreDistinct
    <3>2. CASE (\A j \in DOMAIN thread : ~AnswersTo(Gate, thread[j]))'
      <4>1. ~AnswersTo(Gate', m)
        BY <2>4, <3>2
      <4> QED
        BY <2>1, <2>6, <4>1 DEF AnswersTo, Message
    <3>3. ASSUME NEW s \in DOMAIN thread', Decided(s)',
                 (\A j \in DOMAIN thread : j > s => ~AnswersTo(Gate, thread[j]))'
          PROVE  FALSE
      <4>1. s # Len(thread) + 1
        BY <2>4, <3>3 DEF Decided, Message
      <4>2. ~AnswersTo(Gate', m)
        BY <2>4, <3>3, <4>1
      <4> QED
        BY <2>1, <2>6, <4>2 DEF AnswersTo, Message
    <3> QED
      BY <3>1, <3>2, <3>3 DEF Holding
  <2> QED
    BY <2>5, <2>6
<1> QED
  BY <1>2, TypeCorrect, PTL DEF Spec, HumanWordReturnsTheTicket
=============================================================================
