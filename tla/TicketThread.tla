---------------------------- MODULE TicketThread ----------------------------
(***************************************************************************)
(* One ticket's thread: its moderation, its messages, the decisions they   *)
(* carry (plan, resolution, wontfix, escalation), the close and the reopen, *)
(* and the two readings the agents' work queues rest on: the decision gate  *)
(* (a replay of the thread) and whose court the ball is in (last_actor).    *)
(*                                                                         *)
(* A message's position in the thread is its id, and its posting order.    *)
(* last_actor_at is only ever compared with the instant of a message: here *)
(* it is that message's position (0 the ticket's filing, Narrated for an   *)
(* instant no message of the thread carries).  The narration the daemon    *)
(* adds on a decision (plan_accepted and the like) is not kept in the      *)
(* thread: it moves last_actor to the decider once more, and no reading    *)
(* below looks at it.  Who may post a step is ClaimHold's subject; here    *)
(* any agent may, once the ticket is approved.                             *)
(***************************************************************************)
EXTENDS Integers, Sequences, FiniteSets

CONSTANTS
    Agents, Humans, NoOne,
    Reporter,           \* who filed the ticket
    LeadsProject,       \* BOOLEAN: an agent reporter leads the project
    Kinds,              \* the decision kinds in use
    MaxMessages         \* bound on the thread's length

Consumers == Agents \cup Humans
Closing == {"resolution", "wontfix"}
Waiting == {"plan", "escalation"}

ASSUME ConsumersAreDistinct == Agents \cap Humans = {} /\ NoOne \notin Consumers
ASSUME ThreadParameters ==
    /\ Reporter \in Consumers
    /\ LeadsProject \in BOOLEAN
    /\ Kinds \subseteq Closing \cup Waiting
    /\ MaxMessages \in Nat

VARIABLES
    tstatus,        \* moderation of the ticket
    own,            \* the decision the ticket was filed with (then: plan)
    thread,
    last            \* tickets.last_actor, and the message last_actor_at points at

vars == <<tstatus, own, thread, last>>

NoDecision == [kind |-> "none", status |-> "none", by |-> NoOne]
PendingDecision(k) == [kind |-> k, status |-> "pending", by |-> NoOne]
Decision(k, verdict, c) == [kind |-> k, status |-> verdict, by |-> c]
Settled(d) == d.status \in {"accepted", "rejected"}

Message(kind, c, status, dec, gesture) ==
    [kind |-> kind, by |-> c, status |-> status, dec |-> dec, gesture |-> gesture, tagged |-> "no"]

Narrated == -1

-----------------------------------------------------------------------------
(* The decision gate: last signal wins, replayed in posting order.         *)

OpenGate == [gated |-> FALSE, proposer |-> NoOne]
HeldGate == [gated |-> TRUE, proposer |-> NoOne]

DecisionSignal(d, by) ==
    CASE d.status = "pending" -> [gated |-> TRUE, proposer |-> by]
      [] d.status = "accepted" /\ d.kind \in Closing -> HeldGate
      [] OTHER -> OpenGate

\* Variant: the word of the one who filed the ticket does not answer.
AnswersOfOthers(m, g) == g.proposer \notin {NoOne, m.by} /\ m.by \in Humans \ {Reporter}

\* A human who is not the proposer speaks: the pending hold is lifted.
Answers(m, g) == g.proposer \notin {NoOne, m.by} /\ m.by \in Humans

\* Variant: a reopen does not start the ticket afresh.
ReplayGateAcrossReopens(g, m) ==
    CASE m.kind = "resolved" /\ m.status # "rejected" -> HeldGate
      [] m.kind = "comment" /\ m.status = "approved" ->
            IF m.dec # NoDecision THEN DecisionSignal(m.dec, m.by)
            ELSE IF Answers(m, g) THEN OpenGate ELSE g
      [] OTHER -> g

ReplayGate(g, m) ==
    CASE m.kind = "reopened" /\ m.status = "approved" -> OpenGate
      [] m.kind = "resolved" /\ m.status # "rejected" -> HeldGate
      [] m.kind = "comment" /\ m.status = "approved" ->
            IF m.dec # NoDecision THEN DecisionSignal(m.dec, m.by)
            ELSE IF Answers(m, g) THEN OpenGate ELSE g
      [] OTHER -> g

FiledGate ==
    IF tstatus = "approved" /\ own # NoDecision THEN DecisionSignal(own, Reporter) ELSE OpenGate

\* The gate after the thread's first n messages, and after all of them.
Replay[n \in Nat] == IF n = 0 THEN FiledGate ELSE ReplayGate(Replay[n - 1], thread[n])

Gate == Replay[Len(thread)]

-----------------------------------------------------------------------------
(* Other readings of the thread.                                           *)

Latest(S) == IF S = {} THEN 0 ELSE CHOOSE i \in S : \A j \in S : j <= i

IsClosed ==
    LET lifecycle == {i \in DOMAIN thread :
            thread[i].kind \in {"closed", "reopened"} /\ thread[i].status = "approved"}
    IN lifecycle # {} /\ thread[Latest(lifecycle)].kind = "closed"

Decided(i) ==
    thread[i].kind = "comment" /\ thread[i].status = "approved" /\ thread[i].dec # NoDecision

LatestCommentDecision == Latest({i \in DOMAIN thread : Decided(i)})

\* Variant: a decision its comment's moderation hides still counts.
LatestDecisionOfAny ==
    Latest({i \in DOMAIN thread :
        \/ thread[i].kind = "comment" /\ thread[i].dec # NoDecision
        \/ thread[i].kind = "resolved" /\ thread[i].status = "pending"})

\* The inbox aggregation also counts a legacy resolution awaiting moderation.
LatestDecision ==
    Latest({i \in DOMAIN thread :
        Decided(i) \/ (thread[i].kind = "resolved" /\ thread[i].status = "pending")})

HasPendingPlan ==
    \/ own.kind = "plan" /\ own.status = "pending"
    \/ \E i \in DOMAIN thread :
        /\ thread[i].kind = "comment" /\ thread[i].status # "rejected"
        /\ thread[i].dec.kind = "plan" /\ thread[i].dec.status = "pending"

MayClose(c) == c = Reporter \/ c \in Humans

\* Someone else acted, as the approved thread shows it.
HasForeignActor(c) ==
    \/ Reporter # c
    \/ \E i \in DOMAIN thread :
        /\ thread[i].status = "approved"
        /\ \/ thread[i].by # c /\ thread[i].kind # "taken_over"
           \/ Settled(thread[i].dec) /\ thread[i].dec.by # c

HandingBackCreation(c) ==
    last.msg = 0 /\ c = Reporter /\ ~(Reporter \in Agents /\ LeadsProject)

\* Variant: a step is forgotten among the actions that keep the ticket.
KeepsAuthorOfHandback(c) ==
    \E i \in DOMAIN thread :
        i = last.msg /\ thread[i].by = c /\ thread[i].gesture = "keep"

\* The action that made c the last actor: its own step, or a comment with
\* handback: false.
KeepsAuthor(c) ==
    \E i \in DOMAIN thread :
        i = last.msg /\ thread[i].by = c /\ thread[i].gesture \in {"step", "keep"}

IsExcludedForConsumer(c) ==
    /\ last.actor = c
    /\ HasForeignActor(c) \/ HandingBackCreation(c)
    /\ ~KeepsAuthor(c)

-----------------------------------------------------------------------------
(* Posting.                                                                *)

Init ==
    /\ tstatus \in {"pending", "approved"}
    /\ own \in {NoDecision} \cup {PendingDecision(k) : k \in Kinds \cap {"plan"}}
    /\ thread = <<>>
    /\ last = [actor |-> Reporter, msg |-> 0]

Room == Len(thread) < MaxMessages
Verdict(approved) == IF approved THEN "approved" ELSE "pending"
\* Variant: the instant moves without the name.
BumpLastActorUnnamed(c, msg) == last' = [actor |-> NoOne, msg |-> msg]
BumpLastActor(c, msg) == last' = [actor |-> c, msg |-> msg]
Newest == Len(thread) + 1

\* Rules and strategy decide for an agent; a human's message is approved.
Moderated(c, approved) == c \in Humans => approved

Comment(c, gesture, approved) ==
    /\ Room /\ Moderated(c, approved)
    /\ gesture = "keep" /\ c \in Agents => tstatus = "approved"
    /\ gesture # "step"
    /\ thread' = Append(thread, Message("comment", c, Verdict(approved), NoDecision, gesture))
    /\ BumpLastActor(c, Newest)
    /\ UNCHANGED <<tstatus, own>>

Propose(c, k, approved) ==
    /\ Room /\ Moderated(c, approved)
    /\ c \in Agents => tstatus = "approved" \/ (k = "plan" /\ HasPendingPlan)
    /\ thread' = Append(thread, Message("comment", c, Verdict(approved), PendingDecision(k), "back"))
    /\ BumpLastActor(c, Newest)
    /\ UNCHANGED <<tstatus, own>>

Withdrawn(d, c) == [d EXCEPT !.status = "withdrawn", !.by = c]

(* A step: the thread's latest decision, when it is pending and the        *)
(* author's, is withdrawn; the ticket's own when no comment carries one.   *)
Step(c, approved) ==
    LET l == LatestCommentDecision
        posted == Message("comment", c, Verdict(approved), NoDecision, "step")
    IN /\ Room /\ Moderated(c, approved)
       /\ c \in Agents => tstatus = "approved"
       /\ IF l \in DOMAIN thread /\ thread[l].dec.status = "pending" /\ thread[l].by = c
          THEN thread' = Append([thread EXCEPT ![l].dec = Withdrawn(@, c)], posted)
          ELSE thread' = Append(thread, posted)
       /\ IF l = 0 /\ own.status = "pending" /\ Reporter = c
          THEN own' = Withdrawn(own, c)
          ELSE UNCHANGED own
       /\ BumpLastActor(c, Newest)
       /\ UNCHANGED tstatus

(* Variant: a close leaves the other lifecycle proposals pending.          *)
CloseThreadOnly(T, c) ==
    LET l == Latest({i \in DOMAIN T :
                T[i].kind = "comment" /\ T[i].status = "approved" /\ T[i].dec # NoDecision})
        Validated(i) ==
            i = l /\ T[i].kind = "comment" /\ T[i].dec.kind = "resolution" /\ T[i].dec.status = "pending"
        Cleaned(i) == IF Validated(i) THEN [T[i] EXCEPT !.dec = Decision("resolution", "accepted", c)] ELSE T[i]
    IN Append([i \in DOMAIN T |-> Cleaned(i)], Message("closed", c, "approved", NoDecision, "back"))

(* The close of c on thread T: the latest decision, when it is a pending   *)
(* resolution, is accepted; legacy resolutions are approved; every other   *)
(* pending close or reopen is rejected.                                    *)
CloseThread(T, c) ==
    LET l == Latest({i \in DOMAIN T :
                T[i].kind = "comment" /\ T[i].status = "approved" /\ T[i].dec # NoDecision})
        Validated(i) ==
            i = l /\ T[i].kind = "comment" /\ T[i].dec.kind = "resolution" /\ T[i].dec.status = "pending"
        Cleaned(i) ==
            CASE Validated(i) -> [T[i] EXCEPT !.dec = Decision("resolution", "accepted", c)]
              [] T[i].kind = "resolved" /\ T[i].status = "pending" -> [T[i] EXCEPT !.status = "approved"]
              [] T[i].kind \in {"closed", "reopened"} /\ T[i].status = "pending" ->
                    [T[i] EXCEPT !.status = "rejected"]
              [] OTHER -> T[i]
    IN Append([i \in DOMAIN T |-> Cleaned(i)], Message("closed", c, "approved", NoDecision, "back"))

Close(c) ==
    /\ Room /\ MayClose(c)
    /\ thread' = CloseThread(thread, c)
    /\ BumpLastActor(c, Newest)
    /\ UNCHANGED <<tstatus, own>>

Reopen(c, approved) ==
    /\ Room
    /\ MayClose(c) => approved
    /\ thread' = Append(thread, Message("reopened", c, Verdict(approved), NoDecision, "back"))
    /\ BumpLastActor(c, Newest)
    /\ UNCHANGED <<tstatus, own>>

\* The legacy ticket_resolved: still posted by old clients.
Resolve(c, approved) ==
    /\ Room
    /\ MayClose(c) => approved
    /\ thread' = Append(thread, Message("resolved", c, Verdict(approved), NoDecision, "back"))
    /\ BumpLastActor(c, Newest)
    /\ UNCHANGED <<tstatus, own>>

\* claim_taken_over, posted by the daemon in the name of the taker; nothing
\* reads its moderation.
TakeOver(a) ==
    /\ Room
    /\ a \in Agents /\ tstatus = "approved"
    /\ thread' = Append(thread, Message("taken_over", a, "approved", NoDecision, "back"))
    /\ BumpLastActor(a, Newest)
    /\ UNCHANGED <<tstatus, own>>

-----------------------------------------------------------------------------
(* Moderation.                                                             *)

ModerateTicket(verdict) ==
    /\ tstatus = "pending"
    /\ tstatus' = verdict
    /\ UNCHANGED <<own, thread, last>>

Moderate(i, verdict) ==
    /\ thread[i].status = "pending"
    /\ thread' = [thread EXCEPT ![i].status = verdict]
    /\ UNCHANGED <<tstatus, own, last>>

(* Variant: the close does not ask who may close.                          *)
AcceptAndCloseForAll(c, i) ==
    /\ thread[i].status = "pending" /\ tstatus = "approved"
    /\ Room
    /\ thread' = CloseThread([thread EXCEPT ![i].status = "approved"], c)
    /\ BumpLastActor(c, Newest)
    /\ UNCHANGED <<tstatus, own>>

(* message.accept_and_close: the message is approved, then the caller      *)
(* closes the ticket; refused the close, it leaves the approval.           *)
AcceptAndClose(c, i) ==
    LET approved == [thread EXCEPT ![i].status = "approved"]
    IN /\ thread[i].status = "pending" /\ tstatus = "approved"
       /\ Room
       /\ IF MayClose(c)
          THEN thread' = CloseThread(approved, c) /\ BumpLastActor(c, Newest)
          ELSE thread' = approved /\ UNCHANGED last
       /\ UNCHANGED <<tstatus, own>>

(* A human's soft delete.                                                  *)
DeleteComment(i) ==
    /\ thread[i].kind = "comment"
    /\ thread' = [thread EXCEPT ![i].status = "rejected"]
    /\ UNCHANGED <<tstatus, own, last>>

-----------------------------------------------------------------------------
(* Deciding.                                                               *)

\* applyDecision: settles a pending decision; repeating a verdict changes nothing.
Applies(d, k, verdict) ==
    d # NoDecision /\ (d.status = "pending" \/ (d.status = verdict /\ d.kind = k))

\* Variant: a repeated verdict signs the decision again.
AppliedAgain(d, k, verdict, c) == Decision(k, verdict, c)

Applied(d, k, verdict, c) == IF d.status = "pending" THEN Decision(k, verdict, c) ELSE d

(* message.decide on a comment: refused while the ticket awaits moderation *)
(* or when another decision is the latest.  An accepted resolution or      *)
(* wontfix closes the ticket when the decider may close it.                *)
Decide(c, i, k, verdict) ==
    LET decided == [thread EXCEPT ![i].dec = Applied(@, k, verdict, c)]
    IN /\ tstatus = "approved"
       /\ thread[i].kind = "comment"
       /\ LatestDecision \in {0, i}
       /\ Applies(thread[i].dec, k, verdict)
       /\ IF verdict = "accepted" /\ k \in Closing /\ MayClose(c)
          THEN /\ Room
               /\ thread' = CloseThread(decided, c)
               /\ BumpLastActor(c, Newest)
          ELSE thread' = decided /\ BumpLastActor(c, Narrated)
       /\ UNCHANGED <<tstatus, own>>

(* On the decision the ticket was filed with; it never closes the ticket.  *)
DecideOwn(c, k, verdict) ==
    /\ tstatus = "approved"
    /\ LatestDecision = 0
    /\ Applies(own, k, verdict)
    /\ own' = Applied(own, k, verdict, c)
    /\ BumpLastActor(c, Narrated)
    /\ UNCHANGED <<tstatus, thread>>

(* message.promote and message.reclassify: a comment tagged, or its        *)
(* pending decision's kind changed; with a verdict, settled in one gesture. *)
Retag(i, k) ==
    /\ thread[i].kind = "comment"
    /\ thread[i].dec = NoDecision \/ thread[i].dec.status = "pending"
    /\ thread' = [thread EXCEPT ![i].dec = PendingDecision(k)]
    /\ UNCHANGED <<tstatus, own, last>>

PromoteDecided(c, i, k, verdict) ==
    /\ thread[i].kind = "comment"
    /\ thread[i].dec = NoDecision \/ thread[i].dec.status = "pending"
    /\ thread' = [thread EXCEPT ![i].dec = Decision(k, verdict, c)]
    /\ UNCHANGED <<tstatus, own, last>>

Untag(i) ==
    /\ thread[i].kind = "comment"
    /\ thread[i].dec.status = "pending"
    /\ thread' = [thread EXCEPT ![i].dec = NoDecision]
    /\ UNCHANGED <<tstatus, own, last>>

(* A human tags an agent's plain comment as a step, or takes that tag back. *)
TagStep(i) ==
    /\ thread[i].kind = "comment" /\ thread[i].by \in Agents
    /\ thread[i].dec = NoDecision /\ thread[i].gesture # "step"
    /\ thread' = [thread EXCEPT ![i] = [@ EXCEPT !.gesture = "step", !.tagged = thread[i].gesture]]
    /\ UNCHANGED <<tstatus, own, last>>

UntagStep(i) ==
    /\ thread[i].gesture = "step" /\ thread[i].tagged # "no"
    /\ thread' = [thread EXCEPT ![i] = [@ EXCEPT !.gesture = thread[i].tagged, !.tagged = "no"]]
    /\ UNCHANGED <<tstatus, own, last>>

Next ==
    \/ \E verdict \in {"approved", "rejected"} : ModerateTicket(verdict)
    \/ \E c \in Consumers :
        \/ Close(c) \/ TakeOver(c)
        \/ \E approved \in BOOLEAN :
            \/ Step(c, approved) \/ Reopen(c, approved) \/ Resolve(c, approved)
            \/ \E gesture \in {"back", "keep"} : Comment(c, gesture, approved)
            \/ \E k \in Kinds : Propose(c, k, approved)
        \/ \E k \in Kinds, verdict \in {"accepted", "rejected"} : DecideOwn(c, k, verdict)
    \/ \E i \in DOMAIN thread :
        \/ DeleteComment(i) \/ Untag(i) \/ TagStep(i) \/ UntagStep(i)
        \/ \E verdict \in {"approved", "rejected"} : Moderate(i, verdict)
        \/ \E k \in Kinds : Retag(i, k)
        \/ \E c \in Consumers :
            \/ AcceptAndClose(c, i)
            \/ \E k \in Kinds, verdict \in {"accepted", "rejected"} :
                Decide(c, i, k, verdict) \/ PromoteDecided(c, i, k, verdict)

Spec == Init /\ [][Next]_vars

-----------------------------------------------------------------------------
Decisions ==
    [kind : Closing \cup Waiting \cup {"none"},
     status : {"none", "pending", "accepted", "rejected", "withdrawn"},
     by : Consumers \cup {NoOne}]

Messages ==
    [kind : {"comment", "closed", "reopened", "resolved", "taken_over"},
     by : Consumers, status : {"pending", "approved", "rejected"},
     dec : Decisions, gesture : {"back", "keep", "step"}, tagged : {"no", "back", "keep"}]

TypeOK ==
    /\ tstatus \in {"pending", "approved", "rejected"}
    /\ own \in Decisions
    /\ thread \in Seq(Messages)
    /\ last \in [actor : Consumers, msg : Int]

(* The gate replayed event by event is what its rule says in one sentence: *)
(* the latest approved reopen, resolution or decision decides, whatever    *)
(* came before it, and a pending one yields to a later human comment.      *)
IsSignal(m) ==
    \/ m.kind = "reopened" /\ m.status = "approved"
    \/ m.kind = "resolved" /\ m.status # "rejected"
    \/ m.kind = "comment" /\ m.status = "approved" /\ m.dec # NoDecision

SignalOf(m) ==
    CASE m.kind = "reopened" -> OpenGate
      [] m.kind = "resolved" -> HeldGate
      [] m.kind = "comment" -> DecisionSignal(m.dec, m.by)

GateIsLatestSignal ==
    LET s == Latest({i \in DOMAIN thread : IsSignal(thread[i])})
        signal == IF s = 0 THEN FiledGate ELSE SignalOf(thread[s])
        answered == \E j \in (s + 1)..Len(thread) :
            /\ thread[j].kind = "comment" /\ thread[j].status = "approved"
            /\ thread[j].by \in Humans \ {signal.proposer}
    IN Gate = IF signal.proposer # NoOne /\ answered THEN OpenGate ELSE signal

(* The proposal that holds an approved ticket is one message.decide would   *)
(* settle: the gate (a replay of the thread) and the inbox's latest        *)
(* decision (an aggregation over it) are computed apart, and were they to  *)
(* differ the agents would wait on an answer everyone is refused.          *)
PendingHoldIsDecidable ==
    tstatus = "approved" /\ Gate.proposer # NoOne =>
        \/ LatestDecision = 0 /\ own.status = "pending"
        \/ \E i \in DOMAIN thread : i = LatestDecision /\ thread[i].dec.status = "pending"

(* Whatever the path (a close, an accepted proposal, accept-and-close), a  *)
(* ticket is only ever closed by its reporter or a human.                  *)
ClosedByAuthority ==
    \A i \in DOMAIN thread :
        thread[i].kind = "closed" /\ thread[i].status = "approved"
        => thread[i].by \in Humans \cup {Reporter}

(* No reopen asked for before a close can still be approved after it.      *)
NoStaleReopen ==
    \A i, j \in DOMAIN thread :
        /\ i < j
        /\ thread[j].kind = "closed" /\ thread[j].status = "approved"
        /\ thread[i].kind = "reopened"
        => thread[i].status # "pending"

(* A close stands, whichever way it came: it is by somebody who may close, *)
(* and nothing asked for before it can undo it (assertCloseAuthority,      *)
(* rejectStaleClosedReopenedForTicket).                                    *)
ClosesStand == ClosedByAuthority /\ NoStaleReopen

(* A decision settled or withdrawn is never decided again, untagged or     *)
(* changed, by any of the six paths that write decisions.                  *)
SettledDecisionIsFinal ==
    [][/\ own.status \in {"accepted", "rejected", "withdrawn"} => own' = own
       /\ \A i \in DOMAIN thread :
            thread[i].dec.status \in {"accepted", "rejected", "withdrawn"}
            => i \in DOMAIN thread' /\ thread'[i].dec = thread[i].dec]_vars

Posted(c, gesture) ==
    /\ Len(thread') = Len(thread) + 1
    /\ LET m == thread'[Len(thread')]
       IN m.kind = "comment" /\ m.by = c /\ m.gesture = gesture /\ m.dec = NoDecision

(* A step never leaves its author waiting: neither as the last actor, nor  *)
(* behind a proposal of its own.                                           *)
StepKeepsTheHand ==
    [][\A c \in Consumers :
        Posted(c, "step") => ~IsExcludedForConsumer(c)' /\ Gate'.proposer # c]_vars

(* A human's plain comment gives the ticket back to the agents: no agent   *)
(* stays excluded as the last actor, and no agent's proposal holds it.     *)
HumanWordReturnsTheTicket ==
    [][\A h \in Humans, a \in Agents :
        Posted(h, "back") => ~IsExcludedForConsumer(a)' /\ Gate'.proposer # a]_vars

-----------------------------------------------------------------------------
(* What the repository says of the thread, and the code does not do.       *)

(* "Accepts a resolution -> ticket closes", the acceptance being "the      *)
(* reporter's close authorization".  Decided by an agent who is not the    *)
(* reporter, the close is refused and the refusal swallowed.               *)
AcceptedResolutionCloses ==
    [][\A c \in Consumers, i \in DOMAIN thread, k \in Kinds \cap Closing :
        thread[i].dec.status = "pending" /\ Decide(c, i, k, "accepted")
        => IsClosed']_vars

=============================================================================
