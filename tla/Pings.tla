-------------------------------- MODULE Pings --------------------------------
(***************************************************************************)
(* Who learns of what on a ticket, and what is marked read on the way: the *)
(* fan-out of a message when it is inserted and again when it is approved, *)
(* mentions, decisions and their verdict, the pings a rejection and a      *)
(* close take away, the mutes, the marks of the read state, and the loop   *)
(* that shows an agent what may wake it and acknowledges what it showed.   *)
(*                                                                         *)
(* One ticket: message 1 of the thread is the ticket itself.  A handler is *)
(* one step, as it is one synchronous run of the daemon.                   *)
(***************************************************************************)
EXTENDS Naturals, Sequences, FiniteSets, FiniteSetsExt

CONSTANTS
    Humans, Agents,
    Owners, Followers,  \* of the project, those who want its broadcasts
    OffLevel,           \* agents that do not work on the ticket's level
    Nobody,
    Reporters,          \* who files the ticket
    Scopes, Mentions,   \* the scopes and the sets of names messages come with
    Proposals,          \* the decisions comments ask for
    Trusted,            \* agents whose messages the rules approve as they come
    MaxGestures,        \* bound on mentions, follows, mutes, votes, marks and focuses
    MaxEvents           \* bound on the messages and those together

Consumers == Humans \cup Agents

ASSUME PingsParameters ==
    /\ Humans \cap Agents = {} /\ Nobody \notin Consumers
    /\ Owners \subseteq Consumers /\ Followers \subseteq Consumers
    /\ OffLevel \subseteq Agents
    /\ Scopes \subseteq {"internal", "default", "broadcast"}
    /\ Mentions \subseteq SUBSET Consumers
    /\ Reporters \subseteq Consumers /\ Proposals \subseteq {"plan", "resolution"}
    /\ Trusted \subseteq Agents
    /\ MaxEvents \in Nat /\ MaxGestures \in Nat

VARIABLES
    thread,     \* the ticket and its messages
    sub,        \* ticket_subscriptions: none, follows, muted
    assignee,   \* given at filing
    claimant,   \* who works on it
    unseen,     \* pings <<recipient, message>> without seen_at
    seen,       \* pings with it
    focusAway,  \* the project's wake focus leaves the ticket out
    gestures    \* how many of the bounded gestures were made

vars == <<thread, sub, assignee, claimant, unseen, seen, focusAway, gestures>>

Kinds == {"ticket", "comment", "closed", "reopened", "verdict"}

Init ==
    /\ thread = <<>>
    /\ sub = [c \in Consumers |-> "none"]
    /\ assignee = Nobody /\ claimant = Nobody
    /\ unseen = {} /\ seen = {}
    /\ focusAway = FALSE
    /\ gestures = 0

-----------------------------------------------------------------------------
(* notifications.ts: the recipients of a message, as it stands.            *)

KeepsTheHand(m) == m.kind = "comment" /\ m.by \in Humans /\ m.keeps

Interested(t, i, subs) ==
    IF t[i].status # "approved" THEN {}
    ELSE (IF t[i].kind = "ticket" THEN {} ELSE {c \in Consumers : subs[c] # "none"})
         \cup Owners
         \cup (IF t[i].scope = "broadcast" THEN Followers ELSE {})

FanOut(t, i, subs, except) ==
    IF t[i].scope = "internal" \/ KeepsTheHand(t[i]) THEN {}
    ELSE LET m == t[i]
             interested == Interested(t, i, subs)
             concerned == IF m.kind = "verdict" THEN interested \cap {t[m.about].by}
                          ELSE interested
         IN ((concerned \ OffLevel)
             \cup (IF m.status = "pending" THEN Humans ELSE {}))
            \ ({c \in Consumers : subs[c] = "muted"} \cup except \cup {m.by}
               \cup (IF m.by \in Humans THEN Humans ELSE {}))

FanOutMentions(t, i) ==
    IF t[i].status = "approved" /\ t[i].kind \in {"ticket", "comment"}
    THEN t[i].names \ {t[i].by}
    ELSE {}

\* The author of what was decided, unless a person or the decider.
NotifyDecision(t, i, decider) == ({t[i].by} \cap Agents) \ {decider}

\* Variant: a ping that was read is put back as unread.
PingAgain(who, i) == {<<c, i>> : c \in who}

\* insertPing: a ping that is there stays as it is.
Ping(who, i) == {<<c, i>> : c \in who} \ seen

Approved(t, i) == [t EXCEPT ![i].status = "approved"]

\* What reaches people when message i becomes approved.
AtApproval(t, i, subs) == FanOut(t, i, subs, {}) \cup FanOutMentions(t, i)

OfMessage(pairs, i) == {p \in pairs : p[2] = i}
OfConsumer(pairs, c) == {p \in pairs : p[1] = c}

-----------------------------------------------------------------------------
(* submitMessage.                                                          *)

\* A fresh message, as insertMessage writes it.
Draft(kind, by, scope, names, keeps, asks, about) ==
    [kind |-> kind, by |-> by, scope |-> scope, names |-> names, keeps |-> keeps,
     asks |-> asks, about |-> about, status |-> "pending"]

\* The author's previous message on the thread, the ticket left aside.
LastAuthored(t, c, before) ==
    Max({0} \cup {i \in 2..before - 1 : t[i].by = c})

Room(n) == Len(thread) + gestures + n <= MaxEvents

Gesture == gestures < MaxGestures /\ Room(1) /\ gestures' = gestures + 1

\* A mention counts as a gesture.
Naming(names) == IF names = {} THEN UNCHANGED gestures ELSE Gesture

\* Variant: every ping of the author's goes, whatever came meanwhile.
PrunedByPostAll(t, c, i, pings) == IF i = 1 THEN {} ELSE OfConsumer(pings, c)

\* What a post marks read for its author: all of the thread on a first
\* message, else what is not younger than the author's previous one.
PrunedByPost(t, c, i, pings) ==
    IF i = 1 THEN {}
    ELSE LET upTo == LastAuthored(t, c, i)
         IN {p \in OfConsumer(pings, c) : upTo = 0 \/ p[2] <= upTo}

\* A close rejects the ticket's pending reopens and takes their pings, and
\* settles the resolutions that wait.
StaleAtClose(t, c) == {j \in 1..c - 1 : t[j].kind = "reopened" /\ t[j].status = "pending"}

SettledByClose(t, c) ==
    [j \in DOMAIN t |->
        IF j \in StaleAtClose(t, c) THEN [t[j] EXCEPT !.status = "rejected"]
        ELSE IF t[j].asks = "resolution" /\ t[j].status # "rejected" THEN [t[j] EXCEPT !.asks = "decided"]
        ELSE t[j]]

WithoutMessages(pairs, gone) == {p \in pairs : p[2] \notin gone}

HeldByOther(c) == (assignee \notin {c, Nobody}) \/ (claimant \notin {c, Nobody})

\* An owner's proposal takes the ticket; a close gives it back.
ClaimAfter(t, i) ==
    LET m == t[i] IN
    IF m.status # "approved" THEN claimant
    ELSE IF m.kind = "closed" THEN Nobody
    ELSE IF /\ m.kind = "comment" /\ m.asks # "nothing"
            /\ m.by \in Agents \cap Owners
            /\ t[1].status = "approved" /\ ~HeldByOther(m.by)
         THEN m.by ELSE claimant

\* Variant: a close drops the unread pings with the read ones.
SubmitPurgingAll(m, auto) ==
    LET i == Len(thread) + 1
        subs == [sub EXCEPT ![m.by] = "follows"]
        put == Append(thread, m)
        now == IF auto THEN Approved(put, i) ELSE put
        closes == m.kind = "closed" /\ auto
        told == FanOut(put, i, subs, {}) \cup (IF auto THEN AtApproval(now, i, subs) ELSE {})
        pinged == unseen \cup Ping(told, i)
        kept == IF closes THEN {} ELSE pinged
        read == PrunedByPost(now, m.by, i, kept)
    IN /\ thread' = IF closes THEN SettledByClose(now, i) ELSE now
       /\ sub' = subs
       /\ unseen' = kept \ read
       /\ seen' = (IF closes THEN {} ELSE seen) \cup read
       /\ claimant' = ClaimAfter(now, i)

Submit(m, auto) ==
    LET i == Len(thread) + 1
        subs == [sub EXCEPT ![m.by] = "follows"]
        put == Append(thread, m)
        now == IF auto THEN Approved(put, i) ELSE put
        closes == m.kind = "closed" /\ auto
        told == FanOut(put, i, subs, {}) \cup (IF auto THEN AtApproval(now, i, subs) ELSE {})
        pinged == unseen \cup Ping(told, i)
        kept == IF closes THEN WithoutMessages(pinged, StaleAtClose(now, i)) ELSE pinged
        read == PrunedByPost(now, m.by, i, kept)
    IN /\ thread' = IF closes THEN SettledByClose(now, i) ELSE now
       /\ sub' = subs
       /\ unseen' = kept \ read
       /\ seen' = (IF closes THEN {} ELSE seen) \cup read
       /\ claimant' = ClaimAfter(now, i)

\* People's messages are approved as they come, and those a rule lets through.
AutoApproved(c) == c \in Humans \cup Trusted

FileTicket(c, scope, names, to) ==
    /\ thread = <<>> /\ c \in Reporters /\ Naming(names)
    /\ LET m == Draft("ticket", c, scope, names, FALSE, "nothing", 0)
           subs == [x \in Consumers |-> IF x \in {c, to} THEN "follows" ELSE sub[x]]
           put == <<m>>
           now == IF AutoApproved(c) THEN Approved(put, 1) ELSE put
           told == FanOut(put, 1, subs, {})
                   \cup (IF AutoApproved(c) THEN AtApproval(now, 1, subs) \cup ({to} \ {Nobody, c}) ELSE {})
       IN /\ thread' = now /\ sub' = subs
          /\ unseen' = Ping(told, 1)
    /\ assignee' = to
    /\ UNCHANGED <<claimant, seen, focusAway>>

\* keeps: a person says the next move is theirs.
Comment(c, scope, names, keeps, asks) ==
    /\ thread # <<>> /\ Room(1) /\ Naming(names)
    /\ asks # "nothing" => (c \in Humans \/ thread[1].status = "approved")
    /\ keeps => c \in Humans
    /\ Submit(Draft("comment", c, scope, names, keeps, asks, 0), AutoApproved(c))
    /\ UNCHANGED <<assignee, focusAway>>

\* The reporter's own lifecycle events are not moderated.
Lifecycle(c, kind) ==
    /\ thread # <<>> /\ Room(1)
    /\ kind = "closed" => c \in Humans \/ c = thread[1].by
    /\ Submit(Draft(kind, c, "default", {}, FALSE, "nothing", 1), AutoApproved(c) \/ c = thread[1].by)
    /\ UNCHANGED <<assignee, focusAway, gestures>>

-----------------------------------------------------------------------------
(* Moderation.                                                             *)

Approve(h, i) ==
    /\ thread[i].status = "pending"
    /\ LET now == Approved(thread, i)
           filed == IF thread[i].kind = "ticket" THEN {assignee} \ {Nobody} ELSE {}
       IN /\ thread' = now
          /\ unseen' = unseen \cup Ping(AtApproval(now, i, sub) \cup filed \cup NotifyDecision(now, i, h), i)
    /\ UNCHANGED <<sub, assignee, claimant, seen, focusAway, gestures>>

\* Variant: a rejection leaves the pings of the message where they are.
RejectKeepingPings(h, i) ==
    /\ thread[i].status = "pending"
    /\ thread' = [thread EXCEPT ![i].status = "rejected"]
    /\ unseen' = unseen \cup Ping(NotifyDecision(thread, i, h), i)
    /\ UNCHANGED <<sub, assignee, claimant, seen, focusAway, gestures>>

Reject(h, i) ==
    /\ thread[i].status = "pending"
    /\ thread' = [thread EXCEPT ![i].status = "rejected"]
    /\ seen' = WithoutMessages(seen, {i})
    /\ unseen' = WithoutMessages(unseen, {i}) \cup {<<c, i>> : c \in NotifyDecision(thread, i, h)}
    /\ UNCHANGED <<sub, assignee, claimant, focusAway, gestures>>

-----------------------------------------------------------------------------
(* message.decide, by a person: the author of the proposal hears, a        *)
(* verdict joins the thread, and an acceptance may close the ticket: that  *)
(* close is told to everyone but the proposer, who has the verdict.        *)

\* A person's message, approved as it comes, with its own fan-out.
Posted(h, kind, about) ==
    [Draft(kind, h, "default", {}, FALSE, "nothing", about) EXCEPT !.status = "approved"]

Decidable(i) ==
    /\ thread[i].asks \in {"plan", "resolution"} /\ thread[i].status # "rejected"
    /\ \A j \in DOMAIN thread : j > i => thread[j].asks = "nothing" \/ thread[j].status = "rejected"
    /\ thread[1].status = "approved"

\* The proposal is decided and the verdict posted: who has a ping unread, who has read it.
Decided(h, i) ==
    LET v == Len(thread) + 1
        subs == [sub EXCEPT ![h] = "follows"]
        t == Append([thread EXCEPT ![i].asks = "decided"], Posted(h, "verdict", i))
        pinged == unseen \cup Ping(NotifyDecision(t, i, h), i) \cup Ping(FanOut(t, v, subs, {}), v)
        read == PrunedByPost(t, h, v, pinged)
    IN [thread |-> t, sub |-> subs, unseen |-> pinged \ read, seen |-> seen \cup read]

Verdict(h, i) ==
    /\ Decidable(i) /\ Room(1)
    /\ LET d == Decided(h, i)
       IN thread' = d.thread /\ sub' = d.sub /\ unseen' = d.unseen /\ seen' = d.seen
    /\ UNCHANGED <<assignee, claimant, focusAway, gestures>>

\* The close that follows, told afterwards to everyone but those in except.
ClosedAfter(d, h, except) ==
    LET c == Len(d.thread) + 1
        t == SettledByClose(Append(d.thread, Posted(h, "closed", 1)), c)
        stale == StaleAtClose(d.thread, c)
        left == WithoutMessages(d.unseen, stale)
        read == PrunedByPost(t, h, c, left)
    IN /\ thread' = t /\ sub' = d.sub
       /\ unseen' = (left \ read) \cup Ping(FanOut(t, c, d.sub, except), c)
       /\ seen' = read
       /\ claimant' = Nobody

\* Variant: the close is told to the proposer as well.
AcceptTellingTwice(h, i) ==
    /\ Decidable(i) /\ thread[i].asks = "resolution" /\ Room(2)
    /\ ClosedAfter(Decided(h, i), h, {})
    /\ UNCHANGED <<assignee, focusAway, gestures>>

\* Variant: the close is told to nobody.
AcceptUntold(h, i) ==
    /\ Decidable(i) /\ thread[i].asks = "resolution" /\ Room(2)
    /\ ClosedAfter(Decided(h, i), h, Consumers)
    /\ UNCHANGED <<assignee, focusAway, gestures>>

AcceptResolution(h, i) ==
    /\ Decidable(i) /\ thread[i].asks = "resolution" /\ Room(2)
    /\ ClosedAfter(Decided(h, i), h, {thread[i].by})
    /\ UNCHANGED <<assignee, focusAway, gestures>>

\* message.accept_and_close, on a message in moderation: its approval is told,
\* the close is not; a caller who may not close leaves the approval.
AcceptAndClose(h, i) ==
    /\ i > 1 /\ thread[i].status = "pending" /\ thread[1].status = "approved"
    /\ Room(1)
    /\ LET now == Approved(thread, i)
           told == Ping(AtApproval(now, i, sub) \cup NotifyDecision(now, i, h), i)
           d == [thread |-> now, sub |-> [sub EXCEPT ![h] = "follows"], unseen |-> unseen \cup told, seen |-> seen]
       IN IF h \in Humans \/ h = thread[1].by
          THEN ClosedAfter(d, h, Consumers)
          ELSE /\ thread' = now /\ unseen' = d.unseen
               /\ UNCHANGED <<sub, claimant, seen>>
    /\ UNCHANGED <<assignee, focusAway, gestures>>


\* message.vote: a thumb up pings the comment's author.
Vote(c, i) ==
    /\ Gesture
    /\ thread[i].kind = "comment" /\ thread[i].by # c
    /\ unseen' = unseen \cup Ping({thread[i].by}, i)
    /\ UNCHANGED <<thread, sub, assignee, claimant, seen, focusAway>>

-----------------------------------------------------------------------------
(* Following, and the marks of the read state.                             *)

Subscribe(c, state) ==
    /\ Gesture
    /\ thread # <<>> /\ sub[c] # state
    /\ sub' = [sub EXCEPT ![c] = state]
    /\ UNCHANGED <<thread, assignee, claimant, unseen, seen, focusAway>>

\* markMessageSeen, markTicketSeen, markAllSeen, markSeenUpTo, markPingsRead.
MarkSeen(c, upTo) ==
    /\ Gesture
    /\ LET read == {p \in OfConsumer(unseen, c) : p[2] <= upTo}
       IN /\ read # {}
          /\ unseen' = unseen \ read /\ seen' = seen \cup read
    /\ UNCHANGED <<thread, sub, assignee, claimant, focusAway>>

\* clearSeenForMessage: a person puts a message back before everyone.
Resurface(i) ==
    /\ Gesture
    /\ OfMessage(seen, i) # {}
    /\ unseen' = unseen \cup OfMessage(seen, i) /\ seen' = seen \ OfMessage(seen, i)
    /\ UNCHANGED <<thread, sub, assignee, claimant, focusAway>>

MarkTicketUnseen(c) ==
    /\ Gesture
    /\ OfConsumer(seen, c) # {}
    /\ unseen' = unseen \cup OfConsumer(seen, c) /\ seen' = seen \ OfConsumer(seen, c)
    /\ UNCHANGED <<thread, sub, assignee, claimant, focusAway>>

SetFocus ==
    /\ Gesture
    /\ focusAway' = ~focusAway
    /\ UNCHANGED <<thread, sub, assignee, claimant, unseen, seen>>

-----------------------------------------------------------------------------
(* What a consumer reads of it (backlog-rules.ts), and the loop's wake.    *)

SelfAuthored(c, i) == thread[i].by = c

NamesMe(c) == \E i \in DOMAIN thread :
    c \in thread[i].names /\ (thread[i].kind = "ticket" \/ thread[i].status = "approved")

IsMine(c) == NamesMe(c) \/ sub[c] # "none"

OutsideFocus(c) == focusAway /\ c \in Agents \cap Owners

\* The pings of the unread list and of its count.
UnreadList(c) ==
    {i \in DOMAIN thread : <<c, i>> \in unseen /\ ~SelfAuthored(c, i) /\ ~OutsideFocus(c)}

\* The wake FIFO: claims are not among its reasons, the daemon never hands
\* them to the rules here.
WakeList(c) ==
    {i \in UnreadList(c) :
        /\ assignee \in {c, Nobody} \/ IsMine(c)
        /\ thread[1].status = "pending" => i > 1 /\ thread[i].by \in Humans}

\* What it may read and never wakes it.
FyiList(c) == IF thread = <<>> \/ thread[1].status = "pending" THEN {} ELSE UnreadList(c) \ WakeList(c)

\* The loop's wake: the events of a ticket go in one, with the others it may read.
AckWake(a) ==
    /\ WakeList(a) # {}
    /\ LET read == {p \in OfConsumer(unseen, a) : p[2] \in WakeList(a) \cup FyiList(a)}
       IN unseen' = unseen \ read /\ seen' = seen \cup read
    /\ UNCHANGED <<thread, sub, assignee, claimant, focusAway, gestures>>

Next ==
    \/ \E c \in Consumers :
        \/ \E kind \in {"closed", "reopened"} : Lifecycle(c, kind)
        \/ \E scope \in Scopes, names \in Mentions :
            \/ \E to \in Owners \cup {Nobody} : FileTicket(c, scope, names, to)
            \/ \E keeps \in BOOLEAN, asks \in Proposals \cup {"nothing"} :
                Comment(c, scope, names, keeps, asks)
    \/ \E i \in DOMAIN thread :
        \/ \E h \in Humans : Approve(h, i) \/ Reject(h, i) \/ Verdict(h, i) \/ AcceptResolution(h, i)
        \/ \E c \in Consumers : AcceptAndClose(c, i) \/ Vote(c, i)
        \/ Resurface(i)
    \/ \E c \in Consumers :
        \/ \E state \in {"none", "follows", "muted"} : Subscribe(c, state)
        \/ \E upTo \in DOMAIN thread : MarkSeen(c, upTo)
        \/ MarkTicketUnseen(c)
    \/ SetFocus
    \/ \E a \in Agents : AckWake(a)

Spec == Init /\ [][Next]_vars

-----------------------------------------------------------------------------
Messages ==
    [kind : Kinds, by : Consumers, scope : {"internal", "default", "broadcast"}, names : SUBSET Consumers,
     keeps : BOOLEAN, asks : {"nothing", "plan", "resolution", "decided"}, about : Nat,
     status : {"pending", "approved", "rejected"}]

TypeOK ==
    /\ thread \in Seq(Messages)
    /\ sub \in [Consumers -> {"none", "follows", "muted"}]
    /\ assignee \in Consumers \cup {Nobody} /\ claimant \in Consumers \cup {Nobody}
    /\ unseen \subseteq Consumers \X (DOMAIN thread) /\ seen \subseteq Consumers \X (DOMAIN thread)
    /\ unseen \cap seen = {}
    /\ focusAway \in BOOLEAN
    /\ gestures \in Nat

(* notifications.ts: a message in moderation is for people alone (and its   *)
(* own author, when someone votes or decides on it): no agent hears of what *)
(* may yet be refused, by the fan-out, by a mention, as assignee or by the  *)
(* loop; and of a rejected message, nobody but its author hears.            *)
QuietUntilApproved == \A p \in unseen \cup seen :
    /\ thread[p[2]].status = "pending" => p[1] \in Humans \cup {thread[p[2]].by}
    /\ thread[p[2]].status = "rejected" => p[1] = thread[p[2]].by

NewPings(a) == {i \in DOMAIN thread' : <<a, i>> \in unseen' \ (unseen \cup seen)}

(* One gesture, one wake (messages.ts:881): whatever the daemon emits for   *)
(* one call - a verdict, the close that rides on it, the approval before a  *)
(* close - an agent's wake list gains one event of the ticket at most.      *)
OneWakePerGesture ==
    [][\A a \in Agents : Cardinality(NewPings(a) \cap WakeList(a)') <= 1]_vars

(* And nobody is left out (bus/methods/message.ts:747): when an accepted    *)
(* resolution closes the ticket, every agent that follows it has one of the *)
(* two events to read, the proposer the verdict and the others the close.   *)
CloseReachesEachOnce ==
    [][Len(thread') = Len(thread) + 2
       => \A a \in Agents \ OffLevel :
            sub[a] = "follows" => Cardinality(NewPings(a) \cap {Len(thread') - 1, Len(thread')}) = 1]_vars

(* A close clears what was read: of what an agent has not read yet, nothing *)
(* goes away but with the message itself, refused.                          *)
UnreadOutlivesTheClose ==
    [][\A p \in unseen :
        p[1] \in Agents /\ p \notin unseen' \cup seen' => thread'[p[2]].status = "rejected"]_vars

(* #1323: an author's second message marks read what came before its        *)
(* previous one: what was posted after that is still to be read.            *)
ReplyKeepsWhatCameMeanwhile ==
    [][\A c \in Consumers :
        /\ Len(thread') = Len(thread) + 1 /\ thread'[Len(thread')].by = c
        /\ LastAuthored(thread, c, Len(thread) + 1) > 0
        => \A p \in OfConsumer(unseen, c) :
            p[2] > LastAuthored(thread, c, Len(thread) + 1) => p \in unseen' \/ p \notin seen']_vars

=============================================================================
