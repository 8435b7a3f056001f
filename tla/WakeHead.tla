------------------------------ MODULE WakeHead -------------------------------
(***************************************************************************)
(* What a wake says, and what it marks read: the kernel takes the oldest   *)
(* unread event of its agent, folds into its wake what goes with it, or    *)
(* renders the comment a ping just announced instead, and acknowledges by  *)
(* id as the phrase is about to be typed.  The queue moves meanwhile:      *)
(* events land, the agent reads some by itself, a ticket is assigned to    *)
(* another agent, a decision is settled, an acknowledgement is lost, the   *)
(* phrase is refused.                                                      *)
(*                                                                         *)
(* Events are numbered in the order they land, and a phrase stands for the *)
(* events it renders.  When a wake may go (turns, gates, tempo) is         *)
(* WakeLoop's; here a drain may start whenever none is under way.          *)
(***************************************************************************)
EXTENDS Naturals, Sequences, FiniteSets

CONSTANTS
    Tickets, None,
    Window,         \* WAKE_BUNDLE_FETCH_LIMIT
    MaxEvents,      \* bound on the events that land
    Cases           \* the bounds of a behaviour, one of these: the shapes of the events that
                    \* land (ticket, kind, what it says, cause), how many land, how many
                    \* assignments move, how many panics wait for their wake, how many
                    \* events the wakes the proxy refuses may carry

PureClosure == {"resolution_accepted", "wontfix_accepted", "ticket_closed", "related_closed"}
Cascade == {"related_closed", "dependency_closed", "dependency_rejected"}
Lifecycle == {"ticket_closed", "ticket_reopened"}
Decision == {"plan_accepted", "plan_rejected", "resolution_accepted", "wontfix_accepted"}
Kinds == PureClosure \cup Cascade \cup Lifecycle \cup Decision
            \cup {"ticket_created", "comment_added", "ticket_sub_added"}

\* A row says what its body says, or only carries a decision still pending, or nothing.
Says == {"body", "pending", "nothing"}
Event == [ticket : Tickets, kind : Kinds, says : Says, cause : Tickets \cup {None}]

ASSUME WakeHeadParameters ==
    /\ None \notin Tickets
    /\ None \notin Nat
    /\ Window \in Nat \ {0}
    /\ MaxEvents \in Nat
    /\ \A c \in Cases :
        /\ c.shapes \subseteq Event
        /\ c.events \in 0..MaxEvents /\ c.moves \in Nat /\ c.alarms \in Nat /\ c.drops \in Nat

VARIABLES
    bound,      \* the case of this behaviour
    feed,       \* the events, in the order they landed
    unread,     \* those whose ping is unseen
    away,       \* tickets assigned to another agent: their events do not wake
    moves,
    fresh,      \* plan accepts younger than their grace
    heard,      \* the last event whose ping the kernel heard
    hint,       \* pendingWakeHint
    alarms,     \* panics heard, not yet answered by a wake
    phase,      \* the drain: idle, composed
    wake,       \* the wake under way
    told,       \* history: events a typed wake rendered, or the agent read by itself
    dropped,    \* history: events acknowledged for a wake that was not typed
    followed    \* history: accepts, with what landed on their ticket in their grace

boardVars == <<bound, feed, away, moves, fresh, followed>>
loopVars == <<hint, heard, alarms, phase, wake>>
historyVars == <<told, dropped>>
vars == <<boardVars, unread, loopVars, historyVars>>

Landed == 1..Len(feed)
TicketOf(e) == feed[e].ticket
KindOf(e) == feed[e].kind

NoWake == [now |-> FALSE, win |-> {}, on |-> None, ack |-> None, extras |-> {}, lines |-> {},
           content |-> FALSE]

Init ==
    /\ bound \in Cases
    /\ feed = <<>> /\ unread = {} /\ away = {} /\ moves = 0 /\ fresh = {} /\ heard = 0
    /\ hint = None /\ alarms = {} /\ phase = "idle" /\ wake = NoWake
    /\ told = {} /\ dropped = {} /\ followed = {}

\* The fifo-wake list, and what may be read but wakes nobody.
Waking == {e \in unread : TicketOf(e) \notin away}
Fyi == unread \ Waking

-----------------------------------------------------------------------------
(* The board.                                                              *)

Land(s) ==
    LET e == Len(feed) + 1
    IN  /\ e <= bound.events
        /\ s.cause \in {None} \cup {TicketOf(d) : d \in Landed}
        /\ feed' = Append(feed, s)
        /\ unread' = unread \cup {e}
        /\ fresh' = IF s.kind = "plan_accepted" THEN fresh \cup {e} ELSE fresh
        /\ followed' = followed \cup {<<a, e>> : a \in {f \in fresh : TicketOf(f) = s.ticket}}
        /\ UNCHANGED <<bound, away, moves, loopVars, historyVars>>

\* The accept's grace runs out.
GraceEnds(e) ==
    /\ e \in fresh
    /\ fresh' = fresh \ {e}
    /\ UNCHANGED <<bound, feed, unread, away, moves, followed, historyVars, loopVars>>

\* Its author's proposal is accepted, rejected or withdrawn: the row keeps its empty body.
Settle(e) ==
    /\ feed[e].says = "pending"
    /\ feed' = [feed EXCEPT ![e].says = "nothing"]
    /\ UNCHANGED <<bound, unread, away, moves, fresh, followed, historyVars, loopVars>>

\* The ticket is assigned to another agent, or no longer.
AssignmentMoves(t) ==
    /\ moves < bound.moves
    /\ moves' = moves + 1
    /\ away' = IF t \in away THEN away \ {t} ELSE away \cup {t}
    /\ UNCHANGED <<bound, feed, unread, fresh, followed, historyVars, loopVars>>

\* The agent reads the event in the thread, or a human clears it for it.
Consult(e) ==
    /\ e \in unread
    /\ unread' = unread \ {e}
    /\ told' = told \cup {e}
    /\ UNCHANGED <<boardVars, loopVars, dropped>>

-----------------------------------------------------------------------------
(* What a wake renders.                                                    *)

HeadOf(s) == CHOOSE e \in s : \A d \in s : e <= d
WindowOf(fifo) == {e \in fifo : Cardinality({d \in fifo : d < e}) < Window}

\* A comment of which there is nothing to show, unless it is folded with another event.
Bare(e) == KindOf(e) = "comment_added" /\ feed[e].says = "nothing"

\* The events of the head's ticket, the closures when it is one, and their cascades.
Folded(win) ==
    LET h == HeadOf(win)
        run == KindOf(h) \in PureClosure
        closures == {e \in win : run /\ KindOf(e) \in PureClosure}
        causes == {TicketOf(e) : e \in {h} \cup closures}
    IN  {e \in win : TicketOf(e) = TicketOf(h)} \cup closures
            \cup {e \in win : KindOf(e) \in Cascade /\ feed[e].cause \in causes}

\* Variant: every event with no text of its own is muted, not only the bare comment.
HeadLinesMuting(win) ==
    IF win = {} \/ (Folded(win) = {HeadOf(win)} /\ feed[HeadOf(win)].says = "nothing")
    THEN {} ELSE Folded(win)

HeadLines(win) ==
    IF win = {} \/ (Folded(win) = {HeadOf(win)} /\ Bare(HeadOf(win))) THEN {} ELSE Folded(win)

\* The hinted comment has a text, and takes the place of a head with no branch of its own.
Anchors(h, win) ==
    /\ h # None
    /\ feed[h].says = "body"
    /\ KindOf(h) \notin Decision \cup Lifecycle \cup {"ticket_created"}
    /\ \/ HeadLines(win) = {}
       \/ /\ Cardinality(Folded(win)) >= 2
          /\ TicketOf(HeadOf(win)) # TicketOf(h)
          /\ KindOf(HeadOf(win)) # "ticket_created"

\* Variant: the wake anchors on the hint, and acknowledges the head of the queue.
RenderedAckingTheHead(d, fifo) ==
    LET win == WindowOf(fifo)
        wake0 == [NoWake EXCEPT !.now = d.now, !.win = win]
        wake1 == IF win = {} THEN wake0 ELSE [wake0 EXCEPT !.ack = HeadOf(win)]
    IN  IF Anchors(d.hint, win)
        THEN [wake1 EXCEPT !.on = TicketOf(d.hint), !.lines = {d.hint}]
        ELSE IF win = {} THEN wake1
        ELSE [wake1 EXCEPT !.on = TicketOf(HeadOf(win)), !.lines = HeadLines(win),
                           !.extras = Folded(win) \ {HeadOf(win)}]

\* Variant: the hint brings its text, and the head keeps its number.
RenderedGlued(d, fifo) ==
    LET win == WindowOf(fifo)
        wake0 == [NoWake EXCEPT !.now = d.now, !.win = win]
    IN  IF Anchors(d.hint, win)
        THEN [wake0 EXCEPT !.on = TicketOf(IF win = {} THEN d.hint ELSE HeadOf(win)),
                           !.lines = {d.hint}, !.ack = d.hint]
        ELSE IF win = {} THEN wake0
        ELSE [wake0 EXCEPT !.on = TicketOf(HeadOf(win)), !.lines = HeadLines(win),
                           !.ack = HeadOf(win), !.extras = Folded(win) \ {HeadOf(win)}]

\* buildContextPhrase: on a drain's hint, or on the head of the queue.
Rendered(d, fifo) ==
    LET win == WindowOf(fifo)
        wake0 == [NoWake EXCEPT !.now = d.now, !.win = win]
    IN  IF Anchors(d.hint, win)
        THEN [wake0 EXCEPT !.on = TicketOf(d.hint), !.lines = {d.hint}, !.ack = d.hint]
        ELSE IF win = {} THEN wake0
        ELSE [wake0 EXCEPT !.on = TicketOf(HeadOf(win)), !.lines = HeadLines(win),
                           !.ack = HeadOf(win), !.extras = Folded(win) \ {HeadOf(win)}]

\* Variant: a drain that has a hint does not wait.
HeldWithoutHint(d, fifo) ==
    ~d.now /\ d.hint = None /\ fifo # {} /\ HeadOf(fifo) \in fresh

\* A fresh plan accept at the head waits out its grace, unless the wake was asked for.
Held(d, fifo) == ~d.now /\ fifo # {} /\ HeadOf(fifo) \in fresh

-----------------------------------------------------------------------------
(* The kernel.                                                             *)

\* A ping is heard on the stream, which keeps their order and has no replay; its comment is
\* fetched and the hint recorded, at any point of a drain.  A panic asks for its wake now.
HearPing(e, panic) ==
    /\ e > heard
    /\ TicketOf(e) \notin away      \* the daemon says it wakes
    /\ heard' = e
    /\ panic => Cardinality(alarms) < bound.alarms
    /\ IF panic THEN alarms' = alarms \cup {e} /\ hint' = hint
                ELSE hint' = e /\ alarms' = alarms
    /\ UNCHANGED <<boardVars, unread, phase, wake, historyVars>>

\* The tempo's drain takes the pending hint.  A wake for now leaves it, and has no hint when
\* asked for by hand, its own event's when a ping raised it as a panic.
Drain == [hint |-> hint, now |-> FALSE]
Now(e) == [hint |-> e, now |-> TRUE]

Taken(d) ==
    /\ hint' = IF d.now THEN hint ELSE None
    /\ alarms' = IF d.now THEN alarms \ {d.hint} ELSE alarms

\* The pings are counted and the queue is read by calls sent together.
Skip(d) ==
    /\ phase = "idle"
    /\ Held(d, Waking) \/ Rendered(d, Waking).lines = {}
    /\ Taken(d)
    /\ UNCHANGED <<boardVars, unread, heard, phase, wake, historyVars>>

\* Without an event to render there may be the backlog's head, when no ping is counted, or
\* only a gate's banner (for a wake for now, the standing prompt): the id of the queue's
\* head is acknowledged all the same.
Compose(d, backlog, banner) ==
    /\ phase = "idle"
    /\ ~Held(d, Waking)
    /\ backlog => Waking = {} /\ d.hint = None
    /\ LET r == Rendered(d, Waking)
           content == r.lines # {} \/ backlog
       IN  /\ content \/ banner
           /\ wake' = [r EXCEPT !.content = content]
    /\ phase' = "composed"
    /\ Taken(d)
    /\ UNCHANGED <<boardVars, unread, heard, historyVars>>

\* Variant: the wake is not dropped.
AnnounceHalfReset(fyi, lost) ==
    /\ phase = "composed"
    /\ fyi = {} \/ (wake.content /\ fyi = Fyi \ wake.win)
    /\ phase' = "idle" /\ hint' = None
    /\ LET seen == ({wake.ack} \ {None}) \cup wake.extras \cup fyi
       IN  /\ lost \subseteq seen
           /\ unread' = unread \ (seen \ lost)
    /\ UNCHANGED <<boardVars, heard, alarms, wake>>

\* What may be read but wakes nobody rides along, if its own read answers.  The turn opens,
\* dropping a hint heard meanwhile, and the wake is announced before its phrase is typed:
\* each id is sent to markMessageSeen and forgotten, some acknowledgements are lost.
Announce(fyi, lost) ==
    /\ phase = "composed"
    /\ fyi = {} \/ (wake.content /\ fyi = Fyi \ wake.win)
    /\ phase' = "idle" /\ wake' = NoWake /\ hint' = None
    /\ LET seen == ({wake.ack} \ {None}) \cup wake.extras \cup fyi
       IN  /\ lost \subseteq seen
           /\ unread' = unread \ (seen \ lost)
    /\ UNCHANGED <<boardVars, heard, alarms>>

Type(fyi, lost) ==
    /\ Announce(fyi, lost)
    /\ told' = told \cup wake.lines \cup fyi
    /\ UNCHANGED dropped

\* The proxy refuses the phrase: what was acknowledged stays so ("le ping reste consommé").
InjectFails(fyi, lost) ==
    /\ Announce(fyi, lost)
    /\ dropped' = dropped \cup wake.lines \cup fyi
    /\ Cardinality(dropped') <= bound.drops
    /\ UNCHANGED told

-----------------------------------------------------------------------------

Next ==
    \/ \E s \in bound.shapes : Land(s)
    \/ \E e \in Landed : GraceEnds(e) \/ Settle(e) \/ Consult(e)
    \/ \E t \in Tickets : AssignmentMoves(t)
    \/ \E e \in Landed, panic \in BOOLEAN : HearPing(e, panic)
    \/ \E d \in {Drain} \cup {Now(e) : e \in {None} \cup alarms} :
        Skip(d) \/ \E backlog, banner \in BOOLEAN : Compose(d, backlog, banner)
    \/ \E fyi \in {{}, Fyi \ wake.win}, lost \in SUBSET Landed :
        Type(fyi, lost) \/ InjectFails(fyi, lost)

Spec == Init /\ [][Next]_vars

(* The tempo drains again and again, the proxy and the daemon are reached  *)
(* now and then, and a grace ends by the clock.                            *)
Fairness ==
    /\ WF_vars(Skip(Drain) \/ Compose(Drain, FALSE, FALSE))
    /\ SF_vars(Type({}, {}))
    /\ WF_vars(\E e \in Landed : GraceEnds(e))

FairSpec == Spec /\ Fairness

-----------------------------------------------------------------------------
(* Properties.                                                             *)

(* Acknowledgements, hints and wakes name events that landed, and a wake   *)
(* exists only between the count and the keys (the context phrase's own    *)
(* result type, ContextPhraseResult).                                      *)
TypeOK ==
    /\ bound \in Cases
    /\ feed \in Seq(Event) /\ Len(feed) <= bound.events
    /\ unread \subseteq Landed /\ fresh \subseteq Landed /\ heard \in 0..Len(feed)
    /\ told \subseteq Landed /\ dropped \subseteq Landed
    /\ away \subseteq Tickets /\ moves \in 0..bound.moves
    /\ followed \subseteq Landed \X Landed
    /\ hint \in Landed \cup {None} /\ alarms \subseteq Landed
    /\ phase \in {"idle", "composed"}
    /\ wake \in [now : BOOLEAN, win : SUBSET Landed, on : Tickets \cup {None},
                 ack : Landed \cup {None}, extras : SUBSET Landed, lines : SUBSET Landed,
                 content : BOOLEAN]
    /\ phase = "idle" => wake = NoWake

(* An event leaves the unread queue only because the agent read it, or a   *)
(* wake rendered it, typed or refused by the proxy, whatever hint took the *)
(* head's place and whatever moved between the reads and the keys; a       *)
(* comment with nothing in it is the exception (state.ts, "we must ack     *)
(* what we RENDER").                                                       *)
ReadMeansRendered ==
    \A e \in Landed \ unread : e \in told \cup dropped \/ Bare(e)

(* What a wake renders under a ticket's number is that ticket's, or the    *)
(* news of closures and of their cascades: a comment of one ticket is      *)
(* never shown under another's number (state.ts, the "artificial glue").   *)
OneTicketPerWake ==
    \A e \in wake.lines :
        TicketOf(e) = wake.on \/ KindOf(e) \in PureClosure \cup Cascade

(* The comment typed right after a plan's accept, in its grace, is in the  *)
(* wake that brings the accept and not in the one after it, unless the     *)
(* wake was asked for by hand or the window of thirty events is full       *)
(* before it (acceptGraceHoldUntil).                                       *)
FollowUpRidesAlong ==
    \A p \in followed :
        ~wake.now /\ wake.ack = p[1] /\ p[2] \in Waking =>
            \/ p[2] \in wake.lines
            \/ p[2] \notin wake.win /\ Cardinality(wake.win) = Window

(* Every event that wakes its agent is rendered, read by the agent,        *)
(* another's to read or lost with a wake the proxy refused in the end,     *)
(* behind whatever hints, holds, lost acknowledgements and closures, as    *)
(* long as no bare comment stands in the queue (the kernel's FIFO drain).  *)
EveryEventIsTold ==
    \A e \in 1..MaxEvents :
        (e \in Landed /\ e \in Waking) ~>
            (e \notin Waking \/ e \in told \/ \E b \in Landed : Bare(b))

-----------------------------------------------------------------------------
(* What the repository says of the queue's head, and the code does not do. *)

(* "Muting them instead would starve the queue": what stands at the head   *)
(* of the queue is rendered, whatever it has to say, so that nothing waits *)
(* behind it for ever (headTextFor).                                       *)
NothingStarves ==
    \A e \in 1..MaxEvents :
        (e \in Landed /\ e \in Waking /\ feed[e].says = "body") ~>
            (e \notin Waking \/ e \in told)
=============================================================================
