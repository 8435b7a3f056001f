--------------------------- MODULE WakeHeadProofs ---------------------------
(***************************************************************************)
(* What a wake marks read, and under which number it renders it, for any   *)
(* tickets, events and window.  The queue is a set of numbers: its head    *)
(* exists because they are naturals, and its window leaves an event out    *)
(* only when it is full.                                                   *)
(***************************************************************************)
EXTENDS WakeHead, WellFoundedInduction, FiniteSetTheorems, TLAPS

-----------------------------------------------------------------------------
(* The head of a queue, and what is folded with it.                        *)

LEMMA HeadIsInTheQueue ==
    ASSUME NEW s \in SUBSET Nat, s # {}
    PROVE  HeadOf(s) \in s /\ \A e \in s : HeadOf(s) <= e
<1> DEFINE below == OpToRel(<, Nat)
<1>1. \E x \in s : \A y \in s : ~(<<y, x>> \in below)
  BY NatLessThanWellFounded, WFMin
<1>2. ASSUME NEW x \in Nat, NEW y \in Nat, y < x PROVE <<y, x>> \in below
  <2>1. <<y, x>> \in Nat \X Nat
    OBVIOUS
  <2>2. <<y, x>>[1] < <<y, x>>[2]
    BY <1>2
  <2> QED
    BY <2>1, <2>2 DEF OpToRel
<1> HIDE DEF below
<1>3. \E x \in s : \A y \in s : x <= y
  <2>1. PICK x \in s : \A y \in s : ~(<<y, x>> \in below)
    BY <1>1
  <2>2. ASSUME NEW y \in s PROVE x <= y
    <3>1. x \in Nat /\ y \in Nat /\ ~(y < x)
      BY <2>1, <1>2
    <3> QED
      BY <3>1
  <2> QED
    BY <2>1, <2>2
<1> QED
  BY <1>3 DEF HeadOf

\* What is folded is in the window, with its head.
LEMMA FoldedIsOfTheWindow ==
    ASSUME NEW win \in SUBSET Landed, win # {}
    PROVE  /\ HeadOf(win) \in win
           /\ HeadOf(win) \in Folded(win)
           /\ Folded(win) \subseteq win
<1>1. win \in SUBSET Nat
  BY DEF Landed
<1>2. HeadOf(win) \in win
  BY <1>1, HeadIsInTheQueue
<1> QED
  BY <1>2 DEF Folded

\* What is folded under the head's number is its ticket's, or the news of closures.
LEMMA FoldedIsOfOneTicket ==
    ASSUME NEW win \in SUBSET Landed, NEW e \in Folded(win)
    PROVE  TicketOf(e) = TicketOf(HeadOf(win)) \/ KindOf(e) \in PureClosure \cup Cascade
  BY DEF Folded

-----------------------------------------------------------------------------
(* What a wake acknowledges it renders, and a head it mutes is bare.       *)

Acks(w) == w.ack # None => w.ack \in w.lines \/ Bare(w.ack)
Extras(w) == w.extras \subseteq w.lines
OneTicket(w) ==
    \A e \in w.lines : TicketOf(e) = w.on \/ KindOf(e) \in PureClosure \cup Cascade
Sound(w) == Acks(w) /\ Extras(w) /\ OneTicket(w)

Wakes == [now : BOOLEAN, win : SUBSET Landed, on : Tickets \cup {None},
          ack : Landed \cup {None}, extras : SUBSET Landed, lines : SUBSET Landed,
          content : BOOLEAN]

LEMMA RenderedIsSound ==
    ASSUME feed \in Seq(Event), NEW fifo \in SUBSET Landed,
           NEW h \in Landed \cup {None}, NEW now \in BOOLEAN,
           NEW d, d = [hint |-> h, now |-> now]
    PROVE  Rendered(d, fifo) \in Wakes /\ Sound(Rendered(d, fifo))
<1> DEFINE win == WindowOf(fifo)
           r == Rendered(d, fifo)
<1>1. win \in SUBSET Landed
  BY DEF WindowOf
<1>2. ASSUME NEW e \in Landed PROVE TicketOf(e) \in Tickets
  <2>1. feed[e] \in Event
    BY DEF Landed
  <2> QED
    BY <2>1 DEF TicketOf, Event
<1>3. None \notin Landed
  BY WakeHeadParameters DEF Landed
<1>4. CASE Anchors(h, win)
  <2>1. r = [now |-> now, win |-> win, on |-> TicketOf(h), ack |-> h, extras |-> {},
             lines |-> {h}, content |-> FALSE]
    BY <1>4 DEF Rendered, NoWake
  <2>2. h \in Landed
    BY <1>4 DEF Anchors
  <2> HIDE DEF r, win
  <2>3. r \in Wakes
    BY <2>1, <2>2, <1>1, <1>2 DEF Wakes
  <2>4. Sound(r)
    BY <2>1 DEF Sound, Acks, Extras, OneTicket
  <2> QED
    BY <2>3, <2>4 DEF r
<1>5. CASE ~Anchors(h, win) /\ win = {}
  <2>1. r = [now |-> now, win |-> win, on |-> None, ack |-> None, extras |-> {},
             lines |-> {}, content |-> FALSE]
    BY <1>5 DEF Rendered, NoWake
  <2> HIDE DEF r, win
  <2>2. r \in Wakes
    BY <2>1, <1>1 DEF Wakes
  <2>3. Sound(r)
    BY <2>1 DEF Sound, Acks, Extras, OneTicket
  <2> QED
    BY <2>2, <2>3 DEF r
<1>6. CASE ~Anchors(h, win) /\ win # {}
  <2>1. r = [now |-> now, win |-> win, on |-> TicketOf(HeadOf(win)), ack |-> HeadOf(win),
             extras |-> Folded(win) \ {HeadOf(win)}, lines |-> HeadLines(win),
             content |-> FALSE]
    BY <1>6 DEF Rendered, NoWake
  <2>2. /\ HeadOf(win) \in win
        /\ HeadOf(win) \in Folded(win)
        /\ Folded(win) \subseteq win
    BY <1>1, <1>6, FoldedIsOfTheWindow
  <2>3. /\ HeadLines(win) \subseteq Folded(win)
        /\ \/ HeadLines(win) = Folded(win)
           \/ Bare(HeadOf(win)) /\ Folded(win) = {HeadOf(win)}
    BY <1>6 DEF HeadLines
  <2>4. \A e \in Folded(win) :
            TicketOf(e) = TicketOf(HeadOf(win)) \/ KindOf(e) \in PureClosure \cup Cascade
    BY <1>1, FoldedIsOfOneTicket
  <2> HIDE DEF r, win
  <2>5. r \in Wakes
    BY <2>1, <2>2, <2>3, <1>1, <1>2 DEF Wakes
  <2>6. Acks(r)
    BY <2>1, <2>2, <2>3 DEF Acks
  <2>7. Extras(r)
    BY <2>1, <2>3 DEF Extras
  <2>8. OneTicket(r)
    BY <2>1, <2>3, <2>4 DEF OneTicket
  <2> QED
    BY <2>5, <2>6, <2>7, <2>8 DEF r, Sound
<1> QED
  BY <1>4, <1>5, <1>6

-----------------------------------------------------------------------------
(* The board moves: what has landed keeps its ticket and its kind, and     *)
(* what is bare stays bare.                                                *)

Grows ==
    /\ Landed \subseteq Landed'
    /\ \A e \in Landed : TicketOf(e)' = TicketOf(e) /\ KindOf(e)' = KindOf(e)
    /\ \A e \in Landed : Bare(e) => Bare(e)'

LEMMA AppendGrows ==
    ASSUME feed \in Seq(Event), NEW s \in Event, feed' = Append(feed, s)
    PROVE  /\ feed' \in Seq(Event) /\ Len(feed') = Len(feed) + 1
           /\ Len(feed) + 1 \in Landed'
           /\ Grows
<1>1. /\ feed' \in Seq(Event) /\ Len(feed') = Len(feed) + 1 /\ Len(feed) \in Nat
      /\ \A e \in 1..Len(feed) : feed'[e] = feed[e]
  OBVIOUS
<1> QED
  BY <1>1 DEF Grows, Landed, TicketOf, KindOf, Bare

LEMMA SettleGrows ==
    ASSUME feed \in Seq(Event), NEW e \in Landed, Settle(e)
    PROVE  /\ feed' \in Seq(Event) /\ Len(feed') = Len(feed)
           /\ Grows
<1> DEFINE settled == [feed[e] EXCEPT !.says = "nothing"]
<1>1. feed[e] \in Event
  BY DEF Landed
<1>2. settled = [ticket |-> feed[e].ticket, kind |-> feed[e].kind, says |-> "nothing",
                 cause |-> feed[e].cause]
  BY <1>1 DEF Event
<1>3. settled \in Event /\ settled.ticket = feed[e].ticket
        /\ settled.kind = feed[e].kind /\ settled.says = "nothing"
  BY <1>1, <1>2 DEF Event, Says
<1>4. feed' = [feed EXCEPT ![e] = settled]
  BY DEF Settle
<1> HIDE DEF settled
<1>5. /\ feed' \in Seq(Event) /\ Len(feed') = Len(feed)
      /\ \A d \in 1..Len(feed) : feed'[d] = IF d = e THEN settled ELSE feed[d]
  BY <1>3, <1>4 DEF Landed
<1> QED
  BY <1>3, <1>5 DEF Grows, Landed, TicketOf, KindOf, Bare

-----------------------------------------------------------------------------
(* The invariant, and one lemma per action.                                *)

Inv == TypeOK /\ ReadMeansRendered /\ Sound(wake)

\* What the queue and the history keep of the events, in a larger feed too.
LEMMA GrownKeepsTypes ==
    ASSUME Inv, Grows, UNCHANGED <<away, moves, heard, hint, alarms, phase, wake, told, dropped,
                            bound>>,
           feed' \in Seq(Event), Len(feed') <= bound.events, Len(feed') \in Nat,
           Len(feed') >= Len(feed),
           unread' \subseteq Landed', fresh' \subseteq Landed',
           followed' \subseteq Landed' \X Landed'
    PROVE  TypeOK'
<1>1. Len(feed) \in Nat
  BY DEF Inv, TypeOK
<1>2. heard' \in 0..Len(feed')
  BY <1>1 DEF Inv, TypeOK
<1>3. /\ hint' \in Landed' \cup {None} /\ alarms' \subseteq Landed'
      /\ told' \subseteq Landed' /\ dropped' \subseteq Landed'
  BY DEF Inv, TypeOK, Grows
<1>4. wake' \in [now : BOOLEAN, win : SUBSET Landed', on : Tickets \cup {None},
                 ack : Landed' \cup {None}, extras : SUBSET Landed', lines : SUBSET Landed',
                 content : BOOLEAN]
  <2>1. wake \in [now : BOOLEAN, win : SUBSET Landed, on : Tickets \cup {None},
                  ack : Landed \cup {None}, extras : SUBSET Landed, lines : SUBSET Landed,
                  content : BOOLEAN]
    BY DEF Inv, TypeOK
  <2>2. Landed \subseteq Landed' /\ wake' = wake
    BY DEF Grows
  <2> HIDE DEF Landed
  <2> QED
    BY <2>1, <2>2
<1> QED
  BY <1>2, <1>3, <1>4 DEF Inv, TypeOK

LEMMA GrownKeepsSound ==
    ASSUME Inv, Grows, wake' = wake PROVE Sound(wake)'
<1>1. /\ wake.lines \subseteq Landed
      /\ wake.ack \in Landed \cup {None}
  BY DEF Inv, TypeOK
<1>2. Acks(wake)'
  BY <1>1 DEF Inv, Sound, Acks, Grows
<1>3. Extras(wake)'
  BY DEF Inv, Sound, Extras
<1>4. OneTicket(wake)'
  BY <1>1 DEF Inv, Sound, OneTicket, Grows
<1> QED
  BY <1>2, <1>3, <1>4 DEF Sound

LEMMA LandKeeps ==
    ASSUME Inv, NEW s \in bound.shapes, Land(s) PROVE Inv'
<1>1. s \in Event /\ Len(feed) \in Nat /\ bound' = bound
  BY WakeHeadParameters DEF Inv, TypeOK, Land
<1>2. /\ feed' \in Seq(Event) /\ Len(feed') = Len(feed) + 1
      /\ Len(feed) + 1 \in Landed'
      /\ Grows
  BY <1>1, AppendGrows DEF Inv, TypeOK, Land
<1>3. Landed \subseteq Landed'
  BY <1>2 DEF Grows
<1>4. unread' \subseteq Landed' /\ fresh' \subseteq Landed'
  BY <1>2, <1>3 DEF Inv, TypeOK, Land
<1>5. followed' \subseteq Landed' \X Landed'
  <2>1. fresh \subseteq Landed' /\ followed \subseteq Landed' \X Landed'
    BY <1>3 DEF Inv, TypeOK
  <2> HIDE DEF Landed
  <2>2. ASSUME NEW p \in followed' PROVE p \in Landed' \X Landed'
    BY <1>2, <2>1 DEF Land
  <2> QED
    BY <2>2
<1>6. UNCHANGED <<away, moves, heard, hint, alarms, phase, wake, told, dropped>>
  BY DEF Land, loopVars, historyVars
<1>7. Len(feed') <= bound.events
  BY <1>2 DEF Land
<1>8. TypeOK'
  BY <1>1, <1>2, <1>4, <1>5, <1>6, <1>7, GrownKeepsTypes
<1>9. ReadMeansRendered'
  <2>1. ASSUME NEW e \in Landed', e \notin unread' PROVE e \in told' \cup dropped' \/ Bare(e)'
    <3>1. e \in Landed /\ e \notin unread
      BY <1>1, <1>2, <2>1 DEF Land, Landed
    <3> QED
      BY <1>2, <1>6, <3>1 DEF Inv, ReadMeansRendered, Grows
  <2> QED
    BY <2>1 DEF ReadMeansRendered
<1> QED
  BY <1>2, <1>6, <1>8, <1>9, GrownKeepsSound DEF Inv

LEMMA SettleKeeps ==
    ASSUME Inv, NEW e \in Landed, Settle(e) PROVE Inv'
<1>1. Len(feed) \in Nat /\ feed \in Seq(Event) /\ Len(feed) <= bound.events
  BY DEF Inv, TypeOK
<1>2. /\ feed' \in Seq(Event) /\ Len(feed') = Len(feed)
      /\ Grows
  BY <1>1, SettleGrows
<1>3. Landed' = Landed
  BY <1>2 DEF Landed
<1>4. UNCHANGED <<bound, unread, fresh, followed, away, moves, heard, hint, alarms, phase,
                  wake, told, dropped>>
  BY DEF Settle, loopVars, historyVars
<1>5. /\ unread' \subseteq Landed' /\ fresh' \subseteq Landed'
      /\ followed' \subseteq Landed' \X Landed'
  BY <1>3, <1>4 DEF Inv, TypeOK
<1>6. TypeOK'
  BY <1>1, <1>2, <1>4, <1>5, GrownKeepsTypes
<1>7. ReadMeansRendered'
  BY <1>2, <1>3, <1>4 DEF Inv, ReadMeansRendered, Grows
<1> QED
  BY <1>2, <1>4, <1>6, <1>7, GrownKeepsSound DEF Inv

\* Where the feed does not move, what is bare is, and a sound wake is sound.
LEMMA SameFeed ==
    ASSUME feed' = feed
    PROVE  /\ Landed' = Landed
           /\ \A e : Bare(e)' = Bare(e)
           /\ Sound(wake') => Sound(wake)'
  BY DEF Landed, Sound, Acks, Extras, OneTicket, Bare, TicketOf, KindOf

LEMMA NoWakeIsSound == NoWake \in Wakes /\ Sound(NoWake)
<1>1. NoWake \in Wakes
  BY DEF NoWake, Wakes
<1>2. Sound(NoWake)
  BY DEF NoWake, Sound, Acks, Extras, OneTicket
<1> QED
  BY <1>1, <1>2

LEMMA GraceEndsKeeps ==
    ASSUME Inv, NEW e \in Landed, GraceEnds(e) PROVE Inv'
<1>1. /\ UNCHANGED <<bound, feed, unread, away, moves, followed, told, dropped>>
      /\ UNCHANGED <<hint, heard, alarms, phase, wake>>
      /\ fresh' \subseteq fresh
  BY DEF GraceEnds, loopVars, historyVars
<1>2. TypeOK'
  BY <1>1 DEF Inv, TypeOK, Landed
<1> QED
  BY <1>1, <1>2, SameFeed DEF Inv, ReadMeansRendered

LEMMA AssignmentMovesKeeps ==
    ASSUME Inv, NEW t \in Tickets, AssignmentMoves(t) PROVE Inv'
<1>1. /\ UNCHANGED <<bound, feed, unread, fresh, followed, told, dropped>>
      /\ UNCHANGED <<hint, heard, alarms, phase, wake>>
      /\ away' \subseteq Tickets
      /\ moves' = moves + 1 /\ moves < bound.moves
  BY DEF AssignmentMoves, loopVars, historyVars, Inv, TypeOK
<1>2. moves' \in 0..bound'.moves
  BY <1>1, WakeHeadParameters DEF Inv, TypeOK
<1>3. TypeOK'
  BY <1>1, <1>2 DEF Inv, TypeOK, Landed
<1> QED
  BY <1>1, <1>3, SameFeed DEF Inv, ReadMeansRendered

LEMMA ConsultKeeps ==
    ASSUME Inv, NEW e \in Landed, Consult(e) PROVE Inv'
<1>1. /\ UNCHANGED <<bound, feed, away, moves, fresh, followed, dropped>>
      /\ UNCHANGED <<hint, heard, alarms, phase, wake>>
      /\ unread' = unread \ {e} /\ told' = told \cup {e}
  BY DEF Consult, loopVars, boardVars
<1>2. TypeOK'
  BY <1>1 DEF Inv, TypeOK, Landed
<1>3. ReadMeansRendered'
  BY <1>1, SameFeed DEF Inv, ReadMeansRendered
<1> QED
  BY <1>1, <1>2, <1>3, SameFeed DEF Inv

LEMMA HearPingKeeps ==
    ASSUME Inv, NEW e \in Landed, NEW panic \in BOOLEAN, HearPing(e, panic) PROVE Inv'
<1>1. /\ UNCHANGED <<bound, feed, away, moves, fresh, followed, unread>>
      /\ UNCHANGED <<phase, wake, told, dropped>>
      /\ heard' = e
      /\ hint' \in {hint, e} /\ alarms' \in {alarms, alarms \cup {e}}
  BY DEF HearPing, boardVars, historyVars
<1>2. e \in 0..Len(feed)
  BY DEF Landed, Inv, TypeOK
<1>3. TypeOK'
  BY <1>1, <1>2 DEF Inv, TypeOK, Landed
<1> QED
  BY <1>1, <1>3, SameFeed DEF Inv, ReadMeansRendered

\* The tempo's drain, or a wake for now.
Drains == {Drain} \cup {Now(e) : e \in {None} \cup alarms}

LEMMA DrainsAreTyped ==
    ASSUME Inv, NEW d \in Drains
    PROVE  /\ d.hint \in Landed \cup {None} /\ d.now \in BOOLEAN
           /\ d = [hint |-> d.hint, now |-> d.now]
<1>1. d = Drain \/ \E e \in {None} \cup alarms : d = Now(e)
  BY DEF Drains
<1>2. hint \in Landed \cup {None} /\ alarms \subseteq Landed
  BY DEF Inv, TypeOK
<1>3. CASE d = Drain
  BY <1>2, <1>3 DEF Drain
<1>4. CASE \E e \in {None} \cup alarms : d = Now(e)
  BY <1>2, <1>4 DEF Now
<1> QED
  BY <1>1, <1>3, <1>4

LEMMA TakenIsTyped ==
    ASSUME Inv, NEW d \in Drains, Taken(d)
    PROVE  hint' \in Landed \cup {None} /\ alarms' \subseteq Landed
  BY DEF Taken, Inv, TypeOK

LEMMA SkipKeeps ==
    ASSUME Inv, NEW d \in Drains, Skip(d) PROVE Inv'
<1>1. /\ UNCHANGED <<bound, feed, away, moves, fresh, followed, unread>>
      /\ UNCHANGED <<heard, phase, wake, told, dropped>>
      /\ hint' \in Landed \cup {None} /\ alarms' \subseteq Landed
  BY TakenIsTyped DEF Skip, boardVars, historyVars
<1>2. TypeOK'
  BY <1>1 DEF Inv, TypeOK, Landed
<1> QED
  BY <1>1, <1>2, SameFeed DEF Inv, ReadMeansRendered

LEMMA ComposeKeeps ==
    ASSUME Inv, NEW d \in Drains, NEW backlog \in BOOLEAN, NEW banner \in BOOLEAN,
           Compose(d, backlog, banner)
    PROVE  Inv'
<1> DEFINE r == Rendered(d, Waking)
<1>1. /\ UNCHANGED <<bound, feed, away, moves, fresh, followed, unread>>
      /\ UNCHANGED <<heard, told, dropped>>
      /\ hint' \in Landed \cup {None} /\ alarms' \subseteq Landed
      /\ phase' = "composed"
  BY TakenIsTyped DEF Compose, boardVars, historyVars
<1>2. r \in Wakes /\ Sound(r)
  <2>1. Waking \in SUBSET Landed /\ feed \in Seq(Event)
    BY DEF Waking, Inv, TypeOK
  <2>2. /\ d.hint \in Landed \cup {None} /\ d.now \in BOOLEAN
        /\ d = [hint |-> d.hint, now |-> d.now]
    BY DrainsAreTyped
  <2> QED
    BY <2>1, <2>2, RenderedIsSound
<1>3. \E content \in BOOLEAN : wake' = [r EXCEPT !.content = content]
  BY DEF Compose
<1> HIDE DEF r
<1>4. wake' \in Wakes /\ Sound(wake')
  <2>1. PICK content \in BOOLEAN : wake' = [r EXCEPT !.content = content]
    BY <1>3
  <2>2. wake' = [now |-> r.now, win |-> r.win, on |-> r.on, ack |-> r.ack,
                 extras |-> r.extras, lines |-> r.lines, content |-> content]
    BY <1>2, <2>1 DEF Wakes
  <2>3. wake' \in Wakes
    BY <1>2, <2>2 DEF Wakes
  <2>4. Sound(wake')
    BY <1>2, <2>2 DEF Sound, Acks, Extras, OneTicket
  <2> QED
    BY <2>3, <2>4
<1>5. TypeOK'
  BY <1>1, <1>4 DEF Inv, TypeOK, Landed, Wakes
<1> QED
  BY <1>1, <1>4, <1>5, SameFeed DEF Inv, ReadMeansRendered

\* A wake typed or refused accounts for all it acknowledges, under one history or the other.
LEMMA AnnounceKeeps ==
    ASSUME Inv, NEW fyi \in {{}, Fyi \ wake.win}, NEW lost \in SUBSET Landed,
           Announce(fyi, lost),
           told' \cup dropped' = told \cup dropped \cup wake.lines \cup fyi
    PROVE  Inv'
<1>1. /\ UNCHANGED <<bound, feed, away, moves, fresh, followed>>
      /\ UNCHANGED <<heard>>
      /\ hint' = None /\ alarms' = alarms /\ phase' = "idle" /\ wake' = NoWake
      /\ unread' \subseteq unread
      /\ unread \ unread' \subseteq ({wake.ack} \ {None}) \cup wake.extras \cup fyi
  BY DEF Announce, boardVars
<1>2. told' \cup dropped' \subseteq Landed
  BY DEF Fyi, Inv, TypeOK
<1>3. Sound(wake') /\ NoWake \in Wakes
  BY <1>1, NoWakeIsSound
<1>4. TypeOK'
  BY <1>1, <1>2, <1>3 DEF Inv, TypeOK, Landed, Wakes
<1>5. ReadMeansRendered'
  <2>1. ASSUME NEW e \in Landed, e \notin unread'
        PROVE  e \in told' \cup dropped' \/ Bare(e)
    <3>1. CASE e \notin unread
      BY <3>1 DEF Inv, ReadMeansRendered
    <3>2. CASE e \in unread
      BY <1>1, <2>1, <3>2 DEF Inv, Sound, Acks, Extras
    <3> QED
      BY <3>1, <3>2
  <2> QED
    BY <1>1, <2>1, SameFeed DEF ReadMeansRendered
<1> QED
  BY <1>1, <1>3, <1>4, <1>5, SameFeed DEF Inv

LEMMA TypeKeeps ==
    ASSUME Inv, NEW fyi \in {{}, Fyi \ wake.win}, NEW lost \in SUBSET Landed, Type(fyi, lost)
    PROVE  Inv'
<1>1. Announce(fyi, lost) /\ told' \cup dropped' = told \cup dropped \cup wake.lines \cup fyi
  BY DEF Type
<1> QED
  BY <1>1, AnnounceKeeps

LEMMA InjectFailsKeeps ==
    ASSUME Inv, NEW fyi \in {{}, Fyi \ wake.win}, NEW lost \in SUBSET Landed,
           InjectFails(fyi, lost)
    PROVE  Inv'
<1>1. Announce(fyi, lost) /\ told' \cup dropped' = told \cup dropped \cup wake.lines \cup fyi
  BY DEF InjectFails
<1> QED
  BY <1>1, AnnounceKeeps

-----------------------------------------------------------------------------
(* The theorems.                                                           *)

LEMMA InitKeeps == Init => Inv
<1> SUFFICES ASSUME Init PROVE Inv
  OBVIOUS
<1>1. feed = <<>> /\ Len(feed) = 0 /\ Landed = {}
  BY DEF Init, Landed
<1>2. bound.events >= 0 /\ 0 \in 0..bound.moves /\ bound \in Cases
  BY WakeHeadParameters DEF Init
<1>3. wake \in Wakes /\ Sound(wake)
  BY NoWakeIsSound DEF Init
<1>4. TypeOK
  BY <1>1, <1>2, <1>3 DEF Init, TypeOK, Wakes
<1> QED
  BY <1>1, <1>3, <1>4 DEF Inv, ReadMeansRendered

LEMMA NextKeeps == Inv /\ [Next]_vars => Inv'
<1> SUFFICES ASSUME Inv, [Next]_vars PROVE Inv'
  OBVIOUS
<1>1. CASE \E s \in bound.shapes : Land(s)
  BY <1>1, LandKeeps
<1>2. CASE \E e \in Landed : GraceEnds(e) \/ Settle(e) \/ Consult(e)
  BY <1>2, GraceEndsKeeps, SettleKeeps, ConsultKeeps
<1>3. CASE \E t \in Tickets : AssignmentMoves(t)
  BY <1>3, AssignmentMovesKeeps
<1>4. CASE \E e \in Landed, panic \in BOOLEAN : HearPing(e, panic)
  BY <1>4, HearPingKeeps
<1>5. CASE \E d \in Drains :
            Skip(d) \/ \E backlog, banner \in BOOLEAN : Compose(d, backlog, banner)
  BY <1>5, SkipKeeps, ComposeKeeps
<1>6. CASE \E fyi \in {{}, Fyi \ wake.win}, lost \in SUBSET Landed :
            Type(fyi, lost) \/ InjectFails(fyi, lost)
  BY <1>6, TypeKeeps, InjectFailsKeeps
<1>7. CASE UNCHANGED vars
  <2>1. /\ UNCHANGED <<bound, feed, away, moves, fresh, followed, unread>>
        /\ UNCHANGED <<heard, told, dropped, alarms, hint, phase, wake>>
    BY <1>7 DEF vars, boardVars, loopVars, historyVars
  <2>2. TypeOK'
    BY <2>1 DEF Inv, TypeOK, Landed
  <2> QED
    BY <2>1, <2>2, SameFeed DEF Inv, ReadMeansRendered
<1> QED
  BY <1>1, <1>2, <1>3, <1>4, <1>5, <1>6, <1>7 DEF Next, Drains

LEMMA InvHolds == Spec => []Inv
  BY InitKeeps, NextKeeps, PTL DEF Spec

(* Every acknowledgement, hint and wake names events that landed.          *)
THEOREM TypeCorrect == Spec => []TypeOK
<1>1. Inv => TypeOK
  BY DEF Inv
<1> QED
  BY <1>1, InvHolds, PTL

(* What leaves the unread queue was rendered by a wake, typed or refused by *)
(* the proxy, read by the agent, or had nothing to say: the acknowledged id *)
(* is that of the line rendered, whatever hint took the head's place        *)
(* (wakeContextResult).                                                     *)
THEOREM NothingReadUnseen == Spec => []ReadMeansRendered
<1>1. Inv => ReadMeansRendered
  BY DEF Inv
<1> QED
  BY <1>1, InvHolds, PTL

(* A wake shows no comment of one ticket under another's number, for any    *)
(* queue and any window (bundleHeadEvents, the hint's anchor).              *)
THEOREM NoGlue == Spec => []OneTicketPerWake
<1>1. Inv => OneTicketPerWake
  BY DEF Inv, Sound, OneTicket, OneTicketPerWake
<1> QED
  BY <1>1, InvHolds, PTL

-----------------------------------------------------------------------------
(* The window of the queue: it keeps the head, and is full when it leaves  *)
(* an event out.                                                           *)

Before(fifo, e) == {d \in fifo : d < e}

\* A queue that is not empty has a last event.
LEMMA LastIsInTheQueue ==
    ASSUME NEW n \in Nat, NEW s \in SUBSET (1..n), s # {}
    PROVE  \E m \in s : \A e \in s : e <= m
<1> DEFINE above == {k \in Nat : \A e \in s : e <= k}
           m == HeadOf(above)
<1>1. n \in above /\ above \in SUBSET Nat
  OBVIOUS
<1>2. m \in above /\ \A k \in above : m <= k
  BY <1>1, HeadIsInTheQueue
<1> HIDE DEF m
<1>3. m \in s
  <2> SUFFICES ASSUME m \notin s PROVE FALSE
    OBVIOUS
  <2>1. m \in Nat /\ \A e \in s : e <= m /\ e \in Int /\ e >= 1
    BY <1>2
  <2>2. m > 0 /\ m - 1 \in Nat
    <3>1. PICK e \in s : TRUE
      OBVIOUS
    <3>2. e \in Int /\ e >= 1 /\ e <= m /\ m \in Nat
      BY <2>1
    <3> QED
      BY <3>2
  <2>3. m - 1 \in above
    BY <2>1, <2>2
  <2> QED
    BY <1>2, <2>1, <2>3
<1> QED
  BY <1>2, <1>3

LEMMA QueueIsFinite ==
    ASSUME NEW n \in Nat, NEW s \in SUBSET (1..n)
    PROVE  IsFiniteSet(s) /\ Cardinality(s) \in Nat
<1>1. IsFiniteSet(1..n)
  BY FS_Interval
<1> QED
  BY <1>1, FS_Subset, FS_CardinalityType

LEMMA WindowKeepsTheHead ==
    ASSUME NEW n \in Nat, NEW fifo \in SUBSET (1..n), fifo # {}
    PROVE  HeadOf(fifo) \in WindowOf(fifo) /\ HeadOf(WindowOf(fifo)) = HeadOf(fifo)
<1> DEFINE h == HeadOf(fifo)
           win == WindowOf(fifo)
<1>1. fifo \in SUBSET Nat /\ h \in fifo /\ \A e \in fifo : h <= e
  BY HeadIsInTheQueue
<1>2. {d \in fifo : d < h} = {}
  <2>1. ASSUME NEW d \in fifo PROVE ~(d < h)
    <3>1. d \in Nat /\ h \in Nat /\ h <= d
      BY <1>1
    <3> HIDE DEF h
    <3> QED
      BY <3>1
  <2> QED
    BY <2>1
<1>3. h \in win
  BY <1>1, <1>2, FS_EmptySet, WakeHeadParameters DEF WindowOf
<1>4. win \subseteq fifo
  BY DEF WindowOf
<1> HIDE DEF h, win
<1>5. HeadOf(win) \in win /\ \A e \in win : HeadOf(win) <= e
  BY <1>1, <1>3, <1>4, HeadIsInTheQueue
<1>6. HeadOf(win) = h
  <2>1. HeadOf(win) \in Nat /\ h \in Nat /\ HeadOf(win) <= h /\ h <= HeadOf(win)
    BY <1>1, <1>3, <1>4, <1>5
  <2> QED
    BY <2>1
<1> QED
  BY <1>3, <1>6 DEF h, win

LEMMA WindowIsFull ==
    ASSUME NEW n \in Nat, NEW fifo \in SUBSET (1..n), NEW e \in fifo \ WindowOf(fifo)
    PROVE  Cardinality(WindowOf(fifo)) = Window
<1> DEFINE win == WindowOf(fifo)
           out == fifo \ win
           f == HeadOf(out)
<1>1. fifo \in SUBSET Nat /\ Window \in Nat /\ Window > 0
  BY WakeHeadParameters
<1>2. \A d \in fifo : Cardinality(Before(fifo, d)) \in Nat /\ IsFiniteSet(Before(fifo, d))
  BY QueueIsFinite DEF Before
<1>3. win = {d \in fifo : Cardinality(Before(fifo, d)) < Window}
  BY DEF WindowOf, Before
<1> HIDE DEF win
<1>4. f \in out /\ \A d \in out : f <= d
  BY <1>1, HeadIsInTheQueue DEF win
<1> HIDE DEF f
<1>5. win = Before(fifo, f)
  <2>1. ASSUME NEW d \in win PROVE d < f
    <3>1. d \in fifo /\ Cardinality(Before(fifo, d)) < Window /\ ~(Cardinality(Before(fifo, f)) < Window)
      BY <1>3, <1>4
    <3>2. d < f \/ f <= d
      BY <1>1, <1>4, <3>1
    <3>3. CASE f <= d
      <4>1. Before(fifo, f) \in SUBSET Before(fifo, d)
        <5>1. ASSUME NEW c \in fifo, c < f PROVE c < d
          <6>1. c \in Nat /\ f \in Nat /\ d \in Nat
            BY <1>1, <1>4, <3>1
          <6> QED
            BY <3>3, <5>1, <6>1
        <5> QED
          BY <5>1 DEF Before
      <4>2. Cardinality(Before(fifo, f)) <= Cardinality(Before(fifo, d))
        BY <1>2, <3>1, <4>1, FS_Subset
      <4> QED
        BY <1>1, <1>2, <1>4, <3>1, <4>2
    <3> QED
      BY <3>2, <3>3
  <2>2. ASSUME NEW d \in fifo, d < f PROVE d \in win
    BY <1>1, <1>4, <2>2
  <2>3. win \subseteq fifo
    BY <1>3
  <2> QED
    BY <2>1, <2>2, <2>3 DEF Before
<1>6. Cardinality(win) >= Window /\ Cardinality(win) \in Nat /\ win \in SUBSET (1..n)
  <2>1. ~(Cardinality(Before(fifo, f)) < Window) /\ f \in fifo
    BY <1>3, <1>4
  <2>2. Cardinality(Before(fifo, f)) \in Nat
    BY <1>2, <2>1
  <2>3. Cardinality(Before(fifo, f)) >= Window
    BY <1>1, <2>1, <2>2
  <2>4. win \subseteq fifo
    BY <1>3
  <2> QED
    BY <1>5, <2>2, <2>3, <2>4
<1>7. Cardinality(win) <= Window
  <2>1. CASE win = {}
    BY <2>1, <1>1, FS_EmptySet
  <2>2. CASE win # {}
    <3>1. PICK m \in win : \A d \in win : d <= m
      BY <2>2, <1>6, LastIsInTheQueue
    <3>2. m \in fifo /\ Cardinality(Before(fifo, m)) < Window /\ m < f
      BY <3>1, <1>3, <1>5 DEF Before
    <3>3. win = Before(fifo, m) \cup {m}
      <4>1. ASSUME NEW d \in win PROVE d \in Before(fifo, m) \cup {m}
        <5>1. d \in fifo /\ d \in Nat /\ m \in Nat /\ d <= m
          BY <1>1, <1>3, <3>1, <3>2
        <5> QED
          BY <5>1 DEF Before
      <4>2. ASSUME NEW d \in Before(fifo, m) PROVE d \in win
        <5>1. d \in fifo /\ d \in Nat /\ m \in Nat /\ f \in Nat /\ d < m /\ m < f
          BY <1>1, <1>4, <3>2 DEF Before
        <5> QED
          BY <5>1, <1>5 DEF Before
      <4> QED
        BY <4>1, <4>2, <3>1
    <3>4. m \notin Before(fifo, m)
      BY <1>1, <3>2 DEF Before
    <3>5. Cardinality(win) = Cardinality(Before(fifo, m)) + 1
      BY <3>2, <3>3, <3>4, <1>2, FS_AddElement
    <3> QED
      BY <3>2, <3>5, <1>1, <1>2
  <2> QED
    BY <2>1, <2>2
<1> QED
  BY <1>1, <1>6, <1>7 DEF win

-----------------------------------------------------------------------------
(* A wake that brings an accept brings what followed it in its grace.      *)

Followers ==
    /\ \A a \in fresh : KindOf(a) = "plan_accepted"
    /\ \A p \in followed :
        KindOf(p[1]) = "plan_accepted" /\ TicketOf(p[2]) = TicketOf(p[1]) /\ p[1] # p[2]

\* An accept that heads a wake has had its grace, so that nothing follows it any more; what
\* did is in the phrase, or beyond a full window.
Carried(w) ==
    ~w.now /\ w.ack # None =>
        /\ w.ack \notin fresh
        /\ \A p \in followed :
            p[1] = w.ack /\ p[2] \in unread =>
                \/ p[2] \in w.lines
                \/ p[2] \notin w.win /\ Cardinality(w.win) = Window

LEMMA RenderedIsCarried ==
    ASSUME Inv, Followers, NEW d \in Drains, ~Held(d, Waking)
    PROVE  Carried(Rendered(d, Waking))
<1> DEFINE win == WindowOf(Waking)
           r == Rendered(d, Waking)
<1> SUFFICES ASSUME ~r.now, r.ack # None
             PROVE  /\ r.ack \notin fresh
                    /\ \A p \in followed :
                        p[1] = r.ack /\ p[2] \in unread =>
                            p[2] \in r.lines \/ (p[2] \notin r.win /\ Cardinality(r.win) = Window)
  BY DEF Carried
<1>1. Len(feed) \in Nat /\ Waking \in SUBSET (1..Len(feed)) /\ Waking \in SUBSET Landed
  <2>1. Len(feed) \in Nat /\ unread \subseteq Landed
    BY DEF Inv, TypeOK
  <2>2. Waking \in SUBSET Landed
    BY <2>1 DEF Waking
  <2> QED
    BY <2>1, <2>2 DEF Landed
<1>2. win \in SUBSET Waking /\ win \in SUBSET Landed /\ Waking \in SUBSET Nat
  <2>1. win \in SUBSET Waking
    BY DEF WindowOf
  <2>2. \A e \in 1..Len(feed) : e \in Nat
    BY <1>1
  <2> HIDE DEF win
  <2> QED
    BY <1>1, <2>1, <2>2
<1>3. followed \subseteq Landed \X Landed
  BY DEF Inv, TypeOK
<1>4. CASE Anchors(d.hint, win)
  <2>1. r.ack = d.hint /\ KindOf(d.hint) # "plan_accepted"
    BY <1>4 DEF Rendered, NoWake, Anchors, Decision
  <2> HIDE DEF r, win
  <2> QED
    BY <2>1 DEF Followers
<1>5. CASE ~Anchors(d.hint, win) /\ win = {}
  BY <1>5 DEF Rendered, NoWake
<1>6. CASE ~Anchors(d.hint, win) /\ win # {}
  <2>1. r.now = d.now /\ r.win = win /\ r.ack = HeadOf(win) /\ r.lines = HeadLines(win)
    BY <1>6 DEF Rendered, NoWake
  <2>2. Waking # {}
    BY <1>2, <1>6
  <2>3. HeadOf(win) = HeadOf(Waking) /\ HeadOf(win) \in win
    BY <1>1, <2>2, WindowKeepsTheHead
  <2>4. r.ack \notin fresh
    BY <2>1, <2>2, <2>3 DEF Held
  <2> HIDE DEF r
  <2>5. ASSUME NEW p \in followed, p[1] = r.ack, p[2] \in unread
        PROVE  p[2] \in r.lines \/ (p[2] \notin r.win /\ Cardinality(r.win) = Window)
    <3>1. TicketOf(p[2]) = TicketOf(HeadOf(win)) /\ p[2] # HeadOf(win)
      BY <2>1, <2>5 DEF Followers
    <3>2. p[2] \in Waking
      BY <1>2, <2>3, <2>5, <3>1 DEF Waking
    <3>3. CASE p[2] \in win
      <4>1. p[2] \in Folded(win)
        BY <3>1, <3>3 DEF Folded
      <4>2. HeadLines(win) = Folded(win)
        BY <1>6, <3>1, <4>1 DEF HeadLines
      <4> QED
        BY <2>1, <4>1, <4>2
    <3>4. CASE p[2] \notin win
      BY <1>1, <2>1, <3>2, <3>4, WindowIsFull
    <3> QED
      BY <3>3, <3>4
  <2> QED
    BY <2>4, <2>5
<1> QED
  BY <1>4, <1>5, <1>6

\* Where nothing new is followed, fresh or unread, what a wake carries it carries still.
LEMMA LessIsCarried ==
    ASSUME Followers, feed' = feed, followed' = followed, fresh' \subseteq fresh,
           unread' \subseteq unread, Carried(wake')
    PROVE  Followers' /\ Carried(wake)'
<1>1. Followers'
  BY DEF Followers, KindOf, TicketOf
<1>2. Carried(wake)'
  BY DEF Carried
<1> QED
  BY <1>1, <1>2

Follow == Followers /\ Carried(wake)

LEMMA NoWakeIsCarried == Carried(NoWake)
  BY DEF Carried, NoWake

LEMMA LandCarries == ASSUME Inv, Follow, NEW s \in bound.shapes, Land(s) PROVE Follow'
<1>1. s \in Event /\ Len(feed) \in Nat
  BY WakeHeadParameters DEF Inv, TypeOK, Land
<1>. PICK e \in Nat : e = Len(feed) + 1
  BY <1>1
<1>2. Grows /\ e \notin Landed
  BY <1>1, AppendGrows DEF Inv, TypeOK, Land, Landed
<1>3. TicketOf(e)' = s.ticket /\ KindOf(e)' = s.kind
  <2>1. feed' = Append(feed, s) /\ feed \in Seq(Event)
    BY DEF Land, Inv, TypeOK
  <2>2. feed'[Len(feed) + 1] = s
    BY <1>1, <2>1
  <2> QED
    BY <2>2 DEF TicketOf, KindOf
<1>4. /\ unread' = unread \cup {e}
      /\ fresh' = IF s.kind = "plan_accepted" THEN fresh \cup {e} ELSE fresh
      /\ followed' = followed \cup {<<a, e>> : a \in {f \in fresh : TicketOf(f) = s.ticket}}
      /\ wake' = wake
  BY DEF Land, loopVars
<1>5. /\ fresh \subseteq Landed /\ unread \subseteq Landed /\ followed \subseteq Landed \X Landed
      /\ wake.ack \in Landed \cup {None} /\ None \notin Landed
  BY WakeHeadParameters DEF Inv, TypeOK, Landed
<1>6. ASSUME NEW p \in followed', p \notin followed
      PROVE  p[1] \in fresh /\ p[2] = e /\ TicketOf(p[1]) = s.ticket
  BY <1>4, <1>6
<1>7. Followers'
  <2>1. ASSUME NEW a \in fresh' PROVE KindOf(a)' = "plan_accepted"
    BY <1>2, <1>3, <1>4, <1>5, <2>1 DEF Follow, Followers, Grows
  <2>2. ASSUME NEW p \in followed'
        PROVE  KindOf(p[1])' = "plan_accepted" /\ TicketOf(p[2])' = TicketOf(p[1])' /\ p[1] # p[2]
    <3>1. CASE p \in followed
      <4>1. p[1] \in Landed /\ p[2] \in Landed
        BY <1>5, <3>1
      <4> QED
        BY <1>2, <3>1, <4>1 DEF Follow, Followers, Grows
    <3>2. CASE p \notin followed
      <4>1. p[1] \in fresh /\ p[1] \in Landed /\ p[2] = e /\ TicketOf(p[1]) = s.ticket
        BY <1>5, <1>6, <3>2
      <4> QED
        BY <1>2, <1>3, <4>1 DEF Follow, Followers, Grows
    <3> QED
      BY <3>1, <3>2
  <2> QED
    BY <2>1, <2>2 DEF Followers
<1>8. Carried(wake)'
  <2> SUFFICES ASSUME ~wake.now, wake.ack # None
               PROVE  /\ wake.ack \notin fresh'
                      /\ \A p \in followed' :
                          p[1] = wake.ack /\ p[2] \in unread' =>
                              \/ p[2] \in wake.lines
                              \/ p[2] \notin wake.win /\ Cardinality(wake.win) = Window
    BY <1>4 DEF Carried
  <2>1. wake.ack \in Landed /\ wake.ack \notin fresh
    BY <1>5 DEF Follow, Carried
  <2>2. wake.ack \notin fresh'
    BY <1>2, <1>4, <2>1
  <2>3. ASSUME NEW p \in followed', p[1] = wake.ack, p[2] \in unread'
        PROVE  p \in followed /\ p[2] \in unread
    <3>1. p \in followed
      BY <1>6, <2>1, <2>3
    <3>2. p[2] \in Landed
      BY <1>5, <3>1
    <3> QED
      BY <1>2, <1>4, <2>3, <3>1, <3>2
  <2> QED
    BY <2>2, <2>3 DEF Follow, Carried
<1> QED
  BY <1>7, <1>8 DEF Follow

LEMMA SettleCarries == ASSUME Inv, Follow, NEW e \in Landed, Settle(e) PROVE Follow'
<1>1. Grows
  BY SettleGrows DEF Inv, TypeOK
<1>2. UNCHANGED <<unread, fresh, followed, wake>>
  BY DEF Settle, loopVars
<1>3. fresh \subseteq Landed /\ followed \subseteq Landed \X Landed
  BY DEF Inv, TypeOK
<1>4. Followers'
  <2>1. \A p \in followed : p[1] \in Landed /\ p[2] \in Landed
    BY <1>3
  <2> QED
    BY <1>1, <1>2, <1>3, <2>1 DEF Follow, Followers, Grows
<1>5. Carried(wake)'
  BY <1>2 DEF Follow, Carried
<1> QED
  BY <1>4, <1>5 DEF Follow

LEMMA ComposeCarries ==
    ASSUME Inv, Follow, NEW d \in Drains, NEW backlog \in BOOLEAN, NEW banner \in BOOLEAN,
           Compose(d, backlog, banner)
    PROVE  Follow'
<1> DEFINE r == Rendered(d, Waking)
<1>1. UNCHANGED <<feed, followed, fresh, unread>> /\ Followers
  BY DEF Compose, boardVars, Follow
<1>2. Carried(r)
  BY RenderedIsCarried DEF Compose, Follow
<1>3. r \in Wakes
  <2>1. Waking \in SUBSET Landed /\ feed \in Seq(Event)
    BY DEF Waking, Inv, TypeOK
  <2>2. /\ d.hint \in Landed \cup {None} /\ d.now \in BOOLEAN
        /\ d = [hint |-> d.hint, now |-> d.now]
    BY DrainsAreTyped
  <2> QED
    BY <2>1, <2>2, RenderedIsSound
<1>4. \E content \in BOOLEAN : wake' = [r EXCEPT !.content = content]
  BY DEF Compose
<1> HIDE DEF r
<1>5. wake'.now = r.now /\ wake'.ack = r.ack /\ wake'.lines = r.lines /\ wake'.win = r.win
  BY <1>3, <1>4 DEF Wakes
<1>6. Carried(wake')
  BY <1>2, <1>5 DEF Carried
<1> QED
  BY <1>1, <1>6, LessIsCarried DEF Follow

LEMMA FollowHolds == Spec => []Follow
<1>1. Init => Follow
  <2> SUFFICES ASSUME Init PROVE Follow
    OBVIOUS
  <2>1. fresh = {} /\ followed = {} /\ wake = NoWake
    BY DEF Init
  <2> QED
    BY <2>1, NoWakeIsCarried DEF Follow, Followers
<1>2. Inv /\ Follow /\ [Next]_vars => Follow'
  <2> SUFFICES ASSUME Inv, Follow, [Next]_vars PROVE Follow'
    OBVIOUS
  <2>1. CASE \E s \in bound.shapes : Land(s)
    BY <2>1, LandCarries
  <2>2. ASSUME NEW e \in Landed, GraceEnds(e) \/ Consult(e) PROVE Follow'
    <3>1. /\ feed' = feed /\ followed' = followed /\ wake' = wake
          /\ fresh' \subseteq fresh /\ unread' \subseteq unread
      BY <2>2 DEF GraceEnds, Consult, boardVars, loopVars
    <3> QED
      BY <3>1, LessIsCarried DEF Follow
  <2>3. ASSUME NEW e \in Landed, Settle(e) PROVE Follow'
    BY <2>3, SettleCarries
  <2>4. CASE \E t \in Tickets : AssignmentMoves(t)
    BY <2>4, LessIsCarried DEF AssignmentMoves, loopVars, Follow
  <2>5. CASE \E e \in Landed, panic \in BOOLEAN : HearPing(e, panic)
    BY <2>5, LessIsCarried DEF HearPing, boardVars, Follow
  <2>6. ASSUME NEW d \in Drains, Skip(d) PROVE Follow'
    BY <2>6, LessIsCarried DEF Skip, boardVars, Follow
  <2>7. ASSUME NEW d \in Drains, NEW backlog \in BOOLEAN, NEW banner \in BOOLEAN,
               Compose(d, backlog, banner)
        PROVE  Follow'
    BY <2>7, ComposeCarries
  <2>8. ASSUME NEW fyi \in {{}, Fyi \ wake.win}, NEW lost \in SUBSET Landed,
               Type(fyi, lost) \/ InjectFails(fyi, lost)
        PROVE  Follow'
    <3>1. /\ feed' = feed /\ followed' = followed /\ wake' = NoWake
          /\ fresh' = fresh /\ unread' \subseteq unread
      BY <2>8 DEF Type, InjectFails, Announce, boardVars
    <3> QED
      BY <3>1, LessIsCarried, NoWakeIsCarried DEF Follow
  <2>9. CASE UNCHANGED vars
    BY <2>9, LessIsCarried DEF vars, boardVars, loopVars, Follow
  <2> QED
    BY <2>1, <2>2, <2>3, <2>4, <2>5, <2>6, <2>7, <2>8, <2>9 DEF Next, Drains
<1> QED
  BY <1>1, <1>2, InvHolds, PTL DEF Spec

(* The comment typed in the grace of a plan's accept is in the wake that   *)
(* brings the accept, for any window and any number of events, unless the  *)
(* wake was asked for by hand or the window is full before it: the hold    *)
(* of acceptGraceHoldUntil leaves no accept at a wake's head while         *)
(* anything may still follow it.                                           *)
THEOREM FollowUpsRideAlong == Spec => []FollowUpRidesAlong
<1>1. Inv /\ Follow => FollowUpRidesAlong
  <2> SUFFICES ASSUME Inv, Follow, NEW p \in followed, ~wake.now, wake.ack = p[1], p[2] \in Waking
               PROVE  p[2] \in wake.lines \/ (p[2] \notin wake.win /\ Cardinality(wake.win) = Window)
    BY DEF FollowUpRidesAlong
  <2>1. p[1] # None
    BY WakeHeadParameters DEF Inv, TypeOK, Landed
  <2> QED
    BY <2>1 DEF Follow, Carried, Waking
<1> QED
  BY <1>1, FollowHolds, InvHolds, PTL
=============================================================================
