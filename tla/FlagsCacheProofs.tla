--------------------------- MODULE FlagsCacheProofs ---------------------------
(***************************************************************************)
(* What FlagsCache keeps true for any tickets, consumers, windows and      *)
(* ceilings.  The invariant says of each copy that is still alive, and of  *)
(* each ticket it has not been told to repair, that it holds what the      *)
(* board says and expires no later than what the board says of it.         *)
(***************************************************************************)
EXTENDS FlagsCache, FiniteSetTheorems, TLAPS

\* One of these instants comes within n of the last change of what t is to its readers.
Within(t, instants, n) == recast[t] # 0 /\ \E at \in instants : at <= recast[t] + n

HandOK(copy) ==
    /\ \E at \in copy.until : at <= now + HeldCeiling
    /\ Live(copy) => \A t \in Tickets :
        (t \in copy.val <=> t \in KeptByHumans) \/ Within(t, copy.until, HeldCeiling)

DueOK(copy) ==
    Live(copy) => \A t \in Tickets : t \notin copy.dirty => (t \in copy.val <=> DecisionDue(t))

Holds(c, copy, t) ==
    /\ \/ copy.val[t] = FlagsOf(c, t, Undecided, KeptByHumans)
       \/ Within(t, copy.until, HeldCeiling + Ceiling - 1)
    /\ Deadlines(c, {t}) \subseteq copy.until

FlagsOK(c, copy) ==
    Live(copy) =>
        /\ \E at \in copy.until : at <= now + Ceiling
        /\ \A t \in Tickets : t \notin copy.dirty => Holds(c, copy, t)

Inv ==
    /\ TypeOK /\ now > 0
    /\ HandOK(held) /\ DueOK(decisions)
    /\ stamped => \A c \in Readers : FlagsOK(c, flags[c])

-----------------------------------------------------------------------------
(* Types.                                                                  *)

Copy == [val : [Tickets -> Flag], until : SUBSET Nat, dirty : Few]
Names == [val : SUBSET Tickets, until : SUBSET Nat, dirty : Few]

LEMMA NothingIsFew == {} \in Few
  BY FS_EmptySet, FlagsCacheParameters DEF Few

LEMMA NoCopyIsDead == ASSUME now \in Nat PROVE ~Live(NoCopy)
  BY DEF Live, NoCopy

LEMMA FlagsOfType ==
  ASSUME NEW c, NEW t, NEW U, NEW K
  PROVE  FlagsOf(c, t, U, K) \in Flag
  BY DEF FlagsOf, Flag

LEMMA DeadlinesAreInstants ==
  ASSUME TypeOK, NEW c, NEW S \in SUBSET Tickets
  PROVE  Deadlines(c, S) \in SUBSET Nat
<1>1. window \in Nat
  BY FlagsCacheParameters DEF TypeOK
<1>2. \A t \in S : ticket[t].until \in Nat /\ ticket[t].claimedAt \in Nat
  BY DEF TypeOK, Ticket
<1> QED
  BY <1>1, <1>2 DEF Deadlines

LEMMA MarkType ==
  ASSUME NEW copy, NEW ids \in SUBSET Tickets, NEW pairs,
         NEW V, copy = NoCopy \/ copy \in [val : V, until : SUBSET Nat, dirty : Few],
         now \in Nat
  PROVE  Mark(copy, ids, pairs) = NoCopy
            \/ Mark(copy, ids, pairs) \in [val : V, until : SUBSET Nat, dirty : Few]
<1>1. CASE copy = NoCopy
  BY <1>1, NoCopyIsDead DEF Mark
<1>2. CASE copy \in [val : V, until : SUBSET Nat, dirty : Few]
  <2>1. copy.dirty \cup Relatives(ids, pairs) \in SUBSET Tickets
    BY <1>2 DEF Few, Relatives
  <2> QED
    BY <1>2, <2>1 DEF Mark, Few
<1> QED
  BY <1>1, <1>2

LEMMA NoNames == NoCopy \in Names
  BY NothingIsFew DEF NoCopy, Names

LEMMA MarkNames ==
  ASSUME NEW copy \in Names, NEW ids \in SUBSET Tickets, NEW pairs, now \in Nat
  PROVE  Mark(copy, ids, pairs) \in Names
<1>1. \/ Mark(copy, ids, pairs) = NoCopy
      \/ Mark(copy, ids, pairs) \in [val : SUBSET Tickets, until : SUBSET Nat, dirty : Few]
  BY MarkType DEF Names
<1> QED
  BY <1>1, NoNames DEF Names

LEMMA MarkCopy ==
  ASSUME NEW copy, copy = NoCopy \/ copy \in Copy, NEW ids \in SUBSET Tickets, NEW pairs, now \in Nat
  PROVE  Mark(copy, ids, pairs) = NoCopy \/ Mark(copy, ids, pairs) \in Copy
  BY MarkType DEF Copy

LEMMA GateReadNames ==
  ASSUME TypeOK, NEW copy \in Names, NEW whole
  PROVE  GateRead(copy, whole) \in Names
<1>1. Repaired(copy) \in Names
  BY NothingIsFew DEF Repaired, Names
<1>2. [val |-> Undecided, until |-> {now + Ceiling}, dirty |-> {}] \in Names
  BY NothingIsFew, FlagsCacheParameters DEF Names, Undecided, TypeOK
<1> QED
  BY <1>1, <1>2, NoNames DEF GateRead

LEMMA BuiltType ==
  ASSUME TypeOK, NEW c PROVE Built(c) \in Copy
<1> DEFINE val == [t \in Tickets |-> FlagsOf(c, t, UndecidedNow(Known(decisions)), KeptNow)]
<1>1. val \in [Tickets -> Flag]
  BY FlagsOfType
<1>2. {now + Ceiling} \cup Deadlines(c, Tickets) \in SUBSET Nat
  BY DeadlinesAreInstants, FlagsCacheParameters DEF TypeOK
<1>3. Built(c) = [val |-> val, until |-> {now + Ceiling} \cup Deadlines(c, Tickets), dirty |-> {}]
  BY DEF Built
<1> HIDE DEF val
<1> QED
  BY <1>1, <1>2, <1>3, NothingIsFew DEF Copy

LEMMA RepairedFlagsType ==
  ASSUME TypeOK, NEW c, NEW copy \in Copy PROVE RepairedFlags(c, copy) \in Copy
<1> DEFINE val == [t \in Tickets |->
                      IF t \in copy.dirty
                      THEN FlagsOf(c, t, UndecidedNow(Known(decisions)), KeptNow) ELSE copy.val[t]]
           until == copy.until \cup Deadlines(c, Relatives(copy.dirty, related))
<1>1. val \in [Tickets -> Flag]
  <2>1. copy.val \in [Tickets -> Flag]
    BY DEF Copy
  <2> QED
    BY <2>1, FlagsOfType
<1>2. until \in SUBSET Nat
  <2>1. copy.dirty \in SUBSET Tickets /\ copy.until \in SUBSET Nat
    BY DEF Copy, Few
  <2>2. Relatives(copy.dirty, related) \in SUBSET Tickets
    BY <2>1 DEF Relatives
  <2> QED
    BY <2>1, <2>2, DeadlinesAreInstants
<1>3. RepairedFlags(c, copy) = [val |-> val, until |-> until, dirty |-> {}]
  BY DEF RepairedFlags
<1> HIDE DEF val, until
<1> QED
  BY <1>1, <1>2, <1>3, NothingIsFew DEF Copy

\* The part of the type that the copies have no share in.
BoardType ==
    /\ now \in Nat /\ writes \in Nat
    /\ ticket \in [Tickets -> Ticket]
    /\ gates \subseteq related /\ related \subseteq Tickets \X Tickets
    /\ humans \subseteq Consumers /\ window \in Windows /\ stamped \in BOOLEAN
    /\ recast \in [Tickets -> Nat]

CopiesType ==
    /\ \A c \in Readers : flags[c] = NoCopy \/ flags[c] \in Copy
    /\ decisions \in Names
    /\ held \in [val : SUBSET Tickets, until : SUBSET Nat, dirty : {{}}]

LEMMA TypeSplits == TypeOK <=> BoardType /\ CopiesType
  BY DEF TypeOK, BoardType, CopiesType, Copy, Names

LEMMA TypeSplitsNext == TypeOK' <=> BoardType' /\ CopiesType'
  BY DEF TypeOK, BoardType, CopiesType, Copy, Names

LEMMA DroppedHand ==
  [val |-> {}, until |-> {0}, dirty |-> {}]
    \in [val : SUBSET Tickets, until : SUBSET Nat, dirty : {{}}]
  OBVIOUS

LEMMA ChangeType ==
  ASSUME TypeOK, NEW ids \in SUBSET Tickets, TicketChanged(ids)
  PROVE  CopiesType' /\ recast' \in [Tickets -> Nat]
<1>1. now \in Nat /\ decisions \in Names
      /\ \A c \in Readers : flags[c] = NoCopy \/ flags[c] \in Copy
  BY TypeSplits DEF BoardType, CopiesType
<1>2. \A c \in Readers : flags'[c] = NoCopy \/ flags'[c] \in Copy
  <2> SUFFICES ASSUME NEW c \in Readers PROVE flags'[c] = NoCopy \/ flags'[c] \in Copy
    OBVIOUS
  <2>1. flags'[c] = Mark(flags[c], ids, related')
    BY DEF TicketChanged
  <2> QED
    BY <1>1, <2>1, MarkCopy
<1>3. decisions' \in Names
  BY <1>1, MarkNames DEF TicketChanged
<1>4. held' \in [val : SUBSET Tickets, until : SUBSET Nat, dirty : {{}}]
  BY DroppedHand DEF TicketChanged, NoCopy
<1>5. recast' \in [Tickets -> Nat]
  BY DEF TicketChanged, TypeOK
<1> QED
  BY <1>2, <1>3, <1>4, <1>5 DEF CopiesType

LEMMA ClearType ==
  ASSUME TypeOK, ClearFlagsCache,
         held' \in [val : SUBSET Tickets, until : SUBSET Nat, dirty : {{}}]
  PROVE  CopiesType'
  BY NoNames DEF ClearFlagsCache, CopiesType

HandType == [val : SUBSET Tickets, until : SUBSET Nat, dirty : {{}}]

LEMMA FreshHand ==
  ASSUME TypeOK
  PROVE  [val |-> KeptByHumans, until |-> {now + HeldCeiling}, dirty |-> {}] \in HandType
  BY FlagsCacheParameters DEF HandType, TypeOK, KeptByHumans

LEMMA ReadType ==
  ASSUME TypeOK, NEW c \in Readers, NEW whole \in BOOLEAN, Read(c, whole)
  PROVE  TypeOK'
<1>1. BoardType /\ CopiesType
  BY TypeSplits
<1>2. BoardType'
  BY <1>1 DEF Read, boardVars, BoardType
<1>3. \A r \in Readers : Known(flags[r]) = NoCopy \/ Known(flags[r]) \in Copy
  BY <1>1 DEF CopiesType, Known
<1>4. \A r \in Readers : flags'[r] = NoCopy \/ flags'[r] \in Copy
  <2> DEFINE copy == Known(flags[c])
  <2>1. Live(copy) => copy \in Copy
    BY <1>1, <1>3, NoCopyIsDead DEF BoardType
  <2>2. \/ flags'[c] = NoCopy \/ flags'[c] = Built(c)
        \/ Live(copy) /\ flags'[c] \in {copy, RepairedFlags(c, copy)}
    BY DEF Read
  <2>3. flags'[c] = NoCopy \/ flags'[c] \in Copy
    BY <2>1, <2>2, BuiltType, RepairedFlagsType
  <2>4. \A r \in Readers \ {c} : flags'[r] = Known(flags[r])
    BY DEF Read
  <2> QED
    BY <1>3, <2>3, <2>4
<1>5. decisions' \in Names
  <2>1. Known(decisions) \in Names
    BY <1>1, NoNames DEF Known, CopiesType
  <2> QED
    BY <2>1, GateReadNames DEF Read
<1>6. held' \in HandType
  BY <1>1, FreshHand DEF Read, CopiesType, HandType
<1> QED
  BY <1>2, <1>4, <1>5, <1>6, TypeSplitsNext DEF CopiesType, HandType

LEMMA WriteType ==
  ASSUME TypeOK, NEW t \in Tickets, NEW row \in Ticket, Write(t, row)
  PROVE  TypeOK'
<1>1. TicketChanged({t}) /\ BoardType
  BY TypeSplits DEF Write
<1>2. CopiesType' /\ recast' \in [Tickets -> Nat]
  BY <1>1, ChangeType
<1>3. ticket' \in [Tickets -> Ticket] /\ writes' \in Nat
  BY <1>1 DEF Write, Writing, BoardType
<1>4. BoardType'
  BY <1>1, <1>2, <1>3 DEF Write, BoardType
<1> QED
  BY <1>2, <1>4, TypeSplitsNext

LEMMA RelateType ==
  ASSUME TypeOK, NEW a \in Tickets, NEW b \in Tickets, NEW gate \in BOOLEAN, Relate(a, b, gate)
  PROVE  TypeOK'
<1>1. TicketChanged({a, b}) /\ BoardType
  BY TypeSplits DEF Relate
<1>2. CopiesType' /\ recast' \in [Tickets -> Nat]
  BY <1>1, ChangeType
<1>3. gates' \subseteq related' /\ related' \subseteq Tickets \X Tickets /\ writes' \in Nat
  BY <1>1 DEF Relate, Writing, BoardType
<1>4. BoardType'
  BY <1>1, <1>2, <1>3 DEF Relate, BoardType
<1> QED
  BY <1>2, <1>4, TypeSplitsNext

LEMMA MoveType ==
  ASSUME TypeOK, MoveTicket PROVE TypeOK'
<1>1. BoardType /\ ClearFlagsCache
  BY TypeSplits DEF MoveTicket
<1>2. CopiesType'
  BY <1>1, ClearType, DroppedHand DEF MoveTicket, NoCopy
<1>3. BoardType'
  BY <1>1 DEF MoveTicket, Writing, BoardType, boardVars
<1> QED
  BY <1>2, <1>3, TypeSplitsNext

LEMMA ConsumerType ==
  ASSUME TypeOK, NEW c \in Consumers, UpdateConsumer(c) PROVE TypeOK'
<1>1. BoardType /\ CopiesType /\ ClearFlagsCache
  BY TypeSplits DEF UpdateConsumer
<1>2. CopiesType'
  BY <1>1, ClearType DEF UpdateConsumer, CopiesType
<1>3. recast' \in [Tickets -> Nat] /\ humans' \subseteq Consumers /\ writes' \in Nat
  BY <1>1 DEF UpdateConsumer, Writing, BoardType
<1>4. BoardType'
  BY <1>1, <1>3 DEF UpdateConsumer, BoardType
<1> QED
  BY <1>2, <1>4, TypeSplitsNext

LEMMA StillType ==
  ASSUME TypeOK, UNCHANGED <<flags, decisions, held>>, BoardType' PROVE TypeOK'
  BY TypeSplits, TypeSplitsNext DEF CopiesType

LEMMA DecisionsType ==
  ASSUME TypeOK, NEW whole \in BOOLEAN, ReadDecisions(whole) PROVE TypeOK'
<1>1. BoardType /\ CopiesType
  BY TypeSplits
<1>2. decisions' \in Names
  BY <1>1, GateReadNames DEF ReadDecisions, CopiesType
<1>3. CopiesType'
  BY <1>1, <1>2 DEF ReadDecisions, CopiesType
<1>4. BoardType'
  BY <1>1 DEF ReadDecisions, BoardType, boardVars
<1> QED
  BY <1>3, <1>4, TypeSplitsNext

LEMMA HeldType ==
  ASSUME TypeOK, ReadHeld PROVE TypeOK'
<1>1. BoardType /\ CopiesType
  BY TypeSplits
<1>2. CopiesType'
  BY <1>1, FreshHand DEF ReadHeld, CopiesType, HandType
<1>3. BoardType'
  BY <1>1 DEF ReadHeld, BoardType, boardVars
<1> QED
  BY <1>2, <1>3, TypeSplitsNext

\* A write of one ticket by one of the handlers leaves it a row of the table.
Written(t) == \E row \in Ticket : Write(t, row)

LEMMA HandlersWrite ==
  ASSUME TypeOK, NEW t \in Tickets, NEW c \in Consumers,
         \/ \E keeps \in BOOLEAN : Comment(t, c, keeps)
         \/ Propose(t, c) \/ Decide(t, c) \/ Close(t, c) \/ Reopen(t, c) \/ Claim(t, c)
  PROVE  Written(t)
<1>0. ticket[t] \in Ticket /\ now \in Nat
  BY DEF TypeOK
<1>1. ASSUME NEW keeps \in BOOLEAN, Comment(t, c, keeps) PROVE Written(t)
  <2>1. [ticket[t] EXCEPT !.last = c, !.keeps = keeps, !.answered = @ \cup {c}] \in Ticket
    BY <1>0 DEF Ticket
  <2> QED
    BY <1>1, <2>1 DEF Comment, Written
<1>2. CASE Propose(t, c)
  <2>1. [ticket[t] EXCEPT !.last = c, !.keeps = FALSE, !.proposer = c, !.answered = {}] \in Ticket
    BY <1>0 DEF Ticket
  <2> QED
    BY <1>2, <2>1 DEF Propose, Written
<1>3. CASE Decide(t, c)
  <2>1. [ticket[t] EXCEPT !.last = c, !.keeps = FALSE, !.proposer = None] \in Ticket
    BY <1>0 DEF Ticket
  <2> QED
    BY <1>3, <2>1 DEF Decide, Written
<1>4. CASE Close(t, c)
  <2>1. [ticket[t] EXCEPT !.closed = TRUE, !.last = c, !.keeps = FALSE, !.claimant = None] \in Ticket
    BY <1>0 DEF Ticket
  <2> QED
    BY <1>4, <2>1 DEF Close, Written
<1>5. CASE Reopen(t, c)
  <2>1. [ticket[t] EXCEPT !.closed = FALSE, !.last = c, !.keeps = FALSE, !.proposer = None] \in Ticket
    BY <1>0 DEF Ticket
  <2> QED
    BY <1>5, <2>1 DEF Reopen, Written
<1>6. CASE Claim(t, c)
  <2>1. [ticket[t] EXCEPT !.claimant = c, !.claimedAt = now] \in Ticket
    BY <1>0 DEF Ticket
  <2> QED
    BY <1>6, <2>1 DEF Claim, Written
<1> QED
  BY <1>1, <1>2, <1>3, <1>4, <1>5, <1>6

LEMMA PostponeWrites ==
  ASSUME TypeOK, NEW t \in Tickets, NEW until \in {0} \cup (now + 1)..MaxTime, Postpone(t, until)
  PROVE  Written(t)
<1>1. [ticket[t] EXCEPT !.until = until] \in Ticket
  BY FlagsCacheParameters DEF TypeOK, Ticket
<1> QED
  BY <1>1 DEF Postpone, Written

LEMMA ReleaseWrites ==
  ASSUME TypeOK, NEW t \in Tickets, Release(t)
  PROVE  Written(t)
<1>1. [ticket[t] EXCEPT !.claimant = None] \in Ticket
  BY DEF TypeOK, Ticket
<1> QED
  BY <1>1 DEF Release, Written

\* The steps, the handlers that write one ticket taken together.
LEMMA NextCases ==
  ASSUME TypeOK, Next
  PROVE  \/ \E c \in Readers, whole \in BOOLEAN : Read(c, whole)
         \/ \E whole \in BOOLEAN : ReadDecisions(whole)
         \/ ReadHeld
         \/ \E t \in Tickets : Written(t)
         \/ \E a, b \in Tickets, gate \in BOOLEAN : Relate(a, b, gate)
         \/ MoveTicket
         \/ \E c \in Consumers : UpdateConsumer(c)
         \/ \E w \in Windows : EditConfig(w)
         \/ Tick
  BY HandlersWrite, PostponeWrites, ReleaseWrites DEF Next

LEMMA InitType == ASSUME Init PROVE TypeOK
<1>1. ticket \in [Tickets -> Ticket] /\ recast \in [Tickets -> Nat]
  BY DEF Init, Ticket
<1>2. BoardType
  BY <1>1, FlagsCacheParameters DEF Init, BoardType
<1>3. CopiesType
  BY NoNames, DroppedHand DEF Init, CopiesType, NoCopy
<1> QED
  BY <1>2, <1>3, TypeSplits

LEMMA NextType == ASSUME TypeOK, [Next]_vars PROVE TypeOK'
<1>0. BoardType
  BY TypeSplits
<1>1. ASSUME NEW c \in Readers, NEW whole \in BOOLEAN, Read(c, whole) PROVE TypeOK'
  BY <1>1, ReadType
<1>2. ASSUME NEW whole \in BOOLEAN, ReadDecisions(whole) PROVE TypeOK'
  BY <1>2, DecisionsType
<1>3. CASE ReadHeld
  BY <1>3, HeldType
<1>4. ASSUME NEW t \in Tickets, Written(t) PROVE TypeOK'
  BY <1>4, WriteType DEF Written
<1>5. ASSUME NEW a \in Tickets, NEW b \in Tickets, NEW gate \in BOOLEAN, Relate(a, b, gate)
      PROVE  TypeOK'
  BY <1>5, RelateType
<1>6. CASE MoveTicket
  BY <1>6, MoveType
<1>7. ASSUME NEW c \in Consumers, UpdateConsumer(c) PROVE TypeOK'
  BY <1>7, ConsumerType
<1>8. ASSUME NEW w \in Windows, EditConfig(w) PROVE TypeOK'
  <2>0. writes' \in Nat /\ window' \in Windows
    BY <1>0, <1>8 DEF EditConfig, Writing, BoardType
  <2>1. stamped' \in BOOLEAN
    BY <1>8, Zenon DEF EditConfig
  <2>2. BoardType'
    BY <1>0, <1>8, <2>0, <2>1 DEF EditConfig, BoardType
  <2> QED
    BY <1>8, <2>2, StillType DEF EditConfig
<1>9. CASE Tick
  <2>1. BoardType'
    BY <1>0, <1>9 DEF Tick, BoardType
  <2> QED
    BY <1>9, <2>1, StillType DEF Tick
<1>10. CASE UNCHANGED vars
  <2>1. BoardType'
    BY <1>0, <1>10 DEF vars, BoardType
  <2> QED
    BY <1>10, <2>1, StillType DEF vars
<1>11. CASE Next
  BY <1>11, NextCases, <1>1, <1>2, <1>3, <1>4, <1>5, <1>6, <1>7, <1>8, <1>9
<1> QED
  BY <1>10, <1>11

(* Every copy keeps the shape its readers expect, whatever is written,     *)
(* read or configured (flags-cache.ts, projects.ts, human-hand.ts).        *)
THEOREM TypeCorrect == Spec => []TypeOK
<1>1. Init => TypeOK
  BY InitType
<1>2. TypeOK /\ [Next]_vars => TypeOK'
  BY NextType
<1> QED
  BY <1>1, <1>2, PTL DEF Spec

-----------------------------------------------------------------------------
(* Freshness.                                                              *)

Open(t) == ~ticket[t].closed /\ ~Asleep(t)
Waits(t) == \E d \in Tickets : <<t, d>> \in gates /\ ~ticket[d].closed
Awaits(c, t) == ticket[t].last = c /\ ~ticket[t].keeps
Free(c, t, undecided, kept) ==
    /\ Open(t) /\ ~Waits(t) /\ ~Awaits(c, t) /\ t \notin undecided
    /\ ~ClaimedByOther(c, t)
    /\ c \in humans \/ t \notin kept

LEMMA FlagsAre ==
  ASSUME NEW c, NEW t, NEW U, NEW K
  PROVE  FlagsOf(c, t, U, K) = [open |-> Open(t), waits |-> Waits(t),
                                awaiting |-> Awaits(c, t), actionable |-> Free(c, t, U, K)]
  BY DEF FlagsOf, Open, Waits, Awaits, Free

LEMMA FlagsAgree ==
  ASSUME NEW c, NEW t, NEW U, NEW K, NEW V, NEW H, t \in U <=> t \in V, t \in K <=> t \in H
  PROVE  FlagsOf(c, t, U, K) = FlagsOf(c, t, V, H)
<1>1. Free(c, t, U, K) = Free(c, t, V, H)
  BY DEF Free
<1> QED
  BY <1>1, FlagsAre

\* The step leaves alone all that a copy reads of t.
SameAt(t) ==
    /\ ticket'[t] = ticket[t] /\ recast'[t] = recast[t]
    /\ now' = now /\ window' = window /\ humans' = humans
    /\ Waits(t)' <=> Waits(t)

LEMMA SameDue ==
  ASSUME NEW t \in Tickets, SameAt(t)
  PROVE  (t \in Undecided' <=> t \in Undecided) /\ (t \in KeptByHumans' <=> t \in KeptByHumans)
  BY DEF SameAt, Undecided, DecisionDue, KeptByHumans

LEMMA SameFlags ==
  ASSUME NEW c, NEW t \in Tickets, SameAt(t), NEW U, NEW K
  PROVE  FlagsOf(c, t, U, K)' = FlagsOf(c, t, U, K)
<1>1. Open(t)' = Open(t)
  BY DEF SameAt, Open, Asleep
<1>2. Waits(t)' = Waits(t)
  BY DEF SameAt, Waits
<1>3. Awaits(c, t)' = Awaits(c, t)
  BY DEF SameAt, Awaits
<1>4. ClaimedByOther(c, t)' <=> ClaimedByOther(c, t)
  BY DEF SameAt, ClaimedByOther
<1>5. Free(c, t, U, K)' = Free(c, t, U, K)
  BY <1>1, <1>2, <1>3, <1>4 DEF Free, SameAt
<1>6. FlagsOf(c, t, U, K)' = [open |-> Open(t)', waits |-> Waits(t)',
                              awaiting |-> Awaits(c, t)', actionable |-> Free(c, t, U, K)']
  BY DEF FlagsOf, Open, Waits, Awaits, Free
<1> QED
  BY <1>1, <1>2, <1>3, <1>5, <1>6, FlagsAre

LEMMA SameDeadlines ==
  ASSUME NEW c, NEW t \in Tickets, SameAt(t)
  PROVE  Deadlines(c, {t})' = Deadlines(c, {t})
  BY DEF SameAt, Deadlines, ClaimedByOther, Asleep

LEMMA SameHolds ==
  ASSUME NEW c, NEW t \in Tickets, SameAt(t), NEW copy, Holds(c, copy, t)
  PROVE  Holds(c, copy, t)'
<1>1. FlagsOf(c, t, Undecided, KeptByHumans)' = FlagsOf(c, t, Undecided, KeptByHumans)
  <2>1. FlagsOf(c, t, Undecided', KeptByHumans') = FlagsOf(c, t, Undecided, KeptByHumans)
    BY SameDue, FlagsAgree
  <2> QED
    BY <2>1, SameFlags
<1>2. Deadlines(c, {t})' = Deadlines(c, {t})
  BY SameDeadlines
<1>3. Within(t, copy.until, HeldCeiling + Ceiling - 1)' <=> Within(t, copy.until, HeldCeiling + Ceiling - 1)
  BY DEF SameAt, Within
<1> QED
  BY <1>1, <1>2, <1>3 DEF Holds

LEMMA ZeroIsPast == ASSUME NEW n \in Nat PROVE 0 <= n + HeldCeiling
  BY FlagsCacheParameters

LEMMA NoCopyIsFine ==
  ASSUME now \in Nat, now > 0, NEW c PROVE FlagsOK(c, NoCopy) /\ DueOK(NoCopy) /\ HandOK(NoCopy)
<1>1. ~Live(NoCopy) /\ NoCopy.until = {0}
  BY DEF Live, NoCopy
<1> QED
  BY <1>1, FlagsCacheParameters DEF FlagsOK, DueOK, HandOK

LEMMA NoCopyIsFineNext ==
  ASSUME now' \in Nat, now' > 0, NEW c, NEW m, m = NoCopy
  PROVE  FlagsOK(c, m)' /\ DueOK(m)' /\ HandOK(m)'
<1>1. ~Live(m)' /\ m.until = {0}
  BY DEF Live, NoCopy
<1>2. 0 <= now' + HeldCeiling
  BY ZeroIsPast
<1>3. FlagsOK(c, m)' /\ DueOK(m)'
  BY <1>1 DEF FlagsOK, DueOK
<1>4. HandOK(m)'
  BY <1>1, <1>2 DEF HandOK
<1> QED
  BY <1>3, <1>4

LEMMA MarkFlags ==
  ASSUME NEW c, NEW copy, copy = NoCopy \/ copy \in Copy, FlagsOK(c, copy),
         now \in Nat, now > 0, now' = now,
         NEW ids \in SUBSET Tickets, NEW pairs, NEW m, m = Mark(copy, ids, pairs),
         \A t \in Tickets : t \notin Relatives(ids, pairs) => SameAt(t)
  PROVE  FlagsOK(c, m)'
<1>1. CASE m = NoCopy
  BY <1>1, NoCopyIsFineNext
<1>2. CASE m # NoCopy
  <2>1. Live(copy) /\ copy \in Copy /\ m = [copy EXCEPT !.dirty = copy.dirty \cup Relatives(ids, pairs)]
    BY <1>2, NoCopyIsDead DEF Mark
  <2>2. m.val = copy.val /\ m.until = copy.until /\ m.dirty = copy.dirty \cup Relatives(ids, pairs)
    BY <2>1 DEF Copy
  <2>3. ASSUME NEW t \in Tickets, t \notin m.dirty PROVE Holds(c, m, t)'
    <3>1. SameAt(t) /\ Holds(c, copy, t)
      BY <2>1, <2>2, <2>3 DEF FlagsOK
    <3>2. Holds(c, copy, t)'
      BY <3>1, SameHolds
    <3> QED
      BY <2>2, <3>2 DEF Holds
  <2>4. \E at \in m.until : at <= now' + Ceiling
    BY <2>1, <2>2 DEF FlagsOK
  <2> QED
    BY <2>3, <2>4 DEF FlagsOK
<1> QED
  BY <1>1, <1>2

LEMMA MarkDue ==
  ASSUME NEW copy \in Names, DueOK(copy), now \in Nat, now > 0, now' = now,
         NEW ids \in SUBSET Tickets, NEW pairs, NEW m, m = Mark(copy, ids, pairs),
         \A t \in Tickets : t \notin Relatives(ids, pairs) => SameAt(t)
  PROVE  DueOK(m)'
<1>1. CASE m = NoCopy
  BY <1>1, NoCopyIsFineNext
<1>2. CASE m # NoCopy
  <2>1. Live(copy) /\ m = [copy EXCEPT !.dirty = copy.dirty \cup Relatives(ids, pairs)]
    BY <1>2 DEF Mark
  <2>2. m.val = copy.val /\ m.dirty = copy.dirty \cup Relatives(ids, pairs)
    BY <2>1 DEF Names
  <2>3. ASSUME NEW t \in Tickets, t \notin m.dirty PROVE t \in m.val <=> DecisionDue(t)'
    BY <2>1, <2>2, <2>3 DEF DueOK, SameAt, DecisionDue
  <2> QED
    BY <2>3 DEF DueOK
<1> QED
  BY <1>1, <1>2

Clean ==
    /\ now > 0 /\ HandOK(held) /\ DueOK(decisions)
    /\ stamped => \A c \in Readers : FlagsOK(c, flags[c])

LEMMA ChangeFresh ==
  ASSUME Inv, NEW ids \in SUBSET Tickets, TicketChanged(ids), now' = now, stamped' = stamped,
         \A t \in Tickets : t \notin Relatives(ids, related') => SameAt(t)
  PROVE  Clean'
<1>1. now \in Nat /\ now > 0 /\ decisions \in Names /\ DueOK(decisions)
  BY TypeSplits DEF Inv, BoardType, CopiesType
<1>2. HandOK(held)'
  BY <1>1, NoCopyIsFineNext DEF TicketChanged
<1>3. DueOK(decisions)'
  <2>1. decisions' = Mark(decisions, ids, related')
    BY DEF TicketChanged
  <2> QED
    BY <1>1, <2>1, MarkDue
<1>4. ASSUME stamped', NEW c \in Readers PROVE FlagsOK(c, flags[c])'
  <2>1. FlagsOK(c, flags[c]) /\ (flags[c] = NoCopy \/ flags[c] \in Copy)
    BY <1>4, TypeSplits DEF Inv, CopiesType
  <2>2. flags'[c] = Mark(flags[c], ids, related')
    BY <1>4 DEF TicketChanged
  <2> QED
    BY <1>1, <2>1, <2>2, MarkFlags
<1> QED
  BY <1>1, <1>2, <1>3, <1>4 DEF Clean

LEMMA WriteFresh ==
  ASSUME Inv, NEW t \in Tickets, NEW row \in Ticket, Write(t, row)
  PROVE  Clean'
<1>1. TicketChanged({t}) /\ now' = now /\ stamped' = stamped /\ related' = related
  BY DEF Write
<1>2. ASSUME NEW u \in Tickets, u \notin Relatives({t}, related') PROVE SameAt(u)
  <2>1. u # t /\ <<u, t>> \notin gates
    BY <1>1, <1>2 DEF Relatives, Inv, TypeOK
  <2>2. \A v \in Tickets : v # t => ticket'[v] = ticket[v] /\ recast'[v] = recast[v]
    BY <1>1 DEF Write, TicketChanged, Inv, TypeOK
  <2>3. Waits(u)' <=> Waits(u)
    BY <2>1, <2>2 DEF Waits, Write
  <2> QED
    BY <1>2, <2>1, <2>2, <2>3 DEF SameAt, Write
<1> QED
  BY <1>1, <1>2, ChangeFresh

LEMMA RelateFresh ==
  ASSUME Inv, NEW a \in Tickets, NEW b \in Tickets, NEW gate \in BOOLEAN, Relate(a, b, gate)
  PROVE  Clean'
<1>1. TicketChanged({a, b}) /\ now' = now /\ stamped' = stamped
  BY DEF Relate
<1>2. ASSUME NEW u \in Tickets, u \notin Relatives({a, b}, related') PROVE SameAt(u)
  <2>1. u # a /\ u # b
    BY <1>2 DEF Relatives
  <2>2. recast'[u] = recast[u]
    BY <1>2, <1>1, <2>1 DEF TicketChanged
  <2>3. \A d \in Tickets : <<u, d>> \in gates' <=> <<u, d>> \in gates
    BY <2>1 DEF Relate
  <2>4. Waits(u)' <=> Waits(u)
    BY <2>3 DEF Waits, Relate
  <2> QED
    BY <2>2, <2>4 DEF SameAt, Relate
<1> QED
  BY <1>1, <1>2, ChangeFresh

\* A step that leaves the board alone takes nothing from a copy.
LEMMA StillFlags ==
  ASSUME NEW c, NEW copy, FlagsOK(c, copy), now' = now, \A t \in Tickets : SameAt(t)
  PROVE  FlagsOK(c, copy)'
<1>1. ASSUME NEW t \in Tickets, Holds(c, copy, t) PROVE Holds(c, copy, t)'
  BY <1>1, SameHolds
<1>2. Live(copy)' <=> Live(copy)
  BY DEF Live
<1> QED
  BY <1>1, <1>2 DEF FlagsOK

LEMMA StillDue ==
  ASSUME NEW copy, DueOK(copy), now' = now, \A t \in Tickets : SameAt(t)
  PROVE  DueOK(copy)'
<1>1. Live(copy)' <=> Live(copy)
  BY DEF Live
<1>2. \A t \in Tickets : DecisionDue(t)' <=> DecisionDue(t)
  BY DEF SameAt, DecisionDue
<1> QED
  BY <1>1, <1>2 DEF DueOK

LEMMA StillHand ==
  ASSUME NEW copy, HandOK(copy), now' = now, \A t \in Tickets : SameAt(t)
  PROVE  HandOK(copy)'
<1>1. Live(copy)' <=> Live(copy)
  BY DEF Live
<1>2. \A t \in Tickets : t \in KeptByHumans' <=> t \in KeptByHumans
  BY SameDue
<1>3. \A t \in Tickets :
        Within(t, copy.until, HeldCeiling)' <=> Within(t, copy.until, HeldCeiling)
  BY DEF SameAt, Within
<1> QED
  BY <1>1, <1>2, <1>3 DEF HandOK

LEMMA StillBoard ==
  ASSUME UNCHANGED <<boardVars, recast>>
  PROVE  now' = now /\ \A t \in Tickets : SameAt(t)
  BY DEF boardVars, SameAt, Waits

LEMMA FreshHandIsFine ==
  ASSUME now \in Nat
  PROVE  HandOK([val |-> KeptByHumans, until |-> {now + HeldCeiling}, dirty |-> {}])
  BY FlagsCacheParameters DEF HandOK

LEMMA RepairedIsDue ==
  ASSUME NEW copy \in Names, DueOK(copy), Live(copy)
  PROVE  Repaired(copy).val = Undecided /\ DueOK(Repaired(copy))
<1>1. Repaired(copy).val = {t \in Tickets : IF t \in copy.dirty THEN DecisionDue(t) ELSE t \in copy.val}
  BY DEF Repaired, Names
<1>2. Repaired(copy).val = Undecided
  BY <1>1 DEF Undecided, DueOK
<1> QED
  BY <1>2 DEF DueOK, Undecided

LEMMA GateReadIsDue ==
  ASSUME now \in Nat, now > 0, NEW copy \in Names, DueOK(copy), NEW whole
  PROVE  DueOK(GateRead(copy, whole))
<1>1. DueOK([val |-> Undecided, until |-> {now + Ceiling}, dirty |-> {}])
  BY DEF DueOK, Undecided
<1> QED
  BY <1>1, RepairedIsDue, NoCopyIsFine DEF GateRead

LEMMA KnownNames ==
  ASSUME Inv PROVE Known(decisions) \in Names /\ DueOK(Known(decisions))
  BY TypeSplits, NoNames, NoCopyIsFine DEF Inv, BoardType, CopiesType, Known

\* What a computation says of a ticket, from the other two copies.
LEMMA Computed ==
  ASSUME Inv, NEW c, NEW t \in Tickets
  PROVE  \/ FlagsOf(c, t, UndecidedNow(Known(decisions)), KeptNow) = FlagsOf(c, t, Undecided, KeptByHumans)
         \/ recast[t] # 0 /\ now < recast[t] + HeldCeiling
<1>1. UndecidedNow(Known(decisions)) = Undecided
  BY KnownNames, RepairedIsDue DEF UndecidedNow
<1>2. \/ t \in KeptNow <=> t \in KeptByHumans
      \/ recast[t] # 0 /\ now < recast[t] + HeldCeiling
  <2>1. now \in Nat /\ recast[t] \in Nat /\ held.until \subseteq Nat
    BY TypeSplits DEF Inv, BoardType, CopiesType
  <2>2. CASE ~Live(held)
    BY <2>2 DEF KeptNow
  <2>3. CASE Live(held)
    <3>1. (t \in held.val <=> t \in KeptByHumans) \/ Within(t, held.until, HeldCeiling)
      BY <2>3 DEF Inv, HandOK
    <3>2. CASE Within(t, held.until, HeldCeiling)
      <4>1. PICK at \in held.until : at <= recast[t] + HeldCeiling
        BY <3>2 DEF Within
      <4>2. now < at
        BY <2>3 DEF Live
      <4>3. recast[t] # 0
        BY <3>2 DEF Within
      <4> QED
        BY <2>1, <4>1, <4>2, <4>3, FlagsCacheParameters
    <3> QED
      BY <2>3, <3>1, <3>2 DEF KeptNow
  <2> QED
    BY <2>2, <2>3
<1> QED
  BY <1>1, <1>2, FlagsAgree

\* A copy that expires within the ceiling holds it for as long as the property allows.
LEMMA ComputedWithin ==
  ASSUME Inv, NEW t \in Tickets, recast[t] # 0, now < recast[t] + HeldCeiling,
         NEW instants \in SUBSET Nat, \E at \in instants : at <= now + Ceiling
  PROVE  Within(t, instants, HeldCeiling + Ceiling - 1)
<1>1. now \in Nat /\ recast[t] \in Nat
  BY TypeSplits DEF Inv, BoardType
<1>2. PICK at \in instants : at <= now + Ceiling
  OBVIOUS
<1>3. at <= recast[t] + (HeldCeiling + Ceiling - 1)
  BY <1>1, <1>2, FlagsCacheParameters
<1> QED
  BY <1>3 DEF Within

LEMMA DeadlinesSpread ==
  ASSUME NEW c, NEW S \in SUBSET Tickets, NEW t \in S
  PROVE  Deadlines(c, {t}) \subseteq Deadlines(c, S)
  BY DEF Deadlines

LEMMA BuiltIsFine ==
  ASSUME Inv, NEW c PROVE FlagsOK(c, Built(c))
<1> DEFINE copy == Built(c)
<1>1. copy.until = {now + Ceiling} \cup Deadlines(c, Tickets)
      /\ \A t \in Tickets : copy.val[t] = FlagsOf(c, t, UndecidedNow(Known(decisions)), KeptNow)
  BY DEF Built
<1>2. copy \in Copy /\ now \in Nat
  BY BuiltType DEF Inv, TypeOK
<1> HIDE DEF copy
<1>3. \E at \in copy.until : at <= now + Ceiling
  BY <1>1, <1>2, FlagsCacheParameters
<1>4. ASSUME NEW t \in Tickets PROVE Holds(c, copy, t)
  <2>1. Deadlines(c, {t}) \subseteq copy.until
    BY <1>1, DeadlinesSpread
  <2>2. copy.until \in SUBSET Nat
    BY <1>2 DEF Copy
  <2> QED
    BY <1>1, <1>3, <2>1, <2>2, Computed, ComputedWithin DEF Holds
<1>5. FlagsOK(c, copy)
  BY <1>3, <1>4 DEF FlagsOK
<1> QED
  BY <1>5 DEF copy

LEMMA RepairedIsFine ==
  ASSUME Inv, NEW c, NEW copy \in Copy, Live(copy), FlagsOK(c, copy)
  PROVE  FlagsOK(c, RepairedFlags(c, copy))
<1> DEFINE new == RepairedFlags(c, copy)
<1>1. /\ new.until = copy.until \cup Deadlines(c, Relatives(copy.dirty, related))
      /\ \A t \in Tickets : new.val[t] = IF t \in copy.dirty
                THEN FlagsOf(c, t, UndecidedNow(Known(decisions)), KeptNow) ELSE copy.val[t]
  BY DEF RepairedFlags
<1>2. new \in Copy
  BY RepairedFlagsType DEF Inv
<1> HIDE DEF new
<1>3. \E at \in new.until : at <= now + Ceiling
  BY <1>1 DEF FlagsOK
<1>4. ASSUME NEW t \in Tickets PROVE Holds(c, new, t)
  <2>1. CASE t \in copy.dirty
    <3>1. Relatives(copy.dirty, related) \in SUBSET Tickets /\ t \in Relatives(copy.dirty, related)
      BY <2>1 DEF Relatives, Copy, Few
    <3>2. Deadlines(c, {t}) \subseteq new.until
      BY <1>1, <3>1, DeadlinesSpread
    <3>3. new.until \in SUBSET Nat
      BY <1>2 DEF Copy
    <3> QED
      BY <1>1, <1>3, <2>1, <3>2, <3>3, Computed, ComputedWithin DEF Holds
  <2>2. CASE t \notin copy.dirty
    <3>1. Holds(c, copy, t)
      BY <2>2 DEF FlagsOK
    <3> QED
      BY <1>1, <2>2, <3>1 DEF Holds, Within
  <2> QED
    BY <2>1, <2>2
<1>5. FlagsOK(c, new)
  BY <1>3, <1>4 DEF FlagsOK
<1> QED
  BY <1>5 DEF new

LEMMA ReadFresh ==
  ASSUME Inv, NEW c \in Readers, NEW whole \in BOOLEAN, Read(c, whole)
  PROVE  Clean'
<1>0. now \in Nat /\ now > 0 /\ CopiesType
  BY TypeSplits DEF Inv, BoardType
<1>1. now' = now /\ \A t \in Tickets : SameAt(t)
  BY StillBoard DEF Read
<1>2. HandOK(held)'
  <2>1. HandOK(held')
    BY <1>0, FreshHandIsFine DEF Read, Inv
  <2> QED
    BY <1>1, <2>1, StillHand
<1>3. DueOK(decisions)'
  <2>1. DueOK(decisions')
    BY <1>0, KnownNames, GateReadIsDue DEF Read
  <2> QED
    BY <1>1, <2>1, StillDue
<1>4. ASSUME NEW r \in Readers PROVE FlagsOK(r, flags[r])'
  <2>1. FlagsOK(r, Known(flags[r])) /\ (Known(flags[r]) = NoCopy \/ Known(flags[r]) \in Copy)
    BY <1>0, <1>4, NoCopyIsFine DEF Inv, Known, CopiesType
  <2>2. CASE r # c
    <3>1. flags'[r] = Known(flags[r])
      BY <1>4, <2>2 DEF Read
    <3> QED
      BY <1>1, <2>1, <3>1, StillFlags
  <2>3. CASE r = c
    <3> DEFINE copy == Known(flags[c])
    <3>1. \/ flags'[c] = NoCopy \/ flags'[c] = Built(c)
          \/ Live(copy) /\ flags'[c] \in {copy, RepairedFlags(c, copy)}
      BY DEF Read
    <3>2. Live(copy) => copy \in Copy
      BY <1>0, <2>1, <2>3, NoCopyIsDead
    <3>3. FlagsOK(c, flags'[c])
      BY <1>0, <2>1, <2>3, <3>1, <3>2, NoCopyIsFine, BuiltIsFine, RepairedIsFine
    <3> QED
      BY <1>1, <2>3, <3>3, StillFlags
  <2> QED
    BY <2>2, <2>3
<1> QED
  BY <1>0, <1>1, <1>2, <1>3, <1>4 DEF Clean

LEMMA DecisionsFresh ==
  ASSUME Inv, NEW whole \in BOOLEAN, ReadDecisions(whole)
  PROVE  Clean'
<1>0. now \in Nat /\ now > 0 /\ CopiesType
  BY TypeSplits DEF Inv, BoardType
<1>1. now' = now /\ \A t \in Tickets : SameAt(t)
  BY StillBoard DEF ReadDecisions
<1>2. DueOK(decisions)'
  <2>1. DueOK(decisions')
    BY <1>0, GateReadIsDue DEF ReadDecisions, Inv, CopiesType
  <2> QED
    BY <1>1, <2>1, StillDue
<1>3. HandOK(held)'
  BY <1>1, StillHand DEF Inv, ReadDecisions
<1>4. ASSUME stamped', NEW r \in Readers PROVE FlagsOK(r, flags[r])'
  <2>1. FlagsOK(r, flags[r]) /\ flags'[r] = flags[r]
    BY <1>4 DEF Inv, ReadDecisions
  <2> QED
    BY <1>1, <2>1, StillFlags
<1> QED
  BY <1>0, <1>1, <1>2, <1>3, <1>4 DEF Clean

LEMMA HeldFresh ==
  ASSUME Inv, ReadHeld
  PROVE  Clean'
<1>0. now \in Nat /\ now > 0
  BY TypeSplits DEF Inv, BoardType
<1>1. now' = now /\ \A t \in Tickets : SameAt(t)
  BY StillBoard DEF ReadHeld
<1>2. HandOK(held)'
  <2>1. HandOK(held')
    BY <1>0, FreshHandIsFine DEF ReadHeld
  <2> QED
    BY <1>1, <2>1, StillHand
<1>3. DueOK(decisions)'
  BY <1>1, StillDue DEF Inv, ReadHeld
<1>4. ASSUME stamped', NEW r \in Readers PROVE FlagsOK(r, flags[r])'
  <2>1. FlagsOK(r, flags[r]) /\ flags'[r] = flags[r]
    BY <1>4 DEF Inv, ReadHeld
  <2> QED
    BY <1>1, <2>1, StillFlags
<1> QED
  BY <1>0, <1>1, <1>2, <1>3, <1>4 DEF Clean

\* With the flags and the decisions dropped, the hand alone has something to keep.
LEMMA ClearedFresh ==
  ASSUME now' \in Nat, now' > 0, ClearFlagsCache, HandOK(held)'
  PROVE  Clean'
<1>1. decisions' = NoCopy /\ \A c \in Readers : flags'[c] = NoCopy
  BY DEF ClearFlagsCache
<1>2. DueOK(decisions)'
  BY <1>1, NoCopyIsFineNext
<1>3. \A c \in Readers : FlagsOK(c, flags[c])'
  BY <1>1, NoCopyIsFineNext
<1> QED
  BY <1>2, <1>3 DEF Clean

LEMMA MoveFresh ==
  ASSUME Inv, MoveTicket PROVE Clean'
<1>1. now' \in Nat /\ now' > 0
  BY TypeSplits DEF Inv, BoardType, MoveTicket, boardVars
<1>2. held' = NoCopy /\ ClearFlagsCache
  BY DEF MoveTicket
<1>3. HandOK(held)'
  BY <1>1, <1>2, NoCopyIsFineNext
<1> QED
  BY <1>1, <1>2, <1>3, ClearedFresh

LEMMA ConsumerFresh ==
  ASSUME Inv, NEW c \in Consumers, UpdateConsumer(c) PROVE Clean'
<1>0. now \in Nat /\ now > 0 /\ now' = now /\ held' = held /\ ticket' = ticket /\ ClearFlagsCache
      /\ recast \in [Tickets -> Nat]
  BY TypeSplits DEF Inv, BoardType, UpdateConsumer
<1>1. \E at \in held.until : at <= now + HeldCeiling
  BY DEF Inv, HandOK
<1>2. ASSUME Live(held), NEW t \in Tickets
      PROVE  (t \in held.val <=> t \in KeptByHumans') \/ Within(t, held.until, HeldCeiling)'
  <2>1. CASE ticket[t].keeps /\ ticket[t].last = c
    <3>1. recast'[t] = now
      BY <1>2, <2>1 DEF UpdateConsumer
    <3> QED
      BY <1>0, <1>1, <3>1 DEF Within
  <2>2. CASE ~(ticket[t].keeps /\ ticket[t].last = c)
    <3>1. recast'[t] = recast[t]
      BY <1>2, <2>2 DEF UpdateConsumer
    <3>2. ticket[t].keeps => (ticket[t].last \in humans' <=> ticket[t].last \in humans)
      BY <2>2 DEF UpdateConsumer
    <3>3. t \in KeptByHumans' <=> t \in KeptByHumans
      BY <1>0, <3>2 DEF KeptByHumans
    <3> QED
      BY <1>0, <1>2, <3>1, <3>3 DEF Inv, HandOK, Within
  <2> QED
    BY <2>1, <2>2
<1>3. Live(held)' <=> Live(held)
  BY <1>0 DEF Live
<1>4. HandOK(held)'
  BY <1>0, <1>1, <1>2, <1>3 DEF HandOK
<1> QED
  BY <1>0, <1>4, ClearedFresh

LEMMA ConfigFresh ==
  ASSUME Inv, NEW w \in Windows, EditConfig(w) PROVE Clean'
<1>1. now' = now /\ decisions' = decisions /\ held' = held /\ ticket' = ticket
      /\ humans' = humans /\ recast' = recast /\ ~stamped'
  BY DEF EditConfig
<1>2. HandOK(held)' <=> HandOK(held)
  BY <1>1 DEF HandOK, Live, Within, KeptByHumans
<1>3. DueOK(decisions)' <=> DueOK(decisions)
  BY <1>1 DEF DueOK, Live, DecisionDue
<1> QED
  BY <1>1, <1>2, <1>3 DEF Inv, Clean

\* Time passes: of what a copy that is still alive says of t, nothing changes.
LEMMA TickHolds ==
  ASSUME Inv, Tick, NEW c \in Readers, NEW t \in Tickets, NEW copy \in Copy,
         Live(copy)', Holds(c, copy, t)
  PROVE  Holds(c, copy, t)'
<1>0. /\ now \in Nat /\ now' = now + 1 /\ ticket' = ticket /\ window' = window
      /\ humans' = humans /\ gates' = gates /\ recast' = recast
      /\ window \in Nat /\ ticket[t].until \in Nat /\ ticket[t].claimedAt \in Nat
  BY TypeSplits, FlagsCacheParameters DEF Inv, BoardType, Tick, Ticket
<1>1. Open(t)' <=> Open(t)
  <2>1. CASE Asleep(t) /\ ~ticket[t].closed
    <3>1. ticket[t].until \in copy.until
      BY <2>1 DEF Holds, Deadlines
    <3>2. now' < ticket[t].until
      BY <1>0, <3>1 DEF Live
    <3> QED
      BY <1>0, <2>1, <3>2 DEF Open, Asleep
  <2>2. CASE ticket[t].closed
    BY <1>0, <2>2 DEF Open
  <2>3. CASE ~Asleep(t)
    BY <1>0, <2>3 DEF Open, Asleep
  <2> QED
    BY <2>1, <2>2, <2>3
<1>2. ClaimedByOther(c, t)' <=> ClaimedByOther(c, t)
  <2>1. CASE ClaimedByOther(c, t)
    <3>1. ticket[t].claimedAt + window \in copy.until
      BY <2>1 DEF Holds, Deadlines
    <3>2. now + 1 < ticket[t].claimedAt + window
      BY <1>0, <3>1 DEF Live
    <3> QED
      BY <1>0, <2>1, <3>2 DEF ClaimedByOther
  <2>2. CASE ~ClaimedByOther(c, t)
    BY <1>0, <2>2 DEF ClaimedByOther
  <2> QED
    BY <2>1, <2>2
<1>3. Waits(t)' <=> Waits(t)
  BY <1>0 DEF Waits
<1>4. Awaits(c, t)' <=> Awaits(c, t)
  BY <1>0 DEF Awaits
<1>5. (t \in Undecided' <=> t \in Undecided) /\ (t \in KeptByHumans' <=> t \in KeptByHumans)
  BY <1>0 DEF Undecided, DecisionDue, KeptByHumans
<1>6. FlagsOf(c, t, Undecided, KeptByHumans)' = FlagsOf(c, t, Undecided, KeptByHumans)
  <2>1. Free(c, t, Undecided, KeptByHumans)' <=> Free(c, t, Undecided, KeptByHumans)
    BY <1>0, <1>1, <1>2, <1>3, <1>4, <1>5 DEF Free
  <2>2. FlagsOf(c, t, Undecided, KeptByHumans)' =
            [open |-> Open(t)', waits |-> Waits(t)', awaiting |-> Awaits(c, t)',
             actionable |-> Free(c, t, Undecided, KeptByHumans)']
    BY DEF FlagsOf, Open, Waits, Awaits, Free
  <2>3. /\ Open(t)' = Open(t) /\ Waits(t)' = Waits(t) /\ Awaits(c, t)' = Awaits(c, t)
        /\ Free(c, t, Undecided, KeptByHumans)' = Free(c, t, Undecided, KeptByHumans)
    BY <1>1, <1>3, <1>4, <2>1 DEF Open, Waits, Awaits, Free
  <2> QED
    BY <2>2, <2>3, FlagsAre
<1>7. Within(t, copy.until, HeldCeiling + Ceiling - 1)' <=> Within(t, copy.until, HeldCeiling + Ceiling - 1)
  BY <1>0 DEF Within
<1>8. Deadlines(c, {t})' \subseteq Deadlines(c, {t})
  BY <1>0, <1>2 DEF Deadlines, Asleep
<1> QED
  BY <1>6, <1>7, <1>8 DEF Holds

LEMMA TickFresh ==
  ASSUME Inv, Tick PROVE Clean'
<1>0. /\ now \in Nat /\ now' = now + 1 /\ ticket' = ticket /\ humans' = humans /\ recast' = recast
      /\ flags' = flags /\ decisions' = decisions /\ held' = held /\ stamped' = stamped
      /\ CopiesType
  BY TypeSplits DEF Inv, BoardType, Tick
<1>1. ASSUME NEW copy, copy.until \in SUBSET Nat
      PROVE  Live(copy)' => Live(copy)
  BY <1>0, <1>1 DEF Live
<1>2. HandOK(held)'
  <2>1. KeptByHumans' = KeptByHumans
    BY <1>0 DEF KeptByHumans
  <2>2. Live(held)' => Live(held)
    BY <1>0, <1>1 DEF CopiesType
  <2>3. \E at \in held.until : at <= now' + HeldCeiling
    BY <1>0, FlagsCacheParameters DEF Inv, HandOK, CopiesType
  <2> QED
    BY <1>0, <2>1, <2>2, <2>3 DEF Inv, HandOK, Within
<1>3. DueOK(decisions)'
  <2>1. Live(decisions)' => Live(decisions)
    BY <1>0, <1>1 DEF CopiesType, Names
  <2> QED
    BY <1>0, <2>1 DEF Inv, DueOK, DecisionDue
<1>4. ASSUME stamped', NEW c \in Readers PROVE FlagsOK(c, flags[c])'
  <2>1. FlagsOK(c, flags[c]) /\ (flags[c] = NoCopy \/ flags[c] \in Copy)
    BY <1>0, <1>4 DEF Inv, CopiesType
  <2>2. CASE flags[c] = NoCopy
    <3>1. now' \in Nat /\ now' > 0
      BY <1>0
    <3> QED
      BY <1>0, <2>2, <3>1, NoCopyIsFineNext
  <2>3. CASE flags[c] \in Copy
    <3>1. SUFFICES ASSUME Live(flags[c])'
                   PROVE  /\ \E at \in flags[c].until : at <= now' + Ceiling
                          /\ \A t \in Tickets : t \notin flags[c].dirty => Holds(c, flags[c], t)'
      BY <1>0 DEF FlagsOK
    <3>2. Live(flags[c])
      BY <1>0, <1>1, <2>3, <3>1 DEF Copy
    <3>3. \E at \in flags[c].until : at <= now' + Ceiling
      <4>1. PICK at \in flags[c].until : at <= now + Ceiling
        BY <2>1, <3>2 DEF FlagsOK
      <4>2. at \in Nat
        BY <2>3 DEF Copy
      <4> QED
        BY <1>0, <4>1, <4>2, FlagsCacheParameters
    <3>4. ASSUME NEW t \in Tickets, t \notin flags[c].dirty PROVE Holds(c, flags[c], t)'
      BY <1>0, <2>1, <2>3, <3>1, <3>2, <3>4, TickHolds DEF FlagsOK
    <3> QED
      BY <3>3, <3>4
  <2> QED
    BY <2>1, <2>2, <2>3
<1>5. now' > 0
  BY <1>0
<1> QED
  BY <1>2, <1>3, <1>4, <1>5 DEF Clean

LEMMA InitInv == ASSUME Init PROVE Inv
<1>1. TypeOK /\ now \in Nat /\ now > 0
  BY InitType DEF Init
<1>2. HandOK(held) /\ DueOK(decisions) /\ \A c \in Readers : FlagsOK(c, flags[c])
  BY <1>1, NoCopyIsFine DEF Init
<1> QED
  BY <1>1, <1>2 DEF Inv

LEMMA NextInv == ASSUME Inv, [Next]_vars PROVE Inv'
<1>0. TypeOK /\ TypeOK'
  BY NextType DEF Inv
<1> SUFFICES Clean'
  BY <1>0 DEF Inv, Clean
<1>1. ASSUME NEW c \in Readers, NEW whole \in BOOLEAN, Read(c, whole) PROVE Clean'
  BY <1>1, ReadFresh
<1>2. ASSUME NEW whole \in BOOLEAN, ReadDecisions(whole) PROVE Clean'
  BY <1>2, DecisionsFresh
<1>3. CASE ReadHeld
  BY <1>3, HeldFresh
<1>4. ASSUME NEW t \in Tickets, Written(t) PROVE Clean'
  BY <1>4, WriteFresh DEF Written
<1>5. ASSUME NEW a \in Tickets, NEW b \in Tickets, NEW gate \in BOOLEAN, Relate(a, b, gate)
      PROVE  Clean'
  BY <1>5, RelateFresh
<1>6. CASE MoveTicket
  BY <1>6, MoveFresh
<1>7. ASSUME NEW c \in Consumers, UpdateConsumer(c) PROVE Clean'
  BY <1>7, ConsumerFresh
<1>8. ASSUME NEW w \in Windows, EditConfig(w) PROVE Clean'
  BY <1>8, ConfigFresh
<1>9. CASE Tick
  BY <1>9, TickFresh
<1>10. CASE UNCHANGED vars
  <2>1. now' = now /\ \A t \in Tickets : SameAt(t)
    BY <1>10 DEF vars, SameAt, Waits
  <2>2. /\ flags' = flags /\ decisions' = decisions /\ held' = held /\ stamped' = stamped
        /\ now > 0 /\ HandOK(held) /\ DueOK(decisions)
        /\ stamped => \A c \in Readers : FlagsOK(c, flags[c])
    BY <1>10 DEF vars, Inv
  <2>3. HandOK(held)' /\ DueOK(decisions)'
    BY <2>1, <2>2, StillHand, StillDue
  <2>4. stamped' => \A c \in Readers : FlagsOK(c, flags[c])'
    BY <2>1, <2>2, StillFlags
  <2> QED
    BY <2>1, <2>2, <2>3, <2>4 DEF Clean
<1>11. CASE Next
  BY <1>0, <1>11, NextCases, <1>1, <1>2, <1>3, <1>4, <1>5, <1>6, <1>7, <1>8, <1>9
<1> QED
  BY <1>10, <1>11

LEMMA InvIsFresh == ASSUME Inv PROVE ReadsAreFresh
<1>0. now \in Nat /\ recast \in [Tickets -> Nat] /\ CopiesType /\ DueOK(decisions)
  BY TypeSplits DEF Inv, BoardType
<1>1. UndecidedNow(decisions) = Undecided
  BY <1>0, RepairedIsDue DEF UndecidedNow, CopiesType
<1>2. ASSUME NEW c \in Readers, NEW t \in Tickets, Answer(c)[t] # Fresh(c)[t]
      PROVE  recast[t] # 0 /\ now + 1 < recast[t] + HeldCeiling + Ceiling
  <2> DEFINE copy == Known(flags[c])
  <2>1. Fresh(c)[t] = FlagsOf(c, t, Undecided, KeptByHumans)
    BY <1>2 DEF Fresh
  <2>2. Live(copy) => copy \in Copy /\ FlagsOK(c, copy)
    BY <1>0, <1>2, NoCopyIsDead DEF Inv, Known, CopiesType
  <2>3. \/ Answer(c)[t] = FlagsOf(c, t, UndecidedNow(Known(decisions)), KeptNow)
        \/ Live(copy) /\ t \notin copy.dirty /\ Answer(c)[t] = copy.val[t]
    BY <1>2 DEF Answer, Built, RepairedFlags
  <2> HIDE DEF copy
  <2>4. CASE Answer(c)[t] = FlagsOf(c, t, UndecidedNow(Known(decisions)), KeptNow)
    <3>1. recast[t] # 0 /\ now < recast[t] + HeldCeiling
      BY <1>2, <2>1, <2>4, Computed
    <3> QED
      BY <1>0, <1>2, <3>1, FlagsCacheParameters
  <2>5. CASE Live(copy) /\ t \notin copy.dirty /\ Answer(c)[t] = copy.val[t]
    <3>1. Within(t, copy.until, HeldCeiling + Ceiling - 1)
      BY <1>2, <2>1, <2>2, <2>5 DEF FlagsOK, Holds
    <3>2. PICK at \in copy.until : at <= recast[t] + (HeldCeiling + Ceiling - 1)
      BY <3>1 DEF Within
    <3>3. recast[t] # 0 /\ now < at
      BY <2>5, <3>1 DEF Within, Live
    <3>4. at \in Nat /\ recast[t] \in Nat
      BY <1>0, <1>2, <2>2, <2>5 DEF Copy
    <3> QED
      BY <1>0, <3>2, <3>3, <3>4, FlagsCacheParameters
  <2> QED
    BY <2>3, <2>4, <2>5
<1> QED
  BY <1>1, <1>2 DEF ReadsAreFresh

(* However writes, relations, reads, configurations and time interleave, a *)
(* read answers what the board says, but for the hand of a human who has   *)
(* just become one or ceased to be (flags-cache.ts, projects.ts).          *)
THEOREM ReadsAreAlwaysFresh == Spec => []ReadsAreFresh
<1>1. Init => Inv
  BY InitInv
<1>2. Inv /\ [Next]_vars => Inv'
  BY NextInv
<1>3. Inv => ReadsAreFresh
  BY InvIsFresh
<1> QED
  BY <1>1, <1>2, <1>3, PTL DEF Spec

=============================================================================
