------------------------------ MODULE FlagsCache ------------------------------
(***************************************************************************)
(* The copies a daemon keeps of what its board says: which tickets each    *)
(* consumer can act on, which wait for a decision, which a human keeps in  *)
(* hand (db/flags-cache.ts, db/projects.ts, db/human-hand.ts).  A write    *)
(* names the tickets it touched, and each copy is repaired for them at its *)
(* next read; what only time changes is met by the copy's expiry; what is  *)
(* no ticket's write empties the copies.                                   *)
(*                                                                         *)
(* A write and what it signals are one step, as they are one run of the    *)
(* daemon.  Every ticket here is approved, on a level its readers work on, *)
(* filed by someone else and in a project they lead.                       *)
(***************************************************************************)
EXTENDS Naturals, FiniteSets

CONSTANTS
    Tickets,
    Consumers, None,
    People,             \* the consumers that are human at first
    Readers,            \* the consumers whose reads are followed
    Windows,            \* values the claim window may be given
    Ceiling,            \* CEILING_MS of the flags
    HeldCeiling,        \* CEILING_MS of the tickets held by humans
    MaxDirty,
    MaxTime,            \* bound on the clock
    MaxWrites           \* bound on the writes

ASSUME FlagsCacheParameters ==
    /\ None \notin Consumers
    /\ People \subseteq Consumers /\ Readers \subseteq Consumers
    /\ Windows \subseteq Nat \ {0} /\ Windows # {}
    /\ Ceiling \in Nat \ {0} /\ HeldCeiling \in Nat \ {0} /\ MaxDirty \in Nat
    /\ MaxTime \in Nat /\ MaxWrites \in Nat

VARIABLES
    now, writes,
    ticket,     \* what the flags read of each ticket
    gates,      \* <<waiter, blocker>>: relations in force on the gate axis
    related,    \* pairs some relation event of the log names
    humans,     \* the consumers enabled as humans
    window,     \* the claim window, in the YAML configuration
    stamped,    \* the configuration is the one the last computation saw
    flags,      \* per reader, its copy of the flags
    decisions,  \* the copy of the decision gate
    held,       \* the copy of the tickets held by humans
    recast      \* history: when who is human last changed what a ticket is to its readers

boardVars == <<now, ticket, gates, related, humans, window>>
vars == <<now, writes, ticket, gates, related, humans, window, stamped, flags, decisions, held,
          recast>>

Ticket == [closed : BOOLEAN, until : Nat, proposer : Consumers \cup {None},
           answered : SUBSET Consumers, claimant : Consumers \cup {None}, claimedAt : Nat,
           last : Consumers \cup {None}, keeps : BOOLEAN]

\* A copy lives until the first of its instants.
NoCopy == [val |-> {}, until |-> {0}, dirty |-> {}]

Init ==
    /\ now = 1 /\ writes = 0
    /\ ticket = [t \in Tickets |-> [closed |-> FALSE, until |-> 0, proposer |-> None,
                    answered |-> {}, claimant |-> None, claimedAt |-> 0, last |-> None, keeps |-> FALSE]]
    /\ gates = {} /\ related = {}
    /\ humans = People
    /\ window \in Windows /\ stamped = TRUE
    /\ flags = [c \in Readers |-> NoCopy] /\ decisions = NoCopy /\ held = NoCopy
    /\ recast = [t \in Tickets |-> 0]

-----------------------------------------------------------------------------
(* What the board says now.                                                *)

Asleep(t) == ticket[t].until > now

ClaimedByOther(c, t) ==
    ticket[t].claimant \notin {c, None} /\ now - ticket[t].claimedAt < window

\* A decision is due from its proposal on, until it is taken or a human answers it in words.
DecisionDue(t) ==
    ticket[t].proposer # None /\ ticket[t].answered \cap (humans \ {ticket[t].proposer}) = {}

Undecided == {t \in Tickets : DecisionDue(t)}
KeptByHumans == {t \in Tickets : ticket[t].keeps /\ ticket[t].last \in humans}

\* The flags of t for c, given which tickets are undecided and which a human keeps in hand.
FlagsOf(c, t, undecided, kept) ==
    LET open == ~ticket[t].closed /\ ~Asleep(t)
        waits == \E d \in Tickets : <<t, d>> \in gates /\ ~ticket[d].closed
        awaiting == ticket[t].last = c /\ ~ticket[t].keeps
        free == /\ open /\ ~waits /\ ~awaiting /\ t \notin undecided
                /\ ~ClaimedByOther(c, t)
                /\ c \in humans \/ t \notin kept
    IN  [open |-> open, waits |-> waits, awaiting |-> awaiting, actionable |-> free]

Fresh(c) == [t \in Tickets |-> FlagsOf(c, t, Undecided, KeptByHumans)]

-----------------------------------------------------------------------------
(* The copies.                                                             *)

Live(copy) == \A at \in copy.until : now < at

\* Every relation event counts, the one that cut the relation too.
Relatives(S, pairs) == S \cup {t \in Tickets : \E s \in S : <<t, s>> \in pairs \/ <<s, t>> \in pairs}

\* Variant: the written tickets alone.
MarkAlone(copy, ids, pairs) ==
    IF Live(copy) /\ Cardinality(copy.dirty \cup ids) <= MaxDirty
    THEN [copy EXCEPT !.dirty = @ \cup ids] ELSE NoCopy

\* Variant: the limit is looked at before the tickets are added.
MarkThenCount(copy, ids, pairs) ==
    IF Live(copy) /\ Cardinality(copy.dirty) <= MaxDirty
    THEN [copy EXCEPT !.dirty = @ \cup Relatives(ids, pairs)] ELSE NoCopy

Mark(copy, ids, pairs) ==
    LET dirty == copy.dirty \cup Relatives(ids, pairs)
    IN  IF Live(copy) /\ Cardinality(dirty) <= MaxDirty
        THEN [copy EXCEPT !.dirty = dirty] ELSE NoCopy

\* ticketChanged, after a write: the human's hand is dropped, the other copies are marked.
TicketChanged(ids) ==
    /\ held' = NoCopy
    /\ flags' = [c \in Readers |-> Mark(flags[c], ids, related')]
    /\ decisions' = Mark(decisions, ids, related')
    /\ recast' = [t \in Tickets |-> IF t \in ids THEN 0 ELSE recast[t]]

ClearFlagsCache ==
    flags' = [c \in Readers |-> NoCopy] /\ decisions' = NoCopy

\* When the flags of S stop being true for c with no write: a snooze ends, another's claim lapses.
Deadlines(c, S) ==
    {ticket[t].until : t \in {u \in S : ~ticket[u].closed /\ Asleep(u)}}
        \cup {ticket[t].claimedAt + window : t \in {u \in S : ClaimedByOther(c, u)}}

KeptNow == IF Live(held) THEN held.val ELSE KeptByHumans

Repaired(copy) ==
    [copy EXCEPT !.val = {t \in Tickets : IF t \in copy.dirty THEN DecisionDue(t) ELSE t \in @},
                 !.dirty = {}]

UndecidedNow(copy) == IF Live(copy) THEN Repaired(copy).val ELSE Undecided

\* A whole board's read of the gate fills its copy, a narrower one only repairs it.
GateRead(copy, whole) ==
    IF Live(copy) THEN Repaired(copy)
    ELSE IF whole THEN [val |-> Undecided, until |-> {now + Ceiling}, dirty |-> {}]
    ELSE NoCopy

-----------------------------------------------------------------------------
(* Reads.                                                                  *)

\* The copies once the configuration is found to be the one they were made under, or dropped.
Known(copy) == IF stamped THEN copy ELSE NoCopy

\* Variant: a repair leaves the expiry where it was.
RepairedFlagsKeepingExpiry(c, copy) ==
    [val |-> [t \in Tickets |->
                IF t \in copy.dirty
                THEN FlagsOf(c, t, UndecidedNow(Known(decisions)), KeptNow) ELSE copy.val[t]],
     until |-> copy.until,
     dirty |-> {}]

RepairedFlags(c, copy) ==
    [val |-> [t \in Tickets |->
                IF t \in copy.dirty
                THEN FlagsOf(c, t, UndecidedNow(Known(decisions)), KeptNow) ELSE copy.val[t]],
     until |-> copy.until \cup Deadlines(c, Relatives(copy.dirty, related)),
     dirty |-> {}]

Built(c) ==
    [val |-> [t \in Tickets |-> FlagsOf(c, t, UndecidedNow(Known(decisions)), KeptNow)],
     until |-> {now + Ceiling} \cup Deadlines(c, Tickets),
     dirty |-> {}]

\* computeActionableTicketIds, for the whole board or for some tickets: a miss of the second
\* is answered and not kept.
Read(c, whole) ==
    LET copy == Known(flags[c])
        hit == Live(copy)
        computes == ~hit \/ copy.dirty # {}
        others == [r \in Readers |-> Known(flags[r])]
    IN  /\ flags' = [others EXCEPT ![c] =
                        IF hit /\ copy.dirty # {} THEN RepairedFlags(c, copy)
                        ELSE IF hit THEN copy ELSE IF whole THEN Built(c) ELSE NoCopy]
        /\ decisions' = IF computes THEN GateRead(Known(decisions), whole /\ ~hit) ELSE Known(decisions)
        /\ held' = IF computes /\ c \notin humans /\ ~Live(held)
                   THEN [val |-> KeptByHumans, until |-> {now + HeldCeiling}, dirty |-> {}] ELSE held
        /\ stamped' = TRUE
        /\ UNCHANGED <<boardVars, writes, recast>>

ReadDecisions(whole) ==
    /\ decisions' = GateRead(decisions, whole)
    /\ UNCHANGED <<boardVars, writes, stamped, flags, held, recast>>

ReadHeld ==
    /\ ~Live(held)
    /\ held' = [val |-> KeptByHumans, until |-> {now + HeldCeiling}, dirty |-> {}]
    /\ UNCHANGED <<boardVars, writes, stamped, flags, decisions, recast>>

-----------------------------------------------------------------------------
(* Writes.                                                                 *)

Writing == writes < MaxWrites /\ writes' = writes + 1

\* A write of one ticket, which it names.
Write(t, row) ==
    /\ Writing
    /\ ticket' = [ticket EXCEPT ![t] = row]
    /\ UNCHANGED <<now, gates, related, humans, window, stamped>>
    /\ TicketChanged({t})

\* c writes on the ticket, handing it back or keeping the hand.
Comment(t, c, keeps) ==
    Write(t, [ticket[t] EXCEPT !.last = c, !.keeps = keeps, !.answered = @ \cup {c}])

Propose(t, c) ==
    Write(t, [ticket[t] EXCEPT !.last = c, !.keeps = FALSE, !.proposer = c, !.answered = {}])

Decide(t, c) ==
    /\ ticket[t].proposer # None
    /\ Write(t, [ticket[t] EXCEPT !.last = c, !.keeps = FALSE, !.proposer = None])

Close(t, c) ==
    Write(t, [ticket[t] EXCEPT !.closed = TRUE, !.last = c, !.keeps = FALSE, !.claimant = None])

Reopen(t, c) ==
    /\ ticket[t].closed
    /\ Write(t, [ticket[t] EXCEPT !.closed = FALSE, !.last = c, !.keeps = FALSE, !.proposer = None])

Postpone(t, until) == Write(t, [ticket[t] EXCEPT !.until = until])

Claim(t, c) == Write(t, [ticket[t] EXCEPT !.claimant = c, !.claimedAt = now])

Release(t) == Write(t, [ticket[t] EXCEPT !.claimant = None])

\* A relation between two tickets, set or cut, is an event of the log that names both.
Relate(a, b, gate) ==
    /\ Writing /\ a # b
    /\ related' = related \cup {<<a, b>>}
    /\ gates' = IF gate THEN gates \cup {<<a, b>>} ELSE gates \ {<<a, b>>}
    /\ UNCHANGED <<now, ticket, humans, window, stamped>>
    /\ TicketChanged({a, b})

\* A thread moved, a project renamed or purged: a write that cannot name its tickets.
MoveTicket ==
    /\ Writing
    /\ held' = NoCopy /\ ClearFlagsCache
    /\ UNCHANGED <<boardVars, stamped, recast>>

\* A person is enabled or disabled, a consumer becomes one: the flags are dropped, the
\* tickets held by humans are not.
UpdateConsumer(c) ==
    /\ Writing
    /\ humans' = IF c \in humans THEN humans \ {c} ELSE humans \cup {c}
    /\ recast' = [t \in Tickets |->
                    IF ticket[t].keeps /\ ticket[t].last = c THEN now ELSE recast[t]]
    /\ ClearFlagsCache
    /\ UNCHANGED <<now, ticket, gates, related, window, stamped, held>>

\* The YAML file is edited: nothing is signalled.
EditConfig(w) ==
    /\ Writing /\ w # window
    /\ window' = w /\ stamped' = FALSE
    /\ UNCHANGED <<now, ticket, gates, related, humans, flags, decisions, held, recast>>

Tick ==
    /\ now < MaxTime
    /\ now' = now + 1
    /\ UNCHANGED <<writes, ticket, gates, related, humans, window, stamped, flags, decisions, held,
                   recast>>

Next ==
    \/ \E c \in Readers, whole \in BOOLEAN : Read(c, whole)
    \/ \E whole \in BOOLEAN : ReadDecisions(whole)
    \/ ReadHeld
    \/ \E t \in Tickets, c \in Consumers :
        \/ \E keeps \in BOOLEAN : Comment(t, c, keeps)
        \/ Propose(t, c) \/ Decide(t, c) \/ Close(t, c) \/ Reopen(t, c) \/ Claim(t, c)
    \/ \E t \in Tickets, until \in {0} \cup (now + 1)..MaxTime : Postpone(t, until)
    \/ \E t \in Tickets : Release(t)
    \/ \E a, b \in Tickets, gate \in BOOLEAN : Relate(a, b, gate)
    \/ MoveTicket
    \/ \E c \in Consumers : UpdateConsumer(c)
    \/ \E w \in Windows : EditConfig(w)
    \/ Tick

Spec == Init /\ [][Next]_vars

-----------------------------------------------------------------------------
(* Properties.                                                             *)

Flag == [open : BOOLEAN, waits : BOOLEAN, awaiting : BOOLEAN, actionable : BOOLEAN]

\* What a copy may have to repair.
Few == {S \in SUBSET Tickets : Cardinality(S) <= MaxDirty}

(* Copies have the shape their readers expect, an absent one being         *)
(* expired, and no more to repair than a rebuild is worth (flags-cache.ts, *)
(* Entry, MAX_DIRTY).                                                      *)
TypeOK ==
    /\ now \in Nat /\ writes \in Nat
    /\ ticket \in [Tickets -> Ticket]
    /\ gates \subseteq related /\ related \subseteq Tickets \X Tickets
    /\ humans \subseteq Consumers /\ window \in Windows /\ stamped \in BOOLEAN
    /\ \A c \in Readers : flags[c] = NoCopy \/
        flags[c] \in [val : [Tickets -> Flag], until : SUBSET Nat, dirty : Few]
    /\ decisions \in [val : SUBSET Tickets, until : SUBSET Nat, dirty : Few]
    /\ held \in [val : SUBSET Tickets, until : SUBSET Nat, dirty : {{}}]
    /\ recast \in [Tickets -> Nat]

\* What a read would answer now.
Answer(c) ==
    LET copy == Known(flags[c])
    IN  IF Live(copy) THEN RepairedFlags(c, copy).val ELSE Built(c).val

(* A copy never answers otherwise than the board would, whatever was       *)
(* written, related, snoozed, claimed and read in between and however time *)
(* passed; but for the tickets a human keeps in hand when who is human     *)
(* changes, for less than both ceilings (flags-cache.ts, projects.ts).     *)
ReadsAreFresh ==
    /\ UndecidedNow(decisions) = Undecided
    /\ \A c \in Readers, t \in Tickets :
        Answer(c)[t] # Fresh(c)[t] => recast[t] # 0 /\ now + 1 < recast[t] + HeldCeiling + Ceiling

=============================================================================
