------------------------------ MODULE ClaimHold ------------------------------
(***************************************************************************)
(* Who holds a ticket: the claim (an agent's focus, transient) and the     *)
(* assignment (a human's push, persistent), the two clocks that end a      *)
(* claim, and every path of the daemon that sets or drops one of them:     *)
(* ticket.assign, ticket.release, the auto-claim of a posted comment, the  *)
(* close cleanup.  The daemon is one process and each handler runs to its  *)
(* end without yielding, so one action is one whole handler.               *)
(*                                                                         *)
(* Time is a counter of ticks.  Every write of one handler carries the     *)
(* same tick: the milliseconds that separate them in the code only ever    *)
(* order the message after the claim, which "same tick" keeps for the      *)
(* comparisons the code makes (they are >= on one side, strict on the      *)
(* other).  Tick 0 stands for "never".                                     *)
(***************************************************************************)
EXTENDS Integers, FiniteSets

CONSTANTS
    Agents,         \* consumers of kind agent
    Humans,         \* registered human moderators
    Tickets,
    NoOne,          \* null assignee or claimant
    Reporter,       \* [Tickets -> Agents \cup Humans]: tickets.by_agent
    Sees,           \* [Agents -> SUBSET Tickets]: seesLevel(agent, ticket.level)
    MayAutoClaim,   \* agents with can_claim and an owner subscription
    AssignWindow,   \* assign_window_sec, in ticks
    Protect,        \* tickets.backlog.claim_protect, in ticks
    MaxTime         \* bound of the model's clock

Consumers == Agents \cup Humans

ASSUME ConsumersAreDistinct == Agents \cap Humans = {} /\ NoOne \notin Consumers
ASSUME TicketParameters ==
    /\ Reporter \in [Tickets -> Consumers]
    /\ Sees \in [Agents -> SUBSET Tickets]
    /\ MayAutoClaim \subseteq Agents
ASSUME ClockParameters == AssignWindow \in Nat /\ Protect \in Nat /\ MaxTime \in Nat

VARIABLES
    now,
    status,         \* moderation of the ticket: pending, approved or rejected
    assignee,
    claimant,
    claimedAt,
    lastAction      \* [ticket][consumer]: its latest message of any kind

vars == <<now, status, assignee, claimant, claimedAt, lastAction>>

-----------------------------------------------------------------------------
(* The two clocks of a claim.                                              *)

Later(a, b) == IF a >= b THEN a ELSE b

IsAssignmentLive(at) == at # 0 /\ now - at < AssignWindow

ClaimProtectionEnd(t) == Later(claimedAt[t], lastAction[t][claimant[t]]) + Protect

Protected(t) == claimant[t] # NoOne /\ ClaimProtectionEnd(t) > now

\* Variant: the hold as the assign window alone, blind to recent posts.
ClaimHeldByWindowAlone(t) == claimant[t] # NoOne /\ IsAssignmentLive(claimedAt[t])

\* ticketClaimHeldUntil(t) > now: the later of the two ends.
ClaimHeld(t) ==
    /\ claimant[t] # NoOne
    /\ Later(claimedAt[t] + AssignWindow, ClaimProtectionEnd(t)) > now

\* Variant: only an assignment counts as a hold.
IsAssignedToOther(t, c) == assignee[t] \notin {NoOne, c}

IsHeldByOther(t, c) ==
    \/ claimant[t] \notin {NoOne, c} /\ IsAssignmentLive(claimedAt[t])
    \/ assignee[t] \notin {NoOne, c}

\* Variant: the comparison turned round, so that worked claims are dropped.
ClaimsWorkedOn(c, keep) ==
    {t \in Tickets \ {keep} :
        claimant[t] = c /\ IsAssignmentLive(claimedAt[t]) /\ lastAction[t][c] >= claimedAt[t]}

\* The other live claims of c it has posted nothing on since it took them.
ClaimsToAutoRelease(c, keep) ==
    {t \in Tickets \ {keep} :
        /\ claimant[t] = c
        /\ IsAssignmentLive(claimedAt[t])
        /\ lastAction[t][c] < claimedAt[t]}

CanAutoClaim(c) == c \in MayAutoClaim

-----------------------------------------------------------------------------
Init ==
    /\ now = 1
    /\ status \in [Tickets -> {"pending", "approved"}]
    /\ assignee = [t \in Tickets |-> NoOne]
    /\ claimant = [t \in Tickets |-> NoOne]
    /\ claimedAt = [t \in Tickets |-> 0]
    /\ lastAction = [t \in Tickets |-> [c \in Consumers |-> 0]]

\* A message of c lands on t.
Posts(c, t) == lastAction' = [lastAction EXCEPT ![t][c] = now]

Tick ==
    /\ now < MaxTime
    /\ now' = now + 1
    /\ UNCHANGED <<status, assignee, claimant, claimedAt, lastAction>>

(* ticket.assign without an assignee: c takes t as its focus.  An agent is *)
(* refused on a pending ticket, out of its levels, on a ticket assigned    *)
(* elsewhere, or while another's claim is protected; a human never is.     *)
(* (A tick is coarser than the code's milliseconds: a claim comes in a     *)
(* later tick than its caller's last message on that ticket.)              *)
(* One-focus drops the bare pickups first, and a take-over posts           *)
(* claim_taken_over, a message of the taker on t.                          *)
Claim(c, t) ==
    /\ lastAction[t][c] < now
    /\ c \in Agents =>
        /\ status[t] = "approved"
        /\ t \in Sees[c]
        /\ assignee[t] \in {NoOne, c}
        /\ claimant[t] \notin {NoOne, c} => ~Protected(t)
    /\ LET dropped == ClaimsToAutoRelease(c, t)
           takesOver == c \in Agents /\ claimant[t] \notin {NoOne, c}
       IN /\ claimant' = [u \in Tickets |->
                IF u = t THEN c ELSE IF u \in dropped THEN NoOne ELSE claimant[u]]
          /\ claimedAt' = [u \in Tickets |->
                IF u = t THEN now ELSE IF u \in dropped THEN 0 ELSE claimedAt[u]]
          /\ IF takesOver THEN Posts(c, t) ELSE UNCHANGED lastAction
    /\ UNCHANGED <<now, status, assignee>>

\* Variant: the assignment is stored and the claim forgotten.
SetAssigneeOnly(t, target) ==
    assignee' = [assignee EXCEPT ![t] = target] /\ UNCHANGED <<claimant, claimedAt>>

(* ticket.assign naming someone else (and the automation's assign): the    *)
(* claim of anyone but the new assignee is dropped in the same transaction. *)
SetTicketAssignment(t, target) ==
    /\ assignee' = [assignee EXCEPT ![t] = target]
    /\ IF claimant[t] \notin {NoOne, target}
       THEN /\ claimant' = [claimant EXCEPT ![t] = NoOne]
            /\ claimedAt' = [claimedAt EXCEPT ![t] = 0]
       ELSE UNCHANGED <<claimant, claimedAt>>

Assign(h, t, target) ==
    /\ h \in Humans
    /\ target # h
    /\ SetTicketAssignment(t, target)
    /\ UNCHANGED <<now, status, lastAction>>

\* Variant: the two values bound in the wrong order.
ReleaseTicketClaimSwapped(t) ==
    /\ claimant' = [claimant EXCEPT ![t] = 0]
    /\ claimedAt' = [claimedAt EXCEPT ![t] = NoOne]

ReleaseTicketClaim(t) ==
    /\ claimant' = [claimant EXCEPT ![t] = NoOne]
    /\ claimedAt' = [claimedAt EXCEPT ![t] = 0]

(* ticket.release: the claim of the caller, and the assignment when the    *)
(* caller is its assignee or a human.                                      *)
Release(c, t) ==
    LET holdsClaim == claimant[t] = c
        canReleaseAssignment == assignee[t] = c \/ c \in Humans
    IN /\ holdsClaim \/ canReleaseAssignment
       /\ IF holdsClaim THEN ReleaseTicketClaim(t) ELSE UNCHANGED <<claimant, claimedAt>>
       /\ IF canReleaseAssignment THEN assignee' = [assignee EXCEPT ![t] = NoOne]
                                  ELSE UNCHANGED assignee
       /\ UNCHANGED <<now, status, lastAction>>

-----------------------------------------------------------------------------
(* A comment.  Its gesture: "bare" (handback: true, or none), "decision"   *)
(* (a then: verb), "step" (then: continue) or "keep" (handback: false).    *)

Gestures == {"bare", "decision", "step", "keep"}

\* stepRefusal is null: c is the assignee, or the claimant while it holds.
HoldsForStep(c, t) == assignee[t] = c \/ (claimant[t] = c /\ ClaimHeld(t))

\* assertStepByHolder lets the step through.
StepAllowed(c, t) ==
    /\ status[t] = "approved"
    /\ \/ HoldsForStep(c, t)
       \/ /\ assignee[t] \in {NoOne, c}
          /\ claimant[t] \in {NoOne, c} \/ ~ClaimHeld(t)
          /\ CanAutoClaim(c)

\* The auto-claim of submitMessage: an agent taking a position on a ticket
\* that nobody else holds.
AutoClaims(c, t, gesture) ==
    /\ gesture # "bare"
    /\ c \in Agents
    /\ status[t] = "approved"
    /\ ~IsHeldByOther(t, c)
    /\ CanAutoClaim(c)

(* approved: the rule engine's verdict on the comment, always auto for a   *)
(* human.  amends: a plan is already pending on the ticket, so a new plan  *)
(* passes the moderation gate.                                             *)
Comment(c, t, gesture, approved, amends) ==
    /\ c \in Humans => approved
    /\ c \in Agents =>
        /\ t \in Sees[c]
        /\ gesture = "decision" => status[t] = "approved" \/ amends
        /\ gesture \in {"step", "keep"} => StepAllowed(c, t)
    /\ Posts(c, t)
    /\ IF approved /\ AutoClaims(c, t, gesture)
       THEN /\ claimant' = [claimant EXCEPT ![t] = c]
            /\ claimedAt' = [claimedAt EXCEPT ![t] = now]
       ELSE UNCHANGED <<claimant, claimedAt>>
    /\ UNCHANGED <<now, status, assignee>>

(* ticket_closed: the reporter or a human only, always approved at once;   *)
(* the cleanup drops the claim and keeps the assignment.                   *)
Close(c, t) ==
    /\ c \in Humans \/ c = Reporter[t]
    /\ c \in Agents => t \in Sees[c]
    /\ Posts(c, t)
    /\ ReleaseTicketClaim(t)
    /\ UNCHANGED <<now, status, assignee>>

\* To the claims a reopen is a message like another.
Reopen(c, t, approved) ==
    /\ c \in Humans \/ c = Reporter[t] => approved
    /\ c \in Agents => t \in Sees[c]
    /\ Posts(c, t)
    /\ UNCHANGED <<now, status, assignee, claimant, claimedAt>>

\* The ticket itself is moderated.
ModerateTicket(t, verdict) ==
    /\ status[t] = "pending"
    /\ status' = [status EXCEPT ![t] = verdict]
    /\ UNCHANGED <<now, assignee, claimant, claimedAt, lastAction>>

Next ==
    \/ Tick
    \/ \E t \in Tickets :
        \/ \E c \in Consumers :
            \/ Claim(c, t)
            \/ Release(c, t)
            \/ Close(c, t)
            \/ \E target \in Consumers : Assign(c, t, target)
            \/ \E approved \in BOOLEAN :
                \/ Reopen(c, t, approved)
                \/ \E gesture \in Gestures, amends \in BOOLEAN :
                        Comment(c, t, gesture, approved, amends)
        \/ \E verdict \in {"approved", "rejected"} : ModerateTicket(t, verdict)

Spec == Init /\ [][Next]_vars

-----------------------------------------------------------------------------
TypeOK ==
    /\ now \in Nat
    /\ status \in [Tickets -> {"pending", "approved", "rejected"}]
    /\ assignee \in [Tickets -> Consumers \cup {NoOne}]
    /\ claimant \in [Tickets -> Consumers \cup {NoOne}]
    /\ claimedAt \in [Tickets -> Nat]
    /\ lastAction \in [Tickets -> [Consumers -> Nat]]

-----------------------------------------------------------------------------
(* A ticket assigned to someone is never claimed by another agent: an      *)
(* assignment supersedes a claim, whichever came first (ticket.assign      *)
(* refuses the claim, setTicketAssignment drops it, the auto-claim skips). *)
AssignmentSupersedesClaim ==
    \A t \in Tickets :
        assignee[t] # NoOne /\ claimant[t] \in Agents => claimant[t] = assignee[t]

(* One focus: a consumer never accumulates live claims it has posted       *)
(* nothing on since taking them.  Claims are taken by ticket.assign, which *)
(* drops the others, and by comments, which count as work.                 *)
Bare(c, t) ==
    claimant[t] = c /\ IsAssignmentLive(claimedAt[t]) /\ lastAction[t][c] < claimedAt[t]

OneBareFocus ==
    \A c \in Consumers, t, u \in Tickets : Bare(c, t) /\ Bare(c, u) => t = u

(* A holder still protected against rivals may always post its own step:   *)
(* the step gate never refuses the agent the claim gate protects (the two  *)
(* clocks of claim-hold.ts agree).                                         *)
ProtectedHolderMaySteps ==
    \A t \in Tickets :
        /\ status[t] = "approved"
        /\ claimant[t] # NoOne
        /\ Protected(t) \/ IsAssignmentLive(claimedAt[t])
        => StepAllowed(claimant[t], t)

(* A claim both protected and inside the assign window is never taken by   *)
(* another agent, whether it asks (ticket.assign) or comments (auto-claim). *)
NeverStolen ==
    [][\A t \in Tickets :
        /\ claimant[t] \in Agents /\ claimant'[t] \in Agents
        /\ Protected(t) /\ IsAssignmentLive(claimedAt[t])
        => claimant'[t] = claimant[t]]_vars
=============================================================================
