--------------------------- MODULE ClaimHoldProofs ---------------------------
(***************************************************************************)
(* Theorems about ClaimHold, for any consumers, tickets and durations.     *)
(* The inductive invariant adds to the stated properties that no recorded  *)
(* instant lies in the future: without it a message could "land before"    *)
(* the claim it follows.                                                   *)
(***************************************************************************)
EXTENDS ClaimHold, TLAPS

(* Every variable keeps its type: the moderation states, the holders and   *)
(* the instants the daemon records (ticket.assign, submitMessage).         *)
THEOREM TypeCorrect == Spec => []TypeOK
<1>1. Init => TypeOK
  BY DEF Init, TypeOK
<1>2. TypeOK /\ [Next]_vars => TypeOK'
  <2> SUFFICES ASSUME TypeOK, [Next]_vars PROVE TypeOK'
    OBVIOUS
  <2> USE DEF TypeOK
  <2>1. CASE Tick
    BY <2>1 DEF Tick
  <2>2. ASSUME NEW c \in Consumers, NEW t \in Tickets, Claim(c, t) PROVE TypeOK'
    <3>1. lastAction' \in [Tickets -> [Consumers -> Nat]]
      BY <2>2 DEF Claim, Posts
    <3> QED
      BY <2>2, <3>1 DEF Claim
  <2>3. ASSUME NEW c \in Consumers, NEW t \in Tickets, Release(c, t) PROVE TypeOK'
    <3>1. assignee' \in [Tickets -> Consumers \cup {NoOne}]
      BY <2>3 DEF Release
    <3>2. /\ claimant' \in [Tickets -> Consumers \cup {NoOne}]
          /\ claimedAt' \in [Tickets -> Nat]
      <4>1. CASE claimant[t] = c
        <5>1. ReleaseTicketClaim(t)
          BY <2>3, <4>1 DEF Release
        <5> QED
          BY <5>1 DEF ReleaseTicketClaim
      <4>2. CASE claimant[t] # c
        <5>1. UNCHANGED <<claimant, claimedAt>>
          BY <2>3, <4>2 DEF Release
        <5> QED
          BY <5>1
      <4> QED
        BY <4>1, <4>2
    <3> QED
      BY <2>3, <3>1, <3>2 DEF Release
  <2>4. ASSUME NEW c \in Consumers, NEW t \in Tickets, Close(c, t) PROVE TypeOK'
    BY <2>4 DEF Close, Posts, ReleaseTicketClaim
  <2>5. ASSUME NEW c \in Consumers, NEW t \in Tickets, NEW target \in Consumers,
               Assign(c, t, target)
        PROVE TypeOK'
    BY <2>5 DEF Assign, SetTicketAssignment
  <2>6. ASSUME NEW c \in Consumers, NEW t \in Tickets, NEW approved \in BOOLEAN,
               Reopen(c, t, approved)
        PROVE TypeOK'
    BY <2>6 DEF Reopen, Posts
  <2>7. ASSUME NEW c \in Consumers, NEW t \in Tickets, NEW approved \in BOOLEAN,
               NEW gesture \in Gestures, NEW amends \in BOOLEAN,
               Comment(c, t, gesture, approved, amends)
        PROVE TypeOK'
    BY <2>7 DEF Comment, Posts
  <2>8. ASSUME NEW t \in Tickets, NEW verdict \in {"approved", "rejected"},
               ModerateTicket(t, verdict)
        PROVE TypeOK'
    BY <2>8 DEF ModerateTicket
  <2>9. CASE UNCHANGED vars
    BY <2>9 DEF vars
  <2> QED
    BY <2>1, <2>2, <2>3, <2>4, <2>5, <2>6, <2>7, <2>8, <2>9 DEF Next
<1> QED
  BY <1>1, <1>2, PTL DEF Spec

(* No instant on record lies in the future. *)
Recorded ==
    \A t \in Tickets :
        /\ claimedAt[t] <= now
        /\ \A c \in Consumers : lastAction[t][c] <= now

IInv ==
    /\ Recorded
    /\ AssignmentSupersedesClaim
    /\ OneBareFocus

LEMMA InitHolds == Init => IInv
BY ConsumersAreDistinct
   DEF Init, IInv, Recorded, AssignmentSupersedesClaim, OneBareFocus, Bare,
       IsAssignmentLive, Consumers

\* A step that only drops claims, or leaves them, and only adds messages
\* creates no bare claim.
LEMMA FewerBare ==
    ASSUME TypeOK, TypeOK', Recorded, OneBareFocus,
           now' >= now,
           \A t \in Tickets :
             \/ claimant'[t] = claimant[t] /\ claimedAt'[t] = claimedAt[t]
             \/ claimant'[t] = NoOne
             \/ claimedAt'[t] <= lastAction'[t][claimant'[t]],
           \A t \in Tickets, c \in Consumers : lastAction'[t][c] >= lastAction[t][c]
    PROVE  OneBareFocus'
<1>1. ASSUME NEW c \in Consumers, NEW t \in Tickets, Bare(c, t)' PROVE Bare(c, t)
  <2>1. claimant'[t] = c /\ c # NoOne
    BY <1>1, ConsumersAreDistinct DEF Bare
  <2>2. lastAction'[t][c] \in Nat /\ lastAction[t][c] \in Nat /\ claimedAt'[t] \in Nat
        /\ now \in Nat /\ now' \in Nat
    BY DEF TypeOK
  <2>3. /\ claimant'[t] = claimant[t] /\ claimedAt'[t] = claimedAt[t]
        /\ lastAction[t][c] <= lastAction'[t][c]
        /\ now - claimedAt'[t] <= now' - claimedAt'[t]
    BY <1>1, <2>1, <2>2 DEF Bare
  <2> QED
    BY <1>1, <2>1, <2>2, <2>3, ClockParameters DEF Bare, IsAssignmentLive
<1> QED
  BY <1>1 DEF OneBareFocus

LEMMA StepHolds == TypeOK /\ TypeOK' /\ IInv /\ [Next]_vars => IInv'
<1> SUFFICES ASSUME TypeOK, TypeOK', IInv, [Next]_vars PROVE IInv'
  OBVIOUS
<1> USE DEF IInv
<1>1. CASE Tick
  <2>1. Recorded' /\ AssignmentSupersedesClaim'
    BY <1>1 DEF Tick, Recorded, AssignmentSupersedesClaim, TypeOK
  <2>2. OneBareFocus'
    BY <1>1, FewerBare DEF Tick, TypeOK
  <2> QED BY <2>1, <2>2
<1>2. ASSUME NEW c \in Consumers, NEW t \in Tickets, Claim(c, t) PROVE IInv'
  <2>1. Recorded'
    <3>1. \A u \in Tickets : claimedAt'[u] <= now
      BY <1>2 DEF Claim, Recorded, TypeOK
    <3>2. \A u \in Tickets, d \in Consumers : lastAction'[u][d] <= now
      <4>1. \/ lastAction' = lastAction
            \/ lastAction' = [lastAction EXCEPT ![t][c] = now]
        BY <1>2 DEF Claim, Posts
      <4>2. CASE lastAction' = lastAction
        BY <4>2 DEF Recorded
      <4>3. CASE lastAction' = [lastAction EXCEPT ![t][c] = now]
        <5> SUFFICES ASSUME NEW u \in Tickets, NEW d \in Consumers
                     PROVE  lastAction'[u][d] <= now
          OBVIOUS
        <5>1. lastAction'[u][d] = IF u = t /\ d = c THEN now ELSE lastAction[u][d]
          BY <4>3 DEF TypeOK
        <5>2. now \in Nat /\ lastAction[u][d] <= now
          BY DEF TypeOK, Recorded
        <5> QED
          BY <5>1, <5>2
      <4> QED
        BY <4>1, <4>2, <4>3
    <3> QED
      BY <1>2, <3>1, <3>2 DEF Claim, Recorded
  <2>2. AssignmentSupersedesClaim'
    BY <1>2, ConsumersAreDistinct DEF Claim, AssignmentSupersedesClaim, TypeOK, Consumers
  <2>3. ASSUME NEW d \in Consumers, NEW u \in Tickets, Bare(d, u)', u # t
        PROVE  d # c /\ Bare(d, u)
    BY <1>2, <2>3, ConsumersAreDistinct, ClockParameters
       DEF Claim, Posts, Bare, IsAssignmentLive, ClaimsToAutoRelease, TypeOK
  <2>4. ASSUME NEW d \in Consumers, Bare(d, t)' PROVE d = c
    BY <1>2, <2>4 DEF Claim, Bare, TypeOK
  <2>5. OneBareFocus'
    BY <2>3, <2>4 DEF OneBareFocus
  <2> QED BY <2>1, <2>2, <2>5
<1>3. ASSUME NEW c \in Consumers, NEW t \in Tickets, Release(c, t) PROVE IInv'
  <2>1. Recorded' /\ AssignmentSupersedesClaim'
    <3>1. /\ \A u \in Tickets : claimedAt'[u] \in {claimedAt[u], 0}
          /\ \A u \in Tickets : claimant'[u] \in {claimant[u], NoOne}
      BY <1>3 DEF Release, ReleaseTicketClaim, TypeOK
    <3>2. \A u \in Tickets : assignee'[u] \in {assignee[u], NoOne}
      BY <1>3 DEF Release, TypeOK
    <3>3. UNCHANGED <<now, lastAction>>
      BY <1>3 DEF Release
    <3> QED
      BY <3>1, <3>2, <3>3, ConsumersAreDistinct
         DEF Recorded, AssignmentSupersedesClaim, TypeOK, Consumers
  <2>2. OneBareFocus'
    BY <1>3, FewerBare DEF Release, ReleaseTicketClaim, TypeOK
  <2> QED BY <2>1, <2>2
<1>4. ASSUME NEW c \in Consumers, NEW t \in Tickets, Close(c, t) PROVE IInv'
  <2>1. Recorded' /\ AssignmentSupersedesClaim'
    BY <1>4, ConsumersAreDistinct
       DEF Close, Posts, ReleaseTicketClaim, Recorded, AssignmentSupersedesClaim, TypeOK, Consumers
  <2>2. OneBareFocus'
    BY <1>4, FewerBare DEF Close, Posts, ReleaseTicketClaim, TypeOK, Recorded
  <2> QED BY <2>1, <2>2
<1>5. ASSUME NEW c \in Consumers, NEW t \in Tickets, NEW target \in Consumers,
             Assign(c, t, target)
      PROVE IInv'
  <2>1. Recorded' /\ AssignmentSupersedesClaim'
    <3>1. /\ \A u \in Tickets : claimedAt'[u] \in {claimedAt[u], 0}
          /\ \A u \in Tickets : claimant'[u] \in {claimant[u], NoOne}
          /\ claimant'[t] \in {NoOne, target} /\ assignee'[t] = target
          /\ \A u \in Tickets \ {t} : assignee'[u] = assignee[u]
      BY <1>5 DEF Assign, SetTicketAssignment, TypeOK
    <3>2. UNCHANGED <<now, lastAction>>
      BY <1>5 DEF Assign
    <3>3. Recorded'
      <4>1. now' = now /\ lastAction' = lastAction /\ now \in Nat
        BY <3>2 DEF TypeOK
      <4>2. \A u \in Tickets : claimedAt'[u] <= now
        BY <3>1, <4>1 DEF Recorded
      <4> QED
        BY <4>1, <4>2 DEF Recorded
    <3>4. ASSUME NEW u \in Tickets, assignee'[u] # NoOne, claimant'[u] \in Agents
          PROVE  claimant'[u] = assignee'[u]
      BY <3>1, <3>4, ConsumersAreDistinct DEF AssignmentSupersedesClaim, Consumers
    <3> QED
      BY <3>3, <3>4 DEF AssignmentSupersedesClaim
  <2>2. OneBareFocus'
    BY <1>5, FewerBare DEF Assign, SetTicketAssignment, TypeOK
  <2> QED BY <2>1, <2>2
<1>6. ASSUME NEW c \in Consumers, NEW t \in Tickets, NEW approved \in BOOLEAN,
             Reopen(c, t, approved)
      PROVE IInv'
  <2>1. Recorded' /\ AssignmentSupersedesClaim'
    BY <1>6 DEF Reopen, Posts, Recorded, AssignmentSupersedesClaim, TypeOK
  <2>2. OneBareFocus'
    BY <1>6, FewerBare DEF Reopen, Posts, TypeOK, Recorded
  <2> QED BY <2>1, <2>2
<1>7. ASSUME NEW c \in Consumers, NEW t \in Tickets, NEW approved \in BOOLEAN,
             NEW gesture \in Gestures, NEW amends \in BOOLEAN,
             Comment(c, t, gesture, approved, amends)
      PROVE IInv'
  <2>1. Recorded'
    BY <1>7 DEF Comment, Posts, Recorded, TypeOK
  <2>2. AssignmentSupersedesClaim'
    BY <1>7, ConsumersAreDistinct
       DEF Comment, AutoClaims, IsHeldByOther, AssignmentSupersedesClaim, TypeOK, Consumers
  <2>3. \/ claimant'[t] = claimant[t] /\ claimedAt'[t] = claimedAt[t]
        \/ claimedAt'[t] <= lastAction'[t][claimant'[t]]
    BY <1>7 DEF Comment, Posts, TypeOK
  <2>4. OneBareFocus'
    BY <1>7, <2>3, FewerBare DEF Comment, Posts, TypeOK, Recorded
  <2> QED BY <2>1, <2>2, <2>4
<1>8. ASSUME NEW t \in Tickets, NEW verdict \in {"approved", "rejected"},
             ModerateTicket(t, verdict)
      PROVE IInv'
  <2>1. Recorded' /\ AssignmentSupersedesClaim'
    BY <1>8 DEF ModerateTicket, Recorded, AssignmentSupersedesClaim
  <2>2. OneBareFocus'
    BY <1>8, FewerBare DEF ModerateTicket, TypeOK
  <2> QED BY <2>1, <2>2
<1>9. CASE UNCHANGED vars
  BY <1>9 DEF vars, Recorded, AssignmentSupersedesClaim, OneBareFocus, Bare, IsAssignmentLive
<1> QED
  BY <1>1, <1>2, <1>3, <1>4, <1>5, <1>6, <1>7, <1>8, <1>9 DEF Next

LEMMA Inductive == Spec => [](TypeOK /\ IInv)
<1>1. TypeOK /\ IInv /\ [Next]_vars /\ TypeOK' => IInv'
  BY StepHolds
<1> QED
  BY <1>1, InitHolds, TypeCorrect, PTL DEF Spec

(* An agent never holds by a claim a ticket assigned to someone else,      *)
(* whichever of ticket.assign, the auto-claim and setTicketAssignment ran. *)
THEOREM AssignmentSupersedes == Spec => []AssignmentSupersedesClaim
BY Inductive, PTL DEF IInv

(* One focus: two live claims a consumer has not worked on never coexist   *)
(* (claimsToAutoRelease together with the auto-claim's time stamp).        *)
THEOREM OneFocus == Spec => []OneBareFocus
BY Inductive, PTL DEF IInv

(* The step gate never refuses the agent the claim gate protects: the two  *)
(* clocks of claim-hold.ts are consistent for all durations.               *)
THEOREM ProtectedHolderSteps == Spec => []ProtectedHolderMaySteps
<1>1. TypeOK /\ IInv => ProtectedHolderMaySteps
  <2> SUFFICES ASSUME TypeOK, NEW t \in Tickets, claimant[t] # NoOne,
                      status[t] = "approved",
                      Protected(t) \/ IsAssignmentLive(claimedAt[t])
               PROVE  StepAllowed(claimant[t], t)
    BY DEF ProtectedHolderMaySteps
  <2>1. claimant[t] \in Consumers
    BY DEF TypeOK
  <2>2. /\ claimedAt[t] \in Int /\ lastAction[t][claimant[t]] \in Int
        /\ now \in Int /\ AssignWindow \in Int /\ Protect \in Int
    BY <2>1, ClockParameters DEF TypeOK
  <2>3. ClaimHeld(t)
    BY <2>2 DEF ClaimHeld, Protected, IsAssignmentLive, Later, ClaimProtectionEnd
  <2> QED
    BY <2>3 DEF StepAllowed, HoldsForStep
<1> QED
  BY <1>1, Inductive, PTL

(* A claim that is both protected and inside the assign window never       *)
(* passes to another agent, by ticket.assign or by an auto-claim.          *)
THEOREM NoTheft == Spec => NeverStolen
<1>1. TypeOK /\ [Next]_vars =>
        [\A t \in Tickets :
            /\ claimant[t] \in Agents /\ claimant'[t] \in Agents
            /\ Protected(t) /\ IsAssignmentLive(claimedAt[t])
            => claimant'[t] = claimant[t]]_vars
  <2> SUFFICES ASSUME TypeOK, Next, NEW u \in Tickets,
                      claimant[u] \in Agents, claimant'[u] \in Agents,
                      Protected(u), IsAssignmentLive(claimedAt[u])
               PROVE  claimant'[u] = claimant[u]
    OBVIOUS
  <2>1. ASSUME NEW c \in Consumers, NEW t \in Tickets, Claim(c, t)
        PROVE claimant'[u] = claimant[u]
    BY <2>1, ConsumersAreDistinct DEF Claim, TypeOK, Consumers
  <2>2. ASSUME NEW c \in Consumers, NEW t \in Tickets,
               \/ Release(c, t) \/ Close(c, t)
               \/ \E target \in Consumers : Assign(c, t, target)
        PROVE claimant'[u] = claimant[u]
    BY <2>2, ConsumersAreDistinct
       DEF Release, Close, Assign, SetTicketAssignment, ReleaseTicketClaim, TypeOK, Consumers
  <2>3. ASSUME NEW c \in Consumers, NEW t \in Tickets, NEW approved \in BOOLEAN,
               NEW gesture \in Gestures, NEW amends \in BOOLEAN,
               Comment(c, t, gesture, approved, amends)
        PROVE claimant'[u] = claimant[u]
    BY <2>3, ConsumersAreDistinct DEF Comment, AutoClaims, IsHeldByOther, TypeOK, Consumers
  <2> QED
    BY <2>1, <2>2, <2>3 DEF Next, Tick, Reopen, ModerateTicket
<1> QED
  BY <1>1, TypeCorrect, PTL DEF Spec, NeverStolen
=============================================================================
