---------------------------- MODULE WakeDelivery ----------------------------
(***************************************************************************)
(* What the loop kernel promises the board about the pings that wake an    *)
(* agent: they are typed into its Claude, each once, by one try at a time, *)
(* while the session is open.  The promise bends for a try that runs late, *)
(* past the time its flight was given: until the last of them has ended,   *)
(* tries may overlap, and a ping may be typed again.                       *)
(***************************************************************************)
EXTENDS Naturals

CONSTANTS Slots     \* tries that may be under way at once

VARIABLES
    coming,     \* pings still to come
    unread,     \* pings waiting to wake the agent
    open,       \* the session is live: wakes may be typed
    tries,      \* slot -> nothing, a try for a ping or by hand, or its typing
    late        \* a try has outlived its flight

vars == <<coming, unread, open, tries, late>>

Init ==
    /\ coming \in SUBSET Nat /\ unread = {}
    /\ open = FALSE
    /\ tries = [s \in Slots |-> "none"] /\ late = FALSE

UnderWay == \E s \in Slots : tries[s] # "none"

Begin(s) ==
    /\ open' /\ tries[s] = "none"
    /\ UnderWay => late
    /\ \E how \in {"asked", "byHand"} : tries' = [tries EXCEPT ![s] = how]
    /\ UNCHANGED late

MayBegin == (\E s \in Slots : Begin(s)) \/ UNCHANGED <<tries, late>>

\* A ping comes once, and may start a try.
Arrive ==
    /\ \E p \in coming : coming' = coming \ {p} /\ unread' = unread \union {p}
    /\ UNCHANGED open /\ MayBegin

Open == ~open /\ open' = TRUE /\ UNCHANGED <<coming, unread>> /\ MayBegin

Ask == (\E s \in Slots : Begin(s)) /\ UNCHANGED <<coming, unread, open>>

\* A typing consumes its ping.  By hand it may have none; late, its ping may
\* be another's too, or stay unread.
Type(s) ==
    /\ open /\ tries[s] \in {"asked", "byHand"}
    /\ \/ \E p \in unread : unread' = unread \ {p}
       \/ (late \/ tries[s] = "byHand") /\ UNCHANGED unread
    /\ tries' = [tries EXCEPT ![s] = "typing"]
    /\ UNCHANGED <<coming, open, late>>

\* The typing done or failed, or the try given up.
End(s) ==
    /\ tries[s] # "none"
    /\ tries' = [tries EXCEPT ![s] = "none"]
    /\ late' = (late /\ UnderWay')
    /\ UNCHANGED <<coming, unread, open>>

Overrun == UnderWay /\ late' = TRUE /\ UNCHANGED <<coming, unread, open, tries>>

\* The kernel is replaced: what it tried is forgotten, and the new one may be
\* open at once, and try.
Replace ==
    /\ open' \in BOOLEAN
    /\ \/ tries' = [s \in Slots |-> "none"]
       \/ open' /\ \E r \in Slots :
              tries' = [s \in Slots |-> IF s = r THEN "asked" ELSE "none"]
    /\ late' = FALSE
    /\ UNCHANGED <<coming, unread>>

Next ==
    \/ Arrive \/ Open \/ Ask \/ Overrun \/ Replace
    \/ \E s \in Slots : Type(s) \/ End(s)

Safety == Init /\ [][Next]_vars
=============================================================================
