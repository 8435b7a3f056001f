----------------------------- MODULE MCWakeLoop -----------------------------
(* Instances of WakeLoop for TLC. *)
EXTENDS WakeLoop

CONSTANTS s1, s2

\* Pings, overruns of a flight, and each of the things once.
Case(pings, overruns, things) ==
    [t \in Things |-> CASE t = "ping"    -> pings
                        [] t = "overrun" -> overruns
                        [] OTHER         -> IF t \in things THEN 1 ELSE 0]

Others == Things \ {"ping", "overrun"}

\* A flight overrun with every other thing alone, and a reload over a human's
\* prompt: a budget is spent or not, so a case covers what is under it.
SafetyCases ==
    {Case(1, 0, {"prompt", "respawn"})} \union {Case(1, 1, {t}) : t \in Others}

\* Two pings over what a wake may meet; one where it is the session or its turn
\* that is disturbed.
LivenessCases ==
    {Case(2, 1, {})}
    \union {Case(2, 0, {t}) : t \in {"hold", "lost_hook", "lost_inject", "respawn"}}
    \union {Case(1, 0, {t}) : t \in {"compact", "manual", "revive"}}
    \union {Case(1, 0, {"respawn", t}) : t \in {"prompt", "lost_hook"}}
=============================================================================
