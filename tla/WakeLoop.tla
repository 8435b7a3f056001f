------------------------------ MODULE WakeLoop ------------------------------
(***************************************************************************)
(* The wake path of the claude-loop kernel: the boot machine, the session  *)
(* join, the turn machine fed by Claude's hooks and by the pane, the wake  *)
(* machine, and the attempts that type the board's pings into Claude.      *)
(*                                                                         *)
(* Handlers are atomic between two awaits, as on Node's event loop.  An    *)
(* attempt (tryWakeInner) awaits the pane probe, the board, the Escapes of *)
(* a panic and the typing; its slot says which one it waits for, and which *)
(* ping the board gave it.  Time is left out: a delay is an action that    *)
(* may happen whenever its timer is armed.  Claude, the human and the      *)
(* transport of the hooks are the environment.                             *)
(***************************************************************************)
EXTENDS Integers, Sequences

CONSTANTS
    Slots,      \* wake attempts that may be under way at once
    None,       \* no attempt in the slot
    MaxHooks,   \* hooks on their way to the kernel
    MaxQueue,   \* prompts typed while Claude works
    Budgets     \* how many times the environment may do each thing, in each case

Things == {"ping", "manual", "prompt", "hold", "compact", "lost_hook",
           "lost_inject", "overrun", "respawn", "revive"}

Kinds == {"drain", "panic", "manual"}
\* probing the pane, checking with the board, its answer (picked) on the way,
\* interrupting Claude, typing.
Phases == {"probing", "checking", "picked", "interrupting", "typing"}
\* A ping is numbered by what was left of the budget as it came; 0 is no ping.
NoPing == 0
Attempts == [phase : Phases, kind : Kinds, head : Nat]

ASSUME SlotsAssumption == Slots # {} /\ None \notin Attempts
ASSUME BoundsAssumption == MaxHooks \in Nat /\ MaxQueue \in Nat
ASSUME BudgetsAssumption == Budgets \subseteq [Things -> Nat]

VARIABLES
    boot, bootTimer,            \* the boot machine and its `after` timer
    joinC1, joinC2,             \* no turn started in boot is open; boot is over
    live,                       \* sessionLive, which is ipc loopStart
    humanPrompted,              \* humanPromptedDuringBoot
    reattached,                 \* reattachMode
    wake, wakeTimer,            \* the wake machine and its `after` timer
    attempt,                    \* slot -> the phase, kind and ping of its attempt
    skill,                      \* the start-up skill is being typed
    turn, turnTimer,            \* the turn machine and its `after` timer
    idle,                       \* ipc idleSinceMs is set
    mech,                       \* a mechanical busy proof is alive
    busy,                       \* ipc paneBusy
    shown,                      \* what the pane has shown of the turn
    blind,                      \* blindEndAtMs is set
    hold,                       \* the human holds the loop, or types
    work,                       \* unread pings that wake
    claude, queue,              \* Claude, and the prompts typed while it works
    hooks,                      \* Claude's hooks, on their way to the kernel
    left                        \* what is left of the budget

join == <<joinC1, joinC2, humanPrompted>>
wakes == <<live, wake, wakeTimer, attempt, skill>>
turns == <<turn, turnTimer, idle>>
screen == <<mech, busy, shown, blind>>
outside == <<claude, queue, hooks>>
vars == <<boot, bootTimer, join, reattached, wakes, turns, screen, hold, work,
          outside, left>>

NoTurn == {"fresh", "settled"}
Timed == {"inFlight", "cooldown"}
Hooks == {"start", "stop", "submit", "auto"}
Prompts == {"submit", "auto"}

TypeOK ==
    /\ boot \in {"booting", "fresh", "settled"} /\ bootTimer \in BOOLEAN
    /\ joinC1 \in BOOLEAN /\ joinC2 \in BOOLEAN /\ live \in BOOLEAN
    /\ humanPrompted \in BOOLEAN /\ reattached \in BOOLEAN
    /\ wake \in {"gated", "idle"} \union Timed /\ wakeTimer \in BOOLEAN
    /\ attempt \in [Slots -> Attempts \union {None}] /\ skill \in BOOLEAN
    /\ turn \in {"unknown", "in_turn"} \union NoTurn /\ turnTimer \in BOOLEAN
    /\ idle \in BOOLEAN /\ mech \in BOOLEAN /\ busy \in BOOLEAN
    /\ shown \in {"young", "old", "worked"} /\ blind \in BOOLEAN
    /\ hold \in BOOLEAN /\ work \in SUBSET Nat
    /\ claude \in {"prompt", "working"} /\ queue \in Seq(Prompts)
    /\ hooks \in Seq(Hooks) /\ left \in [Things -> Nat]

\* A cold start: Claude is launched, its SessionStart on the way.
Init ==
    /\ boot = "booting" /\ bootTimer = FALSE
    /\ joinC1 = TRUE /\ joinC2 = FALSE /\ live = FALSE
    /\ humanPrompted = FALSE /\ reattached = FALSE
    /\ wake = "gated" /\ wakeTimer = FALSE
    /\ attempt = [s \in Slots |-> None] /\ skill = FALSE
    /\ turn = "unknown" /\ turnTimer = FALSE /\ idle = FALSE
    /\ mech = FALSE /\ busy = FALSE /\ shown = "old" /\ blind = FALSE
    /\ hold \in BOOLEAN /\ work = {}
    /\ claude = "prompt" /\ queue = <<>> /\ hooks = <<"start">>
    /\ left \in Budgets

Spend(c) == left[c] > 0 /\ left' = [left EXCEPT ![c] = @ - 1]

-----------------------------------------------------------------------------
(* The machines, as the kernel's handlers drive them.                      *)

\* Every event of the turn machine is mirrored on ipc idleSinceMs.
SetTurn(t) ==
    /\ turn' = t
    /\ turnTimer' = (t \in NoTurn)
    /\ idle' = (t \in NoTurn)

SetWake(w) ==
    /\ wake' = w
    /\ wakeTimer' = IF w = wake THEN wakeTimer ELSE w \in Timed

\* Variant: the gate does not listen to BOOT_READY.
BootReadyUnheard(w) == w
BootReady(w) == IF w = "gated" THEN "idle" ELSE w

Free == {s \in Slots : attempt[s] = None}

NewAttempt(k) == [phase |-> "probing", kind |-> k, head |-> NoPing]

\* Variant: an attempt does not ask the wake machine.
TryWakeAnytime(w, k, admitted) ==
    IF admitted /\ Free # {}
    THEN /\ SetWake("inFlight")
         /\ attempt' = [attempt EXCEPT ![CHOOSE s \in Free : TRUE] = NewAttempt(k)]
    ELSE SetWake(w) /\ UNCHANGED attempt

\* tryWake up to its first await, the wake machine being at w.
TryWake(w, k, admitted) ==
    IF w = "idle" /\ admitted /\ Free # {}
    THEN /\ SetWake("inFlight")
         /\ attempt' = [attempt EXCEPT ![CHOOSE s \in Free : TRUE] = NewAttempt(k)]
    ELSE SetWake(w) /\ UNCHANGED attempt

\* What tryWakeInner asks before its first await.
Admitted(k) == idle /\ (k = "manual" \/ ~blind)

\* startSessionIfReady, once the handler has set C1 and C2: BOOT_READY, the
\* idle marker seeded, the start-up skill, the first drain.
StartSessionIfReady(isBlind) ==
    IF live \/ ~joinC1' \/ ~joinC2'
    THEN UNCHANGED wakes
    ELSE /\ live' = TRUE
         /\ skill' = (~reattached /\ ~hold /\ ~humanPrompted)
         /\ TryWake(BootReady(wake), "drain", ~isBlind)

\* TURN_ENDED: turn:ended comes from unknown and in_turn only.
EndTurn ==
    /\ SetTurn("fresh")
    /\ joinC1' = (joinC1 \/ turn \notin NoTurn)
    /\ mech' = FALSE /\ busy' = FALSE

\* TURN_STARTED: ignored while unknown; in_turn, it ends the open turn first.
StartTurn ==
    IF turn = "unknown"
    THEN SetTurn("unknown") /\ UNCHANGED <<joinC1, humanPrompted, shown, mech, busy>>
    ELSE /\ SetTurn("in_turn")
         /\ joinC1' = (joinC2 /\ (joinC1 \/ turn = "in_turn"))
         /\ humanPrompted' = (humanPrompted \/ ~joinC2)
         /\ shown' = "young"
         /\ mech' = (mech /\ turn # "in_turn")
         /\ busy' = (busy /\ turn # "in_turn")

-----------------------------------------------------------------------------
(* Boot.                                                                   *)

\* Every boot module has fallen; --wait then arms the hold.
BootSeals ==
    /\ boot = "booting"
    /\ boot' = "fresh" /\ bootTimer' = TRUE
    /\ hold' \in {hold, TRUE}
    /\ UNCHANGED <<join, reattached, wakes, turns, screen, work, outside, left>>

\* loop:start, 10 s after the seal: C2.
BootSettles ==
    /\ boot = "fresh" /\ bootTimer
    /\ boot' = "settled" /\ bootTimer' = FALSE
    /\ joinC2' = TRUE /\ UNCHANGED <<joinC1, humanPrompted>>
    /\ StartSessionIfReady(blind)
    /\ idle' = (idle \/ live')
    /\ UNCHANGED <<reattached, turn, turnTimer, screen, hold, work, outside, left>>

-----------------------------------------------------------------------------
(* Claude's hooks.                                                         *)

SessionStarts ==
    /\ SetTurn("fresh") /\ mech' = FALSE /\ busy' = FALSE /\ blind' = FALSE
    /\ UNCHANGED <<join, wakes, shown>>

Stops ==
    /\ EndTurn /\ blind' = FALSE
    /\ UNCHANGED <<joinC2, humanPrompted, shown>>
    /\ StartSessionIfReady(blind)

HumanPromptTaken ==
    /\ StartTurn /\ blind' = FALSE
    /\ UNCHANGED joinC2
    /\ StartSessionIfReady(FALSE)

\* The loop's own prompt: its turn is open already, unless the Stop hook's
\* wake or a queued prompt brought it.
AutoPromptTaken ==
    IF live /\ turn # "in_turn"
    THEN StartTurn /\ UNCHANGED <<joinC2, blind, wakes>>
    ELSE UNCHANGED <<join, wakes, turns, screen>>

HookArrives ==
    /\ hooks # <<>>
    /\ CASE Head(hooks) = "start"  -> SessionStarts
         [] Head(hooks) = "stop"   -> Stops
         [] Head(hooks) = "submit" -> HumanPromptTaken
         [] Head(hooks) = "auto"   -> AutoPromptTaken
    /\ hooks' = Tail(hooks)
    /\ UNCHANGED <<boot, bootTimer, reattached, hold, work, claude, queue, left>>

\* turn:settled, 10 s after the turn ended and every tempo from then on: the
\* one periodic drain.
TurnSettles ==
    /\ turn \in NoTurn /\ turnTimer
    /\ SetTurn("settled")
    /\ IF live
       THEN mech' = FALSE /\ busy' = FALSE /\ TryWake(wake, "drain", Admitted("drain"))
       ELSE UNCHANGED <<mech, busy, wake, wakeTimer, attempt>>
    /\ UNCHANGED <<boot, bootTimer, join, reattached, live, skill, shown, blind,
                   hold, work, outside, left>>

-----------------------------------------------------------------------------
(* The pane.                                                               *)

\* Variant: only a turn that showed work is closed by the pane.
RestsAfterWork(boxShows, alive, seen) ==
    boxShows /\ ~alive /\ (turn = "in_turn" => seen = "worked")

\* The pane at rest.  It closes no turn under the floor.
Rests(boxShows, alive, seen) ==
    boxShows /\ ~alive /\ (turn = "in_turn" => seen # "young")

\* One probe: whether work shows, and the input box with its cursor home.
\* The box may show while Claude works; work never shows while it does not.
SeePane(workShows, boxShows) ==
    LET inTurn == turn = "in_turn"
        alive == mech \/ workShows
        seen == IF inTurn /\ workShows THEN "worked" ELSE shown
        rests == Rests(boxShows, alive, seen)
    IN /\ workShows => claude = "working"
       /\ ~boxShows => claude = "working"
       /\ shown' = seen
       /\ blind' = ((blind /\ ~workShows) \/ (rests /\ inTurn /\ seen # "worked"))
       /\ IF rests /\ inTurn
          THEN EndTurn
          ELSE /\ mech' = alive
               /\ busy' = (~rests /\ (inTurn \/ alive))
               /\ UNCHANGED <<turns, joinC1>>

Probe ==
    /\ \E workShows, boxShows \in BOOLEAN : SeePane(workShows, boxShows)
    /\ UNCHANGED <<boot, bootTimer, joinC2, humanPrompted, reattached, hold, work,
                   outside, left>>
    /\ StartSessionIfReady(blind')

\* A proof's remanence runs out.
ProofFades ==
    /\ mech
    /\ mech' = FALSE
    /\ UNCHANGED <<boot, bootTimer, join, reattached, wakes, turns, busy, shown,
                   blind, hold, work, outside, left>>

\* The turn is older than the floor under which the pane may not close it.
TurnAges ==
    /\ shown = "young"
    /\ shown' = "old"
    /\ UNCHANGED <<boot, bootTimer, join, reattached, wakes, turns, mech, busy,
                   blind, hold, work, outside, left>>

\* Claude's idle_prompt, or the bound on a blind hold.
BlindEnds ==
    /\ blind
    /\ blind' = FALSE
    /\ UNCHANGED <<boot, bootTimer, join, reattached, wakes, turns, mech, busy,
                   shown, hold, work, outside, left>>

-----------------------------------------------------------------------------
(* Wake attempts.                                                          *)

Drain(k) ==
    /\ TryWake(wake, k, Admitted(k))
    /\ UNCHANGED <<boot, bootTimer, join, reattached, live, skill, turns, screen,
                   outside>>

LoopSettled == live /\ turn = "settled"

PingArrives ==
    /\ Spend("ping") /\ work' = work \union {left["ping"]} /\ UNCHANGED hold
    /\ \/ IF LoopSettled THEN Drain("drain")
          ELSE UNCHANGED <<boot, bootTimer, join, reattached, wakes, turns, screen,
                           outside>>
       \/ Drain("panic")

\* `claude-loop wake`, through the heartbeat.
ManualWake == Spend("manual") /\ Drain("manual") /\ UNCHANGED <<hold, work>>

\* The heartbeat's fallback; any time, the countdown being left out.
Heartbeat == Drain("drain") /\ UNCHANGED <<hold, work, left>>

HoldStarts ==
    /\ Spend("hold") /\ hold' = TRUE
    /\ UNCHANGED <<boot, bootTimer, join, reattached, wakes, turns, screen, work,
                   outside>>

HoldEnds ==
    /\ hold /\ hold' = FALSE
    /\ IF LoopSettled THEN Drain("drain")
       ELSE UNCHANGED <<boot, bootTimer, join, reattached, wakes, turns, screen,
                        outside>>
    /\ UNCHANGED <<work, left>>

\* WAKE_DELIVERED marks the ping seen, and is heard in flight only.
MarkSeen(head) == IF wake = "inFlight" THEN work \ {head} ELSE work

\* Variant: the attempt ends without a word to the wake machine.
EndsUnsaid(s, next) ==
    attempt' = [attempt EXCEPT ![s] = None] /\ UNCHANGED <<wake, wakeTimer>>

\* The end of an attempt: WAKE_COMPLETED or WAKE_SKIPPED, in flight only.
Ends(s, next) ==
    /\ attempt' = [attempt EXCEPT ![s] = None]
    /\ IF wake = "inFlight" THEN SetWake(next) ELSE UNCHANGED <<wake, wakeTimer>>

Moves(s, phase) ==
    /\ attempt' = [attempt EXCEPT ![s].phase = phase]
    /\ UNCHANGED <<wake, wakeTimer>>

Picks(s, p) ==
    /\ attempt' = [attempt EXCEPT ![s] = [@ EXCEPT !.phase = "picked", !.head = p]]
    /\ UNCHANGED <<wake, wakeTimer>>

InPhase(s, phase) == attempt[s] # None /\ attempt[s].phase = phase

\* The verdict of the wake gate, on the state the probe has just left.
GateAllows(k) == idle' /\ (k = "manual" \/ (~hold /\ (k = "panic" \/ ~busy')))

Gate(s) ==
    /\ InPhase(s, "probing")
    /\ \E workShows, boxShows \in BOOLEAN : SeePane(workShows, boxShows)
    /\ IF GateAllows(attempt[s].kind) THEN Moves(s, "checking") ELSE Ends(s, "idle")
    /\ UNCHANGED <<boot, bootTimer, joinC2, humanPrompted, reattached, live, skill,
                   hold, work, outside, left>>

\* checkHasWork and pickPhrase: the board gives a ping that is unread as it
\* answers; a manual wake goes without one.
Check(s) ==
    /\ InPhase(s, "checking")
    /\ \/ \E p \in work : Picks(s, p)
       \/ work = {} /\ attempt[s].kind = "manual" /\ Picks(s, NoPing)
       \/ work = {} /\ attempt[s].kind # "manual" /\ Ends(s, "idle")
    /\ UNCHANGED <<boot, bootTimer, join, reattached, live, skill, turns, screen,
                   hold, work, outside, left>>

\* The answer is in: the turn is started and the ping marked seen, before the
\* phrase is typed; a panic interrupts Claude in between.
Begin(s) ==
    /\ InPhase(s, "picked")
    /\ StartTurn
    /\ IF attempt[s].kind = "panic"
       THEN Moves(s, "interrupting") /\ UNCHANGED work
       ELSE Moves(s, "typing") /\ work' = MarkSeen(attempt[s].head)
    /\ UNCHANGED <<boot, bootTimer, joinC2, reattached, live, skill, blind, hold,
                   outside, left>>

\* The Escapes of a panic reach Claude, which gives no Stop, or are lost.
Interrupt(s) ==
    /\ InPhase(s, "interrupting")
    /\ \/ claude' = "prompt" /\ UNCHANGED left
       \/ Spend("lost_inject") /\ UNCHANGED claude
    /\ Moves(s, "typing") /\ work' = MarkSeen(attempt[s].head)
    /\ UNCHANGED <<boot, bootTimer, join, reattached, live, skill, turns, screen,
                   hold, queue, hooks>>

\* A prompt reaches Claude: taken at its prompt, queued while it works.
Submit(prompt) ==
    IF claude = "prompt"
    THEN /\ Len(hooks) < MaxHooks
         /\ claude' = "working" /\ hooks' = Append(hooks, prompt)
         /\ UNCHANGED queue
    ELSE /\ Len(queue) < MaxQueue
         /\ queue' = Append(queue, prompt)
         /\ UNCHANGED <<claude, hooks>>

\* The phrase is typed.
Deliver(s) ==
    /\ InPhase(s, "typing")
    /\ Submit("auto")
    /\ Ends(s, "cooldown")
    /\ UNCHANGED <<boot, bootTimer, join, reattached, live, skill, turns, screen,
                   hold, work, left>>

\* The inject fails, is logged, and counts as delivered: its ping stays seen.
DeliveryFails(s) ==
    /\ InPhase(s, "typing") /\ Spend("lost_inject")
    /\ Ends(s, "cooldown")
    /\ UNCHANGED <<boot, bootTimer, join, reattached, live, skill, turns, screen,
                   hold, work, outside>>

SkillTyped ==
    /\ skill /\ skill' = FALSE
    /\ Submit("auto")
    /\ UNCHANGED <<boot, bootTimer, join, reattached, live, wake, wakeTimer, attempt,
                   turns, screen, hold, work, left>>

\* The `after` of a state of the wake machine.
WakeTimes(from, to) ==
    /\ wake = from /\ wakeTimer
    /\ SetWake(to)
    /\ UNCHANGED <<boot, bootTimer, join, reattached, live, attempt, skill, turns,
                   screen, hold, work, outside>>

\* inFlight's TTL: its attempt has overrun, and is still under way.
InFlightExpires == WakeTimes("inFlight", "cooldown") /\ Spend("overrun")

Cools == WakeTimes("cooldown", "idle") /\ UNCHANGED left

-----------------------------------------------------------------------------
(* The kernel replaced over the same Claude.                               *)

\* Variant: the parent state restored, without its child.
RestoreTurnParent(t) == IF t \in NoTurn THEN "no_turn" ELSE t
RestoreTurn(t) == IF t \in NoTurn THEN "fresh" ELSE t
\* Variant: the wake machine restored as it was (#1166).
RestoreWakeAsItWas(w) == w
RestoreWake(w) == IF w \in Timed THEN "gated" ELSE w
\* Variant: the join waits for a loop:start a restored boot never emits (#1075).
SealAwaited(b) == FALSE
SealRestored(b) == b # "booting"

NewKernel ==
    /\ reattached' = TRUE /\ humanPrompted' = FALSE /\ joinC1' = TRUE
    /\ skill' = FALSE
    /\ mech' = FALSE /\ busy' = FALSE /\ shown' = "old" /\ blind' = FALSE
    /\ bootTimer' = FALSE
    /\ UNCHANGED <<work, outside>>

\* A reload, with its snapshots.  A pane that reads ready counts as a session
\* start, before the turn machine is mirrored on ipc; then a boot restored past
\* its seal completes the join.
Respawn ==
    /\ Spend("respawn")
    /\ NewKernel
    /\ UNCHANGED <<boot, hold>>
    /\ turn' \in {RestoreTurn(turn), "fresh"}
    /\ turnTimer' = (turn' \in NoTurn)
    /\ joinC2' = SealRestored(boot)
    /\ live' = joinC2' /\ idle' = joinC2'
    /\ LET restored == RestoreWake(wake)
           free == [s \in Slots |-> None]
       IN  IF joinC2' /\ BootReady(restored) = "idle"
           THEN /\ wake' = "inFlight" /\ wakeTimer' = TRUE
                /\ attempt' = [free EXCEPT ![CHOOSE s \in Slots : TRUE] =
                                  NewAttempt("drain")]
           ELSE wake' = restored /\ wakeTimer' = FALSE /\ attempt' = free

\* The same with the snapshots lost: a boot from the start, held.
Revive ==
    /\ Spend("revive")
    /\ NewKernel
    /\ boot' = "booting" /\ hold' = TRUE
    /\ turn' \in {"unknown", "fresh"} /\ turnTimer' = (turn' = "fresh")
    /\ joinC2' = FALSE /\ live' = FALSE /\ idle' = FALSE
    /\ wake' = "gated" /\ wakeTimer' = FALSE
    /\ attempt' = [s \in Slots |-> None]

-----------------------------------------------------------------------------
(* Claude and the human.                                                   *)

kernel == <<boot, bootTimer, join, reattached, wakes, turns, screen>>

HumanSubmits ==
    /\ Spend("prompt") /\ Submit("submit")
    /\ hold' \in {hold, TRUE}
    /\ UNCHANGED <<kernel, work>>

ClaudeStops ==
    /\ claude = "working" /\ Len(hooks) < MaxHooks
    /\ claude' = "prompt" /\ hooks' = Append(hooks, "stop")
    /\ UNCHANGED <<kernel, queue, hold, work, left>>

\* A queued prompt of the loop may be taken too late to read as its own.
ClaudeTakesQueued ==
    /\ claude = "prompt" /\ queue # <<>> /\ Len(hooks) < MaxHooks
    /\ claude' = "working" /\ queue' = Tail(queue)
    /\ \E prompt \in {Head(queue), "submit"} : hooks' = Append(hooks, prompt)
    /\ UNCHANGED <<kernel, hold, work, left>>

\* /compact and /clear end with a SessionStart, with no Stop.
ClaudeCompacts ==
    /\ Spend("compact") /\ Len(hooks) < MaxHooks
    /\ hooks' = Append(hooks, "start")
    /\ UNCHANGED <<kernel, claude, queue, hold, work>>

HookLost ==
    /\ Spend("lost_hook") /\ hooks # <<>>
    /\ hooks' = Tail(hooks)
    /\ UNCHANGED <<kernel, claude, queue, hold, work>>

Environment ==
    \/ HumanSubmits \/ ClaudeStops \/ ClaudeTakesQueued \/ ClaudeCompacts \/ HookLost
    \/ HoldStarts \/ HoldEnds \/ PingArrives \/ ManualWake

Next ==
    \/ Environment
    \/ BootSeals \/ BootSettles \/ HookArrives \/ TurnSettles
    \/ Probe \/ ProofFades \/ TurnAges \/ BlindEnds
    \/ Heartbeat \/ SkillTyped \/ InFlightExpires \/ Cools
    \/ \E s \in Slots : \/ Gate(s) \/ Check(s) \/ Begin(s) \/ Interrupt(s)
                      \/ Deliver(s) \/ DeliveryFails(s)
    \/ Respawn \/ Revive

Safety == Init /\ [][Next]_vars

\* Timers fire, probes run, hooks arrive, awaits return, Claude ends its turns
\* and takes what was queued, a hold ends, and the heartbeat comes where no
\* countdown keeps it out.  Nothing else is owed.
Fairness ==
    /\ WF_vars(BootSeals) /\ WF_vars(BootSettles)
    /\ WF_vars(HookArrives) /\ WF_vars(TurnSettles)
    /\ WF_vars(Probe) /\ WF_vars(ProofFades) /\ WF_vars(TurnAges) /\ WF_vars(BlindEnds)
    /\ WF_vars(Heartbeat /\ turn \notin NoTurn)
    /\ WF_vars(SkillTyped) /\ WF_vars(Cools) /\ WF_vars(HoldEnds)
    /\ WF_vars(ClaudeStops) /\ WF_vars(ClaudeTakesQueued)
    /\ \A s \in Slots : /\ WF_vars(Gate(s)) /\ WF_vars(Check(s)) /\ WF_vars(Begin(s))
                        /\ WF_vars(Interrupt(s)) /\ WF_vars(Deliver(s))

Spec == Safety /\ Fairness

-----------------------------------------------------------------------------
(* Properties.                                                             *)

(* The wake machine is gated exactly until the session is live: the join   *)
(* opens it, no reload leaves it ahead of the session or behind it.        *)
GateOpensWithSession == (wake = "gated") <=> ~live

(* A wake machine in flight has an attempt that will bring it back, across *)
(* overlapping attempts, the TTL and reloads: WAKE_COMPLETED or            *)
(* WAKE_SKIPPED is still to come.                                          *)
InFlightIsOwned == wake = "inFlight" => \E s \in Slots : attempt[s] # None

(* No machine waits for a timer that is not running, the restored ones     *)
(* neither: XState does not arm the `after` of a restored state.           *)
TimersRun ==
    /\ turn \in NoTurn => turnTimer
    /\ wake \in Timed => wakeTimer
    /\ boot = "fresh" /\ ~joinC2 => bootTimer

(* No machine waits for what cannot come: an attempt for a wake in flight, *)
(* a timer that runs for each state that is left by one, across overlapped *)
(* attempts, the TTL, reloads and revivals of the kernel.                  *)
EveryWaitEnds == InFlightIsOwned /\ TimersRun

\* Where an attempt stands for WakeDelivery.
Try(a) ==
    CASE a = None             -> "none"
      [] a # None /\ a.phase = "typing" -> "typing"
      [] a # None /\ a.phase # "typing" -> IF a.kind = "manual" THEN "byHand" ELSE "asked"

\* An attempt under way has outlived its flight: the machine is no longer in
\* flight, or it is for another attempt.
Late ==
    \E s \in Slots :
        /\ attempt[s] # None
        /\ wake # "inFlight" \/ \E r \in Slots \ {s} : attempt[r] # None

Delivery == INSTANCE WakeDelivery WITH
    coming <- 1 .. left["ping"], unread <- work, open <- live,
    tries <- [s \in Slots |-> Try(attempt[s])], late <- Late

(* The wake path implements WakeDelivery: as long as no attempt outlives   *)
(* its flight, one attempt is under way at a time and each ping is typed   *)
(* by one, which consumes it; never before the session is open, whatever   *)
(* the reloads, the pings that come between and the wakes by hand.         *)
DeliverySafety == Delivery!Safety

(* Pings are taken up in the end, from the boot on, each by a typing that  *)
(* ends: the loop does not go deaf after any one disturbance (a flight     *)
(* overrun, a hold, a revival...) nor after a reload with a human's prompt *)
(* or a lost hook.  The typing that fails, or that a replaced kernel drops *)
(* after its mark, takes its own ping with it, and not those after it.     *)
WorkIsTyped == work # {} ~> (work = {} /\ \A s \in Slots : ~InPhase(s, "typing"))

(* A turn whose Stop was lost is closed all the same, by the pane, unless  *)
(* Claude has gone back to work.                                           *)
TurnsClose == (turn = "in_turn" /\ claude = "prompt") ~> (turn # "in_turn" \/ claude = "working")

=============================================================================
