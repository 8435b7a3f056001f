--------------------------- MODULE WakeLoopProofs ---------------------------
(***************************************************************************)
(* Theorems about WakeLoop, for any number of overlapping attempts, any    *)
(* bounds and any budgets.  The inductive invariant adds to the stated     *)
(* properties the order of the session's life: no attempt outlives or      *)
(* precedes it, and it opens after boot.                                   *)
(***************************************************************************)
EXTENDS WakeLoop, TLAPS

WakeStates == {"gated", "idle"} \union Timed
TurnStates == {"unknown", "in_turn"} \union NoTurn

(* The wake machine and its attempts. *)
WakesOK ==
    /\ wake \in WakeStates /\ wakeTimer \in BOOLEAN
    /\ attempt \in [Slots -> Attempts \union {None}]
    /\ wake \in Timed => wakeTimer
    /\ InFlightIsOwned

(* The turn machine. *)
TurnsOK ==
    /\ turn \in TurnStates /\ turnTimer \in BOOLEAN /\ idle \in BOOLEAN
    /\ turn \in NoTurn => turnTimer

(* What the pane and the join remember. *)
MarksOK ==
    /\ joinC1 \in BOOLEAN /\ humanPrompted \in BOOLEAN
    /\ mech \in BOOLEAN /\ busy \in BOOLEAN /\ blind \in BOOLEAN
    /\ shown \in {"young", "old", "worked"}

(* The session opens after boot, and the gate with it; an attempt is of an *)
(* open session.                                                           *)
SessionOK ==
    /\ live \in BOOLEAN /\ skill \in BOOLEAN
    /\ GateOpensWithSession
    /\ live => joinC2
    /\ \A s \in Slots : attempt[s] # None => live

BootOK ==
    /\ boot \in {"booting", "fresh", "settled"} /\ bootTimer \in BOOLEAN
    /\ joinC2 \in BOOLEAN /\ reattached \in BOOLEAN
    /\ joinC2 => boot # "booting"
    /\ boot = "fresh" /\ ~joinC2 => bootTimer

OutsideOK ==
    /\ hold \in BOOLEAN /\ work \in SUBSET Nat
    /\ claude \in {"prompt", "working"} /\ queue \in Seq(Prompts)
    /\ hooks \in Seq(Hooks) /\ left \in [Things -> Nat]

Inv == WakesOK /\ TurnsOK /\ MarksOK /\ SessionOK /\ BootOK /\ OutsideOK

LEMMA InvImplies ==
    Inv => TypeOK /\ GateOpensWithSession /\ InFlightIsOwned /\ TimersRun
  BY DEF Inv, WakesOK, TurnsOK, MarksOK, SessionOK, BootOK, OutsideOK, TypeOK,
         TimersRun, WakeStates, TurnStates

-----------------------------------------------------------------------------
(* The wake machine.                                                       *)

LEMMA AFreeSlot ==
    ASSUME Free # {}
    PROVE  (CHOOSE s \in Free : TRUE) \in Slots
  BY DEF Free

(* A state entered arms its timer. *)
LEMMA SetWakeArms ==
    ASSUME NEW w, w # wake, SetWake(w)
    PROVE  wake' = w /\ wakeTimer' \in BOOLEAN /\ (w \in Timed => wakeTimer')
<1>1. wake' = w /\ wakeTimer' = (w \in Timed)
  BY DEF SetWake
<1>2. CASE w \in Timed
  BY <1>1, <1>2
<1>3. CASE w \notin Timed
  BY <1>1, <1>3
<1> QED
  BY <1>2, <1>3

(* An attempt is started by an idle machine, or nothing but the machine's  *)
(* state moves.                                                            *)
LEMMA TryWakeKeeps ==
    ASSUME WakesOK, NEW w \in {wake, BootReady(wake)}, NEW k \in Kinds,
           NEW admitted \in BOOLEAN, TryWake(w, k, admitted)
    PROVE  /\ WakesOK'
           /\ w = "gated" <=> wake' = "gated"
           /\ attempt' = attempt \/ w = "idle"
<1>1. CASE w = "idle" /\ admitted /\ Free # {}
  <2> DEFINE s == CHOOSE r \in Free : TRUE
  <2>1. s \in Slots
    BY <1>1, AFreeSlot
  <2>2. NewAttempt(k) \in Attempts /\ NewAttempt(k) # None
    BY SlotsAssumption DEF NewAttempt, Attempts, Phases, NoPing
  <2> QED
    BY <1>1, <2>1, <2>2 DEF TryWake, SetWake, WakesOK, WakeStates, Timed, InFlightIsOwned
<1>2. CASE ~(w = "idle" /\ admitted /\ Free # {})
  <2>1. SetWake(w) /\ attempt' = attempt
    BY <1>2 DEF TryWake
  <2>2. CASE w = wake
    <3>1. wake' = wake /\ wakeTimer' = wakeTimer
      BY <2>1, <2>2 DEF SetWake
    <3> QED
      BY <2>1, <2>2, <3>1 DEF WakesOK, InFlightIsOwned
  <2>3. CASE w # wake
    <3>1. w = "idle" /\ wake = "gated"
      BY <2>3 DEF BootReady
    <3>2. wake' = "idle" /\ wakeTimer' \in BOOLEAN
      BY <2>1, <3>1, SetWakeArms
    <3> QED
      BY <2>1, <3>1, <3>2 DEF WakesOK, WakeStates, Timed, InFlightIsOwned
  <2> QED
    BY <2>2, <2>3
<1> QED
  BY <1>1, <1>2

(* The end of an attempt: the machine is no longer in flight. *)
LEMMA EndsKeeps ==
    ASSUME WakesOK, NEW s \in Slots, NEW next \in {"idle", "cooldown"}, Ends(s, next)
    PROVE  /\ WakesOK'
           /\ wake = "gated" <=> wake' = "gated"
           /\ \A r \in Slots : attempt'[r] # None => attempt[r] # None
<1>1. /\ attempt' = [attempt EXCEPT ![s] = None]
      /\ attempt' \in [Slots -> Attempts \union {None}]
      /\ \A r \in Slots : attempt'[r] # None => attempt[r] # None
  BY DEF Ends, WakesOK
<1>2. CASE wake = "inFlight"
  <2>1. SetWake(next) /\ next # wake
    BY <1>2 DEF Ends
  <2>2. wake' = next /\ wakeTimer' \in BOOLEAN /\ (next \in Timed => wakeTimer')
    BY <2>1, SetWakeArms
  <2> QED
    BY <1>1, <1>2, <2>2 DEF WakesOK, WakeStates, Timed, InFlightIsOwned
<1>3. CASE wake # "inFlight"
  <2>1. wake' = wake /\ wakeTimer' = wakeTimer
    BY <1>3 DEF Ends
  <2> QED
    BY <1>1, <1>3, <2>1 DEF WakesOK, InFlightIsOwned
<1> QED
  BY <1>2, <1>3, <1>1

LEMMA MovesKeeps ==
    ASSUME WakesOK, NEW s \in Slots, attempt[s] # None,
           NEW phase \in Phases, Moves(s, phase)
    PROVE  /\ WakesOK'
           /\ wake' = wake
           /\ \A r \in Slots : attempt'[r] # None => attempt[r] # None
<1>1. attempt[s] \in Attempts
  BY DEF WakesOK
<1>2. [attempt[s] EXCEPT !.phase = phase] \in Attempts
  BY <1>1 DEF Attempts
<1>3. attempt' = [attempt EXCEPT ![s] = [attempt[s] EXCEPT !.phase = phase]]
  BY DEF Moves
<1>4. wake' = wake /\ wakeTimer' = wakeTimer
  BY DEF Moves
<1>5. attempt'[s] # None
  BY <1>2, <1>3, SlotsAssumption DEF WakesOK
<1> QED
  BY <1>2, <1>3, <1>4, <1>5 DEF WakesOK, InFlightIsOwned

LEMMA PicksKeeps ==
    ASSUME WakesOK, NEW s \in Slots, attempt[s] # None, NEW p \in Nat, Picks(s, p)
    PROVE  /\ WakesOK'
           /\ wake' = wake
           /\ \A r \in Slots : attempt'[r] # None => attempt[r] # None
<1> DEFINE a == [attempt[s] EXCEPT !.phase = "picked", !.head = p]
<1>1. attempt[s] \in Attempts
  BY DEF WakesOK
<1>2. a \in Attempts
  BY <1>1 DEF Attempts, Phases
<1>3. attempt' = [attempt EXCEPT ![s] = a]
  BY DEF Picks
<1>4. wake' = wake /\ wakeTimer' = wakeTimer
  BY DEF Picks
<1>5. attempt'[s] # None
  BY <1>2, <1>3, SlotsAssumption DEF WakesOK
<1> QED
  BY <1>2, <1>3, <1>4, <1>5 DEF WakesOK, InFlightIsOwned

(* startSessionIfReady, for any handler that keeps C1 and C2 boolean and   *)
(* does not take C2 back.                                                  *)
LEMMA StartSessionKeeps ==
    ASSUME WakesOK, SessionOK, joinC1' \in BOOLEAN, joinC2' \in BOOLEAN,
           joinC2 => joinC2', reattached \in BOOLEAN, hold \in BOOLEAN,
           humanPrompted \in BOOLEAN,
           NEW isBlind \in BOOLEAN, StartSessionIfReady(isBlind)
    PROVE  WakesOK' /\ SessionOK'
<1>1. CASE live \/ ~joinC1' \/ ~joinC2'
  <2>1. UNCHANGED wakes
    BY <1>1 DEF StartSessionIfReady
  <2> QED
    BY <2>1 DEF wakes, WakesOK, InFlightIsOwned, SessionOK, GateOpensWithSession
<1>2. CASE ~(live \/ ~joinC1' \/ ~joinC2')
  <2>1. /\ live' = TRUE
        /\ skill' = (~reattached /\ ~hold /\ ~humanPrompted)
        /\ TryWake(BootReady(wake), "drain", ~isBlind)
    BY <1>2 DEF StartSessionIfReady
  <2>2. BootReady(wake) = "idle"
    BY <1>2 DEF SessionOK, GateOpensWithSession, BootReady
  <2>3. WakesOK' /\ wake' # "gated"
    BY <2>1, <2>2, TryWakeKeeps DEF Kinds
  <2>4. skill' \in BOOLEAN
    BY <2>1
  <2> QED
    BY <1>2, <2>1, <2>3, <2>4 DEF SessionOK, GateOpensWithSession
<1> QED
  BY <1>1, <1>2

(* A drain, the session and its gate untouched. *)
LEMMA TryWakeOfSession ==
    ASSUME WakesOK, SessionOK, NEW k \in Kinds, NEW admitted \in BOOLEAN,
           TryWake(wake, k, admitted),
           live' = live, skill' = skill, joinC2' = joinC2
    PROVE  WakesOK' /\ SessionOK'
<1>1. /\ WakesOK'
      /\ wake = "gated" <=> wake' = "gated"
      /\ attempt' = attempt \/ wake = "idle"
  BY TryWakeKeeps
<1> QED
  BY <1>1 DEF SessionOK, GateOpensWithSession

(* Nothing of the part moves. *)
LEMMA WakesStay ==
    ASSUME WakesOK, SessionOK, UNCHANGED wakes, joinC2 => joinC2'
    PROVE  WakesOK' /\ SessionOK'
  BY DEF wakes, WakesOK, InFlightIsOwned, SessionOK, GateOpensWithSession

LEMMA TurnsStay == TurnsOK /\ UNCHANGED turns => TurnsOK'
  BY DEF turns, TurnsOK

LEMMA MarksStay == MarksOK /\ UNCHANGED <<join, screen>> => MarksOK'
  BY DEF join, screen, MarksOK

LEMMA BootStays ==
    BootOK /\ UNCHANGED <<boot, bootTimer, joinC2, reattached>> => BootOK'
  BY DEF BootOK

-----------------------------------------------------------------------------
(* The turn machine.                                                       *)

LEMMA SetTurnKeeps ==
    ASSUME NEW t \in TurnStates, SetTurn(t)
    PROVE  TurnsOK'
<1>1. turn' = t /\ turnTimer' = (t \in NoTurn) /\ idle' = (t \in NoTurn)
  BY DEF SetTurn
<1>2. CASE t \in NoTurn
  BY <1>1, <1>2 DEF TurnsOK
<1>3. CASE t \notin NoTurn
  BY <1>1, <1>3 DEF TurnsOK
<1> QED
  BY <1>2, <1>3

LEMMA StartTurnKeeps ==
    ASSUME MarksOK, joinC2 \in BOOLEAN, StartTurn
    PROVE  /\ TurnsOK'
           /\ joinC1' \in BOOLEAN /\ humanPrompted' \in BOOLEAN
           /\ shown' \in {"young", "old", "worked"}
           /\ mech' \in BOOLEAN /\ busy' \in BOOLEAN
<1>1. CASE turn = "unknown"
  <2>1. SetTurn("unknown") /\ UNCHANGED <<joinC1, humanPrompted, shown, mech, busy>>
    BY <1>1 DEF StartTurn
  <2>2. TurnsOK'
    BY <2>1, SetTurnKeeps DEF TurnStates
  <2> QED
    BY <2>1, <2>2 DEF MarksOK
<1>2. CASE turn # "unknown"
  <2>1. /\ SetTurn("in_turn")
        /\ joinC1' = (joinC2 /\ (joinC1 \/ turn = "in_turn"))
        /\ humanPrompted' = (humanPrompted \/ ~joinC2)
        /\ shown' = "young"
        /\ mech' = (mech /\ turn # "in_turn")
        /\ busy' = (busy /\ turn # "in_turn")
    BY <1>2 DEF StartTurn
  <2>2. TurnsOK'
    BY <2>1, SetTurnKeeps DEF TurnStates
  <2>3. joinC1' \in BOOLEAN /\ humanPrompted' \in BOOLEAN
    BY <2>1, Zenon
  <2>4. mech' \in BOOLEAN /\ busy' \in BOOLEAN
    BY <2>1, Zenon
  <2> QED
    BY <2>1, <2>2, <2>3, <2>4
<1> QED
  BY <1>1, <1>2

LEMMA EndTurnKeeps ==
    ASSUME EndTurn
    PROVE  /\ TurnsOK'
           /\ joinC1' \in BOOLEAN /\ mech' = FALSE /\ busy' = FALSE
<1>1. TurnsOK'
  BY SetTurnKeeps DEF EndTurn, TurnStates, NoTurn
<1>2. joinC1' \in BOOLEAN
  BY Zenon DEF EndTurn
<1> QED
  BY <1>1, <1>2 DEF EndTurn

LEMMA SeePaneKeeps ==
    ASSUME TurnsOK, MarksOK, NEW workShows \in BOOLEAN, NEW boxShows \in BOOLEAN,
           SeePane(workShows, boxShows), humanPrompted' = humanPrompted
    PROVE  TurnsOK' /\ MarksOK'
<1> DEFINE inTurn == turn = "in_turn"
           alive == mech \/ workShows
           seen == IF inTurn /\ workShows THEN "worked" ELSE shown
           rests == Rests(boxShows, alive, seen)
<1>1. /\ shown' = seen
      /\ blind' = ((blind /\ ~workShows) \/ (rests /\ inTurn /\ seen # "worked"))
      /\ IF rests /\ inTurn
         THEN EndTurn
         ELSE /\ mech' = alive
              /\ busy' = (~rests /\ (inTurn \/ alive))
              /\ UNCHANGED <<turns, joinC1>>
  BY DEF SeePane
<1>2. seen \in {"young", "old", "worked"}
  BY DEF MarksOK
<1>3. shown' \in {"young", "old", "worked"} /\ blind' \in BOOLEAN
  BY <1>1, <1>2
<1>4. CASE rests /\ inTurn
  <2>1. EndTurn
    BY <1>1, <1>4
  <2> QED
    BY <2>1, <1>3, EndTurnKeeps DEF MarksOK
<1>5. CASE ~(rests /\ inTurn)
  <2>1. mech' \in BOOLEAN /\ busy' \in BOOLEAN /\ UNCHANGED <<turns, joinC1>>
    BY <1>1, <1>5
  <2> QED
    BY <2>1, <1>3, TurnsStay DEF MarksOK
<1> QED
  BY <1>4, <1>5

-----------------------------------------------------------------------------
(* What is outside the kernel.                                             *)

LEMMA SpendKeeps ==
    ASSUME left \in [Things -> Nat], NEW c \in Things, Spend(c)
    PROVE  left' \in [Things -> Nat]
  BY DEF Spend

LEMMA SubmitKeeps ==
    ASSUME OutsideOK, NEW prompt \in Prompts, Submit(prompt)
    PROVE  /\ claude' \in {"prompt", "working"}
           /\ queue' \in Seq(Prompts) /\ hooks' \in Seq(Hooks)
<1>1. CASE claude = "prompt"
  <2>1. claude' = "working" /\ hooks' = Append(hooks, prompt) /\ queue' = queue
    BY <1>1 DEF Submit
  <2> QED
    BY <2>1 DEF OutsideOK, Prompts, Hooks
<1>2. CASE claude # "prompt"
  <2>1. claude' = claude /\ hooks' = hooks /\ queue' = Append(queue, prompt)
    BY <1>2 DEF Submit
  <2> QED
    BY <2>1 DEF OutsideOK
<1> QED
  BY <1>1, <1>2

-----------------------------------------------------------------------------
(* Every step keeps the invariant.                                         *)

LEMMA InitHolds == Init => Inv
<1> SUFFICES ASSUME Init PROVE Inv
  OBVIOUS
<1>1. attempt \in [Slots -> Attempts \union {None}]
  BY DEF Init
<1>2. WakesOK /\ SessionOK
  BY <1>1 DEF Init, WakesOK, WakeStates, Timed, InFlightIsOwned, SessionOK,
              GateOpensWithSession
<1>3. TurnsOK /\ MarksOK /\ BootOK
  BY DEF Init, TurnsOK, TurnStates, NoTurn, MarksOK, BootOK
<1>4. left \in [Things -> Nat]
  BY BudgetsAssumption DEF Init
<1>5. OutsideOK
  BY <1>4 DEF Init, OutsideOK, Hooks
<1> QED
  BY <1>2, <1>3, <1>5 DEF Inv

LEMMA BootKeeps == Inv /\ (BootSeals \/ BootSettles) => Inv'
<1>1. ASSUME Inv, BootSeals PROVE Inv'
  <2>1. WakesOK' /\ SessionOK'
    BY <1>1, WakesStay DEF Inv, BootSeals, join
  <2>2. TurnsOK' /\ MarksOK'
    BY <1>1, TurnsStay, MarksStay DEF Inv, BootSeals
  <2>3. BootOK'
    BY <1>1 DEF Inv, BootSeals, BootOK, join
  <2>4. OutsideOK'
    BY <1>1 DEF Inv, BootSeals, OutsideOK, outside
  <2> QED
    BY <2>1, <2>2, <2>3, <2>4 DEF Inv
<1>2. ASSUME Inv, BootSettles PROVE Inv'
  <2>1. WakesOK' /\ SessionOK'
    BY <1>2, StartSessionKeeps DEF Inv, BootSettles, MarksOK, BootOK, OutsideOK
  <2>2. live' \in BOOLEAN
    BY <2>1 DEF SessionOK
  <2>3. idle' \in BOOLEAN
    BY <1>2, <2>2, Zenon DEF BootSettles
  <2>4. TurnsOK'
    BY <1>2, <2>3 DEF Inv, BootSettles, TurnsOK
  <2>5. MarksOK'
    BY <1>2 DEF Inv, BootSettles, MarksOK, screen
  <2>6. BootOK'
    BY <1>2 DEF Inv, BootSettles, BootOK
  <2>7. OutsideOK'
    BY <1>2 DEF Inv, BootSettles, OutsideOK, outside
  <2> QED
    BY <2>1, <2>4, <2>5, <2>6, <2>7 DEF Inv
<1> QED
  BY <1>1, <1>2

LEMMA HookArrivesKeeps == Inv /\ HookArrives => Inv'
<1> SUFFICES ASSUME Inv, HookArrives PROVE Inv'
  OBVIOUS
<1>1. Head(hooks) \in Hooks /\ hooks' \in Seq(Hooks)
  BY DEF Inv, OutsideOK, HookArrives
<1>2. OutsideOK'
  BY <1>1 DEF Inv, OutsideOK, HookArrives
<1>3. /\ reattached' = reattached /\ boot' = boot /\ bootTimer' = bootTimer
      /\ joinC1 \in BOOLEAN /\ joinC2 \in BOOLEAN /\ humanPrompted \in BOOLEAN
      /\ reattached \in BOOLEAN /\ hold \in BOOLEAN /\ blind \in BOOLEAN
  BY DEF Inv, HookArrives, MarksOK, BootOK, OutsideOK
<1>4. ASSUME SessionStarts PROVE Inv'
  <2>1. TurnsOK'
    BY <1>4, SetTurnKeeps DEF SessionStarts, TurnStates, NoTurn
  <2>2. WakesOK' /\ SessionOK'
    BY <1>4, WakesStay DEF Inv, SessionStarts, join
  <2>3. MarksOK' /\ BootOK'
    BY <1>3, <1>4, BootStays DEF Inv, SessionStarts, MarksOK, join
  <2> QED
    BY <1>2, <2>1, <2>2, <2>3 DEF Inv
<1>5. ASSUME Stops PROVE Inv'
  <2>1. TurnsOK' /\ joinC1' \in BOOLEAN /\ mech' = FALSE /\ busy' = FALSE
    BY <1>5, EndTurnKeeps DEF Stops
  <2>2. WakesOK' /\ SessionOK'
    BY <1>3, <1>5, <2>1, StartSessionKeeps DEF Inv, Stops
  <2>3. MarksOK' /\ BootOK'
    BY <1>3, <1>5, <2>1, BootStays DEF Inv, Stops, MarksOK
  <2> QED
    BY <1>2, <2>1, <2>2, <2>3 DEF Inv
<1>6. ASSUME HumanPromptTaken PROVE Inv'
  <2>1. /\ TurnsOK'
        /\ joinC1' \in BOOLEAN /\ humanPrompted' \in BOOLEAN
        /\ shown' \in {"young", "old", "worked"}
        /\ mech' \in BOOLEAN /\ busy' \in BOOLEAN
    BY <1>3, <1>6, StartTurnKeeps DEF Inv, HumanPromptTaken
  <2>2. WakesOK' /\ SessionOK'
    BY <1>3, <1>6, <2>1, StartSessionKeeps DEF Inv, HumanPromptTaken
  <2>3. MarksOK' /\ BootOK'
    BY <1>3, <1>6, <2>1, BootStays DEF Inv, HumanPromptTaken, MarksOK
  <2> QED
    BY <1>2, <2>1, <2>2, <2>3 DEF Inv
<1>7. ASSUME AutoPromptTaken PROVE Inv'
  <2>1. CASE live /\ turn # "in_turn"
    <3>1. StartTurn /\ UNCHANGED <<joinC2, blind, wakes>>
      BY <1>7, <2>1 DEF AutoPromptTaken
    <3>2. /\ TurnsOK'
          /\ joinC1' \in BOOLEAN /\ humanPrompted' \in BOOLEAN
          /\ shown' \in {"young", "old", "worked"}
          /\ mech' \in BOOLEAN /\ busy' \in BOOLEAN
      BY <1>3, <3>1, StartTurnKeeps DEF Inv
    <3>3. WakesOK' /\ SessionOK'
      BY <3>1, WakesStay DEF Inv
    <3>4. MarksOK' /\ BootOK'
      BY <1>3, <3>1, <3>2, BootStays DEF Inv, MarksOK
    <3> QED
      BY <1>2, <3>2, <3>3, <3>4 DEF Inv
  <2>2. CASE ~(live /\ turn # "in_turn")
    <3>1. UNCHANGED <<join, wakes, turns, screen>>
      BY <1>7, <2>2 DEF AutoPromptTaken
    <3>2. WakesOK' /\ SessionOK' /\ TurnsOK' /\ MarksOK' /\ BootOK'
      BY <1>3, <3>1, WakesStay, TurnsStay, MarksStay, BootStays DEF Inv, join
    <3> QED
      BY <1>2, <3>2 DEF Inv
  <2> QED
    BY <2>1, <2>2
<1> QED
  BY <1>1, <1>4, <1>5, <1>6, <1>7 DEF HookArrives, Hooks

LEMMA TurnSettlesKeeps == Inv /\ TurnSettles => Inv'
<1> SUFFICES ASSUME Inv, TurnSettles PROVE Inv'
  OBVIOUS
<1>1. TurnsOK'
  BY SetTurnKeeps DEF TurnSettles, TurnStates, NoTurn
<1>2. BootOK' /\ OutsideOK'
  BY BootStays DEF Inv, TurnSettles, OutsideOK, outside, join
<1>3. live' = live /\ skill' = skill /\ joinC2' = joinC2
  BY DEF TurnSettles, join
<1>4. WakesOK' /\ SessionOK'
  <2>1. CASE live
    <3>1. TryWake(wake, "drain", Admitted("drain"))
      BY <2>1 DEF TurnSettles
    <3>2. Admitted("drain") \in BOOLEAN
      BY Zenon DEF Admitted
    <3> QED
      BY <1>3, <3>1, <3>2, TryWakeOfSession DEF Inv, Kinds
  <2>2. CASE ~live
    <3>1. UNCHANGED wakes
      BY <1>3, <2>2 DEF TurnSettles, wakes
    <3> QED
      BY <1>3, <3>1, WakesStay DEF Inv
  <2> QED
    BY <2>1, <2>2
<1>5. mech' \in BOOLEAN /\ busy' \in BOOLEAN
  <2>1. CASE live
    BY <2>1 DEF TurnSettles
  <2>2. CASE ~live
    BY <2>2 DEF TurnSettles, Inv, MarksOK
  <2> QED
    BY <2>1, <2>2
<1>6. MarksOK'
  BY <1>5 DEF Inv, TurnSettles, MarksOK, join
<1> QED
  BY <1>1, <1>2, <1>4, <1>6 DEF Inv

LEMMA PaneKeeps == Inv /\ (Probe \/ ProofFades \/ TurnAges \/ BlindEnds) => Inv'
<1>1. ASSUME Inv, Probe PROVE Inv'
  <2>1. PICK workShows, boxShows \in BOOLEAN : SeePane(workShows, boxShows)
    BY <1>1 DEF Probe
  <2>2. TurnsOK' /\ MarksOK'
    BY <1>1, <2>1, SeePaneKeeps DEF Inv, Probe
  <2>3. BootOK' /\ OutsideOK'
    BY <1>1, BootStays DEF Inv, Probe, OutsideOK, outside
  <2>4. WakesOK' /\ SessionOK'
    BY <1>1, <2>2, <2>3, StartSessionKeeps DEF Inv, Probe, MarksOK, BootOK, OutsideOK
  <2> QED
    BY <2>2, <2>3, <2>4 DEF Inv
<1>2. ASSUME Inv, ProofFades \/ TurnAges \/ BlindEnds PROVE Inv'
  <2>1. UNCHANGED <<boot, bootTimer, join, reattached, wakes, turns, hold, work, outside, left>>
    BY <1>2 DEF ProofFades, TurnAges, BlindEnds
  <2>2. MarksOK'
    BY <1>2, <2>1 DEF Inv, MarksOK, ProofFades, TurnAges, BlindEnds, join
  <2>3. WakesOK' /\ SessionOK' /\ TurnsOK' /\ BootOK' /\ OutsideOK'
    BY <1>2, <2>1, WakesStay, TurnsStay, BootStays DEF Inv, OutsideOK, outside, join
  <2> QED
    BY <2>2, <2>3 DEF Inv
<1> QED
  BY <1>1, <1>2

(* A drain by whatever calls it. *)
LEMMA DrainKeeps ==
    ASSUME Inv, NEW k \in Kinds, Drain(k), OutsideOK'
    PROVE  Inv'
<1>1. TryWake(wake, k, Admitted(k)) /\ live' = live /\ skill' = skill
  BY DEF Drain
<1>2. Admitted(k) \in BOOLEAN
  BY Zenon DEF Admitted
<1>3. WakesOK' /\ SessionOK'
  BY <1>1, <1>2, TryWakeOfSession DEF Inv, Drain, join
<1>4. TurnsOK' /\ MarksOK' /\ BootOK'
  BY TurnsStay, MarksStay, BootStays DEF Inv, Drain, join
<1> QED
  BY <1>3, <1>4 DEF Inv

(* The kernel does not move. *)
LEMMA KernelStays ==
    ASSUME Inv, UNCHANGED kernel, OutsideOK'
    PROVE  Inv'
<1>1. WakesOK' /\ SessionOK' /\ TurnsOK' /\ MarksOK' /\ BootOK'
  BY WakesStay, TurnsStay, MarksStay, BootStays DEF Inv, kernel, join
<1> QED
  BY <1>1 DEF Inv

LEMMA EnvironmentKeeps == Inv /\ Environment => Inv'
<1> SUFFICES ASSUME Inv, Environment PROVE Inv'
  OBVIOUS
<1> USE DEF Inv
<1>1. CASE HumanSubmits
  <2>1. OutsideOK'
    <3>1. left' \in [Things -> Nat]
      BY <1>1, SpendKeeps DEF HumanSubmits, Things, OutsideOK
    <3>2. /\ claude' \in {"prompt", "working"}
          /\ queue' \in Seq(Prompts) /\ hooks' \in Seq(Hooks)
      BY <1>1, SubmitKeeps DEF HumanSubmits, Prompts
    <3> QED
      BY <1>1, <3>1, <3>2 DEF HumanSubmits, OutsideOK
  <2> QED
    BY <1>1, <2>1, KernelStays DEF HumanSubmits
<1>2. CASE ClaudeStops
  <2>1. OutsideOK'
    BY <1>2 DEF ClaudeStops, OutsideOK, Hooks
  <2> QED
    BY <1>2, <2>1, KernelStays DEF ClaudeStops
<1>3. CASE ClaudeTakesQueued
  <2>1. PICK prompt \in {Head(queue), "submit"} : hooks' = Append(hooks, prompt)
    BY <1>3 DEF ClaudeTakesQueued
  <2>2. Head(queue) \in Prompts /\ queue' \in Seq(Prompts)
    BY <1>3 DEF ClaudeTakesQueued, OutsideOK
  <2>3. prompt \in Hooks
    BY <2>2 DEF Prompts, Hooks
  <2>4. hooks' \in Seq(Hooks)
    BY <2>1, <2>3 DEF OutsideOK
  <2>5. OutsideOK'
    BY <1>3, <2>2, <2>4 DEF ClaudeTakesQueued, OutsideOK
  <2> QED
    BY <1>3, <2>5, KernelStays DEF ClaudeTakesQueued
<1>4. CASE ClaudeCompacts
  <2>1. left' \in [Things -> Nat]
    BY <1>4, SpendKeeps DEF ClaudeCompacts, Things, OutsideOK
  <2>2. OutsideOK'
    BY <1>4, <2>1 DEF ClaudeCompacts, OutsideOK, Hooks
  <2> QED
    BY <1>4, <2>2, KernelStays DEF ClaudeCompacts
<1>5. CASE HookLost
  <2>1. left' \in [Things -> Nat]
    BY <1>5, SpendKeeps DEF HookLost, Things, OutsideOK
  <2>2. OutsideOK'
    BY <1>5, <2>1 DEF HookLost, OutsideOK
  <2> QED
    BY <1>5, <2>2, KernelStays DEF HookLost
<1>6. CASE HoldStarts
  <2>1. left' \in [Things -> Nat]
    BY <1>6, SpendKeeps DEF HoldStarts, Things, OutsideOK
  <2>2. OutsideOK'
    BY <1>6, <2>1 DEF HoldStarts, OutsideOK, outside
  <2> QED
    BY <1>6, <2>2, KernelStays DEF HoldStarts, kernel
<1>7. CASE HoldEnds
  <2>1. UNCHANGED outside /\ hold' = FALSE /\ UNCHANGED <<work, left>>
    BY <1>7 DEF HoldEnds, Drain
  <2>2. OutsideOK'
    BY <2>1 DEF OutsideOK, outside
  <2>3. Drain("drain") \/ UNCHANGED kernel
    BY <1>7 DEF HoldEnds, kernel
  <2> QED
    BY <2>2, <2>3, DrainKeeps, KernelStays DEF Kinds
<1>8. CASE PingArrives
  <2>1. left' \in [Things -> Nat] /\ UNCHANGED <<hold, outside>>
    BY <1>8, SpendKeeps DEF PingArrives, Things, OutsideOK, Drain
  <2>4. work' \in SUBSET Nat
    BY <1>8 DEF PingArrives, Things, OutsideOK
  <2>2. OutsideOK'
    BY <2>1, <2>4 DEF OutsideOK, outside
  <2>3. Drain("drain") \/ Drain("panic") \/ UNCHANGED kernel
    BY <1>8 DEF PingArrives, kernel
  <2> QED
    BY <2>2, <2>3, DrainKeeps, KernelStays DEF Kinds
<1>9. CASE ManualWake
  <2>1. left' \in [Things -> Nat]
    BY <1>9, SpendKeeps DEF ManualWake, Things, OutsideOK
  <2>2. OutsideOK'
    BY <1>9, <2>1 DEF ManualWake, Drain, OutsideOK, outside
  <2> QED
    BY <1>9, <2>2, DrainKeeps DEF ManualWake, Kinds
<1> QED
  BY <1>1, <1>2, <1>3, <1>4, <1>5, <1>6, <1>7, <1>8, <1>9 DEF Environment

LEMMA HeartbeatKeeps == Inv /\ Heartbeat => Inv'
<1> SUFFICES ASSUME Inv, Heartbeat PROVE Inv'
  OBVIOUS
<1>1. OutsideOK'
  BY DEF Inv, Heartbeat, Drain, OutsideOK, outside
<1> QED
  BY <1>1, DrainKeeps DEF Heartbeat, Kinds

(* What a step of an attempt does to the machines but the wake machine is  *)
(* enough, where it ends the attempt or moves it on.                       *)
LEMMA AttemptMoves ==
    ASSUME Inv, NEW s \in Slots, attempt[s] # None,
           \/ \E next \in {"idle", "cooldown"} : Ends(s, next)
           \/ \E phase \in Phases : Moves(s, phase)
           \/ \E p \in Nat : Picks(s, p),
           live' = live, skill' = skill, joinC2' = joinC2
    PROVE  WakesOK' /\ SessionOK'
<1>1. /\ WakesOK'
      /\ wake = "gated" <=> wake' = "gated"
      /\ \A r \in Slots : attempt'[r] # None => attempt[r] # None
  BY EndsKeeps, MovesKeeps, PicksKeeps DEF Inv
<1> QED
  BY <1>1 DEF Inv, SessionOK, GateOpensWithSession

LEMMA GateKeeps == ASSUME Inv, NEW s \in Slots, Gate(s) PROVE Inv'
<1>1. PICK workShows, boxShows \in BOOLEAN : SeePane(workShows, boxShows)
  BY DEF Gate
<1>2. TurnsOK' /\ MarksOK'
  BY <1>1, SeePaneKeeps DEF Gate, Inv
<1>3. BootOK' /\ OutsideOK'
  BY BootStays DEF Gate, OutsideOK, outside, Inv
<1>4. Ends(s, "idle") \/ Moves(s, "checking")
  BY DEF Gate
<1>5. WakesOK' /\ SessionOK'
  BY <1>4, AttemptMoves DEF Gate, InPhase, Phases
<1> QED
  BY <1>2, <1>3, <1>5 DEF Inv

LEMMA CheckKeeps == ASSUME Inv, NEW s \in Slots, Check(s) PROVE Inv'
<1>1. TurnsOK' /\ MarksOK' /\ BootOK' /\ OutsideOK'
  BY TurnsStay, MarksStay, BootStays DEF Check, OutsideOK, outside, join, Inv
<1>2. Ends(s, "idle") \/ \E p \in Nat : Picks(s, p)
  BY DEF Check, Inv, OutsideOK, NoPing
<1>3. WakesOK' /\ SessionOK'
  BY <1>2, AttemptMoves DEF Check, InPhase, join
<1> QED
  BY <1>1, <1>3 DEF Inv

LEMMA BeginKeeps == ASSUME Inv, NEW s \in Slots, Begin(s) PROVE Inv'
<1>1. /\ TurnsOK'
      /\ joinC1' \in BOOLEAN /\ humanPrompted' \in BOOLEAN
      /\ shown' \in {"young", "old", "worked"}
      /\ mech' \in BOOLEAN /\ busy' \in BOOLEAN
  BY StartTurnKeeps DEF Begin, Inv, BootOK
<1>2. MarksOK' /\ BootOK'
  BY <1>1, BootStays DEF Begin, MarksOK, Inv
<1>3. work' \in SUBSET Nat
  BY DEF Begin, MarkSeen, Inv, OutsideOK
<1>4. OutsideOK'
  BY <1>3 DEF Begin, OutsideOK, outside, Inv
<1>5. Moves(s, "interrupting") \/ Moves(s, "typing")
  BY DEF Begin
<1>6. WakesOK' /\ SessionOK'
  BY <1>5, AttemptMoves DEF Begin, InPhase, Phases
<1> QED
  BY <1>1, <1>2, <1>4, <1>6 DEF Inv

LEMMA InterruptKeeps == ASSUME Inv, NEW s \in Slots, Interrupt(s) PROVE Inv'
<1>1. TurnsOK' /\ MarksOK' /\ BootOK'
  BY TurnsStay, MarksStay, BootStays DEF Interrupt, join, Inv
<1>2. work' \in SUBSET Nat
  BY DEF Interrupt, MarkSeen, Inv, OutsideOK
<1>3. left' \in [Things -> Nat] /\ claude' \in {"prompt", "working"}
  BY SpendKeeps DEF Interrupt, Inv, OutsideOK, Things
<1>4. OutsideOK'
  BY <1>2, <1>3 DEF Interrupt, OutsideOK, Inv
<1>5. WakesOK' /\ SessionOK'
  BY AttemptMoves DEF Interrupt, InPhase, Phases, join
<1> QED
  BY <1>1, <1>4, <1>5 DEF Inv

LEMMA TypingKeeps ==
    ASSUME Inv, NEW s \in Slots, Deliver(s) \/ DeliveryFails(s) PROVE Inv'
<1>1. /\ attempt[s] # None /\ Ends(s, "cooldown")
      /\ UNCHANGED <<boot, bootTimer, join, reattached, live, skill, turns, screen>>
  BY DEF Deliver, DeliveryFails, InPhase
<1>2. TurnsOK' /\ MarksOK' /\ BootOK'
  BY <1>1, TurnsStay, MarksStay, BootStays DEF join, Inv
<1>3. WakesOK' /\ SessionOK'
  BY <1>1, AttemptMoves DEF join
<1>4. CASE Deliver(s)
  <2>1. /\ claude' \in {"prompt", "working"}
        /\ queue' \in Seq(Prompts) /\ hooks' \in Seq(Hooks)
    BY <1>4, SubmitKeeps DEF Deliver, Prompts, Inv
  <2>2. OutsideOK'
    BY <1>4, <2>1 DEF Deliver, OutsideOK, Inv
  <2> QED
    BY <1>2, <1>3, <2>2 DEF Inv
<1>5. CASE DeliveryFails(s)
  <2>1. left' \in [Things -> Nat]
    BY <1>5, SpendKeeps DEF DeliveryFails, Things, OutsideOK, Inv
  <2>2. OutsideOK'
    BY <1>5, <2>1 DEF DeliveryFails, OutsideOK, outside, Inv
  <2> QED
    BY <1>2, <1>3, <2>2 DEF Inv
<1> QED
  BY <1>4, <1>5

LEMMA SkillTypedKeeps == Inv /\ SkillTyped => Inv'
<1> SUFFICES ASSUME Inv, SkillTyped PROVE Inv'
  OBVIOUS
<1>1. /\ claude' \in {"prompt", "working"}
      /\ queue' \in Seq(Prompts) /\ hooks' \in Seq(Hooks)
  BY SubmitKeeps DEF Inv, SkillTyped, Prompts
<1>2. OutsideOK'
  BY <1>1 DEF Inv, SkillTyped, OutsideOK
<1>3. WakesOK' /\ SessionOK'
  BY DEF Inv, SkillTyped, WakesOK, InFlightIsOwned, SessionOK, GateOpensWithSession, join
<1>4. TurnsOK' /\ MarksOK' /\ BootOK'
  BY TurnsStay, MarksStay, BootStays DEF Inv, SkillTyped, join
<1> QED
  BY <1>2, <1>3, <1>4 DEF Inv

LEMMA WakeTimesKeeps ==
    ASSUME Inv, NEW from \in Timed, NEW to \in {"idle", "cooldown"}, from # to,
           WakeTimes(from, to), left' \in [Things -> Nat]
    PROVE  Inv'
<1>1. wake' = to /\ wakeTimer' \in BOOLEAN /\ (to \in Timed => wakeTimer')
  BY SetWakeArms DEF WakeTimes
<1>2. WakesOK' /\ SessionOK'
  BY <1>1 DEF Inv, WakeTimes, WakesOK, WakeStates, Timed, InFlightIsOwned, SessionOK,
              GateOpensWithSession, join
<1>3. TurnsOK' /\ MarksOK' /\ BootOK' /\ OutsideOK'
  BY TurnsStay, MarksStay, BootStays DEF Inv, WakeTimes, OutsideOK, outside, join
<1> QED
  BY <1>2, <1>3 DEF Inv

(* A kernel replaced over the same Claude. *)
LEMMA ReplacedKeeps == Inv /\ (Respawn \/ Revive) => Inv'
<1>1. ASSUME Inv, NewKernel PROVE MarksOK' /\ reattached' \in BOOLEAN /\ skill' \in BOOLEAN
  BY <1>1 DEF NewKernel, MarksOK
<1>2. ASSUME Inv, Respawn PROVE Inv'
  <2>1. MarksOK' /\ reattached' \in BOOLEAN /\ skill' \in BOOLEAN
    BY <1>1, <1>2 DEF Respawn
  <2>2. left' \in [Things -> Nat]
    BY <1>2, SpendKeeps DEF Respawn, Inv, OutsideOK, Things
  <2>3. OutsideOK'
    BY <1>2, <2>2 DEF Respawn, NewKernel, Inv, OutsideOK, outside
  <2>4. /\ joinC2' \in BOOLEAN /\ (joinC2' <=> boot # "booting")
        /\ live' = joinC2' /\ idle' = joinC2'
    BY <1>2 DEF Respawn, SealRestored
  <2>5. BootOK'
    BY <1>2, <2>1, <2>4 DEF Respawn, NewKernel, Inv, BootOK
  <2>6. turn' \in TurnStates
    BY <1>2 DEF Respawn, RestoreTurn, Inv, TurnsOK, TurnStates, NoTurn
  <2>7. turnTimer' = (turn' \in NoTurn)
    BY <1>2 DEF Respawn
  <2>8. TurnsOK'
    <3>1. CASE turn' \in NoTurn
      BY <2>4, <2>6, <2>7, <3>1 DEF TurnsOK
    <3>2. CASE turn' \notin NoTurn
      BY <2>4, <2>6, <2>7, <3>2 DEF TurnsOK
    <3> QED
      BY <3>1, <3>2
  <2> DEFINE free == [s \in Slots |-> None]
             restored == RestoreWake(wake)
  <2>9. restored \in {"gated", "idle"} /\ BootReady(restored) = "idle"
    BY <1>2 DEF Inv, WakesOK, WakeStates, RestoreWake, BootReady
  <2>10. CASE joinC2'
    <3> DEFINE s == CHOOSE r \in Slots : TRUE
    <3>1. s \in Slots
      BY SlotsAssumption
    <3>2. NewAttempt("drain") \in Attempts /\ NewAttempt("drain") # None
      BY SlotsAssumption DEF NewAttempt, Attempts, Phases, NoPing, Kinds
    <3>3. /\ wake' = "inFlight" /\ wakeTimer' = TRUE
          /\ attempt' = [free EXCEPT ![s] = NewAttempt("drain")]
      BY <1>2, <2>9, <2>10 DEF Respawn
    <3>4. WakesOK'
      BY <3>1, <3>2, <3>3 DEF WakesOK, WakeStates, Timed, InFlightIsOwned
    <3>5. SessionOK'
      BY <2>1, <2>4, <2>10, <3>3 DEF SessionOK, GateOpensWithSession
    <3> QED
      BY <2>1, <2>3, <2>5, <2>8, <3>4, <3>5 DEF Inv
  <2>11. CASE ~joinC2'
    <3>1. wake' = restored /\ wakeTimer' = FALSE /\ attempt' = free
      BY <1>2, <2>11 DEF Respawn
    <3>2. wake' \in {"gated", "idle"}
      BY <2>9, <3>1
    <3>3. ~live
      BY <1>2, <2>4, <2>11 DEF Inv, SessionOK, BootOK
    <3>4. wake' = "gated"
      BY <1>2, <3>1, <3>3 DEF Inv, SessionOK, GateOpensWithSession, RestoreWake
    <3>5. WakesOK'
      BY <3>1, <3>2 DEF WakesOK, WakeStates, Timed, InFlightIsOwned
    <3>6. SessionOK'
      BY <2>1, <2>4, <2>11, <3>1, <3>4 DEF SessionOK, GateOpensWithSession
    <3> QED
      BY <2>1, <2>3, <2>5, <2>8, <3>5, <3>6 DEF Inv
  <2> QED
    BY <2>10, <2>11
<1>3. ASSUME Inv, Revive PROVE Inv'
  <2>1. MarksOK' /\ reattached' \in BOOLEAN /\ skill' \in BOOLEAN
    BY <1>1, <1>3 DEF Revive
  <2>2. left' \in [Things -> Nat]
    BY <1>3, SpendKeeps DEF Revive, Inv, OutsideOK, Things
  <2>3. OutsideOK'
    BY <1>3, <2>2 DEF Revive, NewKernel, Inv, OutsideOK, outside
  <2>4. BootOK'
    BY <1>3, <2>1 DEF Revive, NewKernel, Inv, BootOK
  <2>5. TurnsOK'
    BY <1>3 DEF Revive, TurnsOK, TurnStates, NoTurn
  <2>6. WakesOK' /\ SessionOK'
    BY <1>3, <2>1 DEF Revive, WakesOK, WakeStates, Timed, InFlightIsOwned, SessionOK,
                      GateOpensWithSession
  <2> QED
    BY <2>1, <2>3, <2>4, <2>5, <2>6 DEF Inv
<1> QED
  BY <1>2, <1>3

LEMMA StepKeeps == Inv /\ [Next]_vars => Inv'
<1> SUFFICES ASSUME Inv, [Next]_vars PROVE Inv'
  OBVIOUS
<1>1. CASE InFlightExpires \/ Cools
  <2>1. left' \in [Things -> Nat]
    BY <1>1, SpendKeeps DEF InFlightExpires, Cools, Things, Inv, OutsideOK
  <2> QED
    BY <1>1, <2>1, WakeTimesKeeps DEF InFlightExpires, Cools, Timed
<1>2. CASE UNCHANGED vars
  <2>1. UNCHANGED kernel /\ UNCHANGED <<hold, work, outside, left>>
    BY <1>2 DEF vars, kernel
  <2>2. OutsideOK'
    BY <2>1 DEF Inv, OutsideOK, outside
  <2> QED
    BY <2>1, <2>2, KernelStays
<1> QED
  BY <1>1, <1>2, EnvironmentKeeps, BootKeeps, HookArrivesKeeps, TurnSettlesKeeps,
     PaneKeeps, HeartbeatKeeps, SkillTypedKeeps, GateKeeps, CheckKeeps, BeginKeeps,
     InterruptKeeps, TypingKeeps, ReplacedKeeps DEF Next

-----------------------------------------------------------------------------

(* The inductive invariant holds of every behaviour of the wake path. *)
THEOREM InvHolds == Safety => []Inv
  BY InitHolds, StepKeeps, PTL DEF Safety

(* Every variable of the wake path keeps its type (kernel.ts, the machines *)
(* and the environment).                                                   *)
THEOREM TypeCorrect == Safety => []TypeOK
  BY InvHolds, InvImplies, PTL

(* The wake machine is gated exactly until the session is live: through    *)
(* startSessionIfReady, reloads and revives.                               *)
THEOREM GateOpens == Safety => []GateOpensWithSession
  BY InvHolds, InvImplies, PTL

(* However attempts overlap, expire or are dropped by a reload, a machine  *)
(* in flight has an attempt to answer for it (tryWake's finally).          *)
THEOREM InFlightOwned == Safety => []InFlightIsOwned
  BY InvHolds, InvImplies, PTL

(* No machine waits for a timer that is not running, restored or not.      *)
THEOREM TimersArmed == Safety => []TimersRun
  BY InvHolds, InvImplies, PTL

(* Whatever overlaps, expires, reloads or is revived, no machine waits for  *)
(* what cannot come.                                                       *)
THEOREM WaitsEnd == Safety => []EveryWaitEnds
<1>1. Inv => EveryWaitEnds
  BY InvImplies DEF EveryWaitEnds
<1> QED
  BY <1>1, InvHolds, PTL

-----------------------------------------------------------------------------
(* A step as the wake machine, its attempts and the board see it: each is  *)
(* one of a few shapes, which both the pings in hand and WakeDelivery are  *)
(* followed through.                                                       *)

\* The attempts stay, and so does whether the machine is in flight.
Quiet ==
    /\ attempt' = attempt
    /\ wake' = wake \/ (wake # "inFlight" /\ wake' # "inFlight")

\* A machine out of flight takes off with a new attempt, of an open session.
TakesOff(s) ==
    /\ attempt[s] = None /\ wake # "inFlight" /\ wake' = "inFlight" /\ live'
    /\ \E k \in Kinds : attempt' = [attempt EXCEPT ![s] = NewAttempt(k)]

Stirs == Quiet \/ \E s \in Slots : TakesOff(s)

BoardStays == work' = work /\ left'["ping"] = left["ping"]

PingComes ==
    /\ left["ping"] \in Nat \ {0} /\ left'["ping"] = left["ping"] - 1
    /\ work' = work \union {left["ping"]} /\ live' = live

\* An attempt moves on, typing or not.
MovesOn(s, phase) ==
    attempt[s] # None /\ Moves(s, phase) /\ live' = live /\ left'["ping"] = left["ping"]

Replaced ==
    /\ BoardStays
    /\ \/ attempt' = [r \in Slots |-> None] /\ wake' # "inFlight"
       \/ /\ live' /\ wake' = "inFlight"
          /\ \E s \in Slots :
                attempt' = [[r \in Slots |-> None] EXCEPT ![s] = NewAttempt("drain")]

Shape ==
    \/ BoardStays /\ Stirs /\ (live => live')
    \/ PingComes /\ Stirs
    \/ BoardStays /\ live' = live /\ wake = "inFlight" /\ wake' = "cooldown" /\ attempt' = attempt
    \/ \E s \in Slots :
          /\ attempt[s] # None /\ BoardStays /\ live' = live
          /\ \E next \in {"idle", "cooldown"} : Ends(s, next)
    \/ \E s \in Slots :
          /\ attempt[s] # None /\ attempt[s].phase = "probing"
          /\ MovesOn(s, "checking") /\ work' = work
    \/ \E s \in Slots :
          /\ attempt[s] # None /\ BoardStays /\ live' = live
          /\ \E p \in Nat : Picks(s, p) /\ (p \in work \/ attempt[s].kind = "manual")
          /\ attempt[s].phase = "checking"
    \/ \E s \in Slots :
          /\ attempt[s] # None /\ attempt[s].phase = "picked"
          /\ MovesOn(s, "interrupting") /\ work' = work
    \/ \E s \in Slots :
          /\ attempt[s] # None /\ attempt[s].phase \in {"picked", "interrupting"}
          /\ MovesOn(s, "typing") /\ work' = MarkSeen(attempt[s].head)
    \/ Replaced

(* What is not a ping leaves the count of pings alone. *)
LEMMA SpendOther ==
    ASSUME left \in [Things -> Nat], NEW c \in Things \ {"ping"}, Spend(c)
    PROVE  left'["ping"] = left["ping"]
  BY DEF Spend, Things

LEMMA TryWakeStirs ==
    ASSUME NEW w \in {wake, BootReady(wake)}, NEW k \in Kinds, NEW admitted \in BOOLEAN,
           TryWake(w, k, admitted), w = "idle" => live'
    PROVE  Stirs
<1>1. w # wake => wake = "gated" /\ w = "idle"
  BY DEF BootReady
<1>2. CASE w = "idle" /\ admitted /\ Free # {}
  <2> DEFINE s == CHOOSE r \in Free : TRUE
  <2>1. s \in Slots /\ attempt[s] = None
    BY <1>2 DEF Free
  <2>2. wake' = "inFlight" /\ attempt' = [attempt EXCEPT ![s] = NewAttempt(k)]
    BY <1>2 DEF TryWake, SetWake
  <2>3. TakesOff(s)
    BY <1>1, <1>2, <2>1, <2>2 DEF TakesOff
  <2> QED
    BY <2>1, <2>3 DEF Stirs
<1>3. CASE ~(w = "idle" /\ admitted /\ Free # {})
  <2>1. wake' = w /\ attempt' = attempt
    BY <1>3 DEF TryWake, SetWake
  <2> QED
    BY <1>1, <2>1 DEF Stirs, Quiet
<1> QED
  BY <1>2, <1>3

LEMMA SessionStirs ==
    ASSUME NEW isBlind \in BOOLEAN, StartSessionIfReady(isBlind)
    PROVE  Stirs /\ (live => live')
<1>1. CASE live \/ ~joinC1' \/ ~joinC2'
  BY <1>1 DEF StartSessionIfReady, wakes, Stirs, Quiet
<1>2. CASE ~(live \/ ~joinC1' \/ ~joinC2')
  <2>1. live' = TRUE /\ TryWake(BootReady(wake), "drain", ~isBlind)
    BY <1>2 DEF StartSessionIfReady
  <2> QED
    BY <2>1, TryWakeStirs DEF Kinds
<1> QED
  BY <1>1, <1>2

LEMMA DrainStirs ==
    ASSUME Inv, NEW k \in Kinds, Drain(k)
    PROVE  Stirs /\ live' = live
<1>1. TryWake(wake, k, Admitted(k)) /\ live' = live
  BY DEF Drain
<1>2. wake = "idle" => live'
  BY <1>1 DEF Inv, SessionOK, GateOpensWithSession
<1>3. Admitted(k) \in BOOLEAN
  BY Zenon DEF Admitted
<1> QED
  BY <1>1, <1>2, <1>3, TryWakeStirs

LEMMA EnvironmentShape == Inv /\ Environment => Shape
<1> SUFFICES ASSUME Inv, Environment PROVE Shape
  OBVIOUS
<1>0. left \in [Things -> Nat]
  BY DEF Inv, OutsideOK
<1>1. CASE PingArrives
  <2>1. Spend("ping") /\ work' = work \union {left["ping"]}
    BY <1>1 DEF PingArrives
  <2>2. left["ping"] \in Nat \ {0} /\ left'["ping"] = left["ping"] - 1
    BY <1>0, <2>1 DEF Spend, Things
  <2>3. Drain("drain") \/ Drain("panic") \/ UNCHANGED wakes
    BY <1>1 DEF PingArrives
  <2>4. Stirs /\ live' = live
    <3>1. CASE UNCHANGED wakes
      BY <3>1 DEF wakes, Stirs, Quiet
    <3>2. CASE Drain("drain") \/ Drain("panic")
      BY <3>2, DrainStirs DEF Kinds
    <3> QED
      BY <2>3, <3>1, <3>2
  <2> QED
    BY <2>1, <2>2, <2>4 DEF Shape, PingComes
<1>2. CASE ManualWake
  <2>1. BoardStays
    BY <1>0, <1>2, SpendOther DEF ManualWake, BoardStays, Things
  <2>2. Stirs /\ live' = live
    BY <1>2, DrainStirs DEF ManualWake, Kinds
  <2> QED
    BY <2>1, <2>2 DEF Shape
<1>3. CASE HoldEnds
  <2>1. BoardStays
    BY <1>3 DEF HoldEnds, BoardStays
  <2>2. Drain("drain") \/ UNCHANGED wakes
    BY <1>3 DEF HoldEnds
  <2>3. Stirs /\ live' = live
    <3>1. CASE UNCHANGED wakes
      BY <3>1 DEF wakes, Stirs, Quiet
    <3>2. CASE Drain("drain")
      BY <3>2, DrainStirs DEF Kinds
    <3> QED
      BY <2>2, <3>1, <3>2
  <2> QED
    BY <2>1, <2>3 DEF Shape
<1>4. CASE HumanSubmits \/ ClaudeStops \/ ClaudeTakesQueued \/ ClaudeCompacts \/ HookLost
           \/ HoldStarts
  <2>1. UNCHANGED wakes /\ work' = work
    BY <1>4 DEF HumanSubmits, ClaudeStops, ClaudeTakesQueued, ClaudeCompacts, HookLost,
                HoldStarts, kernel
  <2>2. left'["ping"] = left["ping"]
    BY <1>0, <1>4, SpendOther DEF HumanSubmits, ClaudeStops, ClaudeTakesQueued,
                                  ClaudeCompacts, HookLost, HoldStarts, Things
  <2> QED
    BY <2>1, <2>2 DEF Shape, BoardStays, Stirs, Quiet, wakes
<1> QED
  BY <1>1, <1>2, <1>3, <1>4 DEF Environment

LEMMA KernelShape ==
    ASSUME Inv,
           \/ BootSeals \/ BootSettles \/ HookArrives \/ TurnSettles
           \/ Probe \/ ProofFades \/ TurnAges \/ BlindEnds
           \/ Heartbeat \/ SkillTyped
    PROVE  Shape
<1>1. BoardStays
  BY DEF BootSeals, BootSettles, HookArrives, TurnSettles, Probe, ProofFades, TurnAges,
         BlindEnds, Heartbeat, SkillTyped, BoardStays
<1>2. Stirs /\ (live => live')
  <2>1. CASE BootSettles
    BY <2>1, SessionStirs DEF BootSettles, Inv, MarksOK
  <2>2. CASE HookArrives
    <3>1. Head(hooks) \in Hooks /\ blind \in BOOLEAN
      BY <2>2 DEF HookArrives, Inv, MarksOK, OutsideOK
    <3>2. SessionStarts \/ Stops \/ HumanPromptTaken \/ AutoPromptTaken
      BY <2>2, <3>1 DEF HookArrives, Hooks
    <3>3. UNCHANGED wakes \/ StartSessionIfReady(blind) \/ StartSessionIfReady(FALSE)
      BY <3>2, Zenon DEF SessionStarts, Stops, HumanPromptTaken, AutoPromptTaken
    <3>4. CASE UNCHANGED wakes
      BY <3>4 DEF wakes, Stirs, Quiet
    <3> QED
      BY <3>1, <3>3, <3>4, SessionStirs
  <2>3. CASE Probe
    <3>1. blind' \in BOOLEAN
      BY <2>3, PaneKeeps DEF Inv, MarksOK
    <3> QED
      BY <2>3, <3>1, SessionStirs DEF Probe
  <2>4. CASE TurnSettles
    <3>1. CASE live
      <4>1. TryWake(wake, "drain", Admitted("drain")) /\ live'
        BY <2>4, <3>1 DEF TurnSettles
      <4>2. Admitted("drain") \in BOOLEAN
        BY Zenon DEF Admitted
      <4> QED
        BY <4>1, <4>2, TryWakeStirs DEF Kinds
    <3>2. CASE ~live
      BY <2>4, <3>2 DEF TurnSettles, Stirs, Quiet
    <3> QED
      BY <3>1, <3>2
  <2>5. CASE Heartbeat
    BY <2>5, DrainStirs DEF Heartbeat, Kinds
  <2>6. CASE BootSeals \/ ProofFades \/ TurnAges \/ BlindEnds \/ SkillTyped
    <3>1. UNCHANGED <<attempt, wake, live>>
      BY <2>6 DEF BootSeals, ProofFades, TurnAges, BlindEnds, SkillTyped, wakes
    <3> QED
      BY <3>1 DEF Stirs, Quiet
  <2> QED
    BY <2>1, <2>2, <2>3, <2>4, <2>5, <2>6
<1> QED
  BY <1>1, <1>2 DEF Shape

LEMMA AttemptShape ==
    ASSUME Inv, NEW s \in Slots,
           \/ Gate(s) \/ Check(s) \/ Begin(s) \/ Interrupt(s) \/ Deliver(s) \/ DeliveryFails(s)
    PROVE  Shape
<1>0. left \in [Things -> Nat] /\ work \in SUBSET Nat
  BY DEF Inv, OutsideOK
<1>1. CASE Gate(s)
  <2>1. /\ attempt[s] # None /\ attempt[s].phase = "probing"
        /\ BoardStays /\ live' = live
        /\ Moves(s, "checking") \/ Ends(s, "idle")
    BY <1>1 DEF Gate, InPhase, BoardStays
  <2> QED
    BY <2>1 DEF Shape, MovesOn, BoardStays
<1>2. CASE Check(s)
  <2>1. /\ attempt[s] # None /\ attempt[s].phase = "checking" /\ BoardStays /\ live' = live
    BY <1>2 DEF Check, InPhase, BoardStays
  <2>2. \/ Ends(s, "idle")
        \/ \E p \in Nat : Picks(s, p) /\ (p \in work \/ attempt[s].kind = "manual")
    BY <1>0, <1>2 DEF Check, NoPing
  <2> QED
    BY <2>1, <2>2 DEF Shape
<1>3. CASE Begin(s)
  <2>1. attempt[s] # None /\ attempt[s].phase = "picked" /\ live' = live /\ left' = left
    BY <1>3 DEF Begin, InPhase
  <2>2. \/ Moves(s, "interrupting") /\ work' = work
        \/ Moves(s, "typing") /\ work' = MarkSeen(attempt[s].head)
    BY <1>3 DEF Begin
  <2> QED
    BY <2>1, <2>2 DEF Shape, MovesOn
<1>4. CASE Interrupt(s)
  <2>1. attempt[s] # None /\ attempt[s].phase = "interrupting" /\ live' = live
    BY <1>4 DEF Interrupt, InPhase
  <2>2. Moves(s, "typing") /\ work' = MarkSeen(attempt[s].head)
    BY <1>4 DEF Interrupt
  <2>3. left'["ping"] = left["ping"]
    BY <1>0, <1>4, SpendOther DEF Interrupt, Things
  <2> QED
    BY <2>1, <2>2, <2>3 DEF Shape, MovesOn
<1>5. CASE Deliver(s) \/ DeliveryFails(s)
  <2>1. attempt[s] # None /\ Ends(s, "cooldown") /\ live' = live /\ work' = work
    BY <1>5 DEF Deliver, DeliveryFails, InPhase
  <2>2. left'["ping"] = left["ping"]
    BY <1>0, <1>5, SpendOther DEF Deliver, DeliveryFails, Things
  <2> QED
    BY <2>1, <2>2 DEF Shape, BoardStays
<1> QED
  BY <1>1, <1>2, <1>3, <1>4, <1>5

LEMMA ReplacedShape == Inv /\ (Respawn \/ Revive) => Shape
<1> SUFFICES ASSUME Inv, Respawn \/ Revive PROVE Shape
  OBVIOUS
<1>1. left \in [Things -> Nat]
  BY DEF Inv, OutsideOK
<1>2. BoardStays
  BY <1>1, SpendOther DEF Respawn, Revive, NewKernel, BoardStays, Things
<1>3. CASE Revive
  BY <1>2, <1>3 DEF Revive, Shape, Replaced
<1>4. CASE Respawn
  <2> DEFINE s == CHOOSE r \in Slots : TRUE
  <2>1. s \in Slots
    BY SlotsAssumption
  <2>2. \/ /\ live' /\ wake' = "inFlight"
           /\ attempt' = [[r \in Slots |-> None] EXCEPT ![s] = NewAttempt("drain")]
        \/ wake' = RestoreWake(wake) /\ attempt' = [r \in Slots |-> None]
    BY <1>4 DEF Respawn
  <2>3. RestoreWake(wake) # "inFlight"
    BY DEF RestoreWake, Timed
  <2> QED
    BY <1>2, <2>1, <2>2, <2>3 DEF Shape, Replaced
<1> QED
  BY <1>3, <1>4

LEMMA StepShape == Inv /\ [Next]_vars => Shape
<1> SUFFICES ASSUME Inv, [Next]_vars PROVE Shape
  OBVIOUS
<1>0. left \in [Things -> Nat]
  BY DEF Inv, OutsideOK
<1>1. CASE InFlightExpires
  <2>1. wake = "inFlight" /\ wake' = "cooldown" /\ UNCHANGED <<attempt, live, work>>
    BY <1>1 DEF InFlightExpires, WakeTimes, SetWake
  <2>2. left'["ping"] = left["ping"]
    BY <1>0, <1>1, SpendOther DEF InFlightExpires, Things
  <2> QED
    BY <2>1, <2>2 DEF Shape, BoardStays
<1>2. CASE Cools
  <2>1. wake = "cooldown" /\ wake' = "idle" /\ UNCHANGED <<attempt, live, work, left>>
    BY <1>2 DEF Cools, WakeTimes, SetWake
  <2> QED
    BY <2>1 DEF Shape, BoardStays, Stirs, Quiet
<1>3. CASE UNCHANGED vars
  BY <1>3 DEF vars, wakes, Shape, BoardStays, Stirs, Quiet
<1> QED
  BY <1>1, <1>2, <1>3, EnvironmentShape, KernelShape, AttemptShape, ReplacedShape DEF Next

-----------------------------------------------------------------------------
(* The ping in hand.                                                       *)

\* An attempt that has its ping and has not marked it.
InHand(a) ==
    a # None /\ a.kind # "manual" /\ a.phase \in {"picked", "interrupting"}

\* The one attempt under way, in its flight.
InItsFlight(s) == wake = "inFlight" /\ \A r \in Slots \ {s} : attempt[r] = None

(* The ping of an attempt that has not outlived its flight is unread until *)
(* it is marked: no other attempt is there to mark it.                     *)
PingInHand ==
    \A s \in Slots : InHand(attempt[s]) /\ InItsFlight(s) => attempt[s].head \in work

(* A ping has a number that no ping to come will have.                     *)
PingsCame == \A p \in work : p > left["ping"]

PingsOK == PingInHand /\ PingsCame

LEMMA MovesAt ==
    ASSUME Inv, NEW s \in Slots, attempt[s] # None, NEW phase \in Phases, Moves(s, phase)
    PROVE  /\ wake' = wake
           /\ attempt'[s] # None /\ attempt'[s].phase = phase
           /\ attempt'[s].kind = attempt[s].kind /\ attempt'[s].head = attempt[s].head
           /\ \A r \in Slots \ {s} : attempt'[r] = attempt[r]
           /\ attempt' = [attempt EXCEPT ![s] = attempt'[s]]
<1> DEFINE a == [attempt[s] EXCEPT !.phase = phase]
<1>1. attempt \in [Slots -> Attempts \union {None}] /\ attempt[s] \in Attempts
  BY DEF Inv, WakesOK
<1>2. a \in Attempts /\ a # None /\ a.phase = phase
      /\ a.kind = attempt[s].kind /\ a.head = attempt[s].head
  BY <1>1, SlotsAssumption DEF Attempts
<1>3. attempt' = [attempt EXCEPT ![s] = a] /\ wake' = wake
  BY DEF Moves
<1> QED
  BY <1>1, <1>2, <1>3

LEMMA PicksAt ==
    ASSUME Inv, NEW s \in Slots, attempt[s] # None, NEW p \in Nat, Picks(s, p)
    PROVE  /\ wake' = wake
           /\ attempt'[s] # None /\ attempt'[s].phase = "picked"
           /\ attempt'[s].kind = attempt[s].kind /\ attempt'[s].head = p
           /\ \A r \in Slots \ {s} : attempt'[r] = attempt[r]
           /\ attempt' = [attempt EXCEPT ![s] = attempt'[s]]
<1> DEFINE a == [attempt[s] EXCEPT !.phase = "picked", !.head = p]
<1>1. attempt \in [Slots -> Attempts \union {None}] /\ attempt[s] \in Attempts
  BY DEF Inv, WakesOK
<1>2. a \in Attempts /\ a # None /\ a.phase = "picked" /\ a.kind = attempt[s].kind /\ a.head = p
  BY <1>1, SlotsAssumption DEF Attempts, Phases
<1>3. attempt' = [attempt EXCEPT ![s] = a] /\ wake' = wake
  BY DEF Picks
<1> QED
  BY <1>1, <1>2, <1>3

LEMMA EndsAt ==
    ASSUME Inv, NEW s \in Slots, NEW next \in {"idle", "cooldown"}, Ends(s, next)
    PROVE  /\ wake' # "inFlight"
           /\ attempt' = [attempt EXCEPT ![s] = None] /\ attempt'[s] = None
           /\ \A r \in Slots \ {s} : attempt'[r] = attempt[r]
  BY DEF Ends, SetWake, Inv, WakesOK

LEMMA TakesOffAt ==
    ASSUME Inv, NEW s \in Slots, NEW k \in Kinds, attempt' = [attempt EXCEPT ![s] = NewAttempt(k)]
    PROVE  /\ attempt'[s] = NewAttempt(k) /\ NewAttempt(k) # None
           /\ attempt'[s].phase = "probing" /\ attempt'[s].kind = k
           /\ \A r \in Slots \ {s} : attempt'[r] = attempt[r]
<1>1. NewAttempt(k) # None
  BY SlotsAssumption DEF NewAttempt, Attempts, Phases, NoPing
<1> QED
  BY <1>1 DEF Inv, WakesOK, NewAttempt

LEMMA ReplacedAt ==
    ASSUME Replaced
    PROVE  \/ (\A r \in Slots : attempt'[r] = None) /\ wake' # "inFlight"
           \/ \E s \in Slots :
                 /\ live' /\ wake' = "inFlight"
                 /\ attempt'[s] = NewAttempt("drain") /\ NewAttempt("drain") # None
                 /\ \A r \in Slots \ {s} : attempt'[r] = None
<1>1. NewAttempt("drain") # None
  BY SlotsAssumption DEF NewAttempt, Attempts, Phases, NoPing, Kinds
<1> QED
  BY <1>1 DEF Replaced

(* A ping marked was in hand or came before those to come.                 *)
LEMMA MarksKeepCame ==
    ASSUME PingsCame, work' \subseteq work, left'["ping"] = left["ping"]
    PROVE  PingsCame'
  BY DEF PingsCame

(* An attempt that takes off has no ping yet, and leaves no other alone.   *)
LEMMA TakesOffKeeps ==
    ASSUME Inv, NEW s \in Slots, TakesOff(s)
    PROVE  PingInHand'
<1>1. PICK k \in Kinds : attempt' = [attempt EXCEPT ![s] = NewAttempt(k)]
  BY DEF TakesOff
<1>2. attempt'[s] # None /\ attempt'[s].phase = "probing"
  BY <1>1, TakesOffAt
<1>3. SUFFICES ASSUME NEW r \in Slots, InHand(attempt'[r]), InItsFlight(r)'
               PROVE  FALSE
  BY DEF PingInHand
<1>4. CASE r = s
  BY <1>2, <1>3, <1>4 DEF InHand
<1>5. CASE r # s
  BY <1>2, <1>3, <1>5 DEF InItsFlight
<1> QED
  BY <1>4, <1>5

LEMMA ShapeKeepsPings == Inv /\ PingsOK /\ Shape => PingsOK'
<1> SUFFICES ASSUME Inv, PingInHand, PingsCame, Shape PROVE PingInHand' /\ PingsCame'
  BY DEF PingsOK
<1>1. CASE BoardStays /\ Stirs /\ (live => live')
  <2>1. PingsCame'
    BY <1>1 DEF BoardStays, PingsCame
  <2>2. CASE Quiet
    BY <1>1, <2>1, <2>2 DEF Quiet, BoardStays, PingInHand, InItsFlight
  <2>3. ASSUME NEW s \in Slots, TakesOff(s) PROVE PingInHand'
    BY <2>3, TakesOffKeeps
  <2> QED
    BY <1>1, <2>1, <2>2, <2>3 DEF Stirs
<1>2. CASE PingComes /\ Stirs
  <2>1. PingsCame'
    <3>1. /\ left["ping"] \in Nat /\ left'["ping"] = left["ping"] - 1 /\ work \subseteq Nat
          /\ work' = work \union {left["ping"]}
      BY <1>2 DEF PingComes, Inv, OutsideOK
    <3>2. ASSUME NEW p \in work' PROVE p > left'["ping"]
      <4>1. CASE p = left["ping"]
        BY <3>1, <4>1
      <4>2. CASE p \in work
        BY <3>1, <4>2 DEF PingsCame
      <4> QED
        BY <3>1, <3>2, <4>1, <4>2
    <3> QED
      BY <3>2 DEF PingsCame
  <2>2. work \subseteq work'
    BY <1>2 DEF PingComes
  <2>3. CASE Quiet
    BY <2>1, <2>2, <2>3 DEF Quiet, PingInHand, InItsFlight
  <2>4. ASSUME NEW s \in Slots, TakesOff(s) PROVE PingInHand'
    BY <2>4, TakesOffKeeps
  <2> QED
    BY <1>2, <2>1, <2>3, <2>4 DEF Stirs
<1>3. CASE BoardStays /\ live' = live /\ wake = "inFlight" /\ wake' = "cooldown" /\ attempt' = attempt
  BY <1>3 DEF BoardStays, PingsCame, PingInHand, InItsFlight
<1>4. ASSUME NEW s \in Slots, NEW next \in {"idle", "cooldown"}, BoardStays, Ends(s, next)
      PROVE  PingInHand' /\ PingsCame'
  BY <1>4, EndsAt DEF BoardStays, PingsCame, PingInHand, InItsFlight
<1>5. ASSUME NEW s \in Slots, MovesOn(s, "checking"), work' = work
      PROVE  PingInHand' /\ PingsCame'
  <2>1. PingsCame'
    BY <1>5 DEF MovesOn, PingsCame
  <2> QED
    BY <1>5, <2>1, MovesAt DEF MovesOn, PingInHand, InHand, InItsFlight, Phases
<1>6. ASSUME NEW s \in Slots, attempt[s] # None, BoardStays, NEW p \in Nat, Picks(s, p),
             p \in work \/ attempt[s].kind = "manual"
      PROVE  PingInHand' /\ PingsCame'
  <2>1. PingsCame' /\ work' = work
    BY <1>6 DEF BoardStays, PingsCame
  <2> QED
    BY <1>6, <2>1, PicksAt DEF PingInHand, InHand, InItsFlight
<1>7. ASSUME NEW s \in Slots, attempt[s].phase = "picked", MovesOn(s, "interrupting"), work' = work
      PROVE  PingInHand' /\ PingsCame'
  <2>1. PingsCame'
    BY <1>7 DEF MovesOn, PingsCame
  <2> QED
    BY <1>7, <2>1, MovesAt DEF MovesOn, PingInHand, InHand, InItsFlight, Phases
<1>8. ASSUME NEW s \in Slots, MovesOn(s, "typing"), work' = MarkSeen(attempt[s].head)
      PROVE  PingInHand' /\ PingsCame'
  <2>1. work' \subseteq work
    BY <1>8 DEF MarkSeen
  <2>2. PingsCame'
    BY <1>8, <2>1, MarksKeepCame DEF MovesOn
  <2> QED
    BY <1>8, <2>2, MovesAt DEF MovesOn, PingInHand, InHand, InItsFlight, Phases
<1>9. CASE Replaced
  <2>1. PingsCame'
    BY <1>9 DEF Replaced, BoardStays, PingsCame
  <2> QED
    BY <1>9, <2>1, ReplacedAt DEF PingInHand, InHand, InItsFlight, NewAttempt
<1> QED
  BY <1>1, <1>2, <1>3, <1>4, <1>5, <1>6, <1>7, <1>8, <1>9 DEF Shape

(* The pings that are unread have come and none is still to come, and the   *)
(* ping an attempt was given is unread until that attempt begins to type,   *)
(* unless one has outlived its flight: nobody else marks it meanwhile       *)
(* (tryWakeInner between pickPhrase and sendKeys).                          *)
THEOREM PingsHold == Safety => []PingsOK
<1>1. Init => PingsOK
  BY DEF Init, PingsOK, PingInHand, PingsCame, InHand
<1>2. Inv /\ PingsOK /\ [Next]_vars => PingsOK'
  BY StepShape, ShapeKeepsPings
<1> QED
  BY <1>1, <1>2, InvHolds, PTL DEF Safety

-----------------------------------------------------------------------------
(* The wake path implements WakeDelivery.                                  *)

LEMMA TryIsNone ==
    ASSUME NEW a \in Attempts \union {None}
    PROVE  Try(a) = "none" <=> a = None
  BY DEF Try

(* One slot changes. *)
LEMMA TriesChange ==
    ASSUME NEW s \in Slots, \A r \in Slots \ {s} : attempt'[r] = attempt[r]
    PROVE  [r \in Slots |-> Try(attempt'[r])] =
               [[r \in Slots |-> Try(attempt[r])] EXCEPT ![s] = Try(attempt'[s])]
  OBVIOUS

LEMMA UnderWayIs ==
    ASSUME Inv
    PROVE  /\ Delivery!UnderWay <=> \E s \in Slots : attempt[s] # None
           /\ Late => Delivery!UnderWay
<1>1. \A s \in Slots : attempt[s] \in Attempts \union {None}
  BY DEF Inv, WakesOK
<1>2. Delivery!UnderWay <=> \E s \in Slots : Try(attempt[s]) # "none"
  BY DEF Delivery!UnderWay
<1> QED
  BY <1>1, <1>2, TryIsNone DEF Late

(* Lateness goes by the attempts and by whether the machine is in flight.  *)
LEMMA LateStays ==
    ASSUME attempt' = attempt,
           wake' = wake \/ (wake # "inFlight" /\ wake' # "inFlight")
    PROVE  Late' = Late
  BY DEF Late

LEMMA LateMoves ==
    ASSUME Inv, NEW s \in Slots, wake' = wake, attempt[s] # None, attempt'[s] # None,
           \A r \in Slots \ {s} : attempt'[r] = attempt[r]
    PROVE  Late' = Late
<1>1. \A r \in Slots : attempt'[r] = None <=> attempt[r] = None
  OBVIOUS
<1> QED
  BY <1>1 DEF Late

LEMMA StirsDelivers ==
    ASSUME Inv, Stirs
    PROVE  Delivery!MayBegin
<1>1. CASE Quiet
  <2>1. Late' = Late
    BY <1>1, LateStays DEF Quiet
  <2> QED
    BY <1>1, <2>1 DEF Quiet, Delivery!MayBegin
<1>2. ASSUME NEW s \in Slots, TakesOff(s) PROVE Delivery!Begin(s)
  <2>1. PICK k \in Kinds : attempt' = [attempt EXCEPT ![s] = NewAttempt(k)]
    BY <1>2 DEF TakesOff
  <2>2. /\ attempt'[s] # None /\ attempt'[s].phase = "probing" /\ attempt'[s].kind = k
        /\ \A r \in Slots \ {s} : attempt'[r] = attempt[r]
    BY <2>1, TakesOffAt
  <2>3. attempt[s] = None /\ wake # "inFlight" /\ wake' = "inFlight" /\ live'
    BY <1>2 DEF TakesOff
  <2>4. Try(attempt[s]) = "none" /\ Try(attempt'[s]) \in {"asked", "byHand"}
    BY <2>2, <2>3 DEF Try
  <2>5. Delivery!UnderWay => Late
    BY <2>3, UnderWayIs DEF Late
  <2>6. Late' = Late
    <3>1. CASE \E r \in Slots : attempt[r] # None
      <4>1. PICK r \in Slots : attempt[r] # None
        BY <3>1
      <4>2. r # s /\ attempt'[r] # None
        BY <2>2, <2>3, <4>1
      <4> QED
        BY <2>2, <2>3, <4>1, <4>2 DEF Late
    <3>2. CASE \A r \in Slots : attempt[r] = None
      <4>1. ~Late
        BY <3>2 DEF Late
      <4>2. ~Late'
        BY <2>2, <2>3, <3>2 DEF Late
      <4> QED
        BY <4>1, <4>2 DEF Late
    <3> QED
      BY <3>1, <3>2
  <2> QED
    BY <2>2, <2>3, <2>4, <2>5, <2>6, TriesChange DEF Delivery!Begin
<1> QED
  BY <1>1, <1>2 DEF Stirs, Delivery!MayBegin

(* A step of an attempt that types nothing: it stutters. *)
LEMMA StepOfATry ==
    ASSUME Inv, NEW s \in Slots, wake' = wake, attempt[s] # None, attempt'[s] # None,
           attempt[s].phase # "typing", attempt'[s].phase # "typing",
           attempt'[s].kind = attempt[s].kind,
           \A r \in Slots \ {s} : attempt'[r] = attempt[r],
           work' = work, live' = live, left'["ping"] = left["ping"]
    PROVE  UNCHANGED Delivery!vars
<1>1. Late' = Late
  BY LateMoves
<1>2. Try(attempt'[s]) = Try(attempt[s])
  BY DEF Try
<1>3. [r \in Slots |-> Try(attempt'[r])] = [r \in Slots |-> Try(attempt[r])]
  BY <1>2, TriesChange
<1> QED
  BY <1>1, <1>3 DEF Delivery!vars

(* The typing begins: its ping is unread and is marked, unless the wake is *)
(* by hand or late.                                                        *)
LEMMA TypingBegins ==
    ASSUME Inv, PingInHand, NEW s \in Slots, MovesOn(s, "typing"),
           attempt[s].phase \in {"picked", "interrupting"},
           work' = MarkSeen(attempt[s].head)
    PROVE  Delivery!Type(s)
<1>1. /\ attempt[s] # None /\ live' = live /\ left'["ping"] = left["ping"]
      /\ wake' = wake /\ attempt'[s] # None /\ attempt'[s].phase = "typing"
      /\ \A r \in Slots \ {s} : attempt'[r] = attempt[r]
  BY MovesAt DEF MovesOn, Phases
<1>2. live /\ Late' = Late
  BY <1>1, LateMoves DEF Inv, SessionOK
<1>3. /\ Try(attempt[s]) = IF attempt[s].kind = "manual" THEN "byHand" ELSE "asked"
      /\ Try(attempt'[s]) = "typing"
  BY <1>1 DEF Try
<1>4. \/ \E p \in work : work' = work \ {p}
      \/ (Late \/ Try(attempt[s]) = "byHand") /\ work' = work
  <2>1. CASE attempt[s].head \in work /\ wake = "inFlight"
    BY <2>1 DEF MarkSeen
  <2>2. CASE ~(attempt[s].head \in work /\ wake = "inFlight")
    <3>1. work' = work
      BY <2>2 DEF MarkSeen
    <3>2. CASE attempt[s].kind = "manual"
      BY <1>3, <3>1, <3>2
    <3>3. CASE attempt[s].kind # "manual"
      <4>1. ~InItsFlight(s)
        BY <1>1, <2>2, <3>3 DEF PingInHand, InHand, InItsFlight
      <4>2. Late
        BY <1>1, <4>1 DEF InItsFlight, Late
      <4> QED
        BY <3>1, <4>2
    <3> QED
      BY <3>2, <3>3
  <2> QED
    BY <2>1, <2>2
<1>5. [r \in Slots |-> Try(attempt'[r])] =
          [[r \in Slots |-> Try(attempt[r])] EXCEPT ![s] = "typing"]
  BY <1>1, <1>3, TriesChange
<1> QED
  BY <1>1, <1>2, <1>3, <1>4, <1>5 DEF Delivery!Type

LEMMA EndDelivers ==
    ASSUME Inv, Inv', NEW s \in Slots, NEW next \in {"idle", "cooldown"},
           attempt[s] # None, BoardStays, live' = live, Ends(s, next)
    PROVE  Delivery!End(s)
<1>1. /\ wake' # "inFlight" /\ attempt'[s] = None
      /\ \A r \in Slots \ {s} : attempt'[r] = attempt[r]
  BY EndsAt
<1>2. Try(attempt[s]) # "none" /\ Try(attempt'[s]) = "none"
  BY <1>1 DEF Try
<1>3. (Delivery!UnderWay)' <=> \E r \in Slots : attempt'[r] # None
  <2>1. \A r \in Slots : attempt'[r] \in Attempts \union {None}
    BY DEF Inv, WakesOK
  <2>2. (Delivery!UnderWay)' <=> \E r \in Slots : Try(attempt'[r]) # "none"
    BY DEF Delivery!UnderWay
  <2> QED
    BY <2>1, <2>2, TryIsNone
<1>4. Late' <=> (Late /\ \E r \in Slots : attempt'[r] # None)
  <2>1. Late' <=> \E r \in Slots : attempt'[r] # None
    BY <1>1 DEF Late
  <2>2. ASSUME NEW r \in Slots, attempt'[r] # None PROVE Late
    <3>1. r # s /\ attempt[r] # None
      BY <1>1, <2>2
    <3> QED
      BY <3>1 DEF Late
  <2> QED
    BY <2>1, <2>2
<1>5. Late' = (Late /\ (Delivery!UnderWay)')
  BY <1>3, <1>4 DEF Late
<1>6. [r \in Slots |-> Try(attempt'[r])] =
          [[r \in Slots |-> Try(attempt[r])] EXCEPT ![s] = "none"]
  BY <1>1, <1>2, TriesChange
<1> QED
  BY <1>2, <1>5, <1>6 DEF Delivery!End, BoardStays

LEMMA ReplacedDelivers ==
    ASSUME Replaced, live' \in BOOLEAN
    PROVE  Delivery!Replace
<1>1. BoardStays
  BY DEF Replaced
<1>2. CASE (\A r \in Slots : attempt'[r] = None) /\ wake' # "inFlight"
  <2>1. ~Late'
    BY <1>2 DEF Late
  <2>2. [r \in Slots |-> Try(attempt'[r])] = [r \in Slots |-> "none"]
    BY <1>2 DEF Try
  <2>3. Late' = FALSE
    BY <2>1 DEF Late
  <2> QED
    BY <1>1, <2>2, <2>3 DEF Delivery!Replace, BoardStays
<1>3. ASSUME NEW s \in Slots, live', wake' = "inFlight",
             attempt'[s] = NewAttempt("drain"), NewAttempt("drain") # None,
             \A r \in Slots \ {s} : attempt'[r] = None
      PROVE  Delivery!Replace
  <2>1. Late' = FALSE
    BY <1>3 DEF Late
  <2>2. Try(attempt'[s]) = "asked"
    BY <1>3 DEF Try, NewAttempt
  <2>3. \A r \in Slots \ {s} : Try(attempt'[r]) = "none"
    BY <1>3 DEF Try
  <2>4. [r \in Slots |-> Try(attempt'[r])] = [r \in Slots |-> IF r = s THEN "asked" ELSE "none"]
    BY <2>2, <2>3
  <2> QED
    BY <1>1, <1>3, <2>1, <2>4 DEF Delivery!Replace, BoardStays
<1> QED
  BY <1>2, <1>3, ReplacedAt

LEMMA ShapeDelivers ==
    ASSUME Inv, Inv', PingsOK, Shape
    PROVE  [Delivery!Next]_(Delivery!vars)
<1>0. live \in BOOLEAN /\ live' \in BOOLEAN
  BY DEF Inv, SessionOK
<1>1. CASE BoardStays /\ Stirs /\ (live => live')
  <2>1. Delivery!MayBegin
    BY <1>1, StirsDelivers
  <2>2. CASE live' # live
    <3>1. Delivery!Open
      BY <1>0, <1>1, <2>1, <2>2 DEF Delivery!Open, BoardStays
    <3> QED
      BY <3>1 DEF Delivery!Next
  <2>3. CASE live' = live
    <3>1. Delivery!Ask \/ UNCHANGED Delivery!vars
      BY <1>1, <2>1, <2>3 DEF Delivery!Ask, Delivery!MayBegin, Delivery!vars, BoardStays
    <3> QED
      BY <3>1 DEF Delivery!Next
  <2> QED
    BY <2>2, <2>3
<1>2. CASE PingComes /\ Stirs
  <2>1. Delivery!MayBegin
    BY <1>2, StirsDelivers
  <2>2. /\ left["ping"] \in Nat \ {0} /\ left'["ping"] = left["ping"] - 1
        /\ work' = work \union {left["ping"]} /\ live' = live
    BY <1>2 DEF PingComes
  <2>3. /\ left["ping"] \in 1 .. left["ping"]
        /\ 1 .. left'["ping"] = (1 .. left["ping"]) \ {left["ping"]}
    BY <2>2
  <2>4. Delivery!Arrive
    BY <2>1, <2>2, <2>3 DEF Delivery!Arrive
  <2> QED
    BY <2>4 DEF Delivery!Next
<1>3. CASE BoardStays /\ live' = live /\ wake = "inFlight" /\ wake' = "cooldown" /\ attempt' = attempt
  <2>1. Delivery!UnderWay
    BY <1>3, UnderWayIs DEF Inv, WakesOK, InFlightIsOwned
  <2>2. Late' = TRUE
    <3>1. PICK s \in Slots : attempt[s] # None
      BY <1>3 DEF Inv, WakesOK, InFlightIsOwned
    <3>2. Late'
      BY <1>3, <3>1 DEF Late
    <3> QED
      BY <3>2 DEF Late
  <2>3. Delivery!Overrun
    BY <1>3, <2>1, <2>2 DEF Delivery!Overrun, BoardStays
  <2> QED
    BY <2>3 DEF Delivery!Next
<1>4. ASSUME NEW s \in Slots, NEW next \in {"idle", "cooldown"},
             attempt[s] # None, BoardStays, live' = live, Ends(s, next)
      PROVE  [Delivery!Next]_(Delivery!vars)
  <2>1. Delivery!End(s)
    BY <1>4, EndDelivers
  <2> QED
    BY <2>1 DEF Delivery!Next
<1>5. ASSUME NEW s \in Slots, MovesOn(s, "checking"), work' = work, attempt[s].phase = "probing"
      PROVE  [Delivery!Next]_(Delivery!vars)
  <2>1. UNCHANGED Delivery!vars
    BY <1>5, MovesAt, StepOfATry DEF MovesOn, Phases
  <2> QED
    BY <2>1
<1>6. ASSUME NEW s \in Slots, attempt[s] # None, attempt[s].phase = "checking",
             BoardStays, live' = live, NEW p \in Nat, Picks(s, p)
      PROVE  [Delivery!Next]_(Delivery!vars)
  <2>1. UNCHANGED Delivery!vars
    BY <1>6, PicksAt, StepOfATry DEF BoardStays
  <2> QED
    BY <2>1
<1>7. ASSUME NEW s \in Slots, attempt[s].phase = "picked", MovesOn(s, "interrupting"), work' = work
      PROVE  [Delivery!Next]_(Delivery!vars)
  <2>1. UNCHANGED Delivery!vars
    BY <1>7, MovesAt, StepOfATry DEF MovesOn, Phases
  <2> QED
    BY <2>1
<1>8. ASSUME NEW s \in Slots, attempt[s].phase \in {"picked", "interrupting"},
             MovesOn(s, "typing"), work' = MarkSeen(attempt[s].head)
      PROVE  [Delivery!Next]_(Delivery!vars)
  <2>1. Delivery!Type(s)
    BY <1>8, TypingBegins DEF PingsOK
  <2> QED
    BY <2>1 DEF Delivery!Next
<1>9. CASE Replaced
  BY <1>0, <1>9, ReplacedDelivers DEF Delivery!Next
<1> QED
  BY <1>1, <1>2, <1>3, <1>4, <1>5, <1>6, <1>7, <1>8, <1>9 DEF Shape

(* As long as no attempt outlives its flight (wake-machine.ts, inFlightTtl), *)
(* attempts come one at a time (tryWake) and each ping is typed by one,      *)
(* which marks it seen as it begins (sendKeys); a late one may type a ping   *)
(* again, until the last of its time has ended.  Always into an open session. *)
THEOREM DeliversSafely == Safety => DeliverySafety
<1>1. Init => Delivery!Init
  <2> SUFFICES ASSUME Init PROVE Delivery!Init
    OBVIOUS
  <2>1. left["ping"] \in Nat /\ work = {} /\ live = FALSE
        /\ attempt = [s \in Slots |-> None]
    BY BudgetsAssumption DEF Init, Things
  <2>2. 1 .. left["ping"] \in SUBSET Nat
    BY <2>1
  <2>3. [s \in Slots |-> Try(attempt[s])] = [s \in Slots |-> "none"]
    BY <2>1 DEF Try
  <2>4. Late = FALSE
    BY <2>1 DEF Late
  <2> QED
    BY <2>1, <2>2, <2>3, <2>4 DEF Delivery!Init
<1>2. Inv /\ PingsOK /\ [Next]_vars /\ Inv' => [Delivery!Next]_(Delivery!vars)
  BY StepShape, ShapeDelivers
<1> QED
  BY <1>1, <1>2, InvHolds, PingsHold, PTL DEF Safety, DeliverySafety, Delivery!Safety
=============================================================================
