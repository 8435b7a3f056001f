CONSTANTS
    a = a
    h = h
    NoOne = NoOne
    Agents = {a}
    Humans = {h}
    Reporter = h
    LeadsProject = TRUE
    Kinds = {"plan", "resolution"}
    MaxMessages = 3
SPECIFICATION Spec
INVARIANTS TypeOK GateIsLatestSignal PendingHoldIsDecidable ClosesStand
PROPERTIES StepKeepsTheHand HumanWordReturnsTheTicket SettledDecisionIsFinal
\* Only MaxMessages stops the model: a full, settled thread has no next event.
CHECK_DEADLOCK FALSE
CONSTRAINT Short
