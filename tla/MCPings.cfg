CONSTANTS
    h = h
    a = a
    b = b
    Humans = {h}
    Agents = {a, b}
    Owners = {b}
    Followers = {}
    OffLevel = {}
    Nobody = Nobody
    Scopes = {"default"}
    Mentions <- OneName
    Reporters = {a}
    Trusted = {b}
    Proposals = {"resolution"}
    MaxEvents = 4
    MaxGestures = 1
SPECIFICATION Spec
INVARIANTS TypeOK QuietUntilApproved
PROPERTIES OneWakePerGesture CloseReachesEachOnce UnreadOutlivesTheClose ReplyKeepsWhatCameMeanwhile
\* A full thread with nothing left unread may stop.
CHECK_DEADLOCK FALSE
