CONSTANTS
    w1 = w1
    w2 = w2
    w3 = w3
    Nothing = Nothing
    Writes = {w1, w2, w3}
    Invalid = {w3}
    MaxBoots = 3
SPECIFICATION Spec
INVARIANTS TypeOK OnceUnlessBroken AnswersAreTrue
PROPERTIES OneFate
\* Once every write has its fate and the daemon its last start, nothing is left to do.
CHECK_DEADLOCK FALSE
