CONSTANTS
    a = a
    h = h
    NoOne = NoOne
    Agents = {a}
    Humans = {h}
    Reporter = h
    LeadsProject = TRUE
    Kinds = {"resolution"}
    MaxMessages = 2
SPECIFICATION Spec
PROPERTIES AcceptedResolutionCloses
