CONSTANTS
    ta = ta
    tb = tb
    None = None
    Tickets = {ta, tb}
    Window = 2
    MaxEvents = 2
    Cases <- StarvingCase
SPECIFICATION FairSpec
PROPERTIES NothingStarves
