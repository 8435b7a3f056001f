CONSTANTS
    ta = ta
    tb = tb
    None = None
    Tickets = {ta, tb}
    Window = 2
    MaxEvents = 3
    Cases <- AllCases
SPECIFICATION FairSpec
INVARIANTS TypeOK ReadMeansRendered OneTicketPerWake FollowUpRidesAlong
PROPERTIES EveryEventIsTold
