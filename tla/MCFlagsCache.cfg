CONSTANTS
    t1 = t1
    t2 = t2
    agent = agent
    person = person
    None = None
    Tickets = {t1, t2}
    Consumers = {agent, person}
    People = {person}
    Readers = {agent}
    Windows = {1, 2}
    Ceiling = 2
    HeldCeiling = 1
    MaxDirty = 1
    MaxTime = 3
    MaxWrites = 3
SPECIFICATION Spec
INVARIANTS TypeOK ReadsAreFresh
SYMMETRY Symmetry
