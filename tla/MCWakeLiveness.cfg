CONSTANTS
    s1 = s1
    s2 = s2
    None = None
    Slots = {s1}
    MaxHooks = 2
    MaxQueue = 1
    Budgets <- LivenessCases
SPECIFICATION Spec
PROPERTIES WorkIsTyped TurnsClose
