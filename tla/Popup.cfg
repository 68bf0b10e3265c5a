SPECIFICATION Spec
CONSTANTS
    Null = Null
    a1 = a1
    a2 = a2
    s1 = s1
    s2 = s2
    Ids <- MCIds
    Slots <- MCSlots
    Breaks = TRUE
SYMMETRY Symmetry
INVARIANTS TypeOK OneRequestPerForm  WaitsForAnAnswer
CHECK_DEADLOCK FALSE
