SPECIFICATION Spec
CONSTANTS
    r1 = r1
    r2 = r2
    w1 = w1
    w2 = w2
    personal = personal
    office = office
    Nothing = Nothing
    Ids = {r1, r2}
    Workers = {w1, w2}
    Executors = {personal, office}
    MaxSlots = 2
PROPERTIES
    TerminationStatus
CHECK_DEADLOCK FALSE
