SPECIFICATION Spec
CONSTANTS
    personal = personal
    office = office
    search = search
    linear = linear
    agent = agent
    Absent = Absent
    Nothing = Nothing
    Contexts = {personal, office}
    Caps = {search}
    Sources = {linear}
    SourceOf <- MCSourceOf
    Sessions = {agent}
    Requests <- MCRequests
    MaxHistory = 3
    MaxRevision = 3
INVARIANTS
    EachWriteReturnsItsRevision
CHECK_DEADLOCK FALSE
