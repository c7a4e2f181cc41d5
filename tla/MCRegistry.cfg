SPECIFICATION FairSpec
CONSTANTS
    personal = personal
    office = office
    search = search
    linear = linear
    p1 = p1
    p2 = p2
    agent = agent
    Absent = Absent
    Nothing = Nothing
    Contexts = {personal, office}
    Caps = {search}
    Sources = {linear}
    SourceOf <- MCSourceOf
    Processes = {p1, p2}
    Sessions = {agent}
    Requests <- MCRequests
    MaxHistory = 2
    MaxRevision = 3
INVARIANTS
    TypeOK
    LockProtects
    AcknowledgedSurvive
    SelectionExplained
PROPERTIES
    ImplementsAtomicRegistry
    GuardedCommitsAreFresh
    LockReleased
