SPECIFICATION Spec
CONSTANTS
    personal = personal
    office = office
    search = search
    linear = linear
    agent = agent
    Absent = Absent
    Nothing = Nothing
    Contexts = {personal, office}
    Caps = {search}
    Sources = {linear}
    SourceOf <- MCSourceOf
    Sessions = {agent}
    Requests <- MCRequests
    MaxHistory = 3
    MaxRevision = 5
INVARIANTS
    TypeOK
    OneContextPerSession
    ExecutorIsSnapshot
    ReportedNotOlder
PROPERTIES
    ReadsItsOwnWrites
CHECK_DEADLOCK FALSE
