SPECIFICATION Spec
CONSTANTS
    personal = personal
    office = office
    search = search
    send = send
    linear = linear
    slack = slack
    Absent = Absent
    Contexts = {personal, office}
    Caps = {search, send}
    Sources = {linear, slack}
    SourceOf <- MCSourceOf
    Requests <- MCRequests
    MaxHistory = 3
    MaxRevision = 5
INVARIANTS
    TypeOK
    HistoryChained
    NoContradiction
PROPERTIES
    ReplyDelivered
    UndoRevertsOneChange
    SourcedContextsKeepOthers
CHECK_DEADLOCK FALSE
