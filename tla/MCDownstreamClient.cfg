SPECIFICATION ClientSpec
CONSTANTS
    MaxQueue = 1
    MaxRequests = 2
    MaxFrames = 2
    Tools = {t1, t2}
    Cursors = {c1, c2, c3}
    Sessions = {s1}
    Nothing = Nothing
    Invalid = Invalid
    MaxPages = 3
    t1 = t1
    t2 = t2
    c1 = c1
    c2 = c2
    c3 = c3
    s1 = s1
INVARIANTS
    TypeOK
    ListingIsWhole
PROPERTIES
    FramesDelivered
    EndAfterEverything
    CloseEnds
CHECK_DEADLOCK FALSE
