SPECIFICATION Spec
CONSTANTS
    None = None
    Closed = Closed
    Root = Root
    Marked = "mark"
    MaxDepth = 3
    MaxErrors = 2
    MaxExamined = 9
    Identity <- IdentityStep
    Size <- SizeStep
    Examine <- ExamineStep
    Validate <- ValidateStep
    Conforms <- ConformsStep
    NonEmpty <- MCNonEmpty
    NonNegative <- MCNonNegative
    InLimit <- MCInLimit
    Ids <- MCIds
    Values <- MCValues
    Documents <- MCDocuments
    Requests <- MCRequests
    Budgets = {1, 3, 5, 8, 40}
INVARIANTS
    TypeOK
    AcceptedConforms
    RefusedForCause
    AdmittedIsCheckable
    AdvertisedIsEnforced
