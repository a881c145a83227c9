SPECIFICATION FairSpec
CONSTANTS
    o1 = o1
    o2 = o2
    Orders = {o1, o2}
    None = None
    Other = Other
    Terms <- MCTerms
    MaxAttempts = 2
    Mishaps = {"crash"}
    MaxMishaps = 1
PROPERTIES PlannedVMReplayed
CHECK_DEADLOCK FALSE
