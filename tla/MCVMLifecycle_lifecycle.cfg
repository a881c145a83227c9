SPECIFICATION FairSpec
CONSTANTS
    Accounts = {a1}
    NoAccount = NoAccount
    None = None
    Destroyers = {"customer", "expiry"}
    Grace = 1
    Days = {1}
    RetentionEnabled = FALSE
    InitialOwners = {a1}
    MaxTime = 3
    MaxExpiry = 4
    Mishaps = {"fault", "crash"}
    MaxMishaps = 1
    MaxOps = 1
    MaxTransfers = 0
INVARIANTS PaidTimeNeverDeleted DestroyedMeansGone
PROPERTIES ExpiredStops ClaimedEnds PaidResumeHappens
CHECK_DEADLOCK FALSE
