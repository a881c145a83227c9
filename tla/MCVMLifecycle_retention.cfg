SPECIFICATION Spec
CONSTANTS
    Accounts = {a1, a2}
    NoAccount = NoAccount
    None = None
    Destroyers = {"expiry", "reconcile"}
    Grace = 0
    Days = {1}
    RetentionEnabled = TRUE
    InitialOwners = {a1, a2, NoAccount}
    MaxTime = 3
    MaxExpiry = 3
    Mishaps = {"fault", "lost", "crash"}
    MaxMishaps = 1
    MaxOps = 1
    MaxTransfers = 1
INVARIANTS DeletionInv RetainedGuestPreserved RetentionOwnerStable
PROPERTIES PowerOnFenced
SYMMETRY AccountSymmetry
CHECK_DEADLOCK FALSE
