SPECIFICATION FairSpec
CONSTANTS
    Attempts = {p1, p2}
    Destroyers = {"customer"}
    None = None
    MaxGen = 4
    Mishaps = {"fault", "lost", "crash", "orphaned"}
    MaxMishaps = 1
    MaxToggles = 2
CHECK_DEADLOCK FALSE
INVARIANTS OneGuestRuns DeliveredIsReported FreedPrefixUnused RefundIsFinal
PROPERTIES DeliveryEnds
