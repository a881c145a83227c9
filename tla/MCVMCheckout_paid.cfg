SPECIFICATION FairSpec
CONSTANTS
    Requests = {r1, r2}
    r1 = r1
    r2 = r2
    None = None
    Prefixes = {1, 2}
    HostSizes = {1, 2}
    WaiverLimit = 1
    Terms <- MCTerms
    LostAt = {"activate"}
    Mishaps = {"error", "lost", "crash", "ledger"}
    MaxMishaps = 1
INVARIANTS CheckoutInv OneVMPerQuote ChargedIsAnswered
PROPERTIES ReservationEnds ImplementsPaidOrder
CHECK_DEADLOCK FALSE
