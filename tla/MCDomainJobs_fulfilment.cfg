SPECIFICATION FairSpec
CONSTANTS
    o1 = o1
    o2 = o2
    Orders = {o1, o2}
    None = None
    Other = Other
    Terms <- MCTerms
    MaxAttempts = 2
    Mishaps = {"outage", "refusal", "lost", "unsent", "crash", "dropped", "capacity", "taken", "dearer", "retry"}
    MaxMishaps = 2
INVARIANTS FulfilmentInv RefundedNotSold
PROPERTIES PaidOrderEnds ImplementsPaidOrder
CHECK_DEADLOCK FALSE
