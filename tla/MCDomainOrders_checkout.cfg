SPECIFICATION FairSpec
CONSTANTS
    r1 = r1
    r2 = r2
    a1 = a1
    a2 = a2
    Requests = {r1, r2}
    Auths = {a1, a2}
    Retries <- TwoRetries
    None = None
    Kinds = {"registration", "order"}
    Billing = {"charged", "admin_waived"}
    Bundles = {TRUE, FALSE}
    MaxQuotes = 3
    Mishaps = {"error", "crash", "ledger", "ambiguous"}
    MaxMishaps = 3
INVARIANTS OrderInv RegistrationChargedOnce
PROPERTIES ChargedWhileEnabled PaymentConverges
CHECK_DEADLOCK FALSE
