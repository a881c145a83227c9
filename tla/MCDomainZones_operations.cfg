SPECIFICATION ZoneSpec
CONSTANTS
    Clients = {c1}
    None = None
    Operations = {"external", "managed", "dnssec_managed", "dnssec_external", "dnssec_off", "transfer"}
    Beginnings <- MCBeginnings
    MaxAttempts = 2
    Mishaps = {"refused", "lost", "error", "crash", "transferred"}
    MaxMishaps = 1
    MaxQueued = 2
INVARIANTS ZoneInv ServedAsStored
CHECK_DEADLOCK FALSE
