SPECIFICATION FairSpec
CONSTANTS
    w1 = w1
    w2 = w2
    Fleets <- MCFleets
    Pollers = {w1, w2}
    None = None
    Assets = {"BTC"}
    Resources = {"vm", "domain_order"}
    Target = 1000
    Amounts = {900, 1000}
    FreshTargets = {905}
    MaxDeposits = 1
    MaxToken = 3
    Mishaps = {"error", "crash", "lost"}
    LostAt = {"reserve", "activate", "link", "handoff"}
    MaxMishaps = 1
CHECK_DEADLOCK FALSE
INVARIANTS IntentInv
PROPERTIES ImplementsPaidOrder HandoffEnds
