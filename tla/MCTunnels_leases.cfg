SPECIFICATION TunnelSpec
CONSTANTS
    Creators = {r1, r2}
    Extenders = {e1, e2}
    Replicas = {p1, p2}
    Nothing = Nothing
    Grace = 0
    Terms <- MCTerms
    MaxTime = 2
    Mishaps = {"daemon_fails", "daemon_answer_lost", "no_token", "lease_lost", "revocation_lost", "table_fails", "declined", "settlement_answer_lost", "charge_unknown", "refund_unwritten", "crash"}
    MaxMishaps = 2
INVARIANTS TunnelInv
PROPERTIES PaidTunnelKept
CHECK_DEADLOCK FALSE
SYMMETRY Symmetry
