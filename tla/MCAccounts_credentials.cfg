SPECIFICATION Spec
CONSTANTS
    a1 = a1
    a2 = a2
    a3 = a3
    w1 = w1
    Accounts = {a1, a2, a3}
    FirstAdmin = a1
    SecondAdmin = a2
    Wallets = {w1, w2}
    Payer <- MCPayer
    Requests = {r1, r2}
    Scopes = {"vm", "api_keys:write"}
    WriteKeys = "api_keys:write"
    None = None
    MaxRequests = 3
    MaxChallenges = 1
INVARIANTS AccountInv SessionsFollowPassword
SYMMETRY Symmetry
CHECK_DEADLOCK FALSE
