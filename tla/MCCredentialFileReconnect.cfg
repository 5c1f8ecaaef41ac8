SPECIFICATION Spec
CONSTANTS
    p1 = p1
    g1 = g1
    NoGroup = NoGroup
    Process = {p1}
    Group = {g1}
    MaxTokens = 2
    MaxRequests = 2
    MaxFaults = 0
INVARIANTS ReconnectKeepsIdentity
