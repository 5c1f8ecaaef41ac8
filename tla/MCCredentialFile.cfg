SPECIFICATION Spec
CONSTANTS
    p1 = p1
    p2 = p2
    g1 = g1
    g2 = g2
    NoGroup = NoGroup
    Process = {p1, p2}
    Group = {g1, g2}
    MaxTokens = 3
    MaxRequests = 3
    MaxFaults = 1
SYMMETRY Symmetry
INVARIANTS FileIsWhole TokenKept RecordInChat
