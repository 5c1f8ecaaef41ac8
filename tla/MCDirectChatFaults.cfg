SPECIFICATION Spec
CONSTANTS
    p1 = p1
    p2 = p2
    Peer = {p1, p2}
    m1 = m1
    m2 = m2
    m3 = m3
    Message = {m1, m2, m3}
    NoMessage = NoMessage
    MaxLinks = 2
    Faults = TRUE
SYMMETRY Symmetry
CHECK_DEADLOCK FALSE
INVARIANTS  HonestNeverDropped AuthorOrder 
