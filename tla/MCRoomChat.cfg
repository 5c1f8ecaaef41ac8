SPECIFICATION Spec
CONSTANTS
    s1 = s1
    s2 = s2
    m1 = m1
    m2 = m2
    NoMessage = NoMessage
    Session = {s1, s2}
    Message = {m1, m2}
    Room <- MCRoom
SYMMETRY Symmetry
INVARIANTS TypeOK SenderOrder ShownOnceOrTwice
PROPERTIES RoomIsLog
