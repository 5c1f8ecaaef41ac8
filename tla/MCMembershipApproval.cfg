SPECIFICATION Spec
CONSTANTS
    Session = {s1, s2, s3}
    Member = {m1, m2, m3}
    NoMember = NoMember
    AccessModes = {"approval"}
    MaxMembers = 2
    MaxPending = 1
    MaxTokens = 4
    MaxCrashes = 1
SYMMETRY Symmetry
INVARIANTS
    TypeOK
    OneAdministrator
    TaskAgreesWithRow
    BanReachesSessions
    RotationReachesSessions
    
PROPERTIES
    BannedKeepsCredential
    TokensFollowLedger
