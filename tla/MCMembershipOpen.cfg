SPECIFICATION FairSpec
CONSTANTS
    Session = {s1, s2}
    Member = {m1, m2, m3}
    NoMember = NoMember
    AccessModes = {"public", "invite"}
    MaxMembers = 2
    MaxPending = 1
    MaxTokens = 4
    MaxCrashes = 0
INVARIANTS
    WithinLimits
PROPERTIES
    TokensFollowLedger
    BannedSessionsEnd
