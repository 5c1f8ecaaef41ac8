SPECIFICATION LobbyFairSpec
CONSTANTS
    a = a
    b = b
    Gateway = {a, b}
    Group = {1, 2, 3}
    GatewayOf <- MCGatewayOf
    InviteOnly = {1, 3}
CHECK_DEADLOCK FALSE
INVARIANTS CursorInList ActsOnShown
PROPERTIES ListCatchesUp
