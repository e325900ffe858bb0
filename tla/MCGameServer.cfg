SPECIFICATION Spec
CONSTANTS
    ann = ann
    bob = bob
    cyd = cyd
    ann2 = ann2
    na = na
    nb = nb
    nc = nc
    Clients = {ann, bob, cyd}
    MAX_CLIENTS = 2
    Name <- MCName
    NoName = NoName
    NoClient = NoClient
    MaxMoves = 1
    Quitters = {ann}
    Hangers = {bob}
    CalmPing = TRUE
INVARIANTS LiveIsKept PlayerIsTold
CHECK_DEADLOCK FALSE
