SPECIFICATION FairSpec
CONSTANTS
    ann = ann
    bob = bob
    cyd = cyd
    ann2 = ann2
    na = na
    nb = nb
    nc = nc
    Clients = {ann, bob}
    MAX_CLIENTS = 2
    Name <- MCName
    NoName = NoName
    NoClient = NoClient
    MaxMoves = 1
    Quitters = {}
    Hangers = {bob}
    CalmPing = FALSE
PROPERTIES HungIsNoticed
CHECK_DEADLOCK FALSE
