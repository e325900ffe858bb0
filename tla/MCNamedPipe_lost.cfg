SPECIFICATION Spec
CONSTANTS
    p1 = p1
    p2 = p2
    p3 = p3
    Producers = {p1}
    Consumers = {c1, c2}
    Row <- MCRow
    Messages <- MCMessages
    FifoSize = 3
    None = None
INVARIANTS NothingLost
CHECK_DEADLOCK FALSE
