\* Three producers: while one writes, another can keep the FIFO open after the
\* last consumer has left, and what is in it waits for the next consumer.
SPECIFICATION FairSpec
CONSTANTS
    p1 = p1
    p2 = p2
    p3 = p3
    Producers = {p1, p2, p3}
    Consumers = {c1, c2}
    Row <- MCRow
    Messages <- MCMessages
    FifoSize = 3
    None = None
INVARIANTS MessagesWhole SavedIsKept
PROPERTIES EverybodyEnds
CHECK_DEADLOCK FALSE
