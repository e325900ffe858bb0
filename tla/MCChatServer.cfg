\* Three clients want the two slots; one of them, ann, may leave at any time.
\* Queues of one message are full as soon as somebody does not read.
SPECIFICATION FairSpec
CONSTANTS
    ann = ann
    bob = bob
    cyd = cyd
    Kinds = {"sysv", "posix"}
    Clients = {ann, bob, cyd}
    MAX_NUM_OF_CLIENTS = 2
    MaxOrders = 1
    Quitters = {ann}
    QueueSize = 1
CHECK_DEADLOCK FALSE
INVARIANTS OwnId RegisteredIsAlive
PROPERTIES Answered ServerStops
