\* Three signals: one can merge with another while a third is handled.
SPECIFICATION ProcessesSpec
CONSTANTS
    Protocols = {"burst", "handshake"}
    Modes = {"KILL", "SIGQUEUE", "SIGRT"}
    MaxN = 3
    Mains = {1, 2}
    Staff <- WorkersOf
    Scripts <- SmallScripts
    PipeSize = 2
    MaxFd = 12
INVARIANTS NothingMerges ReportsAreTrue PrintsResult OnlyReadEndsLeak OwnObjects ResultIsRight
PROPERTIES BothEnd ShellEnds WorkersEnd ToolEnds NobodyStarves
CHECK_DEADLOCK FALSE
