SPECIFICATION Spec
CONSTANTS
    Sizes = {0, 1, 2}
    Ranges = {}
    FileLists = {}
    Files = {"a"}
    Length <- NoLengths
    Word = 5
    MaxTable = 3
    MaxOptions = 3
INVARIANTS RemoveRemoves
CHECK_DEADLOCK FALSE
