\* The image: two rows, three columns and three levels, for one to four threads.
SPECIFICATION ToolsSpec
CONSTANTS
    Height = 2
    Width = 3
    Levels = 3
    MaxThreads = 4
    Widths <- AllWidths
    MaxChildren = 6
    Sizes <- SmallSizes
    Ranges <- SmallRanges
    FileLists <- NameLists
    Files = {"a"}
    Length <- ListLength
    Word = 5
    MaxTable = 3
    MaxOptions = 5
    Dirs <- SmallDirs
    Root = "d0"
    Parent <- SmallParent
    Above <- SmallAbove
    TextFiles <- SmallFiles
    Place <- SmallPlace
    Characters = {"x", "y"}
    Contents <- SmallContents
    Patterns <- SmallPatterns
    Depths <- SmallDepths
INVARIANTS SavedIsNegative StripsAreCounted HeapIsTable FoundIsPrinted
CHECK_DEADLOCK FALSE
