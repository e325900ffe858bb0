SPECIFICATION FairSpec
INVARIANTS BoardsAgree VerdictIsRight
PROPERTIES PlaysTheGame GameEnds
CHECK_DEADLOCK FALSE
