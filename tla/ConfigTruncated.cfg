SPECIFICATION MCSpec
CONSTANTS
    p1 = p1
    p2 = p2
    Proc <- MCProc
    Commands <- MCPlainCommands
INVARIANTS
    WholeFilesUsed
CHECK_DEADLOCK FALSE
