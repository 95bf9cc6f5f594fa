SPECIFICATION MCSpec
CONSTANTS
    p1 = p1
    p2 = p2
    Proc <- MCProc
    Commands <- MCCommands
INVARIANTS
    TypeOK
    DefaultsCopied
    OptionHonoured
PROPERTIES
    OwnFileKept
    OneSnapshot
SYMMETRY MCSymmetry
CHECK_DEADLOCK FALSE
