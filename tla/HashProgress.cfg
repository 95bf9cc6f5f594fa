SPECIFICATION ProgressFairSpec
CONSTANTS
    MaxFiles = 3
    MaxSize = 2
    Storages <- MCStorages
INVARIANTS
    TypeOK
    AnnouncedInOrder
    AllAnnounced
    NotAhead
    BarInRange
    FinalFrame
PROPERTIES
    ProgressEnds
