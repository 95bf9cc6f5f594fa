SPECIFICATION FairSpec
CONSTANTS
    d = d
    x = x
    h = h
    z = z
    p = p
    q = q
    bad = bad
    huge = huge
    Names <- MCNames
    HiddenNames <- MCHiddenNames
    Entries <- MCEntries
    Dirs <- MCDirs
    Files <- MCFiles
    DirExcludes <- MCDirExcludes
    Patterns <- MCPatterns
    BadPatterns <- MCBadPatterns
    HugePatterns <- MCHugePatterns
    Matches <- MCMatches
    Rank <- MCRank
    CanStop = TRUE
INVARIANTS
    TypeOK
    StorageIsSelection
    AllOrNothing
    ExcludedNotOpened
PROPERTIES
    SelectionEnds
    SelectionSpec
