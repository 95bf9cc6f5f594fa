SPECIFICATION FairSpec
CONSTANTS
    Metafiles <- MCMetafiles
    Algorithms <- MCAlgorithms
INVARIANTS
    EscapedOnce
    AnswersWhole
PROPERTIES
    ShowEnds
