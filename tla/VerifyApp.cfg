SPECIFICATION FairSpec
CONSTANTS
    Metafiles <- MCMetafiles
    start <- MCStart
INVARIANTS
    PadRestores
    TableTruthful
PROPERTIES
    ListingSpec
    DataUntouched
    CommandEnds
