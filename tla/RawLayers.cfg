SPECIFICATION Spec
CONSTANTS
    Metafiles <- MCMetafiles
    Algorithms <- MCAlgorithms
INVARIANTS
    LayersListed
