SPECIFICATION Spec
CONSTANTS
    MaxId = 4
    MaxForks = 1
    Lineages <- MCLineages
    Nil = Nil
INVARIANTS
    ChainVerifies
    CleanLineage
    PairsAreWhole
    NoSpuriousTruncation
    MarkedHistoryServed
PROPERTIES
    AppendOnly
