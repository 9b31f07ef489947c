CONSTANTS
    Ids <- MCIds
    MaxLens <- MCMaxLens
SPECIFICATION Spec
INVARIANTS
    TypeOK
    PoolSorted
    PoolFitsAccount
PROPERTY ImplementsIdSet
CHECK_DEADLOCK FALSE
