SPECIFICATION FairSpec
CONSTANTS
    Ids <- MCIds
    RowChoices <- MCRowChoices
INVARIANTS
    TypeOK
    NoLotOverdrawn
    OldestLotsFirst
    NoCrossing
    AllocationsJoinLiveRows
    ConsumedIsAllocated
    OpenLotsAndYieldsAreTheHolding
PROPERTIES
    Terminates
    ImplementsAttribution
CHECK_DEADLOCK FALSE
