SPECIFICATION FairSpec
CONSTANTS
    Credits <- MCCredits
    Writes <- MCWrites
    Depths <- MCDepths
    FbMature = 2
    SuppressFloor = 1
    MaxFrames = 3
INVARIANTS
    LedgerHolds
PROPERTIES
    
    DrainNoticed
