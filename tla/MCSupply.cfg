SPECIFICATION FairSpec
CONSTANTS
    RingCapacity = 4
    QueueCapacity = 2
    ChunkSizes <- MCChunkSizes
    SliceSize = 2
    Skips <- MCSkips
    WaitLimit = 1
    RefuseLimit = 2
    MaxBytes = 8
INVARIANTS
    RingAndQueueAgree
    NeverWedged
PROPERTIES
    
    SupplyDrains
