SPECIFICATION FairSpec
CONSTANTS
    Volumes <- MCVolumes
    FreedomSets <- MCFreedomSets
    MaxInbox = 2
    MaxRequests = 4
INVARIANTS
    
    BothEndsAgree
PROPERTIES
    Settles
