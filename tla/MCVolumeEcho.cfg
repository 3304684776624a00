SPECIFICATION Spec
CONSTANTS
    Volumes <- MCVolumes
    FreedomSets <- TurnTaking
    MaxInbox = 2
    MaxRequests = 4
INVARIANTS
    VolumeAgrees
