SPECIFICATION TransportFairSpec
CONSTANTS
    PendingTicks = 2
    MaxPlays = 2
PROPERTIES
    RearmHonoursHalt
    AudioIsRouted
