SPECIFICATION FairSpec
CONSTANTS
    Announced = {"b"}
    Typed = {"a"}
    ConfigHost = "none"
    QueueCap = 2
    MaxHeld = 2
INVARIANTS
    ChosenServer
    ListenerInStep
PROPERTIES
    ChoiceTakesEffect
    ComesBack
