SPECIFICATION Spec
CONSTANTS
    Devices = {a, b}
    Stream <- MCStream
    Unknown = ""
    APs = {ap1, ap2}
    Servers = {s1, s2}
    NoAp = none
    Stale = 2
    Expiry = 2
    Clamp = 1
    Disturbances = 2
SYMMETRY MCSymmetry
INVARIANTS OneTimebase RoamIsNoticed  StrangersAreForgotten
