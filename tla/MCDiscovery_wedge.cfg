\* A ZGrab2 that stops reading while its stdin is full.
SPECIFICATION Spec
CONSTANTS
    Hosts = {h1, h2}
    Fingerprints = {f1}
    None = None
    StdinCap = 1
    StdoutCap = 1
    Senders = 1
    ZMapCap = 1
    MayWedge = TRUE
    MayDie = FALSE
    StoreFails = FALSE
    SlowStore = FALSE
    ZMapFails = FALSE
    SpawnFails = FALSE
PROPERTY RunEnds
CHECK_DEADLOCK FALSE
