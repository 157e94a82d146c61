\* Every process may fail; stdin holds every host, so that ZGrab2 cannot block the run.
SPECIFICATION Spec
CONSTANTS
    Hosts = {h1, h2}
    Fingerprints = {f1}
    None = None
    StdinCap = 2
    StdoutCap = 1
    Senders = 1
    ZMapCap = 1
    MayWedge = TRUE
    MayDie = TRUE
    StoreFails = FALSE
    SlowStore = FALSE
    ZMapFails = TRUE
    SpawnFails = TRUE
INVARIANTS TypeOK CompletedIsWhole ReadIsRecorded FingerprintsPublished
PROPERTIES RunEnds ZMapIsReaped UsesGrabber
