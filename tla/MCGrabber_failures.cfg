\* ZGrab2 may die or wedge, the store may fail, and a claim may outlast close().
SPECIFICATION Spec
CONSTANTS
    Hosts = {h1, h2, h3}
    Fingerprints = {f1, f2}
    None = None
    StdinCap = 3
    StdoutCap = 1
    Senders = 2
    MayWedge = TRUE
    MayDie = TRUE
    StoreFails = TRUE
    SlowStore = TRUE
SYMMETRY HostAndFingerprintSymmetry
INVARIANTS TypeOK Custody NoHostLost NoHostTwice ResponsiveCounted
PROPERTIES ReportIsFinal ImplementsLedger
