\* A list of five hosts, one of them blocked; ZGrab2 may hang, and a claim may outlast close().
SPECIFICATION Spec
CONSTANTS
    h1 = h1
    h2 = h2
    h3 = h3
    h4 = h4
    h5 = h5
    Hosts = {h1, h2, h3, h4, h5}
    Fingerprints = {f1}
    None = None
    StdinCap = 1
    StdoutCap = 1
    Senders = 1
    MayWedge = TRUE
    MayDie = FALSE
    StoreFails = FALSE
    SlowStore = TRUE
    Interval = 2
    Burst = 1
    IdleMost = 4
    KnownHosts <- FiveHosts
    Blocked = {h5}
    Budgeted = TRUE
INVARIANTS CoveredIsRecorded
PROPERTIES NoCatchUp ImplementsLimit SubmitReturns RunReports
