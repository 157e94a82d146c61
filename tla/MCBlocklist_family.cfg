\* An opt-out of an IPv6 address.
SPECIFICATION FairSpec
CONSTANTS
    scan1 = scan1
    scan2 = scan2
    refresh1 = refresh1
    a1 = a1
    a2 = a2
    a6 = a6
    Addresses = {a1, a6}
    Bogons = {}
    None = None
    Runs = {scan1}
    Kind <- OneScan
    Known <- NoneKnown
    Minute <- OneMinuteEach
    Foreign = {a1}
    OtherFamily = {a6}
    PullApart = TRUE
    MaxReplacements = 1
PROPERTY NoEntryBlocks
