\* Two scans of the same minute and a refresh of another one.
SPECIFICATION Spec
CONSTANTS
    scan1 = scan1
    scan2 = scan2
    refresh1 = refresh1
    a1 = a1
    a2 = a2
    a6 = a6
    Addresses = {a1, a2, a6}
    Bogons = {}
    None = None
    Runs = {scan1, scan2, refresh1}
    Kind <- TwoScansAndRefresh
    Known <- KnownHosts
    Minute <- Minutes
    Foreign = {a2}
    OtherFamily = {a6}
    PullApart = TRUE
    MaxReplacements = 1
INVARIANTS TypeOK SettledHonoured RefreshSeesItsHosts
