\* Three hosts, one that may fail and one that is blocked, and pages of two rows.
SPECIFICATION Spec
CONSTANTS
    Hosts = {h1, h2, h3}
    Flaky = {h3}
    Blocked = {h2}
    None = None
    Hole = Hole
    Top = 2
    Apart = TRUE
    MaxEvents = 1
INVARIANTS TypeOK NoneForgotten NoneReinstated
PROPERTIES RoundRobin
