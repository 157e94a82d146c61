\* A host that may fail and one that answers; the two writers may meet.
SPECIFICATION Spec
CONSTANTS
    Hosts = {h1, h2}
    Flaky = {h2}
    Blocked = {}
    None = None
    Hole = Hole
    Top = 2
    Apart = FALSE
    MaxEvents = 1
PROPERTIES Rechecked
