\* A run stages its rows while a publish is in flight.
SPECIFICATION Spec
CONSTANTS
    Runs = {r1, r2}
    Publishers = {p1}
    WriteOrder <- StagingOrder
    PublishOrder <- SortedOrder
    Poison = {}
    Writes = 1
    Apart = FALSE
    Overlap = FALSE
    Faults = {}
    MaxFaults = 0
    MaxRegister = 0
INVARIANT NoRowDropped
