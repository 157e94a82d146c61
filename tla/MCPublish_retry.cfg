\* Publishes fail at any step, one at a time; runs stage between cycles.
SPECIFICATION Spec
CONSTANTS
    Runs = {r1}
    Publishers = {p1, p2}
    WriteOrder <- StagingOrder
    PublishOrder <- SortedOrder
    Poison = {}
    Writes = 2
    Apart = TRUE
    Overlap = FALSE
    Faults = {"publisher_crash", "rejection", "lost_ack", "writer_crash"}
    MaxFaults = 2
    MaxRegister = 1
INVARIANT NoRowDropped
PROPERTIES RowsArrive ExclusionsArrive
