\* One publisher at a time, a flagged dataset, and runs that stage at any moment.
SPECIFICATION Spec
CONSTANTS
    Runs = {r1, r2}
    Publishers = {p1}
    WriteOrder <- StagingOrder
    PublishOrder <- SortedOrder
    Poison = {"versions"}
    Writes = 2
    Apart = FALSE
    Overlap = FALSE
    Faults = {"rejection", "writer_crash", "disk_full"}
    MaxFaults = 2
    MaxRegister = 1
SYMMETRY RunSymmetry
INVARIANTS TypeOK NoRowTwice
PROPERTY ExclusionsNeverRevert
