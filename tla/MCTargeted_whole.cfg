\* Two runs against hosts of every service; every range and every opt-out of eight addresses.
SPECIFICATION Spec
CONSTANTS
    Runs = {r1, r2}
    Width = 3
    Bogons <- TopBogon
    Nowhere = Nowhere
    Worlds <- SmallWorlds
    Fragile = TRUE
INVARIANTS BlockedExactly OneVersionPerService DriftSeen VersionRowOnce VersionOwed MetadataBacked SchemaFits
