CONSTANTS
    Runs = {u1}
    Keep = 1
    MaxRelease = 3
    MaxSnapshots = 2

SPECIFICATION FairSpec
INVARIANTS
    ExeIsRelease
    InstalledWorks
    SnapshotKept
PROPERTIES
    RollbackRestores
    OutageEnds
