SPECIFICATION Spec
CONSTANTS
    r1 = r1
    r2 = r2
    r3 = r3
    Timer = Timer
    Reqs = {r1, r2, r3}
    Extents <- AllocExtents
    Backings = {FALSE}
    CacheSize = 3
    TableNElems = 4
    TableSize = 2
    ClusterSectors = 2
    FileSectors = 32
    FailOps = {"l2_part"}
    FreedReads = {TRUE, FALSE}
SYMMETRY Symmetry
CHECK_DEADLOCK FALSE
INVARIANTS QueueAssertions AllocatingWritesSerial CacheSound ClustersReferencedOnce DirtyWhileUpdating AckedWritesSeen ReadsCurrent
