SPECIFICATION FairSpec
CONSTANTS
    r1 = r1
    r2 = r2
    r3 = r3
    Timer = Timer
    Reqs = {r1, r2}
    Extents <- MixedExtents
    Backings = {TRUE, FALSE}
    CacheSize = 3
    TableNElems = 4
    TableSize = 2
    ClusterSectors = 2
    FileSectors = 32
    FailOps = {"header", "l2_read", "prefill", "postfill", "flush", "l2_new", "l2_part", "l2_flush", "l1_write", "data_read", "backing_read", "t_flush", "t_header"}
    FreedReads = {TRUE}
CHECK_DEADLOCK FALSE
PROPERTIES RequestsComplete DirtyCleared
