\* The sizes of each part, in the order of MCEdges's EXTENDS.
SPECIFICATION MCSpec
CONSTANTS
    TargetLists <- MCTargets
    Tables <- MCTables
    RP_BUF = 2
    RP_PEND_LIMIT = 4
    StreamLen = 7
    PcapFirst = 1
    Doublings = 2
    MaxCandidates = 2
    MaxLines = 3
    CLOSE_LEN = 3
    HeadCap = 14
    MaxHead = 2
    MaxBody = 3
    Procs = {p1, p2}
    Depth = 2
    MaxRuns = 3
    MaxCrashes = 1
INVARIANTS RelayExact   RoutesKept OnlyLocalLeft
