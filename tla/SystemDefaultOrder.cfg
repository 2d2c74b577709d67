SPECIFICATION SysSpec
CONSTANTS
    Handles = {null, d, h1, h2}
    Null = null
    Platforms = {}
    Devices = {d}
    Threads = {t1}
    None = None
    Types = {}
    ParentLists <- UpToTwo
    Versions = {12, 20, 21}
    DriverVersion = 20
    Transparent = FALSE
    MaxRefcount = 2
    MaxList = 1
    Used <- DefaultQueueCalls
    Legal = TRUE
    PropertyLists <- DefaultSecond
    MayFail = {}
    NullPointers = FALSE
SYMMETRY PoolSymmetry
INVARIANT NoFalsePositive
