SPECIFICATION SysSpec
CONSTANTS
    Handles = {null, d, h1, h2, h3}
    Null = null
    Platforms = {}
    Devices = {d}
    Threads = {t1, t2}
    None = None
    Types = {}
    ParentLists <- UpToTwo
    Versions = {12, 20, 21}
    DriverVersion = 12
    Transparent = FALSE
    MaxRefcount = 3
    MaxList = 1
    Used <- SharedCalls
    Legal = TRUE
    PropertyLists <- DefaultOnly
    MayFail = {}
    NullPointers = FALSE
VIEW LegalView
SYMMETRY PoolSymmetry
INVARIANTS NoFalsePositive CountsAgree TrackedIsAlive LeakReportExact
PROPERTY ParentInMap
