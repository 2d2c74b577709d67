SPECIFICATION SysSpec
CONSTANTS
    Handles = {null, d, h1, h2, h3}
    Null = null
    Platforms = {}
    Devices = {d}
    Threads = {t1}
    None = None
    Types = {}
    ParentLists <- UpToTwo
    Versions = {12, 20, 21}
    DriverVersion = 20
    Transparent = FALSE
    MaxRefcount = 1
    MaxList = 1
    Used <- AllCalls
    Legal = FALSE
    PropertyLists <- DefaultFirst
    MayFail = {}
    NullPointers = FALSE
VIEW MisuseView
SYMMETRY PoolSymmetry
INVARIANTS DriverShielded TrackedIsAlive
