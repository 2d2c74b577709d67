SPECIFICATION SysSpec
CONSTANTS
    Handles = {null, d, h1, h2}
    Null = null
    Platforms = {}
    Devices = {d}
    Threads = {t1}
    None = None
    Types = {}
    ParentLists <- UpToTwo
    Versions = {12, 20, 21}
    DriverVersion = 12
    Transparent = FALSE
    MaxRefcount = 1
    MaxList = 1
    Used <- FromTypeCalls
    Legal = TRUE
    PropertyLists = {}
    MayFail = {}
    NullPointers = FALSE
SYMMETRY PoolSymmetry
PROPERTY ParentInMap
