SPECIFICATION SysSpec
CONSTANTS
    Handles = {null, p, d, h1, h2, h3, h4}
    Null = null
    Platforms = {p}
    Devices = {d}
    Threads = {t1}
    None = None
    Types = {}
    ParentLists <- UpToTwo
    Versions = {12, 20, 21}
    DriverVersion = 20
    Transparent = FALSE
    MaxRefcount = 1
    MaxList = 2
    Used <- ProgramCalls
    Legal = FALSE
    PropertyLists = {}
    MayFail = {"release"}
    NullPointers = TRUE
VIEW MisuseView
SYMMETRY PoolSymmetry
INVARIANTS DriverShielded TrackedIsAlive
