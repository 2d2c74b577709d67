SPECIFICATION SysSpec
CONSTANTS
    Handles = {null, d1, d2, h1, h2, h3}
    Null = null
    Platforms = {}
    Devices = {d1, d2}
    Threads = {t1}
    None = None
    Types = {}
    ParentLists <- UpToTwo
    Versions = {12, 20, 21}
    DriverVersion = 20
    Transparent = FALSE
    MaxRefcount = 1
    MaxList = 2
    Used <- RecordingCalls
    Legal = TRUE
    PropertyLists <- DefaultFirst
    MayFail = {}
    NullPointers = FALSE
VIEW LegalView
SYMMETRY DeviceSymmetry
INVARIANTS SysTypeOK NoFalsePositive ParentsAreAncestors
