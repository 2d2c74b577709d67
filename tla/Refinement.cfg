SPECIFICATION ConformingSpec
CONSTANTS
    Handles = {h1, h2, h3}
    Threads = {t1}
    ParentLists <- OneParent
    Types = {"DEVICE", "BUFFER"}
    Versions = {20}
    Transparent = FALSE
    MaxRefcount = 2
    None = None
CHECK_DEADLOCK FALSE
PROPERTIES ImplementsLifetime MutexReleased
