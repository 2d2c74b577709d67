SPECIFICATION Spec
CONSTANTS
    None = None
    MaxObjects = 5
    ComputeUnits = 2
    UINT_RANGE = 6
    KERNEL_COUNT = 2
    FormatCount = 2
    MaxCount = 2
    Lists = 2
    Environments <- MCEnvironments
CONSTRAINT Bounded
VIEW IcdView
CHECK_DEADLOCK FALSE
INVARIANTS IcdTypeOK ImplicitBetween OneDefaultQueue
PROPERTIES ErrorsChangeNothing NoResurrection
