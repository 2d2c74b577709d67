SPECIFICATION ConformingSpec
CONSTANTS
    Handles = {h1, h2, h3}
    Threads = {t1}
    ParentLists <- TwoParents
    Types = {"DEVICE", "BUFFER", "MEM"}
    Versions = {12, 20, 21}
    Transparent = FALSE
    MaxRefcount = 2
    None = None
SYMMETRY HandleSymmetry
CHECK_DEADLOCK FALSE
INVARIANTS ChildrenCounted ParentsOutlive KeptForAReason DeletionIsFinal
PROPERTIES ForgottenOnlyWhenDead NoResurrectionBefore20
