SPECIFICATION Spec
CONSTANTS
    Handles = {h1, h2, h3}
    Threads = {t1}
    ParentLists <- OneParent
    Types = {"CONTEXT", "BUFFER"}
    Versions = {20}
    Transparent = FALSE
    MaxRefcount = 1
    None = None
SYMMETRY HandleSymmetry
CHECK_DEADLOCK FALSE
INVARIANTS TypeOK IteratorStaysValid ChildrenCovered
