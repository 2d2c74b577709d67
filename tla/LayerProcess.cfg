SPECIFICATION Spec
CONSTANTS
    NULL = NULL
    NoOption = NoOption
    NotANumber = NotANumber
    Freed = Freed
    None = None
    Many = 10
    UINT_RANGE = 16
    BufferSize = 16
    Worlds <- MCWorlds
    PropertyLists <- MCPropertyLists
    Partitions <- MCPartitions
    Limits <- MCLimits
    Rectangles <- MCRectangles
    Ranges <- MCRanges
    SIZE_RANGE = 64
    Enqueues <- MCEnqueues
    SubBuffers <- MCSubBuffers
CHECK_DEADLOCK FALSE
INVARIANTS TypeOK SettingsByPrecedence DefaultPlatformIsBest OnlyReportedPlatforms ReadersAgree PartitionExact RectOverlapExact SvmOverlapExact GroupsFit ChecksSurvive SubBufferWithinBuffer
