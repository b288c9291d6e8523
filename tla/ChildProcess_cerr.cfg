\* Both streams: the end of one and the other.
SPECIFICATION Spec
CONSTANTS
    NULL = NULL
    Co = {c1, c2}
    Main = c1
    Calls <- ReadCalls
    Configs <- BothStreams
    MaxChunks = 1
    MaxRecords = 2
    MaxWrites = 0
PROPERTY NothingMeansEnd
CHECK_DEADLOCK FALSE
