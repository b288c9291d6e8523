\* The calls that wait, one stream, under fairness.
SPECIFICATION FairSpec
CONSTANTS
    NULL = NULL
    Co = {c1, c2}
    Main = c1
    Calls <- LiveCalls
    Configs <- OneStream
    MaxChunks = 1
    MaxRecords = 2
    MaxWrites = 0
PROPERTIES CallsReturn HandlesAreFreed
CHECK_DEADLOCK FALSE
