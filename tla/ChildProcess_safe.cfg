\* Every call, one stream.
SPECIFICATION Spec
CONSTANTS
    NULL = NULL
    Co = {c1, c2}
    Main = c1
    Calls <- AllCalls
    Configs <- OneStream
    MaxChunks = 2
    MaxRecords = 2
    MaxWrites = 2
INVARIANTS TypeOK OutputInOrder NoLostReader NoCallbackAfterFree
PROPERTY NothingOnlyAtEnd
CHECK_DEADLOCK FALSE
