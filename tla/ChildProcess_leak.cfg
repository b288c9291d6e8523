\* A reader that goes on when nothing was returned.
SPECIFICATION Spec
CONSTANTS
    NULL = NULL
    Co = {c1, c2}
    Main = c1
    Calls <- ReadCalls
    Configs <- OneStream
    MaxChunks = 1
    MaxRecords = 2
    MaxWrites = 0
INVARIANT NoUseAfterDestroy
CHECK_DEADLOCK FALSE
