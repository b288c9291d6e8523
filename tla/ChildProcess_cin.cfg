\* A write the pipe does not take at once.
SPECIFICATION Spec
CONSTANTS
    NULL = NULL
    Co = {c1, c2}
    Main = c1
    Calls <- AllCalls
    Configs <- OneStream
    MaxChunks = 1
    MaxRecords = 2
    MaxWrites = 1
PROPERTY WrittenWhenReturned
CHECK_DEADLOCK FALSE
