\* Two threads that call into Lua.
SPECIFICATION FairSpec
CONSTANTS
    NULL = NULL
    Thread = {t1, t2}
    MaxCalls = 2
PROPERTY CallIsMade
CHECK_DEADLOCK FALSE
