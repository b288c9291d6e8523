\* Scripts that close other coroutines.
SPECIFICATION Spec
CONSTANTS
    NULL = NULL
    Co = {c1, c2}
    Main = c1
    Timer = {k1}
    Calls <- AllCalls
    Rules <- CloseAnyone
    MaxWaiters = 2
INVARIANT NoAssertFailure
CHECK_DEADLOCK FALSE
