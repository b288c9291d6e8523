\* Scripts that respect the rules, with every call there is.
SPECIFICATION Spec
CONSTANTS
    NULL = NULL
    Co = {c1, c2, c3}
    Main = c1
    Timer = {k1}
    Calls <- AllCalls
    Rules <- AllRules
    MaxWaiters = 2
SYMMETRY Symmetry
INVARIANTS WaitersAreWaiting NoLostWakeup NoAssertFailure NoUseAfterDestroy BlocksOnlyForEvents
PROPERTIES ImplementsPromise SleepNotCutShort DeadStaysDead
CHECK_DEADLOCK FALSE
