\* Three coroutines without hooks, one with three hook tokens, or two with two
\* tokens, under fairness.
SPECIFICATION MCFairSpec
CONSTANTS
    NULL = NULL
    Co = {1, 2, 3}
    Main = 1
    Hook = {1, 2, 3}
    Limits <- QueuesAndHooks
INVARIANTS TypeOK QueuesMatchStatus NoBusySkipped CursorsLinked NoHookSkipped ErrorIsFatal
PROPERTIES ImplementsLifecycle BusyServedIfPassesEnd ErrorReachesCaller
CHECK_DEADLOCK FALSE
