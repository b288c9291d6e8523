\* Scripts that resume anyone, but stop nobody, under fairness.
SPECIFICATION FairSpec
CONSTANTS
    NULL = NULL
    Co = {c1, c2, c3}
    Main = c1
    Timer = {k1}
    Calls <- QuietCalls
    Rules <- ResumeAnyone
    MaxWaiters = 2
PROPERTIES AwaitReturns 
CHECK_DEADLOCK FALSE
