CONSTANTS
    t1 = t1
    u1 = u1
    a1 = a1
    q1 = q1
    NoCb = NoCb
    RepeatTimers <- MCRepeat
    RunTimers <- MCRun
    Asyncs <- MCAsyncs
    Requests <- MCRequests
SPECIFICATION Spec
INVARIANT FreedOnlyWhenClosed
