SPECIFICATION FairSpec
CONSTANTS
    Waiter = {t1, t2}
    Callback = {t1, t2, f, g}
    Bad = {f}
    CallMayFail = TRUE
    LoopMayClose = TRUE
    Reentrant = FALSE
    KeepFuture = FALSE
    MaxAdds = 2
    MaxPyRefs = 2
CHECK_DEADLOCK FALSE
INVARIANTS
    RefsBalanced
    NoLostWakeup
PROPERTIES
    IsFuture
    ReportedUnlessRetrieved
    CancelResumes
