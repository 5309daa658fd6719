\* A failed insertion: do the other clients get their error response?
SPECIFICATION FairSpec
CONSTANTS
    Thread = {t1, t2}
    Word = {w1, w2}
    NoThread = NoThread
    NoWord = NoWord
    Faults = {"dict"}
PROPERTY FailureReachesClients
CHECK_DEADLOCK FALSE
