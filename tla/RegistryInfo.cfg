\* Do the information calls read live dictionaries only?
SPECIFICATION Spec
CONSTANTS
    Thread = {t1, t2}
    Backup = Backup
    Name = {n1}
    Dict = {d1, d2}
    Reserved = {}
    NoThread = NoThread
    NoName = NoName
    NoDict = NoDict
INVARIANT InfoReadsLive
CHECK_DEADLOCK FALSE
