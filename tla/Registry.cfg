\* Two connections and the backup thread, two names one may create and one that is
\* reserved, two places in memory: every call returns.
SPECIFICATION FairSpec
CONSTANTS
    Thread = {t1, t2}
    Backup = Backup
    Name = {n1, n2, n3}
    Dict = {d1, d2}
    Reserved = {n3}
    NoThread = NoThread
    NoName = NoName
    NoDict = NoDict
INVARIANTS
    TypeOK
    UsedStaysRegistered
    TableOwnsHeap
    FreedAlone
PROPERTIES
    ImplementsDirectory
    ReadersReturn
    WritersReturn
\* A delete of a dictionary on which a tokenization is stuck stops the server.
CHECK_DEADLOCK FALSE
