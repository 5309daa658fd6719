\* Two words, ninserts restarts at 2, another dictionary's name ends alike, one
\* crash or one insertion into a closed delta file; a test word may be refused or
\* stay, and the backup thread may be refused the disk lock.
SPECIFICATION HbFairSpec
CONSTANTS
    Word = {w1, w2}
    Wrap = 2
    Suffixed = TRUE
    MaxMishaps = 1
    TestFaults = {"insert", "delete"}
INVARIANTS
    TypeOK
    OneWordPerMishap
    JournalCoversUnlessCleaned
    PausedIsQuiet
    SkipsRight
    CreatedEmpty
PROPERTIES
    ImplementsStorage
    PauseAnsweredUnlessStuck
    HeartbeatAnswered
\* A deletion that waits for a request which hangs stops the server.
CHECK_DEADLOCK FALSE
