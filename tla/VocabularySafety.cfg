\* Two connections, three words, and every write may fail.
SPECIFICATION Spec
CONSTANTS
    Thread = {t1, t2}
    Word = {w1, w2, w3}
    NoThread = NoThread
    NoWord = NoWord
    Faults = {"journal", "dict", "delta", "rdict"}
SYMMETRY Symmetry
INVARIANTS
    TypeOK
    DenseIds
    ReverseAgrees
    RoundTrip
    AnswersRightUnlessRaced
PROPERTIES
    StableIds
    ImplementsTermIds
\* After a failure the lock is never released: the dictionary is stuck.
CHECK_DEADLOCK FALSE
