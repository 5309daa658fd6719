\* One connection that tokenizes and two that ask, two words, a stop list of two
\* words; nothing fails.
SPECIFICATION InquiriesFairSpec
CONSTANTS
    Thread = {t1}
    Word = {w1, w2}
    NoThread = NoThread
    NoWord = NoWord
    Faults = {}
    TestFaults = {}
    Client = {c1, c2}
    NStop = 2
INVARIANT
    DenseIdsUnlessCounted
PROPERTIES
    StopListWhole
    SizesReported
    InquiryAnswered
