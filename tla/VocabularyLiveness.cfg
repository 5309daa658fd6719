\* Three connections, one word, no write fails: every request is answered.
SPECIFICATION FairSpec
CONSTANTS
    Thread = {t1, t2, t3}
    Word = {w1}
    NoThread = NoThread
    NoWord = NoWord
    Faults = {}
PROPERTIES
    RequestServed
    WriterServed
