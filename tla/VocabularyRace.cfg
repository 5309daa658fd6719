\* The size idterms reads before it takes the lock: one id per term?
SPECIFICATION Spec
CONSTANTS
    Thread = {t1, t2}
    Word = {w1, w2}
    NoThread = NoThread
    NoWord = NoWord
    Faults = {}
INVARIANT AnswersRight
