\* Nothing breaks and no name ends another's: the backup takes a journal too early.
SPECIFICATION Spec
CONSTANTS
    Word = {w1, w2}
    Wrap = 2
    Suffixed = FALSE
    MaxMishaps = 0
SYMMETRY Symmetry
INVARIANT
    JournalCovers
\* A deletion may wait for ever.
CHECK_DEADLOCK FALSE
