\* Nothing breaks: a name is deleted and created again.
SPECIFICATION Spec
CONSTANTS
    Word = {w1, w2}
    Wrap = 2
    Suffixed = FALSE
    MaxMishaps = 0
SYMMETRY Symmetry
INVARIANT
    BackupUpToDate
\* A deletion may wait for ever.
CHECK_DEADLOCK FALSE
