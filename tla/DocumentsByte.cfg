\* The same texts and stop lists; a provisional and a real id may differ in the
\* upper byte.
SPECIFICATION DocSpec
CONSTANTS
    DefaultTable <- MCDefaultTable
    NSTOPWORDS = 2
    Lower <- MCLower
    Setups <- MCSetups
    Texts <- MCTexts
    MaxTokens = 9
    MaxId = 3
    Byte = 2
    MaxSize = 1
INVARIANT QuartersRightUnlessClash
