\* Thirty-four words, nine stop lists, texts of up to nine tokens; ids up to 3 and
\* bytes of two values, so that an id has more than one byte.  One word may have been
\* known before.
SPECIFICATION DocFairSpec
CONSTANTS
    DefaultTable <- MCDefaultTable
    NSTOPWORDS = 2
    Lower <- MCLower
    Setups <- MCSetups
    Texts <- MCTexts
    MaxTokens = 9
    MaxId = 3
    Byte = 2
    MaxSize = 1
INVARIANTS
    TermifyTypeOK
    TermsAsAsked
    CountsAgree
    AllQuartersMade
    QuartersSplit
    QuartersRightUnlessClashOrBorder
PROPERTIES
    StemsInPlace
    StopListKept
    TermifyEnds
