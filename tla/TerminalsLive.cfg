CONSTANTS
    NUM_TERMINALS = 2
    MAX_CHARS_IN_BUF = 1
    Chars = {"a"}
    Names <- MCNames
    Outputs <- MCOutputs
    ReadSizes = {1}
    BEHIND = 1
    NUL = NUL
SPECIFICATION FairSpec
PROPERTIES
    ReadReturnsLine
    ReaderReturns
