CONSTANTS
    NUM_TERMINALS = 1
    MAX_CHARS_IN_BUF = 3
    Chars = {"a", "b"}
    Names <- MCNames
    Outputs <- MCOutputs
    ReadSizes = {1, 3}
    BEHIND = 1
    NUL = NUL
SPECIFICATION Spec
INVARIANTS
    TypeOK
    BufferHoldsLine
PROPERTIES
    ReadReturnsLine
