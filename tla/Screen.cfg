CONSTANTS
    NUM_TERMINALS = 2
    NUM_ROWS = 2
    NUM_COLS = 2
    PAGE_CELLS = 5
    MAX_CHARS_IN_BUF = 1
    Chars = {"a"}
    Completions <- MCCompletions
    Messages <- MCMessages
    PointerCells = {1,2}
    Printers = {0}
    FOLLOW_TORN = FALSE
    NL = NL
    BLANK = BLANK
    BLOCK = BLOCK
SPECIFICATION Spec
INVARIANTS
    TypeOK
    TextShown
    CursorAtEnd
    FaultOnlyWhenTorn
CHECK_DEADLOCK FALSE
