CONSTANTS
    Terms = {0, 1}
    MAX_PROG_NUM = 4
    NAME_SIZE = 3
    ARGS_SIZE = 3
    BLANK = BLANK
    NEWLINE = NEWLINE
    NUL = NUL
    SHELL <- MCShell
    CLEAR <- MCClear
    Runnable <- MCRunnable
    Commands <- MCCommands
    Leftovers <- MCLeftovers
    UnsetLengths = {0, 1, 255}
    MAX_NBYTES = 3
SPECIFICATION Spec
INVARIANTS
    TypeOK
    RunsFirstWord
    GetsItsArguments
    OverrunOnlyWhenFull
PROPERTIES
    OutcomeFitsCommand
CHECK_DEADLOCK FALSE
