CONSTANTS
    Terms = {0, 1}
    Builds = {TRUE, FALSE}
    MAX_PROGRAMS = 1
SPECIFICATION Spec
INVARIANTS
    TypeOK
    AllAcknowledged
    Interruptible
CHECK_DEADLOCK FALSE
