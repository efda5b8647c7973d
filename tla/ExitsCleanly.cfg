CONSTANTS
    Terms = {0}
    Builds = {FALSE}
    MAX_PROGRAMS = 0
SPECIFICATION FairSpec
PROPERTIES
    ExitsCleanly
CHECK_DEADLOCK FALSE
