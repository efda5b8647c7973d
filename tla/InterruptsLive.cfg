CONSTANTS
    Terms = {0, 1}
    Builds = {FALSE}
    MAX_PROGRAMS = 0
SPECIFICATION FairSpec
PROPERTIES
    Served
    RtcReadReturns
CHECK_DEADLOCK FALSE
