CONSTANTS
    MAX_PROG_NUM = 4
    SCHED_ENABLED = TRUE
    Programs = {"shell", "cat"}
    Statuses = {1}
    NULL = NULL
SPECIFICATION FairSpec

    
PROPERTIES
    RoundRobin
CHECK_DEADLOCK FALSE
