CONSTANTS
    MAX_PROG_NUM = 4
    SCHED_ENABLED = FALSE
    Programs = {"shell", "cat"}
    Statuses = {1}
    NULL = NULL
SPECIFICATION Spec
INVARIANT ReturnsChildStatus
CHECK_DEADLOCK FALSE
