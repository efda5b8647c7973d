CONSTANTS
    MAX_PROG_NUM = 4
    SCHED_ENABLED = FALSE
    Programs = {"shell", "cat"}
    Statuses = {1}
    NULL = NULL
SPECIFICATION Spec
INVARIANTS
    TypeOK
    ParentLinks
    SlotAccounting
    AddressSpaceMatches
    RunsForeground
    
    
    MemoryIntact
PROPERTIES
    LostOnlyWhenFull
    ImplementsTerminalJobs
CHECK_DEADLOCK FALSE
