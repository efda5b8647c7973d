CONSTANTS
    BLOCK_SIZE = 2
    N_DATA_BLOCKS = 5
    Dentries <- MCDentries
    Inodes <- MCInodes
    Slots = {"shell", "program"}
    Shells = {"shell"}
    MAX_FILES = 4
    Programs = {"f"}
    NBytes = {3, 4}
    Frequencies = {32, 33}
    RTC_DEFAULT_HZ = 2
    WORD = 16
SPECIFICATION Spec
INVARIANTS
    TypeOK
    StandardStreams
    ContentsInOrder
    DefaultWhenClosed
    ImageIsWhole
PROPERTY
    ListingComplete
