SPECIFICATION Spec
CONSTANTS
    Proc = {101, 102}
    File = {1, 2}
    NINODES = 8
    IPB = 3
    FSSIZE = 26
    LOGSIZE = 1
    BPB = 32
    Meta <- MetaBlocks
    BSIZE = 2
    NDIRECT = 2
    NINDIRECT = 3
    MAXOPBLOCKS = 6
    Dirino <- Home
    Disks <- Built
    Sizes = {1, 6}
    MaxCalls = 4
    MaxCrashes = 1
INVARIANTS DiskIsSound ContentsAreWritten FitsReservation
CHECK_DEADLOCK FALSE
