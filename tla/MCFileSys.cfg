CONSTANTS
    Inodes = {1, 2, 3, 4}
    Blocks = {1, 2, 3, 4, 5, 6, 7, 8}
    BSIZE = 2
    NDIRECT = 1
    NINDIRECT = 2
    NLINK_MAX = 2
    DIRSIZ = 2
    Procs = {1, 2}
    Boot = 1
    Images <- MCImages
    Calls <- MCCalls
    MaxChunk = 2
    MaxCalls = 3
    MaxCrashes = 2
SPECIFICATION FairSpec
INVARIANTS FsckInv InodeRefInv OrphansFreed
PROPERTIES CallsReturn
CHECK_DEADLOCK FALSE
