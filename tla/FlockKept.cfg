\* The lock file's name is never taken away.
SPECIFICATION Spec
CONSTANTS
    Procs = {p1, p2, p3}
    Inodes = {i1, i2}
    Commands <- KeptNameCommands
    NoEntry = NoEntry
    Clearable = Clearable
    Stuck = Stuck
    NoInode = NoInode
    Foreign <- NoForeign
    Probed = TRUE
    FsRefuses = TRUE
    MaxDepth = 2
SYMMETRY Symmetry
INVARIANTS TypeOK MutualExclusion NestingSound
PROPERTY RefinesSharedLock
