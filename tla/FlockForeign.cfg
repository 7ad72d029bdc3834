\* Everything that can happen to the name, and a command that waits for its lock.
SPECIFICATION FairSpec
CONSTANTS
    Procs = {p1, p2}
    Inodes = {i1, i2, i3}
    Commands <- AnyCommands
    NoEntry = NoEntry
    Clearable = Clearable
    Stuck = Stuck
    NoInode = NoInode
    Foreign <- AnyForeign
    Probed = FALSE
    FsRefuses = FALSE
    MaxDepth = 1
 
PROPERTY WaiterServed
