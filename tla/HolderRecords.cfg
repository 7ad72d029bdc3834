CONSTANTS
    Sessions     = {"login1", "login2"}
    Killers      = {"kill"}
    Pids         = {1, 2, 3}
    Modes        <- MCModes
    Kernels      <- MCKernels
    MaxSpawns    = 2
    MaxDeaths    = 1
    MaxStrangers = 1
    MaxCommands  = 2
SPECIFICATION Spec
INVARIANTS
    TypeOK
    
    
PROPERTIES
    LockComesFree
