CONSTANTS
    Names      <- MCNames
    Sources    <- MCSources
    Dests      <- MCDests
    Paths      <- MCPaths
    Contents   = {"1", "2"}
    Metas      = {1, 2}
    Fresh      <- MCFresh
    TempName   <- MCTempName
    Sealings   <- MCSealings
    Operations <- MCOperations
    MaxRuns    = 2
    MaxEdits   = 1
    MaxFaults  = 1
SPECIFICATION Spec
INVARIANTS
    TypeOK
    
    QuickCheckSound
    
    MoveLosesNothing
PROPERTIES
    SparesCounterparts

