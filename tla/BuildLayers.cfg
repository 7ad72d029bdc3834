CONSTANTS
    Names    <- MCNames
    Paths    <- MCPaths
    Entries  <- MCEntries
    Bases    <- MCBases
    Sources  <- MCSources
    Archives <- MCArchives
    Targets  <- MCTargets
    MaxSteps = 2
    MaxEdits = 2
    MaxDepth = 2
SPECIFICATION Spec
INVARIANTS
    TypeOK
    ImageIsRootfs
    
