CONSTANTS
    MaxProcesses = 2
    MaxFds = 2
    Tasks <- TaskAddresses
    Files <- Kind
    kind <- AllKinds
    MaxLoads = 3
SPECIFICATION Spec
INVARIANTS
    TypeOK
    ListComplete
    ForegroundRuns
    
    
CHECK_DEADLOCK FALSE
