CONSTANTS
    MaxProcesses = 2
    MaxFds = 2
    Tasks <- TaskAddresses
    Files <- Kind
    kind <- AllKinds
    MaxLoads = 2
SPECIFICATION Spec
INVARIANT
    MissingFileReported
CHECK_DEADLOCK FALSE
