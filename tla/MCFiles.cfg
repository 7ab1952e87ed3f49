CONSTANTS
    MaxFd = 3
    Blocks = 28
    Peak = 7
    Paths <- SomePaths
    Volume <- Tree
    NULL = NULL
SPECIFICATION Spec
INVARIANTS
    TypeOK
PROPERTIES
    DescriptorsRight
    
CHECK_DEADLOCK FALSE
