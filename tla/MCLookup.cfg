CONSTANTS
    NameLen = 2
    ExtLen = 1
    Letters <- UpperLower
    Space = " "
    NUL = "0x00"
    Unused = "0xE5"
    Dirs = {"root", "sub", "deep"}
    Root = "root"
    None = "none"
    Trees <- Volumes
    Paths <- SomePaths
    Blocks <- HeapBlocks
    MaxOpen = 2
    MaxOthers = 1
    MaxCalls = 5
SPECIFICATION Spec
INVARIANTS
    TypeOK
    OpenRight
    OwnedApart

    

CHECK_DEADLOCK FALSE
