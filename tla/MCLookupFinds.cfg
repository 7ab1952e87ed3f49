CONSTANTS
    NameLen = 2
    ExtLen = 1
    Letters <- UpperLower
    Space = " "
    NUL = "0x00"
    Unused = "0xE5"
    Dirs = {"root", "sub", "deep"}
    Root = "root"
    None = "none"
    Trees <- GapVolumes
    Paths <- SomePaths
    Blocks <- HeapBlocks
    MaxOpen = 2
    MaxOthers = 1
    MaxCalls = 5
SPECIFICATION Spec
PROPERTIES
    FindsItem
CHECK_DEADLOCK FALSE
