CONSTANTS
    DirEntries = 2
    TableEntries = 13
    PageSize = 2
    HeapFrames <- Upper
    StackPage = 1
    StackPages = 1
    Programs <- Elfs
    MaxTasks = 2
    MaxOthers = 2
SPECIFICATION Spec
INVARIANTS
    TypeOK
    FramesApart
    Mappings
CHECK_DEADLOCK FALSE
