CONSTANTS
    SectorSize = 2
    ItemSize = 1
    Headers <- Layouts
    DataClusters = 5
    MaxChain = 3
    Entries <- SmallEntries
    EndMarks = {7}
    LastMarks = {5}
    OtherMarks = {6}
    Word = 32
    Offsets = {1, 4}
    Sizes = {1, 4, 5}
    Counts = {1, 2}
SPECIFICATION Spec
INVARIANTS
    TypeOK
    ReadsRight
    
CHECK_DEADLOCK FALSE
