CONSTANTS
    SectorSize = 4
    Sectors = 6
    Word = 32
    Totals <- Lengths
SPECIFICATION StreamSpec
INVARIANTS
    StreamWellFormed
PROPERTIES
    
    ImplementsByteSource
CHECK_DEADLOCK FALSE
