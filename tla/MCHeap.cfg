CONSTANTS
    BlockSize = 2
    TotalBlocks = 5
    HeapStart = 4
    Word = 16
    Requests <- EverySize
SPECIFICATION Spec
INVARIANTS
    TypeOK
    LiveDisjoint
    LiveCovers
    WritesInTable
    LoopsAgree
PROPERTIES
    ImplementsPool
