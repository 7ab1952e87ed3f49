CONSTANTS
    Rest <- Two
    Esp <- Two
    Char <- One
SPECIFICATION Spec
INVARIANTS
    TypeOK
    OwnContext
PROPERTIES
    
    MasterServed
    ImplementsUserView
