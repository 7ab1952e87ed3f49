CONSTANTS
    k1 = k1
    k2 = k2
    k3 = k3
    e1 = e1
    NoKey = NoKey
    Release = Release
    Size = 3
    Key = {k1, k2, k3, e1}
    Silent = {}
    Edge = {e1}
    MaxWire = 2
SPECIFICATION Spec
INVARIANTS
    TypeOK
    InOrder
    SoonReturned
PROPERTIES
    ImplementsDelivery
    ControllerServed
