SPECIFICATION Spec
CONSTANTS
    Node = {n1, n2, n3}
    NoNode = NoNode
    VirtualNodesPerNode = 2
    RingSize = 6
    Factor = 2
INVARIANTS
    TypeOK
    CopiesAgree
    WalkGoesClockwise
    GetNIsPreference
PROPERTY
    ImplementsPlacement
