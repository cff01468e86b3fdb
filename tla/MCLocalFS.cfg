SPECIFICATION Spec
CONSTANTS
    Writer = {w1, w2, w3}
    Inode = {i1, i2, i3, i4, i5}
    None = None
    Blocks = 2
SYMMETRY Interchangeable
INVARIANTS
    TypeOK
    IntactUnlessOverlapped
    IntactAtRest
