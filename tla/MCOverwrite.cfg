SPECIFICATION Spec
CONSTANTS
    Writer = {w1, w2}
    Inode = {i1, i2, i3, i4}
    None = None
    Blocks = 2
PROPERTY
    OverwriteIsNoOp
