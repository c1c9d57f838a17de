SPECIFICATION Spec
CONSTANTS
    k1 = k1
    k2 = k2
    b1 = b1
    b2 = b2
    b3 = b3
    t1 = t1
    t2 = t2
    Threads = {t1, t2}
    Root = t1
    Keys = {k1, k2}
    Blocks = {b1, b2, b3}
    KeyOf <- KeyOfThree
    Declared = {k2}
    None = None
    ClosedLimit = 2
    MaxClock = 3
    MaxDepth <- DepthBound
SYMMETRY BlockSymmetry
INVARIANTS
    TypeOK
    ReadsCredited
    OpenIsOpen
    KnownOrGone
    LabelsAnswer
CHECK_DEADLOCK FALSE
