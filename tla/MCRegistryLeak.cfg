SPECIFICATION Spec
CONSTANTS
    c1 = c1
    c2 = c2
    c3 = c3
    k1 = k1
    k2 = k2
    b1 = b1
    b2 = b2
    b3 = b3
    Contexts = {c1, c2}
    Root = c1
    Keys = {k1}
    Blocks = {b1, b2}
    KeyOf <- KeyOfTwo
    Isolates = {}
    MaxClock = 3
    NoEntry = NoEntry
    NoMapping = NoMapping
INVARIANTS
    NothingLeaksSilently
CHECK_DEADLOCK FALSE
