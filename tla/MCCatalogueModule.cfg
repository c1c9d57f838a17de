SPECIFICATION Spec
CONSTANTS
    main = main
    other = other
    f1 = f1
    k1 = k1
    n1 = n1
    r1 = r1
    r2 = r2
    r3 = r3
    Threads = {main}
    Main = main
    Classes = {k1}
    Names = {n1}
    Refs = {r1}
    Unusable = Unusable
    None = None
    Factories = {f1}
    Indivisible = TRUE
    MaxSerial = 2
    MaxCount = 1
    MaxFired = 1
    MaxDepth = 1
INVARIANTS
    ModuleDeclarationStays
CHECK_DEADLOCK FALSE
