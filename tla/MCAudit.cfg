SPECIFICATION Spec
CONSTANTS
    p1 = p1
    p2 = p2
    r1 = r1
    r2 = r2
    web = web
    job = job
    db = db
    Procs = {p1, p2}
    Runs = {r1, r2}
    nothing = nothing
    Entries = {web, job}
    Keys = {db, nothing}
    Facts <- FactsOf
    Late <- LateOf
    Declared = {web}
    Limit = 2
    Stub = Stub
    None = None
SYMMETRY ProcSymmetry
INVARIANTS
    TypeOK
    NoneLost
    ContractIsOfItsRun
    ContractComplete
CHECK_DEADLOCK FALSE
