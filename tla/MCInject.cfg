SPECIFICATION Spec
CONSTANTS
    t1 = t1
    t2 = t2
    marked = marked
    mixed = mixed
    byname = byname
    forward = forward
    hidden = hidden
    plain = plain
    Threads = {t1, t2}
    Functions = {marked, mixed, byname, forward, hidden, plain}
    Params <- ParamsOf
    ByName = {byname}
    Forward = {forward, hidden, plain}
    Mentions = {forward}
SYMMETRY ThreadSymmetry
INVARIANTS
    TypeOK
    NoSentinelInBody
    ExplicitWins
    UnderSuppliedFailsFirst
    OneSource
    UnmetIsComplete
