SPECIFICATION Spec
CONSTANTS
    t1 = t1
    x = x
    y = y
    attr = attr
    px = px
    py = py
    v1 = v1
    v2 = v2
    k1 = k1
    c1 = c1
    Assigned = {v2}
    Opaque = Opaque
    Absent = Absent
    None = None
    Tasks = {t1}
    Main = t1
    Names = {x, y}
    Attrs = {attr}
    Providers = {px, py}
    NameOf <- NameOfAll
    Extending = {}
    Instances = {}
    Frozen = {}
    Sealed = {}
    Layer <- LayerOf
    FirstBoxes <- BoxesOf
    Scalars = {v1, v2, k1}
    Codecs = {c1}
    Coded <- CodedOf
    Foreign <- ForeignOf
    MaxEntries = 3
    MaxCalls = 2
    MaxEnvelopes = 1
INVARIANTS
    TypeOK
    EnvelopeApart
    OneCodec
    ArrivesAsItself
PROPERTIES
    ChangedByWrites
CHECK_DEADLOCK FALSE
