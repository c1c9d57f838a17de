SPECIFICATION ViewsSpec
CONSTANTS
    t1 = t1
    t2 = t2
    app = app
    attr = attr
    plain = plain
    layer = layer
    sealed = sealed
    object = object
    v1 = v1
    Assigned <- AssignedAll
    Opaque = Opaque
    Absent = Absent
    None = None
    Tasks = {t1, t2}
    Main = t1
    Names = {app}
    Attrs = {attr}
    Providers = {plain, layer, sealed, object}
    NameOf <- NameOfAll
    Extending = {layer, sealed}
    Instances = {object}
    Frozen = {plain, sealed}
    Sealed = {sealed, object}
    Layer <- LayerOf
    FirstBoxes <- BoxesOf
    Scalars = {v1}
    MaxEntries = 3
INVARIANTS
    SealFollowsBlock
PROPERTIES
    ChangedByWrites
CHECK_DEADLOCK FALSE
