SPECIFICATION Spec
CONSTANTS
    z1 = z1
    z2 = z2
    base = base
    a = a
    b = b
    p1 = p1
    p2 = p2
    id1 = id1
    id2 = id2
    Zones = {z1, z2}
    Blocks = {a}
    ZoneBlocks = {base, base2}
    Procs = {p1, p2}
    ProcOf <- MCOneProcess
    Ids = {id1, id2}
    Default = Default
    Values = {Empty, v}
    Empty = Empty
    Settings = {s}
    ConsoleEdits = FALSE
    MaxWrites = 3
    MaxDelayed = 1
    None = None
PROPERTIES
    UpdateReachesZone
CHECK_DEADLOCK FALSE
