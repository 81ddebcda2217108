SPECIFICATION FairSpec
CONSTANTS
    z1 = z1
    z2 = z2
    base = base
    a = a
    b = b
    p1 = p1
    p2 = p2
    id1 = id1
    id2 = id2
    Zones = {z1}
    Blocks = {a}
    ZoneBlocks = {base}
    Procs = {p1, p2}
    ProcOf <- MCOneProcess
    Ids = {id1, id2}
    Default = Default
    Values = {Empty, v}
    Empty = Empty
    Settings = {s, t}
    ConsoleEdits = TRUE
    MaxWrites = 2
    MaxDelayed = 1
    None = None
PROPERTIES
    HandlersReturn
CHECK_DEADLOCK FALSE
