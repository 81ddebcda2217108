SPECIFICATION Spec
CONSTANTS
    h1 = h1
    h2 = h2
    h3 = h3
    c1 = c1
    c2 = c2
    w1 = w1
    w2 = w2
    w3 = w3
    new1 = new1
    new2 = new2
    new3 = new3
    mon = mon
    osd = osd
    crash = crash
    Handlers = {h1, h2}
    Clusters = {c1, c2}
    Nodes = {w1, w2, new1, new2}
    InitialNodes = {w1, w2}
    ClusterOf <- MCTwoClusters
    Ip <- MCSameIp
    WorkerOf <- MCWorkerOf
    Odf = {h1, h2}
    Ptx = {}
    Deployments = {mon, osd, crash}
    CrashCollectors = {crash}
    Home <- MCHome
    Names = {mon, crash}
    NameOf <- MCSameNames
    Resizes = FALSE
    None = None
INVARIANTS
    DrainedFirst
CHECK_DEADLOCK FALSE
