SPECIFICATION FairSpec
CONSTANTS
    h1 = h1
    h2 = h2
    h3 = h3
    c1 = c1
    c2 = c2
    w1 = w1
    w2 = w2
    w3 = w3
    new1 = new1
    new2 = new2
    new3 = new3
    mon = mon
    osd = osd
    crash = crash
    Handlers = {h1, h2}
    Clusters = {c1}
    Nodes = {w1, w2, new1, new2, new3}
    InitialNodes = {w1, w2}
    ClusterOf <- MCOneCluster
    Ip <- MCOwnIp
    WorkerOf <- MCWorkerOf
    Odf = {h1, h2}
    Ptx = {h2}
    Deployments = {mon, osd, crash}
    CrashCollectors = {crash}
    Home <- MCHome
    Names = {mon, osd, crash}
    NameOf <- MCOwnNames
    Resizes = TRUE
    None = None
INVARIANTS
    DrainedFirst
    StorageRestored
PROPERTIES
    HandlersReturn
CHECK_DEADLOCK FALSE
