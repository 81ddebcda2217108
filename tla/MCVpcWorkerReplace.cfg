SPECIFICATION Spec
CONSTANTS
    h1 = h1
    h2 = h2
    h3 = h3
    c1 = c1
    c2 = c2
    w1 = w1
    w2 = w2
    w3 = w3
    new1 = new1
    new2 = new2
    new3 = new3
    mon = mon
    osd = osd
    crash = crash
    Handlers = {h1, h2, h3}
    Clusters = {c1}
    Nodes = {w1, w2, w3, new1, new2, new3}
    InitialNodes = {w1, w2, w3}
    ClusterOf <- MCOneCluster
    Ip <- MCOwnIp
    WorkerOf <- MCWorkerOf
    Odf = {h1}
    Ptx = {h3}
    Deployments = {mon}
    CrashCollectors = {}
    Home <- MCHome
    Names = {mon}
    NameOf <- MCOwnNames
    Resizes = FALSE
    None = None
INVARIANTS
    TypeOK
    AtMostOneDown
    SuccessIsTrue
    AtMostOneForgotten
PROPERTIES
    FailureIsFinal
CHECK_DEADLOCK FALSE
