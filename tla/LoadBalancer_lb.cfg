SPECIFICATION FairSpec
CONSTANTS
    b1 = b1
    b2 = b2
    b3 = b3
    c1 = c1
    c2 = c2
    r1 = r1
    None = None
    Bad = Bad
    Missing = Missing
    Backends = {b1, b2, b3}
    Clients = {c1, c2}
    Requests = {r1}
    Peer <- PeerOf
    Hop <- HopOf
    Kinds = {"pair", "moved", "alone", "spare", "own", "big"}
    Own = {"own"}
    Ambiguous = {}
    Oversized = {"big"}
    Endless = {"alone"}
    Large = {"spare"}
    Retryable = {"pair", "spare"}
    Keys = {"b"}
    Walk <- WalkOf
    Configs <- TwoConfigs
    First <- Before
    Paths = {"p1", "p2"}
    DirOf <- Apart
    ConfigDir = "etc"
    Lists = {{c1}}
    Unsure = {b1}
    MaxRetries = 3
    MaxFailures = 2
    MaxEdits = 2
    MaxFlips = 1
INVARIANTS NoTryWasted
PROPERTIES HealthConverges FilesInForce
CHECK_DEADLOCK FALSE
