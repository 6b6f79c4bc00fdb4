SPECIFICATION FairSpec
CONSTANTS
    Requests = {r1, r2}
    Deployments = {d1}
    Keys = {k1}
    NoKey = NoKey
    Contexts <- Sizes
    Configs <- ResizedConfigs
    Removable = {}
INVARIANTS
    TypeOK
    QueueIsTruth
    RefsAreLive
PROPERTY WaitersAreServed
