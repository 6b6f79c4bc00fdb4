SPECIFICATION Spec
CONSTANTS
    Requests = {r1, r2, r3}
    Deployments = {d1}
    Keys = {}
    NoKey = NoKey
    Contexts <- Sizes
    Configs <- AllConfigs
    Removable = {d1}
SYMMETRY Sym
INVARIANTS
    NoLeakedEntry
    LoopGrantsSentSet
PROPERTIES
    CapacityRespected
    WorkConserving
    PriorityRespected
