SPECIFICATION Spec
CONSTANTS
    Requests = {r1, r2, r3}
    Deployments = {d1}
    Keys = {}
    NoKey = NoKey
    Contexts <- Sizes
    Configs <- FixedConfigs
    Removable = {}
INVARIANT AdmittedWithinLimit
