SPECIFICATION Spec

CONSTANTS
    k1 = k1
    t = t
    r1 = r1
    a1 = a1
    a2 = a2
    Keys = {k1}
    Team = t
    Members = {k1}
    Requests = {r1}
    KeyOf <- OneKey
    Charged = {r1}
    Windowed = {k1}
    Usages = {1}
    Admins = {a1, a2}
    Resets <- CrossingResets
    MaxTroubles = 1
    None = None

INVARIANTS
    TypeOK
    NothingForgotten
    ShortfallExplained
