CONSTANTS
    m1 = m1 m2 = m2 d1 = d1 d2 = d2 a1 = a1 admin = admin hup = hup
    Models = {m1, m2}
    Star = star
    Virtual = {vm}
    Aliases = {a1}
    Deps = {d1, d2}
    Reloaders = {admin, hup}
    Admin = admin
    Spawned = {s1}
    Offline = off
    Recovery = rec
    Threshold = 1
    Scenarios <- PassScenarios
SPECIFICATION FairSpec
INVARIANTS ConfigKept RoutingMatchesRows
PROPERTIES FaultyLeaves RecoveredReturns ReloadHeals
CHECK_DEADLOCK FALSE
