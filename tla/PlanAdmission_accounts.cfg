SPECIFICATION Spec
CONSTANTS
    t1 = t1
    None = None
    Requests = {r1, r2, r3}
    Keys = {k1}
    Teams = {t1}
    TeamOf <- OneTeam
    Windows <- OneWindow
    Periods <- BaseOnly
    Base = "base"
    Plans <- BilledPlans
    Legacy <- LegacyLimits
    Replaceable = {}
    Weights = {1}
    Usages = {1}
    MaxConc = 2
    MaxCount = 1
    MaxTotal = 1
    MinWeight = 1
    MaxWeight = 1
    MaxUsage = 1
INVARIANTS TypeOK OvershootBounded TotalsExact TeamOvershootBounded
SYMMETRY Sym
