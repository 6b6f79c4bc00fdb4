SPECIFICATION Spec
CONSTANTS
    t1 = t1
    None = None
    Requests = {r1, r2}
    Keys = {k1}
    Teams = {t1}
    TeamOf <- OneTeam
    Windows <- TwoWindows
    Periods <- DayAndBase
    Base = "base"
    Plans <- DayPlans
    Legacy <- NoLegacy
    Replaceable = {k1}
    Weights = {1}
    Usages = {}
    MaxConc = 1
    MaxCount = 1
    MaxTotal = 1
    MinWeight = 1
    MaxWeight = 1
    MaxUsage = 0

PROPERTY CountersKept
