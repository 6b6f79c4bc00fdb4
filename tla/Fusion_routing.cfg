SPECIFICATION Spec
CONSTANTS
    d1 = d1 d2 = d2 q1 = q1 q2 = q2 q3 = q3 q4 = q4 x1 = x1 x2 = x2 agg = agg t1 = t1 t2 = t2
    k1 = k1 k2 = k2 a = a b = b total = total agents = agents Nil = Nil
    Workers = {d1, d2} Blocks = {a, b} Nodes <- MCNodes MaxBlocks = 1
    Writers = {t1, t2, x1, x2, agg} Readers = {q1, q2, q3, q4, x1, x2, agg}
    Rings = {d1, d2, total, agents} NumBuckets = 2 MaxMinute = 6
    Deps <- MCDeps Cap <- MCCap Requests = {q1, q2, q3, q4} Children = {x1, x2, agg}
    ApiKeys = {k1, k2} ParentKey = k1
    RebalanceThreshold = 40 OverloadPct = 80 CacheWeight = 2 LoadWeight = 1 ContextThreshold = 1
    TurnPeriod = 2 Policies = {"round_robin", "key_affinity", "kvc_aware"}
    Total = total Agents = agents Panel <- MCPanel Agg = agg MaxUsage = 2 Loads <- MCLoads
INVARIANTS MatchesAreReal ChildrenSettled RateWindowExact
PROPERTIES ChoiceIsBalanced
CHECK_DEADLOCK FALSE
