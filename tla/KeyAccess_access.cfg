SPECIFICATION FairAccessSpec
CONSTANTS
  k1 = k1
  k2 = k2
  t1 = t1
  gold = gold
  base = base
  a1 = a1
  a2 = a2
  r1 = r1
  m1 = m1
  m2 = m2
  alias = alias
  Keys = {k1}
  Teams = {t1}
  Plans = {gold, base}
  Admins = {a1, a2}
  Default = base
  YamlPlans <- MCYaml
  Unset = Unset
  NoPlan = NoPlan
  NoTask = NoTask
  None = None
  Reqs = {r1}
  ModelNames = {m1, m2, alias}
  Wildcard = Wildcard
  AllTeam = AllTeam
  AllProxy = AllProxy
  NoKey = NoKey
  NoTeam = NoTeam
  AccessScenarios <- MCScenarios
INVARIANTS ListingAgreesWithAccess
PROPERTIES ReloadRevokes ReloadKeepsChoices AssignmentsConverge
CHECK_DEADLOCK FALSE
