---------------------------- MODULE StoreProofs ----------------------------
(***************************************************************************)
(* The stores that administrators edit and a reload rebuilds.              *)
(*                                                                         *)
(* KeyAccess, for any number of keys, teams, plans, administrators and     *)
(* requests and any amount of edits, reloads, failures and restarts: types,*)
(* that a revoked key stays out, that the listing agrees with the check of *)
(* a model, and that reloads keep explicit choices.                        *)
(*                                                                         *)
(* DeploymentHealth, for any number of deployments, models, reloaders and  *)
(* health tasks: types, that no configured deployment is lost, and that    *)
(* routing and rows agree once everything has settled.                     *)
(***************************************************************************)
EXTENDS KeyAccess, DeploymentHealth, TLAPS

-----------------------------------------------------------------------------
(***************************************************************************)
(* KeyAccess: types.                                                       *)
(***************************************************************************)
\* What a request holds at each place of authenticate().
RequestShape ==
    \A r \in Reqs :
        /\ req[r].at # "idle" => req[r].key \in Keys
        /\ req[r].at \notin {"idle", "query"} => req[r].row \in KeyRow
        /\ req[r].at \in {"authed", "admitted"} => ~req[r].row.blocked

ChoreShape ==
    /\ chore.kind = "move" => chore.key \in Keys
    /\ chore.kind = "delete" => chore.team \in Teams

Shaped == PlanTypeOK /\ QuotaOK /\ KeyTypeOK /\ RequestShape /\ ChoreShape

keysOnly == <<keyRows, deleted, teamRows, late, cache, gen, req, drop, chore>>

LEMMA TakeKeeps ==
    ASSUME QuotaOK, NEW what \in Counts, Take(what) PROVE QuotaOK' /\ quota' # quota
<1>1. what \in DOMAIN quota /\ quota[what] \in Nat /\ quota[what] > 0 /\ what \notin Inputs
  BY DEF QuotaOK, Take, Counts, Inputs
<1>2. DOMAIN quota' = DOMAIN quota /\ \A i \in DOMAIN quota : i # what => quota'[i] = quota[i]
  BY DEF Take
<1>3. quota'[what] = quota[what] - 1
  BY <1>1 DEF Take
<1> QED
  BY <1>1, <1>2, <1>3 DEF QuotaOK

LEMMA QuotaKept == ASSUME QuotaOK, UNCHANGED quota PROVE QuotaOK'
BY DEF QuotaOK

\* What a scenario offers.
LEMMA Offers ==
    ASSUME QuotaOK
    PROVE  /\ quota.menu \subseteq PlanEdit /\ quota.lists \subseteq Lists
           /\ quota.keys \in KeyRow \cup {NoKey} /\ quota.teamList \in Lists \cup {NoTeam}
<1>1. PICK s \in AccessScenarios : \A i \in Inputs : quota[i] = s[i]
  BY DEF QuotaOK
<1>2. quota.menu = s.menu /\ quota.lists = s.lists /\ quota.keys = s.keys /\ quota.teamList = s.teamList
  BY <1>1 DEF Inputs
<1> QED
  BY <1>2, AccessConstants

LEMMA StartTyped == ASSUME PlanTypeOK, QuotaOK, NEW a \in Admins, NEW e, StartEdit(a, e) PROVE PlanTypeOK' /\ QuotaOK'
<1>1. e \in PlanEdit
  BY Offers DEF StartEdit
<1>2. QuotaOK'
  BY TakeKeeps DEF StartEdit, Counts
<1> QED
  BY <1>1, <1>2 DEF StartEdit, PlanTypeOK, storeVars, planTables, adminVars, reloadVars

LEMMA ApplyTyped ==
    ASSUME PlanTypeOK, NEW e \in PlanEdit, ApplyEdit(e)
    PROVE  /\ plans' \in [Plans -> Types \cup {None}] /\ default' \in BOOLEAN
           /\ assign' \in [Owners -> Choices]
<1>1. e.plan \in Plans /\ e.type \in Types /\ e.owner \in Owners /\ e.kind \in Kinds
  BY DEF PlanEdit
<1> QED
  BY <1>1 DEF ApplyEdit, PlanTypeOK, Choices, Without, Kinds

LEMMA ExecuteTyped ==
    ASSUME PlanTypeOK, NEW e \in PlanEdit, Execute(e)
    PROVE  /\ planRows' \in [Plans -> PlanRow \cup {None}]
           /\ assignRows' \in [Owners -> Choices] /\ planYaml' = planYaml
<1>1. e.plan \in Plans /\ e.type \in Types /\ e.owner \in Owners /\ e.kind \in Kinds
  BY DEF PlanEdit
<1> QED
  BY <1>1 DEF Execute, PlanTypeOK, Choices, Kinds, UpsertPlanDb, DeletePlanDb, AssignDb, AssignNoPlanDb,
              UnassignDb, PlanRow

\* A handler between its statement and its update of the memory.
LEMMA AdminTyped ==
    ASSUME PlanTypeOK, QuotaOK, NEW a \in Admins, AdminStep(a) PROVE PlanTypeOK' /\ QuotaOK'
<1>1. task[a] # NoTask /\ task[a] \in PlanEdit
  BY DEF AdminStep, EditStatement, EditFails, EditApplied, PlanTypeOK
<1>2. CASE EditStatement(a)
  <2>1. Execute(task[a])
    BY <1>2 DEF EditStatement
  <2>2. /\ planRows' \in [Plans -> PlanRow \cup {None}]
        /\ assignRows' \in [Owners -> Choices] /\ planYaml' = planYaml
    BY <1>1, <2>1, ExecuteTyped
  <2>3. task' \in [Admins -> PlanEdit \cup {NoTask}] /\ step' \in [Admins -> {"stmt", "apply"}]
    BY <1>2 DEF EditStatement, PlanTypeOK
  <2>4. spoiled' \in BOOLEAN /\ UNCHANGED <<stage, found, plans, default, assign, persist, syncing, quota>>
    BY <1>2 DEF EditStatement, Disturbs, storeVars
  <2> QED
    BY <2>2, <2>3, <2>4, QuotaKept DEF PlanTypeOK
<1>3. CASE EditFails(a)
  <2>1. QuotaOK'
    BY <1>3, TakeKeeps DEF EditFails, Counts
  <2>2. persist' \in BOOLEAN /\ task' \in [Admins -> PlanEdit \cup {NoTask}]
    BY <1>3 DEF EditFails, PlanTypeOK
  <2> QED
    BY <1>3, <2>1, <2>2 DEF EditFails, PlanTypeOK, storeVars, planTables, reloadVars
<1>4. CASE EditApplied(a)
  <2>1. ApplyEdit(task[a])
    BY <1>4 DEF EditApplied
  <2>2. /\ plans' \in [Plans -> Types \cup {None}] /\ default' \in BOOLEAN
        /\ assign' \in [Owners -> Choices]
    BY <1>1, <2>1, ApplyTyped
  <2>3. task' \in [Admins -> PlanEdit \cup {NoTask}] /\ persist' \in BOOLEAN
    BY <1>1, <1>4 DEF EditApplied, PlanTypeOK, PlanEdit
  <2>4. spoiled' \in BOOLEAN /\ UNCHANGED <<stage, found, planRows, assignRows, planYaml, step, syncing, quota>>
    BY <1>4 DEF EditApplied, Disturbs, planTables
  <2> QED
    BY <2>2, <2>3, <2>4, QuotaKept DEF PlanTypeOK
<1> QED
  BY <1>2, <1>3, <1>4 DEF AdminStep

LEMMA MemoryTyped == ASSUME PlanTypeOK, QuotaOK, NEW e, MemoryEdit(e) PROVE PlanTypeOK' /\ QuotaOK'
<1>1. e \in PlanEdit
  BY Offers DEF MemoryEdit
<1>2. QuotaOK'
  BY TakeKeeps DEF MemoryEdit, Counts
<1>3. ApplyEdit(e)
  BY DEF MemoryEdit
<1>4. /\ plans' \in [Plans -> Types \cup {None}] /\ default' \in BOOLEAN
      /\ assign' \in [Owners -> Choices]
  BY <1>1, <1>3, ApplyTyped
<1>5. spoiled' \in BOOLEAN /\ UNCHANGED <<stage, found, planRows, assignRows, planYaml, task, step, persist, syncing>>
  BY DEF MemoryEdit, Disturbs, planTables, adminVars
<1> QED
  BY <1>2, <1>4, <1>5 DEF PlanTypeOK

LEMMA SyncTyped == ASSUME PlanTypeOK, QuotaOK, SyncStep PROVE PlanTypeOK' /\ QuotaOK'
<1> USE DEF PlanTypeOK, storeVars, planTables, adminVars, reloadVars, Owners, Choices
<1>1. CASE SyncStart
  BY <1>1, QuotaKept DEF SyncStart
<1>2. ASSUME NEW k \in Keys, SyncRow(k) PROVE PlanTypeOK' /\ QuotaOK'
  BY <1>2, QuotaKept DEF SyncRow
<1>3. CASE SyncAborts
  <2>1. QuotaOK'
    BY <1>3, TakeKeeps DEF SyncAborts, Counts
  <2> QED
    BY <1>3, <2>1 DEF SyncAborts
<1> QED
  BY <1>1, <1>2, <1>3 DEF SyncStep

LEMMA PersistTyped == ASSUME PlanTypeOK, QuotaOK, PersistPlans PROVE PlanTypeOK' /\ QuotaOK'
BY QuotaKept DEF PersistPlans, PlanTypeOK, storeVars, reloadVars, PlanRow

LEMMA ReloadTyped == ASSUME PlanTypeOK, QuotaOK, ReloadStep PROVE PlanTypeOK' /\ QuotaOK'
<1> USE DEF PlanTypeOK, storeVars, planTables, adminVars, reloadVars, Stage, Stages, TableStep, NoneFound
<1>1. CASE ReadPlans
  <2>1. QuotaOK'
    BY <1>1, TakeKeeps DEF ReadPlans, Counts
  <2> QED
    BY <1>1, <2>1 DEF ReadPlans
<1>2. CASE ClearPlans
  BY <1>2, QuotaKept DEF ClearPlans
<1>3. CASE LoadPlans
  BY <1>3, QuotaKept DEF LoadPlans
<1>4. CASE DeleteYamlRows
  BY <1>4, QuotaKept DEF DeleteYamlRows
<1>5. CASE DeleteConflicts
  BY <1>5, QuotaKept DEF DeleteConflicts
<1>6. CASE InsertRows
  BY <1>6, QuotaKept DEF InsertRows, YamlRow, PlanRow
<1>7. CASE DeleteOrphans
  BY <1>7, QuotaKept DEF DeleteOrphans, Choices
<1>8. CASE SyncPlansFails
  <2>1. QuotaOK'
    BY <1>8, TakeKeeps, QuotaKept DEF SyncPlansFails, Counts
  <2> QED
    BY <1>8, <2>1 DEF SyncPlansFails
<1>9. CASE SelectDbPlans
  BY <1>9, QuotaKept DEF SelectDbPlans, PlanRow
<1>10. CASE SelectFails
  <2>1. QuotaOK'
    BY <1>10, TakeKeeps DEF SelectFails, Counts
  <2> QED
    BY <1>10, <2>1 DEF SelectFails
<1>11. CASE MergeDbPlans
  BY <1>11, QuotaKept DEF MergeDbPlans
<1> QED
  BY <1>1, <1>2, <1>3, <1>4, <1>5, <1>6, <1>7, <1>8, <1>9, <1>10, <1>11 DEF ReloadStep

LEMMA CleanupTyped == ASSUME PlanTypeOK, QuotaOK, CleanupAssignments PROVE PlanTypeOK' /\ QuotaOK'
BY QuotaKept DEF CleanupAssignments, PlanTypeOK, planTables, adminVars, Stage, Stages, Without, Choices

LEMMA RestartTyped == ASSUME PlanTypeOK, QuotaOK, RestartPlans PROVE PlanTypeOK' /\ QuotaOK'
<1>1. QuotaOK'
  BY TakeKeeps DEF RestartPlans, Counts
<1>2. PICK synced \in BOOLEAN, loaded \in BOOLEAN, restored \in BOOLEAN :
        LET conflict == {p \in Plans : planYaml[p] # None}
            table == IF ~synced THEN planRows
                     ELSE [p \in Plans |-> IF p \in conflict THEN YamlRow(planYaml[p])
                             ELSE IF planRows[p] # None /\ planRows[p].source = "yaml" THEN None ELSE planRows[p]]
            kept == [o \in Owners |-> IF synced /\ assignRows[o] \in Plans /\ table[assignRows[o]] = None
                                      THEN Unset ELSE assignRows[o]]
        IN  /\ planRows' = table /\ assignRows' = kept
            /\ plans' = [p \in Plans |->
                  IF loaded /\ table[p] # None /\ table[p].source = "db" THEN table[p].type ELSE planYaml[p]]
            /\ assign' = IF restored THEN kept ELSE [o \in Owners |-> Unset]
  BY DEF RestartPlans
<1>3. planRows' \in [Plans -> PlanRow \cup {None}]
  BY <1>2 DEF PlanTypeOK, YamlRow, PlanRow
<1>4. assignRows' \in [Owners -> Choices]
  BY <1>2 DEF PlanTypeOK, Choices
<1>5. plans' = [p \in Plans |->
                  IF loaded /\ planRows'[p] # None /\ planRows'[p].source = "db" THEN planRows'[p].type ELSE planYaml[p]]
  BY <1>2
<1>6. plans' \in [Plans -> Types \cup {None}]
  BY <1>3, <1>5 DEF PlanTypeOK, PlanRow
<1>7. assign' \in [Owners -> Choices]
  BY <1>2, <1>4 DEF Choices
<1> QED
  BY <1>1, <1>3, <1>4, <1>6, <1>7 DEF RestartPlans, PlanTypeOK, Stages, NoneFound, Choices

LEMMA PlanInitTyped == ASSUME PlanInit PROVE PlanTypeOK
BY AssignmentConstants DEF PlanInit, PlanTypeOK, YamlRow, PlanRow, NoneFound, Choices, Stages

\* The steps that leave keys, requests and cache alone.
LEMMA StoredTyped == ASSUME PlanTypeOK, QuotaOK, Stored PROVE PlanTypeOK' /\ QuotaOK' /\ UNCHANGED keysOnly
BY StartTyped, AdminTyped, MemoryTyped, PersistTyped, SyncTyped, ReloadTyped DEF Stored, keysOnly

LEMMA PlansKept == ASSUME PlanTypeOK, QuotaOK, UNCHANGED planVars PROVE PlanTypeOK' /\ QuotaOK'
BY QuotaKept DEF PlanTypeOK, planVars, storeVars, planTables, adminVars, reloadVars

LEMMA PlansSpent ==
    ASSUME PlanTypeOK, QuotaOK, NEW what \in Counts, Take(what),
           UNCHANGED <<storeVars, planTables, adminVars, reloadVars, syncing>>
    PROVE  PlanTypeOK' /\ QuotaOK'
<1>1. QuotaOK'
  BY TakeKeeps
<1> QED
  BY <1>1 DEF PlanTypeOK, storeVars, planTables, adminVars, reloadVars
-----------------------------------------------------------------------------
(***************************************************************************)
(* KeyAccess: a request.                                                   *)
(***************************************************************************)
CallerShape(c) ==
    /\ c.at # "idle" => c.key \in Keys
    /\ c.at \notin {"idle", "query"} => c.row \in KeyRow
    /\ c.at \in {"authed", "admitted"} => ~c.row.blocked

LEMMA OneRequest ==
    ASSUME KeyTypeOK, RequestShape, ChoreShape, NEW r \in Reqs, NEW g \in Caller, CallerShape(g),
           req' = [req EXCEPT ![r] = g], cache' \in [Keys -> KeyRow \cup {NoKey}],
           UNCHANGED <<keyRows, deleted, teamRows, late, gen, drop, chore>>
    PROVE  KeyTypeOK' /\ RequestShape' /\ ChoreShape'
<1>1. req' \in [Reqs -> Caller] /\ req'[r] = g /\ \A q \in Reqs : q # r => req'[q] = req[q]
  BY DEF KeyTypeOK
<1>2. KeyTypeOK'
  BY <1>1 DEF KeyTypeOK
<1>3. \A q \in Reqs : CallerShape(req[q])
  BY DEF RequestShape, CallerShape
<1>4. \A q \in Reqs : CallerShape(req'[q])
  BY <1>1, <1>3
<1>5. RequestShape'
  BY <1>4 DEF RequestShape, CallerShape
<1> QED
  BY <1>2, <1>5 DEF ChoreShape

LEMMA IdleTypedReq ==
    IdleReq \in Caller /\ IdleReq.at = "idle" /\ IdleReq.row = NoKey /\ IdleReq.gen = 0 /\ CallerShape(IdleReq)
<1>1. IdleReq \in Caller /\ IdleReq.at = "idle" /\ IdleReq.row = NoKey /\ IdleReq.gen = 0
  BY DEF IdleReq, Caller, Lists
<1> QED
  BY <1>1 DEF CallerShape

LEMMA IdentityTyped ==
    ASSUME NEW own \in Lists, NEW team \in Lists PROVE IdentityModels(own, team) \in Lists
BY DEF IdentityModels, Lists

\* The context that a step of a request leaves: it holds a usable row only if it
\* held one before, or the cache or the table had one of its key.
LEMMA RequestStepTo ==
    ASSUME Shaped, NEW r \in Reqs, NEW k \in Keys, NEW n,
           \/ Arrive(r, k) \/ LookupToken(r) \/ LookupFails(r) \/ CacheToken(r)
           \/ LookupTeam(r) \/ LookupTeamFails(r) \/ CallModel(r, n) \/ Finish(r)
    PROVE  \E g \in Caller :
             /\ CallerShape(g) /\ req' = [req EXCEPT ![r] = g] /\ g.gen \in {0, req[r].gen, gen}
             /\ \/ g.row = NoKey
                \/ g.key = req[r].key /\ g.row = req[r].row /\ g.gen = req[r].gen
                \/ g.key = k /\ g.row = cache[k]
                \/ g.key = req[r].key /\ g.key \in Keys /\ g.row = keyRows[g.key]
<1> DEFINE c == req[r]
           Good(g) == /\ g \in Caller /\ CallerShape(g) /\ req' = [req EXCEPT ![r] = g]
                      /\ g.gen \in {0, req[r].gen, gen}
                      /\ \/ g.row = NoKey
                         \/ g.key = req[r].key /\ g.row = req[r].row /\ g.gen = req[r].gen
                         \/ g.key = k /\ g.row = cache[k]
                         \/ g.key = req[r].key /\ g.key \in Keys /\ g.row = keyRows[g.key]
<1>1. c \in Caller /\ CallerShape(c)
  BY DEF Shaped, KeyTypeOK, RequestShape, CallerShape
<1>2. ASSUME req' = [req EXCEPT ![r] = IdleReq] PROVE Good(IdleReq)
  BY <1>2, IdleTypedReq
<1>3. CASE Arrive(r, k)
  <2> DEFINE g == [IdleReq EXCEPT !.key = k, !.gen = gen, !.row = cache[k],
                     !.at = IF cache[k] = NoKey THEN "query" ELSE "team"]
  <2>1. req' = [req EXCEPT ![r] = g]
    BY <1>3 DEF Arrive, Set
  <2>2. cache[k] \in KeyRow \cup {NoKey} /\ gen \in Nat
    BY DEF Shaped, KeyTypeOK
  <2>3. g \in Caller /\ g.key = k /\ g.row = cache[k] /\ g.gen = gen /\ g.at = IF cache[k] = NoKey THEN "query" ELSE "team"
    BY <2>2, IdleTypedReq DEF Caller
  <2> HIDE DEF g
  <2>4. CallerShape(g)
    BY <2>2, <2>3 DEF CallerShape
  <2> QED
    BY <2>1, <2>3, <2>4
<1>4. CASE LookupToken(r)
  <2> DEFINE row == keyRows[c.key]
             g == [c EXCEPT !.row = row, !.at = "insert"]
  <2>1. c.at = "query" /\ c.key \in Keys
    BY <1>1, <1>4 DEF LookupToken, CallerShape
  <2>2. row \in KeyRow \cup {NoKey}
    BY <2>1 DEF Shaped, KeyTypeOK
  <2>3. CASE row = NoKey
    BY <1>2, <1>4, <2>3 DEF LookupToken, Set
  <2>4. CASE row # NoKey
    <3>1. req' = [req EXCEPT ![r] = g]
      BY <1>4, <2>4 DEF LookupToken, Set
    <3> HIDE DEF row
    <3>2. g \in Caller /\ g.key = c.key /\ g.row = row /\ g.gen = c.gen /\ g.at = "insert"
      BY <1>1, <2>2 DEF Caller
    <3> HIDE DEF g
    <3>3. CallerShape(g)
      BY <2>1, <2>2, <2>4, <3>2 DEF CallerShape
    <3> QED
      BY <2>1, <3>1, <3>2, <3>3 DEF row
  <2> QED
    BY <2>3, <2>4
<1>5. CASE LookupFails(r)
  BY <1>2, <1>5 DEF LookupFails, Set
<1>6. CASE CacheToken(r)
  <2> DEFINE g == [c EXCEPT !.at = "team"]
  <2>1. c.at = "insert" /\ req' = [req EXCEPT ![r] = g]
    BY <1>6 DEF CacheToken, Set
  <2>2. g \in Caller /\ g.key = c.key /\ g.row = c.row /\ g.gen = c.gen /\ g.at = "team"
    BY <1>1 DEF Caller
  <2> HIDE DEF g
  <2>3. CallerShape(g)
    BY <1>1, <2>1, <2>2 DEF CallerShape
  <2> QED
    BY <2>1, <2>2, <2>3
<1>7. ASSUME NEW team \in Lists, c.at = "team", Authenticated(r, team) PROVE \E g : Good(g)
  <2> DEFINE L == IdentityModels(c.row.models, team)
             g == [c EXCEPT !.at = "authed", !.models = L]
  <2>1. c.key \in Keys /\ c.row \in KeyRow /\ c.row.models \in Lists
    BY <1>1, <1>7 DEF CallerShape, KeyRow
  <2>2. L \in Lists
    BY <2>1, IdentityTyped
  <2>3. CASE Accepts(c.row)
    <3>1. req' = [req EXCEPT ![r] = g]
      BY <1>7, <2>3 DEF Authenticated, Set
    <3> HIDE DEF L
    <3>2. g \in Caller /\ g.key = c.key /\ g.row = c.row /\ g.gen = c.gen /\ g.at = "authed"
      BY <1>1, <2>2 DEF Caller
    <3> HIDE DEF g
    <3>3. CallerShape(g)
      BY <2>1, <2>3, <3>2 DEF CallerShape, Accepts
    <3> QED
      BY <3>1, <3>2, <3>3
  <2>4. CASE ~Accepts(c.row)
    BY <1>2, <1>7, <2>4 DEF Authenticated, Set
  <2> QED
    BY <2>3, <2>4
<1>8. CASE LookupTeam(r)
  <2> DEFINE team == IF c.row.team = NoTeam THEN {} ELSE TeamModels(teamRows[c.row.team])
  <2>1. c.at = "team" /\ Authenticated(r, team)
    BY <1>8 DEF LookupTeam
  <2>2. c.row \in KeyRow
    BY <1>1, <2>1 DEF CallerShape
  <2>3. c.row.team # NoTeam => teamRows[c.row.team] \in Lists \cup {NoTeam}
    BY <2>2 DEF Shaped, KeyTypeOK, KeyRow
  <2>4. team \in Lists
    BY <2>3 DEF TeamModels, Lists
  <2> QED
    BY <1>7, <2>1, <2>4
<1>9. CASE LookupTeamFails(r)
  <2>1. {} \in Lists
    BY DEF Lists
  <2> QED
    BY <1>7, <1>9, <2>1 DEF LookupTeamFails
<1>10. CASE CallModel(r, n)
  <2> DEFINE g == [c EXCEPT !.at = "admitted"]
  <2>1. c.at = "authed" /\ (req' = [req EXCEPT ![r] = g] \/ req' = [req EXCEPT ![r] = IdleReq])
    BY <1>10 DEF CallModel, Set
  <2>2. g \in Caller /\ g.key = c.key /\ g.row = c.row /\ g.gen = c.gen /\ g.at = "admitted"
    BY <1>1 DEF Caller
  <2> HIDE DEF g
  <2>3. CallerShape(g)
    BY <1>1, <2>1, <2>2 DEF CallerShape
  <2> QED
    BY <1>2, <2>1, <2>2, <2>3
<1>11. CASE Finish(r)
  BY <1>2, <1>11 DEF Finish, Set
<1> QED
  BY <1>3, <1>4, <1>5, <1>6, <1>8, <1>9, <1>10, <1>11

Serve(r, k, n) ==
    \/ Arrive(r, k) \/ LookupToken(r) \/ LookupFails(r) \/ CacheToken(r)
    \/ LookupTeam(r) \/ LookupTeamFails(r) \/ CallModel(r, n) \/ Finish(r)

LEMMA ServeTyped ==
    ASSUME Shaped, NEW r \in Reqs, NEW k \in Keys, NEW n, Serve(r, k, n) PROVE Shaped'
<1>1. PICK g \in Caller : CallerShape(g) /\ req' = [req EXCEPT ![r] = g]
  BY RequestStepTo DEF Serve
<1>2. UNCHANGED <<keyRows, deleted, teamRows, late, gen, drop, chore>>
  BY DEF Serve, Arrive, LookupToken, LookupFails, CacheToken, LookupTeam, LookupTeamFails, CallModel, Finish
<1>3. cache' \in [Keys -> KeyRow \cup {NoKey}]
  <2>1. CASE CacheToken(r)
    <3>1. req[r].key \in Keys /\ req[r].row \in KeyRow
      BY <2>1 DEF CacheToken, Shaped, RequestShape
    <3> QED
      BY <2>1, <3>1 DEF CacheToken, Shaped, KeyTypeOK
  <2>2. CASE ~CacheToken(r)
    <3>1. cache' = cache
      BY <2>2 DEF Serve, Arrive, LookupToken, LookupFails, LookupTeam, LookupTeamFails, CallModel, Finish
    <3> QED
      BY <3>1 DEF Shaped, KeyTypeOK
  <2> QED
    BY <2>1, <2>2
<1>4. PlanTypeOK' /\ QuotaOK'
  <2>1. CASE LookupFails(r) \/ LookupTeamFails(r)
    BY <2>1, PlansSpent DEF LookupFails, LookupTeamFails, Shaped, Counts
  <2>2. CASE ~(LookupFails(r) \/ LookupTeamFails(r))
    BY <2>2, PlansKept DEF Serve, Arrive, LookupToken, CacheToken, LookupTeam, CallModel, Finish, Shaped
  <2> QED
    BY <2>1, <2>2
<1>5. KeyTypeOK' /\ RequestShape' /\ ChoreShape'
  BY <1>1, <1>2, <1>3, OneRequest DEF Shaped
<1> QED
  BY <1>4, <1>5 DEF Shaped
-----------------------------------------------------------------------------
(***************************************************************************)
(* KeyAccess: keys, teams, reload and restart.                             *)
(***************************************************************************)
LEMMA EditTyped ==
    ASSUME NEW k \in Keys, NEW c \in Choices, NEW kd \in Kinds
    PROVE  [kind |-> kd, type |-> "key", owner |-> k,
            plan |-> IF c \in Plans THEN c ELSE Default, tell |-> FALSE] \in PlanEdit
BY AssignmentConstants DEF PlanEdit, Types, Owners

LEMMA CreateTyped ==
    ASSUME Shaped, NEW a \in Admins, NEW k \in Keys, NEW row \in KeyRow, NEW c \in Choices,
           CreateKey(a, k, row, c)
    PROVE  Shaped'
<1> DEFINE kd == IF c = NoPlan THEN "optout" ELSE "assign"
           e == [kind |-> kd, type |-> "key", owner |-> k,
                 plan |-> IF c \in Plans THEN c ELSE Default, tell |-> FALSE]
<1>1. e \in PlanEdit
  <2>1. kd \in Kinds
    BY DEF Kinds
  <2> HIDE DEF kd
  <2> QED
    BY <2>1, EditTyped
<1>2. QuotaOK'
  BY TakeKeeps DEF CreateKey, Shaped, Counts
<1>3. \/ UNCHANGED <<storeVars, task, step>>
      \/ ApplyEdit(e) /\ UNCHANGED <<task, step>>
      \/ task' = [task EXCEPT ![a] = e] /\ step' = [step EXCEPT ![a] = "stmt"] /\ UNCHANGED storeVars
  BY DEF CreateKey, AssignNewKey
<1>4. UNCHANGED <<planRows, assignRows, planYaml, persist, stage, found, spoiled, syncing>>
  BY DEF CreateKey, planTables, reloadVars
<1> HIDE DEF e
<1>5. PlanTypeOK'
  <2>1. CASE UNCHANGED <<storeVars, task, step>>
    BY <1>4, <2>1 DEF Shaped, PlanTypeOK, storeVars
  <2>2. CASE ApplyEdit(e) /\ UNCHANGED <<task, step>>
    BY <1>1, <1>4, <2>2, ApplyTyped DEF Shaped, PlanTypeOK
  <2>3. CASE task' = [task EXCEPT ![a] = e] /\ step' = [step EXCEPT ![a] = "stmt"] /\ UNCHANGED storeVars
    BY <1>1, <1>4, <2>3 DEF Shaped, PlanTypeOK, storeVars
  <2> QED
    BY <1>3, <2>1, <2>2, <2>3
<1>6. NewRow(row) \in KeyRow
  BY DEF NewRow, KeyRow, Lists
<1>7. keyRows' = [keyRows EXCEPT ![k] = NewRow(row)] /\ UNCHANGED <<deleted, teamRows, late, cache, gen, req, drop, chore>>
  BY DEF CreateKey
<1>8. KeyTypeOK' /\ RequestShape' /\ ChoreShape'
  BY <1>6, <1>7 DEF Shaped, KeyTypeOK, RequestShape, ChoreShape
<1> QED
  BY <1>2, <1>5, <1>8 DEF Shaped

LEMMA RowTyped ==
    ASSUME Shaped, NEW k \in Keys, NEW row \in KeyRow, KeyStatement(k, row),
           UNCHANGED <<adminVars, deleted, drop, chore>>
    PROVE  Shaped'
<1>1. PlanTypeOK' /\ QuotaOK'
  BY PlansSpent DEF KeyStatement, Shaped, Counts
<1> QED
  BY <1>1 DEF KeyStatement, Shaped, KeyTypeOK, RequestShape, ChoreShape

LEMMA BlockTyped == ASSUME Shaped, NEW k \in Keys, NEW b \in BOOLEAN, BlockKey(k, b) PROVE Shaped'
<1>1. keyRows[k] \in KeyRow
  BY DEF BlockKey, Shaped, KeyTypeOK
<1>2. [keyRows[k] EXCEPT !.blocked = b] \in KeyRow
  BY <1>1 DEF KeyRow
<1> QED
  BY <1>2, RowTyped DEF BlockKey

LEMMA UpdateTyped == ASSUME Shaped, NEW k \in Keys, NEW L \in Lists, UpdateKey(k, L) PROVE Shaped'
<1> DEFINE M == IF AllTeam \in L THEN {AllTeam} ELSE L
<1>1. keyRows[k] \in KeyRow /\ M \in Lists
  BY DEF UpdateKey, Shaped, KeyTypeOK, Lists
<1>2. KeyStatement(k, [keyRows[k] EXCEPT !.models = M, !.expires = TRUE])
  BY DEF UpdateKey
<1> HIDE DEF M
<1>3. [keyRows[k] EXCEPT !.models = M, !.expires = TRUE] \in KeyRow
  BY <1>1 DEF KeyRow
<1> QED
  BY <1>2, <1>3, RowTyped DEF UpdateKey

LEMMA NoChoreTyped ==
    /\ NoChore \in [kind : {"none", "move", "delete"}, key : Keys \cup {NoKey}, team : Teams \cup {NoTeam}]
    /\ NoChore.kind = "none"
BY DEF NoChore

LEMMA MoveTyped == ASSUME Shaped, MoveKey PROVE Shaped'
<1>1. PlanTypeOK' /\ QuotaOK'
  BY PlansKept DEF MoveKey, Shaped
<1>2. chore.key \in Keys /\ chore.team \in Teams \cup {NoTeam}
  BY DEF MoveKey, Shaped, ChoreShape, KeyTypeOK
<1>3. keyRows[chore.key] \in KeyRow => [keyRows[chore.key] EXCEPT !.team = chore.team] \in KeyRow
  BY <1>2 DEF KeyRow
<1>4. keyRows' \in [Keys -> KeyRow \cup {NoKey}]
  BY <1>2, <1>3 DEF MoveKey, Shaped, KeyTypeOK
<1> QED
  BY <1>1, <1>4, NoChoreTyped DEF MoveKey, Shaped, KeyTypeOK, RequestShape, ChoreShape

LEMMA DeleteTyped == ASSUME Shaped, NEW a \in Admins, NEW k \in Keys, DeleteKey(a, k) PROVE Shaped'
<1> DEFINE e == [kind |-> "unassign", plan |-> Default, type |-> "key", owner |-> k, tell |-> FALSE]
<1>1. e \in PlanEdit
  BY AssignmentConstants DEF PlanEdit, Kinds, Types, Owners
<1>2. QuotaOK'
  BY TakeKeeps DEF DeleteKey, Shaped, Counts
<1>3. task' = [task EXCEPT ![a] = e] /\ step' = [step EXCEPT ![a] = "stmt"] /\ drop' = [drop EXCEPT ![a] = k]
  BY DEF DeleteKey
<1>4. UNCHANGED <<plans, default, assign, planRows, assignRows, planYaml, persist, stage, found, spoiled, syncing,
                  keyRows, deleted, teamRows, late, cache, gen, req, chore>>
  BY DEF DeleteKey, storeVars, planTables, reloadVars
<1> HIDE DEF e
<1>5. PlanTypeOK'
  BY <1>1, <1>3, <1>4 DEF Shaped, PlanTypeOK
<1> QED
  BY <1>2, <1>3, <1>4, <1>5 DEF Shaped, KeyTypeOK, RequestShape, ChoreShape

LEMMA TokenTyped == ASSUME Shaped, NEW a \in Admins, DeleteToken(a) PROVE Shaped'
<1>1. PlanTypeOK' /\ QuotaOK'
  BY PlansKept DEF DeleteToken, Shaped
<1>2. drop[a] \in Keys
  BY DEF DeleteToken, Shaped, KeyTypeOK
<1> QED
  BY <1>1, <1>2 DEF DeleteToken, Shaped, KeyTypeOK, RequestShape, ChoreShape

LEMMA WriteTeamTyped ==
    ASSUME Shaped, NEW t \in Teams, NEW L \in Lists, WriteTeam(t, L) PROVE Shaped'
<1>1. PlanTypeOK' /\ QuotaOK'
  BY PlansSpent DEF WriteTeam, Shaped, Counts
<1> QED
  BY <1>1 DEF WriteTeam, Shaped, KeyTypeOK, RequestShape, ChoreShape

LEMMA DeleteTeamTyped == ASSUME Shaped, DeleteTeam PROVE Shaped'
<1>1. PlanTypeOK' /\ QuotaOK'
  BY PlansKept DEF DeleteTeam, Shaped
<1>2. chore.team \in Teams
  BY DEF DeleteTeam, Shaped, ChoreShape
<1> QED
  BY <1>1, <1>2, NoChoreTyped DEF DeleteTeam, Shaped, KeyTypeOK, RequestShape, ChoreShape

LEMMA ExpiryTyped == ASSUME Shaped, NEW k \in Keys, CacheExpires(k) PROVE Shaped'
<1>1. PlanTypeOK' /\ QuotaOK'
  BY PlansKept DEF CacheExpires, Shaped
<1> QED
  BY <1>1 DEF CacheExpires, Shaped, KeyTypeOK, RequestShape, ChoreShape

LEMMA DatesTyped == ASSUME Shaped, DatesPass PROVE Shaped'
<1>1. PlanTypeOK' /\ QuotaOK'
  BY PlansSpent DEF DatesPass, Shaped, Counts
<1> QED
  BY <1>1 DEF DatesPass, Shaped, KeyTypeOK, RequestShape, ChoreShape

LEMMA FreshTyped ==
    ASSUME Shaped, ReloadEnds \/ Restart PROVE Shaped'
<1>1. PlanTypeOK' /\ QuotaOK'
  BY CleanupTyped, RestartTyped DEF ReloadEnds, Restart, Shaped
<1>2. cache' \in [Keys -> KeyRow \cup {NoKey}] /\ gen' \in Nat
  BY DEF ReloadEnds, Restart, EmptyCache, Shaped, KeyTypeOK
<1>3. CASE ReloadEnds
  BY <1>1, <1>2, <1>3 DEF ReloadEnds, Shaped, KeyTypeOK, RequestShape, ChoreShape
<1>4. CASE Restart
  BY <1>1, <1>2, <1>4, IdleTypedReq, NoChoreTyped DEF Restart, Shaped, KeyTypeOK, RequestShape, ChoreShape
<1> QED
  BY <1>3, <1>4

NewKeyRow(L) == [blocked |-> FALSE, expires |-> FALSE, models |-> L, team |-> NoTeam]

LEMMA NewKeyTyped == ASSUME NEW L \in Lists PROVE NewKeyRow(L) \in KeyRow
BY DEF NewKeyRow, KeyRow

\* The steps of everybody but the requests.
KeyEdit ==
    \/ \E k \in Keys :
         \/ CacheExpires(k) \/ (\E b \in BOOLEAN : BlockKey(k, b)) \/ (\E L \in Lists : UpdateKey(k, L))
         \/ (\E t \in Teams \cup {NoTeam} : MoveKeyCheck(k, t))
         \/ \E a \in Admins : DeleteKey(a, k) \/ \E L \in Lists, c \in Choices : CreateKey(a, k, NewKeyRow(L), c)
    \/ \E u \in Teams : DeleteTeamCheck(u) \/ \E L \in Lists : WriteTeam(u, L)
    \/ \E a \in Admins : DeleteToken(a)
    \/ MoveKey \/ DeleteTeam \/ DatesPass

LEMMA StepSplit ==
    ASSUME Shaped, AccessStep
    PROVE  \/ \E r \in Reqs, k \in Keys : \E n : Serve(r, k, n)
           \/ KeyEdit \/ ReloadEnds \/ Restart
<1>1. ASSUME NEW r \in Reqs, LookupToken(r) \/ LookupFails(r) \/ CacheToken(r) \/ LookupTeam(r)
                               \/ LookupTeamFails(r) \/ Finish(r) \/ \E n \in ModelNames : CallModel(r, n)
      PROVE  \E k \in Keys : \E n : Serve(r, k, n)
  <2>1. req[r].at # "idle"
    BY <1>1 DEF LookupToken, LookupFails, CacheToken, LookupTeam, LookupTeamFails, Finish, CallModel
  <2>2. req[r].key \in Keys
    BY <2>1 DEF Shaped, RequestShape
  <2> QED
    BY <1>1, <2>2 DEF Serve
<1>2. ASSUME NEW r \in Reqs, NEW k \in Keys, Arrive(r, k) PROVE \E n : Serve(r, k, n)
  BY <1>2 DEF Serve
<1>3. quota.lists \subseteq Lists
  BY Offers DEF Shaped
<1> QED
  BY <1>1, <1>2, <1>3 DEF AccessStep, KeyEdit, NewKeyRow

LEMMA KeyEditTyped == ASSUME Shaped, KeyEdit PROVE Shaped'
<1>1. \A L \in Lists : NewKeyRow(L) \in KeyRow
  BY NewKeyTyped
<1>2. ASSUME NEW k \in Keys, NEW t \in Teams \cup {NoTeam}, MoveKeyCheck(k, t) PROVE Shaped'
  <2>1. PlanTypeOK' /\ QuotaOK'
    BY <1>2, PlansSpent DEF MoveKeyCheck, Shaped, Counts
  <2> QED
    BY <1>2, <2>1 DEF MoveKeyCheck, Shaped, KeyTypeOK, RequestShape, ChoreShape
<1>3. ASSUME NEW u \in Teams, DeleteTeamCheck(u) PROVE Shaped'
  <2>1. PlanTypeOK' /\ QuotaOK'
    BY <1>3, PlansSpent DEF DeleteTeamCheck, Shaped, Counts
  <2> QED
    BY <1>3, <2>1 DEF DeleteTeamCheck, Shaped, KeyTypeOK, RequestShape, ChoreShape
<1> QED
  BY <1>1, <1>2, <1>3, ExpiryTyped, BlockTyped, UpdateTyped, DeleteTyped, CreateTyped, WriteTeamTyped,
     DeleteTeamTyped, TokenTyped, MoveTyped, DatesTyped
     DEF KeyEdit

LEMMA ShapedStep == ASSUME Shaped, AccessStep \/ Stored PROVE Shaped'
<1>1. CASE Stored
  <2>1. PlanTypeOK' /\ QuotaOK' /\ UNCHANGED keysOnly
    BY <1>1, StoredTyped DEF Shaped
  <2> QED
    BY <2>1 DEF Shaped, KeyTypeOK, RequestShape, ChoreShape, keysOnly
<1>2. CASE AccessStep
  BY <1>2, StepSplit, ServeTyped, KeyEditTyped, FreshTyped
<1> QED
  BY <1>1, <1>2

LEMMA ShapedInit == ASSUME AccessInit PROVE Shaped
<1>1. PlanTypeOK
  BY PlanInitTyped DEF AccessInit
<1>2. QuotaOK
  BY AccessConstants DEF AccessInit, QuotaOK
<1>3. KeyTypeOK
  BY <1>2, Offers, IdleTypedReq, NoChoreTyped DEF AccessInit, KeyTypeOK, EmptyCache
<1>4. RequestShape /\ ChoreShape
  BY IdleTypedReq, NoChoreTyped DEF AccessInit, RequestShape, ChoreShape
<1> QED
  BY <1>1, <1>2, <1>3, <1>4 DEF Shaped

LEMMA ShapedStutters == ASSUME Shaped, UNCHANGED accessVars PROVE Shaped'
<1>1. PlanTypeOK' /\ QuotaOK'
  BY PlansKept DEF accessVars, Shaped
<1> QED
  BY <1>1 DEF accessVars, keyVars, Shaped, KeyTypeOK, RequestShape, ChoreShape

\* The stores, requests and tables keep their types whatever administrators,
\* reloads, failures and restarts do.
THEOREM AccessTypeCorrect == AccessSpec => []AccessTypeOK
<1> DEFINE Inv == Shaped /\ swept \subseteq Keys
<1>1. AccessInit => Inv
  BY ShapedInit DEF AccessInit
<1>2. Inv /\ [AccessNext]_accessVars => Inv'
  BY ShapedStep, ShapedStutters DEF AccessNext, accessVars, keyVars
<1>3. Inv => AccessTypeOK
  BY DEF Shaped, AccessTypeOK
<1> QED
  BY <1>1, <1>2, <1>3, PTL DEF AccessSpec
-----------------------------------------------------------------------------
(***************************************************************************)
(* KeyAccess: a reload ends the rights of revoked keys.                    *)
(***************************************************************************)
\* A usable copy of the row of k within reach of requests that are yet to come,
\* or in a request of the current authenticator.
Held(k) == Usable(cache[k]) \/ \E r \in Reqs : req[r].key = k /\ req[r].gen = gen /\ Usable(req[r].row)

\* No request is ahead of the authenticator in place.
GenOK == \A r \in Reqs : req[r].gen <= gen

SweptInv == GenOK /\ \A k \in swept : Revoked(k) /\ ~Held(k)

\* Only the end of a reload and a restart replace the authenticator.
LEMMA SameGen ==
    ASSUME Shaped, AccessStep \/ Stored, ~(ReloadEnds \/ Restart) PROVE gen' = gen
<1>1. ASSUME NEW r \in Reqs, NEW k \in Keys, NEW n, Serve(r, k, n) PROVE gen' = gen
  BY <1>1 DEF Serve, Arrive, LookupToken, LookupFails, CacheToken, LookupTeam, LookupTeamFails, CallModel, Finish
<1>2. CASE KeyEdit
  BY <1>2 DEF KeyEdit, CacheExpires, BlockKey, UpdateKey, KeyStatement, MoveKeyCheck, DeleteKey, CreateKey,
                DeleteTeamCheck, WriteTeam, DeleteToken, MoveKey, DeleteTeam, DatesPass
<1>3. CASE Stored
  BY <1>3 DEF Stored
<1> QED
  BY <1>1, <1>2, <1>3, StepSplit

LEMMA GenStep == ASSUME Shaped, GenOK, AccessStep \/ Stored PROVE GenOK'
<1>0. gen \in Nat /\ \A q \in Reqs : req[q].gen \in Nat
  BY DEF Shaped, KeyTypeOK, Caller
<1>1. ASSUME NEW r \in Reqs, NEW k \in Keys, NEW n, Serve(r, k, n) PROVE GenOK'
  <2>1. PICK g \in Caller : req' = [req EXCEPT ![r] = g] /\ g.gen \in {0, req[r].gen, gen}
    BY <1>1, RequestStepTo DEF Serve
  <2>2. g.gen <= gen
    BY <1>0, <2>1 DEF GenOK
  <2>3. gen' = gen
    BY <1>1 DEF Serve, Arrive, LookupToken, LookupFails, CacheToken, LookupTeam, LookupTeamFails, CallModel, Finish
  <2>4. req'[r] = g /\ \A q \in Reqs : q # r => req'[q] = req[q]
    BY <2>1 DEF Shaped, KeyTypeOK
  <2> QED
    BY <2>2, <2>3, <2>4 DEF GenOK
<1>2. CASE KeyEdit
  <2>1. req' = req /\ gen' = gen
    BY <1>2 DEF KeyEdit, CacheExpires, BlockKey, UpdateKey, KeyStatement, MoveKeyCheck, DeleteKey, CreateKey,
                DeleteTeamCheck, WriteTeam, DeleteToken, MoveKey, DeleteTeam, DatesPass
  <2> QED
    BY <2>1 DEF GenOK
<1>3. CASE ReloadEnds \/ Restart
  <2>1. gen' = gen + 1 /\ \A q \in Reqs : req'[q] = req[q] \/ req'[q] = IdleReq
    BY <1>3 DEF ReloadEnds, Restart
  <2>2. \A q \in Reqs : req'[q].gen <= gen
    BY <1>0, <2>1, IdleTypedReq DEF GenOK
  <2>3. \A q \in Reqs : req'[q].gen \in Nat
    BY <1>0, <2>1, IdleTypedReq
  <2> QED
    BY <1>0, <2>1, <2>2, <2>3 DEF GenOK
<1>4. CASE Stored
  <2>1. req' = req /\ gen' = gen
    BY <1>4 DEF Stored
  <2> QED
    BY <2>1 DEF GenOK
<1> QED
  BY <1>1, <1>2, <1>3, <1>4, StepSplit

\* Under the authenticator in place no step brings back a usable copy: what a
\* request reads is in the table, the cache or its own context already, and a
\* request of an older one inserts into the cache of that one.
LEMMA NotHeldAgain ==
    ASSUME Shaped, AccessStep \/ Stored, ~(ReloadEnds \/ Restart), NEW k \in Keys, Revoked(k), ~Held(k)
    PROVE  ~Held(k)'
<1>0. gen' = gen
  BY SameGen
<1>1. ~Usable(NoKey)
  BY DEF Usable
<1>2. ASSUME NEW r \in Reqs, NEW j \in Keys, NEW n, Serve(r, j, n) PROVE ~Held(k)'
  <2>1. PICK g \in Caller :
             /\ CallerShape(g) /\ req' = [req EXCEPT ![r] = g] /\ g.gen \in {0, req[r].gen, gen}
             /\ \/ g.row = NoKey
                \/ g.key = req[r].key /\ g.row = req[r].row /\ g.gen = req[r].gen
                \/ g.key = j /\ g.row = cache[j]
                \/ g.key = req[r].key /\ g.key \in Keys /\ g.row = keyRows[g.key]
    BY <1>2, RequestStepTo DEF Serve
  <2>2. g.key = k /\ g.gen = gen => ~Usable(g.row)
    BY <1>1, <2>1 DEF Held, Revoked
  <2>3. req'[r] = g /\ \A q \in Reqs : q # r => req'[q] = req[q]
    BY <2>1 DEF Shaped, KeyTypeOK
  <2>4. \A q \in Reqs : req'[q].key = k /\ req'[q].gen = gen => ~Usable(req'[q].row)
    BY <2>2, <2>3 DEF Held
  <2>5. cache'[k] = cache[k] \/ (req[r].key = k /\ req[r].gen = gen /\ cache'[k] = req[r].row)
    <3>1. CASE CacheToken(r)
      BY <3>1 DEF CacheToken, Shaped, KeyTypeOK
    <3>2. CASE ~CacheToken(r)
      BY <1>2, <3>2 DEF Serve, Arrive, LookupToken, LookupFails, LookupTeam, LookupTeamFails, CallModel, Finish
    <3> QED
      BY <3>1, <3>2
  <2>6. ~Usable(cache'[k])
    BY <2>5 DEF Held
  <2> QED
    BY <1>0, <2>4, <2>6 DEF Held, Usable
<1>3. CASE KeyEdit
  <2>1. req' = req
    BY <1>3 DEF KeyEdit, CacheExpires, BlockKey, UpdateKey, KeyStatement, MoveKeyCheck, DeleteKey, CreateKey,
                DeleteTeamCheck, WriteTeam, DeleteToken, MoveKey, DeleteTeam, DatesPass
  <2>2. cache'[k] = cache[k] \/ cache'[k] = NoKey
    BY <1>3 DEF KeyEdit, CacheExpires, BlockKey, UpdateKey, KeyStatement, MoveKeyCheck, DeleteKey, CreateKey,
                DeleteTeamCheck, WriteTeam, DeleteToken, MoveKey, DeleteTeam, DatesPass, Shaped, KeyTypeOK
  <2> QED
    BY <1>0, <2>1, <2>2 DEF Held, Usable
<1>4. CASE Stored
  <2>1. req' = req /\ cache' = cache
    BY <1>4 DEF Stored
  <2> QED
    BY <1>0, <2>1 DEF Held, Usable
<1> QED
  BY <1>2, <1>3, <1>4, StepSplit

\* A new authenticator holds nothing, and no request is its own.
LEMMA NewHoldsNothing ==
    ASSUME Shaped, GenOK, ReloadEnds \/ Restart, NEW k \in Keys PROVE ~Held(k)'
<1>1. cache'[k] = NoKey /\ gen' = gen + 1 /\ gen \in Nat
  BY DEF ReloadEnds, Restart, EmptyCache, Shaped, KeyTypeOK
<1>2. \A q \in Reqs : req'[q] = req[q] \/ req'[q].row = NoKey
  BY IdleTypedReq DEF ReloadEnds, Restart
<1>3. \A q \in Reqs : req[q].gen # gen'
  BY <1>1 DEF GenOK, Shaped, KeyTypeOK, Caller
<1> QED
  BY <1>1, <1>2, <1>3 DEF Held, Usable

LEMMA SweptStep == ASSUME Shaped, swept \subseteq Keys, SweptInv, AccessNext PROVE SweptInv' /\ swept' \subseteq Keys
<1>1. swept' = {k \in Keys : Revoked(k)' /\ (k \in swept \/ gen' # gen)} /\ (AccessStep \/ Stored)
  BY DEF AccessNext
<1>2. ASSUME NEW k \in swept' PROVE Revoked(k)' /\ ~Held(k)'
  <2>1. k \in Keys /\ Revoked(k)' /\ (k \in swept \/ gen' # gen)
    BY <1>1, <1>2
  <2>2. CASE ReloadEnds \/ Restart
    BY <2>1, <2>2, NewHoldsNothing DEF SweptInv
  <2>3. CASE ~(ReloadEnds \/ Restart)
    BY <1>1, <2>1, <2>3, SameGen, NotHeldAgain DEF SweptInv
  <2> QED
    BY <2>2, <2>3
<1>3. GenOK'
  BY <1>1, GenStep DEF SweptInv
<1> QED
  BY <1>1, <1>2, <1>3 DEF SweptInv

\* Only a request that is authenticated is admitted, and its row is not blocked.
LEMMA AdmittedFrom ==
    ASSUME Shaped, AccessStep \/ Stored, NEW r \in Reqs, req[r].at # "admitted", req'[r].at = "admitted"
    PROVE  req[r].at = "authed"
<1>1. ASSUME NEW q \in Reqs, NEW j \in Keys, NEW n, Serve(q, j, n) PROVE req[r].at = "authed"
  <2>1. q = r
    BY <1>1 DEF Serve, Arrive, LookupToken, LookupFails, CacheToken, LookupTeam, LookupTeamFails, CallModel,
                Finish, Set, Authenticated, Shaped, KeyTypeOK
  <2> DEFINE c == req[r]
  <2>2. c \in Caller
    BY DEF Shaped, KeyTypeOK
  <2>3. req'[r] = IdleReq \/ CallModel(r, n) \/ \E s \in {"query", "insert", "team", "authed"} : req'[r].at = s
    <3>1. CASE Arrive(r, j)
      <4>1. req'[r] = [IdleReq EXCEPT !.key = j, !.gen = gen, !.row = cache[j],
                         !.at = IF cache[j] = NoKey THEN "query" ELSE "team"]
        BY <3>1 DEF Arrive, Set, Shaped, KeyTypeOK
      <4> QED
        BY <4>1, IdleTypedReq DEF Caller
    <3>2. CASE LookupToken(r)
      <4>1. \/ req'[r] = IdleReq \/ \E row : req'[r] = [c EXCEPT !.row = row, !.at = "insert"]
        BY <3>2 DEF LookupToken, Set, Shaped, KeyTypeOK
      <4> HIDE DEF c
      <4> QED
        BY <2>2, <4>1 DEF Caller
    <3>3. CASE LookupFails(r) \/ Finish(r)
      BY <3>3 DEF LookupFails, Finish, Set, Shaped, KeyTypeOK
    <3>4. CASE CacheToken(r)
      BY <2>2, <3>4 DEF CacheToken, Set, Shaped, KeyTypeOK, Caller
    <3>5. CASE LookupTeam(r) \/ LookupTeamFails(r)
      <4>1. \/ req'[r] = IdleReq \/ \E L : req'[r] = [c EXCEPT !.at = "authed", !.models = L]
        BY <3>5 DEF LookupTeam, LookupTeamFails, Authenticated, Set, Shaped, KeyTypeOK
      <4> HIDE DEF c
      <4> QED
        BY <2>2, <4>1 DEF Caller
    <3> QED
      BY <1>1, <2>1, <3>1, <3>2, <3>3, <3>4, <3>5 DEF Serve
  <2> QED
    BY <2>3, IdleTypedReq DEF CallModel
<1>2. CASE KeyEdit
  BY <1>2 DEF KeyEdit, CacheExpires, BlockKey, UpdateKey, KeyStatement, MoveKeyCheck, DeleteKey, CreateKey,
              DeleteTeamCheck, WriteTeam, DeleteToken, MoveKey, DeleteTeam, DatesPass
<1>3. CASE ReloadEnds \/ Restart
  BY <1>3, IdleTypedReq DEF ReloadEnds, Restart
<1>4. CASE Stored
  BY <1>4 DEF Stored
<1> QED
  BY <1>1, <1>2, <1>3, <1>4, StepSplit

\* ReloadRevokes: a request that begins after a reload or a restart is never
\* admitted with a key that was blocked or deleted by then and has been since,
\* whatever requests of older authenticators have still in hand, for any number
\* of requests, keys, administrators, reloads and restarts.
THEOREM ReloadsRevoke == AccessSpec => ReloadRevokes
<1> DEFINE Inv == Shaped /\ swept \subseteq Keys /\ SweptInv
           Out == \A r \in Reqs : req[r].at # "admitted" /\ req'[r].at = "admitted" =>
                                     ~(req[r].key \in swept /\ req[r].gen = gen)
<1>1. AccessInit => Inv
  <2>1. ASSUME AccessInit PROVE GenOK
    BY <2>1, IdleTypedReq DEF AccessInit, GenOK
  <2> QED
    BY <2>1, ShapedInit DEF AccessInit, SweptInv
<1>2. Inv /\ [AccessNext]_accessVars => Inv'
  <2>1. ASSUME Inv, AccessNext PROVE Inv'
    BY <2>1, ShapedStep, SweptStep DEF AccessNext
  <2>2. ASSUME Inv, UNCHANGED accessVars PROVE Inv'
    <3>1. Shaped'
      BY <2>2, ShapedStutters
    <3>2. swept' = swept /\ cache' = cache /\ req' = req /\ keyRows' = keyRows /\ gen' = gen
      BY <2>2 DEF accessVars, keyVars
    <3> QED
      BY <2>2, <3>1, <3>2 DEF SweptInv, GenOK, Revoked, Held, Usable
  <2> QED
    BY <2>1, <2>2
<1>3. ASSUME Inv, AccessNext PROVE Out
  <2>1. SUFFICES ASSUME NEW r \in Reqs, req[r].at # "admitted", req'[r].at = "admitted"
                 PROVE  ~(req[r].key \in swept /\ req[r].gen = gen)
    OBVIOUS
  <2>2. req[r].at = "authed"
    BY <1>3, <2>1, AdmittedFrom DEF AccessNext
  <2>3. req[r].row \in KeyRow /\ ~req[r].row.blocked
    BY <1>3, <2>2 DEF Shaped, RequestShape
  <2>4. Usable(req[r].row)
    BY <2>3, AccessConstants DEF Usable
  <2> QED
    BY <1>3, <2>4 DEF SweptInv, Held
<1>4. Inv /\ [AccessNext]_accessVars => [Out]_accessVars
  BY <1>3
<1> HIDE DEF Inv, Out
<1>5. AccessSpec => [][Out]_accessVars
  BY <1>1, <1>2, <1>4, PTL DEF AccessSpec
<1> QED
  BY <1>5 DEF Out, ReloadRevokes
-----------------------------------------------------------------------------
(***************************************************************************)
(* KeyAccess: a reload keeps explicit choices.                             *)
(***************************************************************************)
\* Where a reload that nothing spoiled stands with plan p: while the rows of the
\* file are replaced, what is to be inserted is in memory; from then on a row
\* without a plan in memory is one that the reload has still to fetch, or one of
\* an upsert that will reach the memory next.
ReloadOf(p) ==
    /\ stage \in {"delyaml", "delconf", "insert"} /\ found[p] # None => plans[p] # None
    /\ stage \in {"delconf", "insert"} /\ planRows[p] # None => planRows[p].source = "db"
    /\ stage \in {"orphans", "select", "merge", "cleanup"} /\ planRows[p] # None =>
          \/ plans[p] # None \/ Upserting(p)
          \/ planRows[p].source = "db" /\ (stage = "merge" => found[p] # None) /\ stage # "cleanup"

ReloadInv == ~spoiled => \A p \in Plans : ReloadOf(p)

\* A step that leaves plans, rows and reload alone and ends no upsert.
LEMMA ReloadAside ==
    ASSUME NEW p \in Plans, ReloadOf(p), UNCHANGED <<plans, planRows, stage, found>>, Upserting(p) => Upserting(p)'
    PROVE  ReloadOf(p)'
BY DEF ReloadOf

LEMMA OtherTasks ==
    ASSUME PlanTypeOK, NEW p \in Plans, NEW a \in Admins, NEW e, task[a] = NoTask \/ step[a] = "stmt",
           task' = [task EXCEPT ![a] = e], step' \in [Admins -> {"stmt", "apply"}],
           \A b \in Admins : b # a => step'[b] = step[b], Upserting(p)
    PROVE  Upserting(p)'
<1>1. PICK b \in Admins : task[b] # NoTask /\ task[b].kind = "upsert" /\ task[b].plan = p /\ step[b] = "apply"
  BY DEF Upserting
<1>2. b # a /\ task'[b] = task[b] /\ step'[b] = step[b]
  BY <1>1 DEF PlanTypeOK
<1> QED
  BY <1>1, <1>2 DEF Upserting

LEMMA ReloadAdmin ==
    ASSUME PlanTypeOK, ReloadInv, NEW a \in Admins, AdminStep(a), ~spoiled' PROVE ~spoiled /\ \A p \in Plans : ReloadOf(p)'
<1>1. task[a] # NoTask /\ task[a] \in PlanEdit /\ ~spoiled
  BY DEF AdminStep, EditStatement, EditFails, EditApplied, PlanTypeOK, Disturbs, reloadVars
<1> DEFINE e == task[a]
<1>2. e.plan \in Plans /\ e.type \in Types /\ e.type # None /\ e.kind \in Kinds
  BY <1>1, AssignmentConstants DEF PlanEdit
<1> SUFFICES ASSUME NEW p \in Plans PROVE ReloadOf(p)'
  BY <1>1
<1>3. ReloadOf(p)
  BY <1>1 DEF ReloadInv
<1>4. CASE EditStatement(a)
  <2>1. e.kind # "delete" /\ step[a] = "stmt"
    BY <1>4 DEF EditStatement, Disturbs
  <2>2. UNCHANGED <<plans, stage, found>>
    BY <1>4 DEF EditStatement, Disturbs, storeVars
  <2>3. CASE e.kind = "upsert" /\ e.plan = p
    <3>1. planRows'[p] = [type |-> e.type, source |-> "db"]
      BY <1>4, <2>3 DEF EditStatement, Execute, UpsertPlanDb, PlanTypeOK
    <3>2. task' = task /\ step'[a] = "apply"
      BY <1>4, <2>3 DEF EditStatement, Hits, PlanTypeOK
    <3>3. Upserting(p)'
      BY <1>1, <2>3, <3>2 DEF Upserting
    <3> QED
      BY <1>3, <2>2, <3>1, <3>3 DEF ReloadOf
  <2>4. CASE ~(e.kind = "upsert" /\ e.plan = p)
    <3>1. planRows'[p] = planRows[p]
      BY <1>2, <1>4, <2>1, <2>4 DEF EditStatement, Execute, UpsertPlanDb, PlanTypeOK
    <3>2. Upserting(p) => Upserting(p)'
      <4>1. ASSUME NEW b \in Admins, b # a PROVE task'[b] = task[b] /\ step'[b] = step[b]
        BY <1>4, <4>1 DEF EditStatement, PlanTypeOK
      <4>2. Upserting(p) => \E b \in Admins : b # a /\ task[b] # NoTask /\ task[b].kind = "upsert"
                                               /\ task[b].plan = p /\ step[b] = "apply"
        BY <2>1 DEF Upserting
      <4> QED
        BY <4>1, <4>2 DEF Upserting
    <3> QED
      BY <1>3, <2>2, <3>1, <3>2 DEF ReloadOf
  <2> QED
    BY <2>3, <2>4
<1>5. CASE EditFails(a)
  <2>1. UNCHANGED <<plans, planRows, stage, found, step>> /\ task' = [task EXCEPT ![a] = NoTask] /\ step[a] = "stmt"
    BY <1>5 DEF EditFails, storeVars, planTables, reloadVars
  <2>2. Upserting(p) => Upserting(p)'
    BY <2>1, OtherTasks DEF PlanTypeOK
  <2> QED
    BY <1>3, <2>1, <2>2, ReloadAside
<1>6. CASE EditApplied(a)
  <2>1. e.kind # "delete" /\ UNCHANGED <<planRows, stage, found, step>> /\ task' = [task EXCEPT ![a] = NoTask]
    BY <1>6 DEF EditApplied, Disturbs, planTables
  <2>2. CASE e.kind = "upsert" /\ e.plan = p
    <3>1. plans'[p] # None
      BY <1>2, <1>6, <2>2 DEF EditApplied, ApplyEdit, PlanTypeOK
    <3> QED
      BY <1>3, <2>1, <3>1 DEF ReloadOf
  <2>3. CASE ~(e.kind = "upsert" /\ e.plan = p)
    <3>1. plans'[p] = plans[p]
      BY <1>2, <1>6, <2>1, <2>3 DEF EditApplied, ApplyEdit, PlanTypeOK
    <3>2. Upserting(p) => Upserting(p)'
      <4>1. ASSUME NEW b \in Admins, b # a PROVE task'[b] = task[b] /\ step'[b] = step[b]
        BY <2>1, <4>1 DEF PlanTypeOK
      <4>2. Upserting(p) => \E b \in Admins : b # a /\ task[b] # NoTask /\ task[b].kind = "upsert"
                                               /\ task[b].plan = p /\ step[b] = "apply"
        BY <2>3 DEF Upserting
      <4> QED
        BY <4>1, <4>2 DEF Upserting
    <3> QED
      BY <1>3, <2>1, <3>1, <3>2 DEF ReloadOf
  <2> QED
    BY <2>2, <2>3
<1> QED
  BY <1>4, <1>5, <1>6 DEF AdminStep

LEMMA ReloadMemory ==
    ASSUME PlanTypeOK, QuotaOK, ReloadInv, NEW e, MemoryEdit(e), ~spoiled' PROVE \A p \in Plans : ReloadOf(p)'
<1>1. e \in PlanEdit /\ ~spoiled /\ e.kind # "delete"
  BY Offers DEF MemoryEdit, Disturbs
<1>2. e.plan \in Plans /\ e.type \in Types /\ e.type # None /\ e.kind \in Kinds
  BY <1>1, AssignmentConstants DEF PlanEdit
<1>3. UNCHANGED <<planRows, stage, found, task, step>>
  BY DEF MemoryEdit, Disturbs, planTables, adminVars
<1>4. \A p \in Plans : plans[p] # None => plans'[p] # None
  BY <1>1, <1>2 DEF MemoryEdit, ApplyEdit, PlanTypeOK
<1> QED
  BY <1>1, <1>3, <1>4 DEF ReloadInv, ReloadOf, Upserting

LEMMA ReloadReload ==
    ASSUME PlanTypeOK, ReloadInv, ReloadStep, ~spoiled' PROVE \A p \in Plans : ReloadOf(p)'
<1> SUFFICES ASSUME NEW p \in Plans PROVE ReloadOf(p)'
  OBVIOUS
<1>0. Upserting(p) => Upserting(p)'
  BY DEF ReloadStep, ReadPlans, ClearPlans, LoadPlans, DeleteYamlRows, DeleteConflicts, InsertRows, TableStep,
         DeleteOrphans, SyncPlansFails, SelectDbPlans, SelectFails, MergeDbPlans, adminVars, Upserting
<1>1. CASE ReadPlans \/ ClearPlans
  BY <1>1 DEF ReadPlans, ClearPlans, Stage, ReloadOf
<1>2. CASE LoadPlans
  BY <1>2 DEF LoadPlans, Stage, ReloadOf
<1>3. CASE DeleteYamlRows
  BY <1>3 DEF DeleteYamlRows, TableStep, Stage, storeVars, ReloadInv, ReloadOf, PlanTypeOK, PlanRow
<1>4. CASE DeleteConflicts
  BY <1>4 DEF DeleteConflicts, TableStep, Stage, storeVars, ReloadInv, ReloadOf, PlanTypeOK, PlanRow
<1>5. CASE InsertRows
  BY <1>5 DEF InsertRows, TableStep, Stage, storeVars, ReloadInv, ReloadOf, PlanTypeOK, PlanRow
<1>6. CASE DeleteOrphans
  BY <1>0, <1>6 DEF DeleteOrphans, Stage, storeVars, ReloadInv, ReloadOf
<1>7. CASE SyncPlansFails \/ SelectFails
  BY <1>7 DEF SyncPlansFails, SelectFails
<1>8. CASE SelectDbPlans
  BY <1>0, <1>8, AssignmentConstants DEF SelectDbPlans, Stage, storeVars, planTables, ReloadInv, ReloadOf, PlanTypeOK, PlanRow
<1>9. CASE MergeDbPlans
  BY <1>0, <1>9 DEF MergeDbPlans, Stage, planTables, ReloadInv, ReloadOf
<1> QED
  BY <1>1, <1>2, <1>3, <1>4, <1>5, <1>6, <1>7, <1>8, <1>9 DEF ReloadStep

LEMMA ReloadStored == ASSUME PlanTypeOK, QuotaOK, ReloadInv, Stored PROVE ReloadInv'
<1> SUFFICES ASSUME ~spoiled' PROVE \A p \in Plans : ReloadOf(p)'
  BY DEF ReloadInv
<1>1. ASSUME NEW a \in Admins, NEW e, StartEdit(a, e) PROVE \A p \in Plans : ReloadOf(p)'
  <2>1. UNCHANGED <<plans, planRows, stage, found, spoiled>> /\ task' = [task EXCEPT ![a] = e] /\ task[a] = NoTask
        /\ step' = [step EXCEPT ![a] = "stmt"]
    BY <1>1 DEF StartEdit, storeVars, planTables, reloadVars
  <2>2. step' \in [Admins -> {"stmt", "apply"}] /\ \A b \in Admins : b # a => step'[b] = step[b]
    BY <2>1 DEF PlanTypeOK
  <2>3. \A p \in Plans : Upserting(p) => Upserting(p)'
    BY <2>1, <2>2, OtherTasks
  <2> QED
    BY <2>1, <2>3, ReloadAside DEF ReloadInv
<1>2. CASE PersistPlans \/ SyncStep
  <2>1. UNCHANGED <<plans, planRows, stage, found, spoiled, task, step>>
    BY <1>2 DEF PersistPlans, SyncStep, SyncStart, SyncRow, SyncAborts, storeVars, planTables, reloadVars, adminVars
  <2> QED
    BY <2>1 DEF ReloadInv, ReloadOf, Upserting
<1> QED
  BY <1>1, <1>2, ReloadAdmin, ReloadMemory, ReloadReload DEF Stored

LEMMA ReloadAccess == ASSUME Shaped, ReloadInv, AccessStep PROVE ReloadInv'
<1>1. ASSUME NEW r \in Reqs, NEW k \in Keys, NEW n, Serve(r, k, n) PROVE ReloadInv'
  <2>1. UNCHANGED <<plans, planRows, stage, found, spoiled, task, step>>
    BY <1>1 DEF Serve, Arrive, LookupToken, LookupFails, CacheToken, LookupTeam, LookupTeamFails, CallModel, Finish,
                planVars, storeVars, planTables, reloadVars, adminVars
  <2> QED
    BY <2>1 DEF ReloadInv, ReloadOf, Upserting
<1>2. ASSUME KeyEdit PROVE ReloadInv'
  <2>1. ASSUME NEW a \in Admins, NEW k \in Keys,
               \/ DeleteKey(a, k)
               \/ \E L \in Lists, c \in Choices : CreateKey(a, k, NewKeyRow(L), c)
        PROVE  ReloadInv'
    <3>1. UNCHANGED <<plans, planRows, stage, found, spoiled>> /\ task[a] = NoTask
      BY <2>1 DEF DeleteKey, CreateKey, AssignNewKey, ApplyEdit, storeVars, planTables, reloadVars
    <3>2. \/ UNCHANGED <<task, step>>
          \/ \E e : task' = [task EXCEPT ![a] = e] /\ step' = [step EXCEPT ![a] = "stmt"]
      BY <2>1 DEF DeleteKey, CreateKey, AssignNewKey
    <3>3. ASSUME NEW p \in Plans, Upserting(p) PROVE Upserting(p)'
      <4>1. CASE UNCHANGED <<task, step>>
        BY <3>3, <4>1 DEF Upserting
      <4>2. ASSUME NEW e, task' = [task EXCEPT ![a] = e], step' = [step EXCEPT ![a] = "stmt"] PROVE Upserting(p)'
        <5>1. step' \in [Admins -> {"stmt", "apply"}] /\ \A b \in Admins : b # a => step'[b] = step[b]
          BY <4>2 DEF Shaped, PlanTypeOK
        <5> QED
          BY <3>1, <3>3, <4>2, <5>1, OtherTasks DEF Shaped
      <4> QED
        BY <3>2, <4>1, <4>2
    <3> QED
      BY <3>1, <3>3, ReloadAside DEF ReloadInv
  <2>2. CASE ~\E a \in Admins, k \in Keys :
               \/ DeleteKey(a, k)
               \/ \E L \in Lists, c \in Choices : CreateKey(a, k, NewKeyRow(L), c)
    <3>1. UNCHANGED <<plans, planRows, stage, found, spoiled, task, step>>
      BY <1>2, <2>2 DEF KeyEdit, CacheExpires, BlockKey, UpdateKey, KeyStatement, MoveKeyCheck, DeleteTeamCheck, WriteTeam,
         DeleteToken, MoveKey, DeleteTeam, DatesPass, planVars, storeVars, planTables, reloadVars, adminVars
    <3> QED
      BY <3>1 DEF ReloadInv, ReloadOf, Upserting
  <2> QED
    BY <2>1, <2>2
<1>3. CASE ReloadEnds \/ Restart
  <2>1. stage' = "idle"
    BY <1>3 DEF ReloadEnds, CleanupAssignments, Restart, RestartPlans, Stage
  <2> QED
    BY <2>1 DEF ReloadInv, ReloadOf
<1> QED
  BY <1>1, <1>2, <1>3, StepSplit

\* The only step that ends a reload with its cleanup and leaves the bounds alone.
LEMMA EndsBy ==
    ASSUME Shaped, AccessStep \/ Stored, stage = "cleanup", stage' = "idle", quota' = quota PROVE CleanupAssignments
<1>5. ~SelectFails
  BY TakeKeeps DEF SelectFails, Shaped, Counts
<1>1. CASE Stored
  BY <1>1, <1>5 DEF Stored, StartEdit, AdminStep, EditStatement, EditFails, EditApplied, MemoryEdit, Disturbs, PersistPlans,
       SyncStep, SyncStart, SyncRow, SyncAborts, ReloadStep, ReadPlans, ClearPlans, LoadPlans, DeleteYamlRows,
       DeleteConflicts, InsertRows, TableStep, DeleteOrphans, SyncPlansFails, SelectDbPlans, MergeDbPlans,
       reloadVars
<1>2. CASE Restart
  BY <1>2, TakeKeeps DEF Restart, RestartPlans, Shaped, Counts
<1>3. CASE KeyEdit
  BY <1>3 DEF KeyEdit, CacheExpires, BlockKey, UpdateKey, KeyStatement, MoveKeyCheck, DeleteKey, CreateKey,
              DeleteTeamCheck, WriteTeam, DeleteToken, MoveKey, DeleteTeam, DatesPass, planVars, reloadVars
<1>4. ASSUME NEW r \in Reqs, NEW k \in Keys, NEW n, Serve(r, k, n) PROVE CleanupAssignments
  BY <1>4 DEF Serve, Arrive, LookupToken, LookupFails, CacheToken, LookupTeam, LookupTeamFails, CallModel, Finish,
              planVars, reloadVars
<1> QED
  BY <1>1, <1>2, <1>3, <1>4, StepSplit DEF ReloadEnds

\* A reload without a failed statement or a deleted plan drops an assignment only
\* if its plan has no row, or a row that an upsert has not brought to memory yet.
THEOREM ReloadsKeepChoices == AccessSpec => ReloadKeepsChoices
<1> DEFINE Inv == Shaped /\ ReloadInv
           Keeps == stage = "cleanup" /\ stage' = "idle" /\ quota' = quota /\ ~spoiled =>
                      \A o \in Owners : assign'[o] # assign[o] =>
                         /\ assign[o] \in Plans
                         /\ planRows[assign[o]] = None \/ Upserting(assign[o])
<1>1. AccessInit => Inv
  <2>1. AccessInit => ReloadInv
    BY DEF AccessInit, PlanInit, ReloadInv, ReloadOf
  <2> QED
    BY <2>1, ShapedInit
<1>2. Inv /\ [AccessNext]_accessVars => Inv'
  <2>1. ASSUME Inv, AccessNext PROVE Inv'
    BY <2>1, ShapedStep, ReloadStored, ReloadAccess DEF AccessNext, Shaped
  <2>2. ASSUME Inv, UNCHANGED accessVars PROVE Inv'
    <3>1. UNCHANGED <<plans, planRows, stage, found, spoiled, task, step>>
      BY <2>2 DEF accessVars, planVars, storeVars, planTables, reloadVars, adminVars
    <3>2. ReloadInv'
      BY <2>2, <3>1 DEF ReloadInv, ReloadOf, Upserting
    <3> QED
      BY <2>2, <3>2, ShapedStutters
  <2> QED
    BY <2>1, <2>2
<1>3. ASSUME Inv, AccessNext PROVE Keeps
  <2>1. SUFFICES ASSUME stage = "cleanup", stage' = "idle", quota' = quota, ~spoiled,
                        NEW o \in Owners, assign'[o] # assign[o]
                 PROVE  assign[o] \in Plans /\ (planRows[assign[o]] = None \/ Upserting(assign[o]))
    OBVIOUS
  <2>2. CleanupAssignments
    BY <1>3, <2>1, EndsBy DEF AccessNext
  <2>3. assign[o] \in Plans /\ plans[assign[o]] = None
    BY <2>1, <2>2 DEF CleanupAssignments, Without, CleanupOf
  <2>4. ReloadOf(assign[o])
    BY <1>3, <2>1, <2>3 DEF ReloadInv
  <2> QED
    BY <2>1, <2>3, <2>4 DEF ReloadOf
<1>4. Inv /\ [AccessNext]_accessVars => [Keeps]_planVars
  BY <1>3 DEF accessVars
<1> HIDE DEF Inv, Keeps
<1>5. AccessSpec => [][Keeps]_planVars
  BY <1>1, <1>2, <1>4, PTL DEF AccessSpec
<1> QED
  BY <1>5 DEF Keeps, ReloadKeepsChoices
-----------------------------------------------------------------------------
(***************************************************************************)
(* KeyAccess: the listing and the check of a model agree.                  *)
(***************************************************************************)
LEMMA ListedMayCall == ASSUME NEW d, NEW L, NEW n \in Listed(d, L) PROVE MayCall(d, L, n)
<1>1. CASE L = {}
  BY <1>1 DEF MayCall
<1>2. CASE L # {}
  <2>1. IsModelVisible(d, L, n)
    BY <1>2 DEF Listed
  <2> QED
    BY <2>1 DEF IsModelVisible, MayCall, Resolves
<1> QED
  BY <1>1, <1>2

LEMMA CallableListed ==
    ASSUME NEW d, NEW L, NEW n \in d.deployed, n # Wildcard, n \notin d.hybrid, MayCall(d, L, n),
           Wildcard \notin DOMAIN d.alias, ~Resolves(d, n, {Wildcard})
    PROVE  n \in Listed(d, L)
<1> DEFINE own == L \ {Wildcard}
<1>1. n \in (d.deployed \ {Wildcard}) \cup (DOMAIN d.alias \ d.hidden) \cup d.hybrid
  OBVIOUS
<1>2. ASSUME L # {} PROVE IsModelVisible(d, L, n)
  <2>1. IsPublic(d, n) \/ n \in L \/ Resolves(d, n, L) \/ \E a \in L : Resolves(d, a, {n})
    BY <1>2 DEF MayCall
  <2>2. n \in L => n \in own
    OBVIOUS
  <2>3. Resolves(d, n, L) => Resolves(d, n, own)
    BY DEF Resolves
  <2>4. \A a \in L : Resolves(d, a, {n}) => a \in own
    BY DEF Resolves
  <2> QED
    BY <2>1, <2>2, <2>3, <2>4 DEF IsModelVisible
<1> QED
  BY <1>1, <1>2 DEF Listed

\* Every model that is listed for a key may be called with it, and every deployed
\* model that may be called is listed, whatever lists keys and teams have, when
\* aliases are plain.
THEOREM ListingMatchesAccess == ASSUME PlainAliases PROVE AccessSpec => []ListingAgreesWithAccess
<1>1. AccessTypeOK => ListingAgreesWithAccess
  <2> SUFFICES ASSUME AccessTypeOK PROVE ListingAgreesWithAccess
    OBVIOUS
  <2> DEFINE d == quota.dir
  <2>1. Wildcard \notin DOMAIN d.alias /\ \A n \in d.deployed : ~Resolves(d, n, {Wildcard})
    <3>1. PICK s \in AccessScenarios : quota.dir = s.dir
      BY DEF AccessTypeOK, QuotaOK, Inputs
    <3> QED
      BY <3>1 DEF PlainAliases
  <2> HIDE DEF d
  <2>2. ASSUME NEW L
        PROVE  /\ \A n \in Listed(d, L) : MayCall(d, L, n)
               /\ \A n \in d.deployed \ (d.hybrid \cup {Wildcard}) : MayCall(d, L, n) => n \in Listed(d, L)
    BY <2>1, ListedMayCall, CallableListed
  <2> QED
    BY <2>2 DEF ListingAgreesWithAccess, d
<1> QED
  BY <1>1, AccessTypeCorrect, PTL
-----------------------------------------------------------------------------
(***************************************************************************)
(* DeploymentHealth: types.                                                *)
(***************************************************************************)
LEMMA MapsIn ==
    ASSUME NEW R, NEW f
    PROVE  f \in MapsOf(R) <=> (DOMAIN f \subseteq Aliases /\ f \in [DOMAIN f -> R])
BY DEF MapsOf

LEMMA Joined ==
    ASSUME NEW R, NEW f \in MapsOf(R), NEW g \in MapsOf(R) PROVE Over(f, g) \in MapsOf(R)
<1>1. DOMAIN f \subseteq Aliases /\ f \in [DOMAIN f -> R] /\ DOMAIN g \subseteq Aliases /\ g \in [DOMAIN g -> R]
  BY MapsIn
<1>2. Over(f, g) \in [DOMAIN f \cup DOMAIN g -> R] /\ DOMAIN Over(f, g) = DOMAIN f \cup DOMAIN g
  BY <1>1 DEF Over
<1> QED
  BY <1>1, <1>2, MapsIn

LEMMA AliasSet ==
    ASSUME NEW R, NEW a \in Aliases, NEW x \in R, NEW g \in MapsOf(R) PROVE WithAlias(a, x, g) \in MapsOf(R)
<1>1. [b \in {a} |-> x] \in MapsOf(R)
  BY MapsIn
<1> QED
  BY <1>1, Joined DEF WithAlias

LEMMA Cut ==
    ASSUME NEW R, NEW f \in MapsOf(R), NEW A \in SUBSET DOMAIN f PROVE [a \in A |-> f[a]] \in MapsOf(R)
BY MapsIn

\* The conversions between file, database and memory are typed.
LEMMA RowTypedBy == ASSUME NEW e \in Entry, NEW src \in Sources PROVE DeploymentRow(e, src) \in Row
BY DEF DeploymentRow, Entry, Row

LEMMA StarEntry == ASSUME NEW e \in Entry PROVE [e EXCEPT !.model = Star] \in Entry
BY DEF Entry, Names

LEMMA YamlRowsTyped == ASSUME NEW c \in Config PROVE YamlRows(c) \subseteq Row /\ \A r \in YamlRows(c) : r.source = "yaml"
<1>1. c.models \subseteq Entry
  BY DEF Config
<1>2. \A e \in c.models : DeploymentRow(e, "yaml") \in Row /\ DeploymentRow([e EXCEPT !.model = Star], "yaml") \in Row
  BY <1>1, RowTypedBy, StarEntry DEF Sources
<1>3. \A e : DeploymentRow(e, "yaml").source = "yaml"
  BY DEF DeploymentRow
<1> QED
  BY <1>2, <1>3 DEF YamlRows

LEMMA BuiltTyped ==
    ASSUME NEW c \in Config PROVE BuiltFromConfig(c) \subseteq Names \X Deps /\ BuiltNames(c) \subseteq Names
<1>1. c.models \subseteq Entry
  BY DEF Config
<1>2. BuiltFromConfig(c) \subseteq Names \X Deps
  BY <1>1 DEF BuiltFromConfig, PairsOf, Entry, Names
<1> QED
  BY <1>2 DEF BuiltNames

LEMMA BuiltAliasesTyped == ASSUME NEW c \in Config, NEW N PROVE BuiltAliases(c, N) \in MapsOf(Alias)
<1>1. c.aliases \in MapsOf(Alias)
  BY DEF Config
<1> QED
  BY <1>1, Cut DEF BuiltAliases

LEMMA SnapshotTyped ==
    ASSUME NEW R \in SUBSET Row, NEW A \in MapsOf(AliasRow)
    PROVE  SnapshotEntries(R) \subseteq Entry /\ SnapshotAliases(A) \in MapsOf(Alias)
<1>1. SnapshotEntries(R) \subseteq Entry
  BY DEF SnapshotEntries, Row, Entry
<1>2. DOMAIN A \subseteq Aliases /\ A \in [DOMAIN A -> AliasRow]
  BY MapsIn
<1>3. \A a \in DOMAIN A : [target |-> A[a].target, hidden |-> FALSE] \in Alias
  BY <1>2 DEF AliasRow, Alias
<1>4. SnapshotAliases(A) \in [DOMAIN A -> Alias] /\ DOMAIN SnapshotAliases(A) = DOMAIN A
  BY <1>3 DEF SnapshotAliases
<1> QED
  BY <1>1, <1>2, <1>4, MapsIn

LEMMA PairsTyped == ASSUME NEW R \in SUBSET Row PROVE PairsOf(R) \subseteq Names \X Deps
BY DEF PairsOf, Row

LEMMA EntryPairs == ASSUME NEW S \in SUBSET Entry PROVE PairsOf(S) \subseteq Names \X Deps
BY DEF PairsOf, Entry

LEMMA ScenarioTyped ==
    ASSUME NEW s \in Scenarios PROVE s.file \in Config /\ s.off \subseteq Deps
BY RegistryConstants DEF Scenario

Places == {"idle", "snapshot", "write", "read", "clear", "build", "delete", "insert",
           "aliasdelete", "aliasinsert", "load", "loadalias", "workflows"}

LEMMA GotoTyped ==
    ASSUME RegistryTypeOK, NEW p \in Reloaders, NEW l \in Places, Goto(p, l)
    PROVE  at' \in [Reloaders -> Places] /\ at'[p] = l /\ \A q \in Reloaders : q # p => at'[q] = at[q]
BY DEF RegistryTypeOK, Goto, Places

USE DEF marks

LEMMA RegistryInitTyped == ASSUME RegistryInit PROVE RegistryTypeOK
<1>1. PICK s \in Scenarios :
         LET fresh == YamlRows(s.file)
         IN  /\ yaml = s.file
             /\ rows = {[r EXCEPT !.on = @ /\ r.id \notin s.off, !.auto = r.on /\ r.id \in s.off] : r \in fresh}
             /\ aliasRows = [a \in DOMAIN s.file.aliases |->
                              [target |-> s.file.aliases[a].target,
                               hidden |-> s.file.aliases[a].hidden, source |-> "yaml"]]
             /\ known = BuiltNames(s.file) \cup Virtual
             /\ mem = {p \in BuiltFromConfig(s.file) : p[2] \notin s.off}
             /\ exclusive = Virtual
             /\ aliasMem = BuiltAliases(s.file, BuiltNames(s.file))
             /\ at = [p \in Reloaders |-> "idle"]
             /\ cfg = [p \in Reloaders |-> s.file]
             /\ pending = 0
             /\ wanted = PairsOf(s.file.models)
             /\ stopped = {e.id : e \in {x \in s.file.models : ~x.on}}
             /\ erased = {}
             /\ disturbed = FALSE
  BY DEF RegistryInit
<1>2. s.file \in Config /\ s.file.models \subseteq Entry /\ s.file.aliases \in MapsOf(Alias)
  BY ScenarioTyped DEF Config
<1>3. rows \subseteq Row
  <2>1. ASSUME NEW r \in YamlRows(s.file)
        PROVE  [r EXCEPT !.on = r.on /\ r.id \notin s.off, !.auto = r.on /\ r.id \in s.off] \in Row
    BY <1>2, YamlRowsTyped DEF Row
  <2> QED
    BY <1>1, <2>1
<1>4. aliasRows \in MapsOf(AliasRow)
  <2> DEFINE A == s.file.aliases
  <2>1. DOMAIN A \subseteq Aliases /\ A \in [DOMAIN A -> Alias]
    BY <1>2, MapsIn
  <2>2. \A a \in DOMAIN A : [target |-> A[a].target, hidden |-> A[a].hidden, source |-> "yaml"] \in AliasRow
    BY <2>1 DEF Alias, AliasRow, Sources
  <2>3. aliasRows \in [DOMAIN A -> AliasRow] /\ DOMAIN aliasRows = DOMAIN A
    BY <1>1, <2>2
  <2> QED
    BY <2>1, <2>3, MapsIn
<1>5. known \subseteq Names \cup Virtual /\ mem \subseteq Names \X Deps /\ aliasMem \in MapsOf(Alias)
  BY <1>1, <1>2, BuiltTyped, BuiltAliasesTyped
<1>6. wanted \subseteq Names \X Deps
  BY <1>1, <1>2, EntryPairs
<1>7. stopped \subseteq Deps
  BY <1>1, <1>2 DEF Entry
<1> QED
  BY <1>1, <1>2, <1>3, <1>4, <1>5, <1>6, <1>7 DEF RegistryTypeOK

LEMMA SpendTyped == ASSUME NEW what, Spend(what), RegistryTypeOK PROVE disturbed' = disturbed /\ disturbed' \in BOOLEAN
BY DEF Spend, RegistryTypeOK

LEMMA DisturbTyped == ASSUME NEW what, Disturb(what) PROVE disturbed'
BY DEF Disturb

\* Administrators edit deployments.
LEMMA ModelEditTyped ==
    ASSUME RegistryTypeOK,
           \/ \E e \in Entry : CreateModel(e)
           \/ \E r \in rows, e \in Entry : UpdateModel(r, e)
           \/ \E r \in rows : DeleteModel(r)
    PROVE  RegistryTypeOK'
<1>1. /\ rows' \subseteq Row /\ wanted' \subseteq Names \X Deps /\ stopped' \subseteq Deps /\ erased' \subseteq Deps /\ Goto(Admin, "snapshot")
      /\ UNCHANGED <<yaml, aliasRows, known, mem, exclusive, aliasMem, cfg, pending, disturbed>>
  <2>1. ASSUME NEW e \in Entry, CreateModel(e)
        PROVE  /\ rows' \subseteq Row /\ wanted' \subseteq Names \X Deps /\ stopped' \subseteq Deps /\ erased' \subseteq Deps /\ Goto(Admin, "snapshot")
               /\ UNCHANGED <<yaml, aliasRows, known, mem, exclusive, aliasMem, cfg, pending, disturbed>>
    <3>1. DeploymentRow(e, "db") \in Row /\ <<e.model, e.id>> \in Names \X Deps
      BY RowTypedBy DEF Sources, Entry
    <3> QED
      BY <2>1, <3>1 DEF CreateModel, RegistryTypeOK, Spend, tableVars
  <2>2. ASSUME NEW r \in rows, NEW e \in Entry, UpdateModel(r, e)
        PROVE  /\ rows' \subseteq Row /\ wanted' \subseteq Names \X Deps /\ stopped' \subseteq Deps /\ erased' \subseteq Deps /\ Goto(Admin, "snapshot")
               /\ UNCHANGED <<yaml, aliasRows, known, mem, exclusive, aliasMem, cfg, pending, disturbed>>
    <3>1. r.source \in Sources /\ <<e.model, e.id>> \in Names \X Deps
      BY DEF Entry, RegistryTypeOK, Row
    <3>2. DeploymentRow(e, r.source) \in Row
      BY <3>1, RowTypedBy
    <3>3. [DeploymentRow(e, r.source) EXCEPT !.auto = ~e.on /\ ~r.on /\ r.auto] \in Row
      BY <3>2 DEF Row
    <3> QED
      BY <2>2, <3>1, <3>3 DEF UpdateModel, RegistryTypeOK, Spend, tableVars
  <2>3. ASSUME NEW r \in rows, DeleteModel(r)
        PROVE  /\ rows' \subseteq Row /\ wanted' \subseteq Names \X Deps /\ stopped' \subseteq Deps /\ erased' \subseteq Deps /\ Goto(Admin, "snapshot")
               /\ UNCHANGED <<yaml, aliasRows, known, mem, exclusive, aliasMem, cfg, pending, disturbed>>
    BY <2>3 DEF DeleteModel, RegistryTypeOK, Spend, tableVars
  <2> QED
    BY <2>1, <2>2, <2>3
<1>2. at' \in [Reloaders -> Places]
  BY <1>1, GotoTyped, RegistryConstants DEF Places
<1> QED
  BY <1>1, <1>2 DEF RegistryTypeOK, Places

\* Administrators edit aliases.
LEMMA AliasEditTyped ==
    ASSUME RegistryTypeOK,
           \/ \E a \in Aliases, x \in Alias : CreateAlias(a, x) \/ UpdateAlias(a, x)
           \/ \E a \in Aliases : DeleteAlias(a)
    PROVE  /\ RegistryTypeOK' /\ UNCHANGED <<yaml, rows, known, mem, exclusive, at, cfg, wanted, stopped, erased, disturbed>>
<1>0. DOMAIN aliasRows \subseteq Aliases /\ aliasRows \in [DOMAIN aliasRows -> AliasRow] /\ aliasMem \in MapsOf(Alias)
  BY MapsIn DEF RegistryTypeOK
<1>1. /\ UNCHANGED <<yaml, rows, known, mem, exclusive, at, cfg, wanted, stopped, erased, disturbed>>
      /\ pending' = pending + 1
  <2>1. \A a \in Aliases, x \in Alias : CreateAlias(a, x) =>
           UNCHANGED <<yaml, rows, known, mem, exclusive, at, cfg, wanted, stopped, erased, disturbed>> /\ pending' = pending + 1
    BY DEF CreateAlias, Spend
  <2>2. \A a \in Aliases, x \in Alias : UpdateAlias(a, x) =>
           UNCHANGED <<yaml, rows, known, mem, exclusive, at, cfg, wanted, stopped, erased, disturbed>> /\ pending' = pending + 1
    BY DEF UpdateAlias, Spend
  <2>3. \A a \in Aliases : DeleteAlias(a) =>
           UNCHANGED <<yaml, rows, known, mem, exclusive, at, cfg, wanted, stopped, erased, disturbed>> /\ pending' = pending + 1
    BY DEF DeleteAlias, Spend
  <2> QED
    BY <2>1, <2>2, <2>3
<1>2. aliasRows' \in MapsOf(AliasRow) /\ aliasMem' \in MapsOf(Alias)
  <2>1. ASSUME NEW a \in Aliases, NEW x \in Alias, CreateAlias(a, x)
        PROVE  aliasRows' \in MapsOf(AliasRow) /\ aliasMem' \in MapsOf(Alias)
    <3>1. [target |-> x.target, hidden |-> x.hidden, source |-> "db"] \in AliasRow
      BY DEF Alias, AliasRow, Sources
    <3> QED
      BY <1>0, <2>1, <3>1, AliasSet DEF CreateAlias, RegistryTypeOK
  <2>2. ASSUME NEW a \in Aliases, NEW x \in Alias, UpdateAlias(a, x)
        PROVE  aliasRows' \in MapsOf(AliasRow) /\ aliasMem' \in MapsOf(Alias)
    <3>1. a \in DOMAIN aliasRows /\ aliasRows[a] \in AliasRow
      BY <1>0, <2>2 DEF UpdateAlias
    <3>2. aliasRows' = [aliasRows EXCEPT ![a] = [aliasRows[a] EXCEPT !.target = x.target, !.hidden = x.hidden]]
      BY <1>0, <2>2, <3>1 DEF UpdateAlias
    <3>3. [aliasRows[a] EXCEPT !.target = x.target, !.hidden = x.hidden] \in AliasRow
      BY <3>1 DEF Alias, AliasRow
    <3>4. aliasRows' \in [DOMAIN aliasRows -> AliasRow] /\ DOMAIN aliasRows' = DOMAIN aliasRows
      BY <1>0, <3>2, <3>3
    <3>5. aliasRows' \in MapsOf(AliasRow)
      BY <1>0, <3>4, MapsIn
    <3> QED
      BY <1>0, <2>2, <3>5, AliasSet DEF UpdateAlias
  <2>3. ASSUME NEW a \in Aliases, DeleteAlias(a)
        PROVE  aliasRows' \in MapsOf(AliasRow) /\ aliasMem' \in MapsOf(Alias)
    BY <1>0, <2>3, Cut DEF DeleteAlias, RegistryTypeOK
  <2> QED
    BY <2>1, <2>2, <2>3
<1> QED
  BY <1>1, <1>2 DEF RegistryTypeOK

LEMMA PersistTypedReg ==
    ASSUME RegistryTypeOK, Persist PROVE RegistryTypeOK'
<1>1. at' \in [Reloaders -> Places]
  BY GotoTyped, RegistryConstants DEF Places, Persist, ConfigChanged, SnapshotModels, WriteYaml, PersistFails
<1>2. CASE ConfigChanged
  BY <1>1, <1>2 DEF ConfigChanged, fileVars, tableVars, RegistryTypeOK, Places
<1>3. CASE SnapshotModels
  <2>1. SnapshotEntries(rows) \subseteq Entry
    BY SnapshotTyped DEF RegistryTypeOK
  <2>2. [cfg[Admin] EXCEPT !.models = SnapshotEntries(rows)] \in Config
    BY <2>1, RegistryConstants DEF RegistryTypeOK, Config
  <2>3. cfg' \in [Reloaders -> Config]
    BY <1>3, <2>2, RegistryConstants DEF SnapshotModels, RegistryTypeOK
  <2> QED
    BY <1>1, <1>3, <2>3 DEF SnapshotModels, fileVars, tableVars, RegistryTypeOK, Places
<1>4. CASE WriteYaml
  <2>1. SnapshotAliases(aliasRows) \in MapsOf(Alias) /\ cfg[Admin].models \subseteq Entry
    BY SnapshotTyped, RegistryConstants DEF RegistryTypeOK, Config
  <2>2. yaml' \in Config
    BY <1>4, <2>1 DEF WriteYaml, Config
  <2> QED
    BY <1>1, <1>4, <2>2 DEF WriteYaml, tableVars, RegistryTypeOK, Places
<1>5. CASE PersistFails
  BY <1>1, <1>5 DEF PersistFails, fileVars, tableVars, RegistryTypeOK, Places, Disturb
<1> QED
  BY <1>2, <1>3, <1>4, <1>5 DEF Persist

\* Where a step of reloader p leads.
LEMMA ReloadGoes ==
    ASSUME RegistryTypeOK, NEW p \in Reloaders, Reload(p) \/ RequestReload(p)
    PROVE  \E l \in Places : Goto(p, l)
<1>1. ASSUME LoadFails(p) PROVE \E l \in Places : Goto(p, l)
  BY <1>1 DEF LoadFails, Places
<1>2. ASSUME ReadConfig(p) PROVE \E l \in Places : Goto(p, l)
  BY <1>2 DEF ReadConfig, Places
<1> QED
  BY <1>1, <1>2 DEF Reload, RequestReload, ReadFails, ClearStores, BuildStores, SyncDelete, SyncInsert, SyncFails,
     AliasDelete, AliasInsert, LoadDbOnly, LoadDbAliases, RegisterWorkflows, Places

LEMMA ReloadTypedReg ==
    ASSUME RegistryTypeOK, NEW p \in Reloaders, Reload(p) \/ RequestReload(p) PROVE RegistryTypeOK'
<1>1. at' \in [Reloaders -> Places]
  BY GotoTyped, ReloadGoes
<1>0. cfg[p] \in Config /\ cfg[p].models \subseteq Entry /\ cfg[p].aliases \in MapsOf(Alias)
  BY DEF RegistryTypeOK, Config
<1> USE DEF fileVars, tableVars
<1>2. CASE RequestReload(p)
  BY <1>1, <1>2 DEF RequestReload, Disturb, RegistryTypeOK, Places
<1>3. CASE ReadConfig(p)
  BY <1>1, <1>3 DEF ReadConfig, RegistryTypeOK, Places
<1>4. CASE ClearStores(p)
  BY <1>1, <1>4 DEF ClearStores, RegistryTypeOK, Places
<1>5. CASE BuildStores(p)
  <2>1. known' \subseteq Names /\ mem' \subseteq Names \X Deps /\ aliasMem' \in MapsOf(Alias) /\ exclusive' = {}
    BY <1>0, <1>5, BuiltTyped, BuiltAliasesTyped DEF BuildStores
  <2>2. UNCHANGED <<yaml, rows, aliasRows, cfg, pending, wanted, stopped, erased, disturbed>>
    BY <1>5 DEF BuildStores
  <2> QED
    BY <1>1, <2>1, <2>2 DEF RegistryTypeOK, Places
<1>6. CASE SyncDelete(p)
  <2>1. erased' \subseteq Deps
    BY <1>0, <1>6 DEF SyncDelete, RegistryTypeOK, Entry
  <2>2. rows' \subseteq Row
    BY <1>6 DEF SyncDelete, RegistryTypeOK
  <2> QED
    BY <1>1, <1>6, <2>1, <2>2 DEF SyncDelete, RegistryTypeOK, Places
<1>7. CASE SyncInsert(p)
  <2>1. YamlRows(cfg[p]) \subseteq Row
    BY <1>0, YamlRowsTyped
  <2> QED
    BY <1>1, <1>7, <2>1 DEF SyncInsert, RegistryTypeOK, Places
<1>8. CASE SyncFails(p)
  <2>1. YamlRows(cfg[p]) \subseteq Row
    BY <1>0, YamlRowsTyped
  <2>2. rows' \subseteq Row
    BY <1>8, <2>1 DEF SyncFails, RegistryTypeOK
  <2> QED
    BY <1>1, <1>8, <2>2 DEF SyncFails, Disturb, RegistryTypeOK, Places
<1>9. CASE AliasDelete(p)
  <2>1. aliasRows' \in MapsOf(AliasRow)
    BY <1>9, Cut DEF AliasDelete, RegistryTypeOK
  <2> QED
    BY <1>1, <1>9, <2>1 DEF AliasDelete, RegistryTypeOK, Places
<1>10. CASE AliasInsert(p)
  <2> DEFINE new == cfg[p].aliases
             ins(S) == [a \in S |-> [target |-> new[a].target, hidden |-> new[a].hidden, source |-> "yaml"]]
  <2>1. DOMAIN new \subseteq Aliases /\ new \in [DOMAIN new -> Alias]
    BY <1>0, MapsIn
  <2>2. PICK S \in SUBSET DOMAIN new : aliasRows' = Over(ins(S), aliasRows)
    BY <1>10 DEF AliasInsert
  <2>3. \A a \in S : [target |-> new[a].target, hidden |-> new[a].hidden, source |-> "yaml"] \in AliasRow
    BY <2>1 DEF Alias, AliasRow, Sources
  <2>4. ins(S) \in [S -> AliasRow] /\ DOMAIN ins(S) = S /\ S \subseteq Aliases
    BY <2>1, <2>3
  <2> HIDE DEF ins, new
  <2>5. aliasRows' \in MapsOf(AliasRow)
    BY <2>2, <2>4, MapsIn, Joined DEF RegistryTypeOK
  <2> QED
    BY <1>1, <1>10, <2>5 DEF AliasInsert, RegistryTypeOK, Places
<1>11. CASE LoadDbOnly(p)
  <2> DEFINE S == {r \in rows : r.source = "db" /\ r.on /\ r.model \notin exclusive}
  <2>1. PairsOf(S) \subseteq Names \X Deps
    BY PairsTyped DEF RegistryTypeOK
  <2>2. /\ mem' = mem \cup PairsOf(S) /\ known' = known \cup {q[1] : q \in PairsOf(S)}
        /\ UNCHANGED <<yaml, rows, aliasRows, exclusive, aliasMem, cfg, pending, wanted, stopped, erased, disturbed>>
    BY <1>11 DEF LoadDbOnly
  <2> HIDE DEF S
  <2> QED
    BY <1>1, <2>1, <2>2 DEF RegistryTypeOK, Places
<1>12. CASE LoadDbAliases(p)
  <2> DEFINE D == {b \in DOMAIN aliasRows : aliasRows[b].source = "db"}
             new == [a \in D |-> [target |-> aliasRows[a].target, hidden |-> aliasRows[a].hidden]]
  <2>1. DOMAIN aliasRows \subseteq Aliases /\ aliasRows \in [DOMAIN aliasRows -> AliasRow] /\ aliasMem \in MapsOf(Alias)
    BY MapsIn DEF RegistryTypeOK
  <2>2. \A a \in D : [target |-> aliasRows[a].target, hidden |-> aliasRows[a].hidden] \in Alias
    BY <2>1 DEF Alias, AliasRow
  <2>3. new \in [D -> Alias] /\ DOMAIN new = D /\ D \subseteq Aliases /\ aliasMem' = Over(new, aliasMem)
    BY <1>12, <2>1, <2>2 DEF LoadDbAliases
  <2> HIDE DEF new, D
  <2>4. aliasMem' \in MapsOf(Alias)
    BY <2>1, <2>3, MapsIn, Joined
  <2> QED
    BY <1>1, <1>12, <2>4 DEF LoadDbAliases, RegistryTypeOK, Places
<1>13. CASE LoadFails(p)
  BY <1>1, <1>13 DEF LoadFails, Disturb, RegistryTypeOK, Places
<1>14. CASE RegisterWorkflows(p)
  BY <1>1, <1>14 DEF RegisterWorkflows, RegistryTypeOK, Places
<1>15. CASE ReadFails(p)
  BY <1>1, <1>15 DEF ReadFails, Disturb, RegistryTypeOK, Places
<1> QED
  BY <1>15, <1>2, <1>3, <1>4, <1>5, <1>6, <1>7, <1>8, <1>9, <1>10, <1>11, <1>12, <1>13, <1>14 DEF Reload

LEMMA RegistryTyped == ASSUME RegistryTypeOK, left.forms \subseteq Entry, RegistryNext PROVE RegistryTypeOK'
BY ModelEditTyped, AliasEditTyped, PersistTypedReg, ReloadTypedReg DEF RegistryNext, Edit

LEMMA RegistryKept == ASSUME RegistryTypeOK, UNCHANGED registryVars PROVE RegistryTypeOK'
BY DEF RegistryTypeOK, registryVars

LEMMA IdleJob == Idle \in Job /\ Idle.at = "idle"
BY DEF Idle, Job, Steps, Names

LEMMA CapTyped == ASSUME NEW n \in 0 .. Threshold PROVE Cap(n + 1) \in 0 .. Threshold
BY HealthConstants DEF Cap

LEMMA ZeroTyped ==
    ASSUME NEW f \in [Deps -> 0 .. Threshold], NEW d PROVE [f EXCEPT ![d] = 0] \in [Deps -> 0 .. Threshold]
<1>1. 0 \in 0 .. Threshold
  BY HealthConstants
<1> DEFINE T == 0 .. Threshold
<1> HIDE DEF T
<1>2. [f EXCEPT ![d] = 0] \in [Deps -> T]
  BY <1>1 DEF T
<1> QED
  BY <1>2 DEF T

\* One worker's job is replaced by another.
LEMMA JobTyped ==
    ASSUME TypeOK, NEW w \in Workers, NEW j \in Job, job' = [job EXCEPT ![w] = j]
    PROVE  job' \in [Workers -> Job] /\ job'[w] = j /\ \A v \in Workers : v # w => job'[v] = job[v]
BY DEF TypeOK

LEMMA WorkTyped ==
    ASSUME TypeOK, NEW w \in Workers, NEW l \in Steps, Work(w, l)
    PROVE  job' \in [Workers -> Job] /\ job'[w].at = l /\ \A v \in Workers : v # w => job'[v] = job[v]
<1>1. job[w] \in Job
  BY DEF TypeOK
<1>2. [job[w] EXCEPT !.at = l] \in Job /\ [job[w] EXCEPT !.at = l].at = l
  BY <1>1 DEF Job
<1>3. job' = [job EXCEPT ![w] = [job[w] EXCEPT !.at = l]]
  BY DEF Work
<1> QED
  BY <1>2, <1>3, JobTyped

LEMMA RequestTyped ==
    ASSUME TypeOK, NEW d \in Deps, Flip(d) \/ SelectProvider(d) \/ RequestSucceeds(d) \/ RequestFails(d)
    PROVE  TypeOK'
<1>1. CASE Flip(d)
  <2>1. RegistryTypeOK'
    BY <1>1 DEF Flip, Spend, fileVars, tableVars, procVars, TypeOK, RegistryTypeOK
  <2> QED
    BY <1>1, <2>1 DEF Flip, TypeOK
<1>2. CASE SelectProvider(d)
  BY <1>2, RegistryKept DEF SelectProvider, TypeOK
<1>3. CASE RequestSucceeds(d)
  BY <1>3, RegistryKept, HealthConstants DEF RequestSucceeds, TypeOK
<1>4. CASE RequestFails(d)
  <2>1. RegistryTypeOK' /\ UNCHANGED <<up, bad, good>> /\ inuse' \subseteq Deps
    BY <1>4, RegistryKept DEF RequestFails, TypeOK
  <2>2. failures' \in [Deps -> 0 .. Threshold]
    BY <1>4, CapTyped DEF RequestFails, TypeOK
  <2>3. job' \in [Workers -> Job]
    <3>1. CASE UNCHANGED job
      BY <3>1 DEF TypeOK
    <3>2. ASSUME NEW w \in Spawned, job' = [job EXCEPT ![w].at = "update", ![w].id = d]
          PROVE  job' \in [Workers -> Job]
      <4>1. w \in Workers /\ job[w] \in Job
        BY DEF TypeOK, Workers
      <4>2. [job[w] EXCEPT !.at = "update", !.id = d] \in Job
        BY <4>1 DEF Job, Steps
      <4>3. job' = [job EXCEPT ![w] = [job[w] EXCEPT !.at = "update", !.id = d]]
        BY <3>2, <4>1 DEF TypeOK
      <4> QED
        BY <4>1, <4>2, <4>3, JobTyped
    <3> QED
      BY <1>4, <3>1, <3>2 DEF RequestFails
  <2> QED
    BY <2>1, <2>2, <2>3 DEF TypeOK
<1> QED
  BY <1>1, <1>2, <1>3, <1>4

LEMMA ProbeTyped ==
    ASSUME TypeOK, NEW w \in Workers, Scan(w) \/ (\E t \in job[w].targets : Skip(w, t) \/ Probe(w, t)) PROVE TypeOK'
<1>0. job[w] \in Job /\ job[w].targets \subseteq Names \X Deps
  BY DEF TypeOK, Job
<1>1. CASE Scan(w)
  <2> DEFINE F == {x \in rows : IF w = Offline THEN x.on ELSE ~x.on /\ x.auto}
  <2>1. PairsOf(F) \subseteq Names \X Deps
    BY PairsTyped DEF TypeOK, RegistryTypeOK
  <2>2. job' = [job EXCEPT ![w].at = "scan", ![w].targets = PairsOf(F)] /\ UNCHANGED <<registryVars, up, inuse, failures, bad, good>>
    BY <1>1 DEF Scan
  <2> HIDE DEF F
  <2>3. job' = [job EXCEPT ![w] = [job[w] EXCEPT !.at = "scan", !.targets = PairsOf(F)]]
    BY <2>2 DEF TypeOK
  <2>4. [job[w] EXCEPT !.at = "scan", !.targets = PairsOf(F)] \in Job
    BY <1>0, <2>1 DEF Job, Steps
  <2>5. job' \in [Workers -> Job]
    BY <2>3, <2>4, JobTyped
  <2> QED
    BY <2>2, <2>5, RegistryKept DEF TypeOK
<1>2. ASSUME NEW t \in job[w].targets, Probe(w, t) PROVE TypeOK'
  <2> DEFINE d == t[2]
             rest == job[w].targets \ {t}
             l == IF Reached(w, d) THEN "update" ELSE IF rest = {} THEN "idle" ELSE "scan"
  <2>1. d \in Deps /\ rest \subseteq Names \X Deps /\ l \in Steps
    BY <1>0 DEF Steps
  <2>2. job' = [job EXCEPT ![w] = [job[w] EXCEPT !.targets = rest, !.id = d, !.at = l]]
    BY <1>2 DEF Probe
  <2>3. Probed(w, d) /\ UNCHANGED <<registryVars, up, inuse, failures>>
    BY <1>2 DEF Probe
  <2> HIDE DEF d, rest, l
  <2>4. [job[w] EXCEPT !.targets = rest, !.id = d, !.at = l] \in Job
    BY <1>0, <2>1 DEF Job
  <2>5. job' \in [Workers -> Job]
    BY <2>2, <2>4, JobTyped
  <2>6. bad' \in [Deps -> 0 .. Threshold] /\ good' \in [Deps -> 0 .. Threshold]
    BY <2>1, <2>3, CapTyped, HealthConstants DEF Probed, TypeOK
  <2> QED
    BY <2>3, <2>5, <2>6, RegistryKept DEF TypeOK
<1>3. ASSUME NEW t \in job[w].targets, Skip(w, t) PROVE TypeOK'
  <2> DEFINE rest == job[w].targets \ {t}
             l == IF rest = {} THEN "idle" ELSE "scan"
  <2>1. rest \subseteq Names \X Deps /\ l \in Steps
    BY <1>0 DEF Steps
  <2>2. job' = [job EXCEPT ![w] = [job[w] EXCEPT !.targets = rest, !.at = l]]
    BY <1>3 DEF Skip, TypeOK
  <2>3. UNCHANGED <<registryVars, up, inuse, failures, bad, good>>
    BY <1>3 DEF Skip
  <2> HIDE DEF rest, l
  <2>4. [job[w] EXCEPT !.targets = rest, !.at = l] \in Job
    BY <1>0, <2>1 DEF Job
  <2>5. job' \in [Workers -> Job]
    BY <2>2, <2>4, JobTyped
  <2> QED
    BY <2>3, <2>5, RegistryKept DEF TypeOK
<1> QED
  BY <1>1, <1>2, <1>3

LEMMA SwitchedTyped == ASSUME NEW w, NEW r \in Row PROVE Switched(w, r) \in Row
BY DEF Switched, Row

LEMMA WorkerTyped ==
    ASSUME TypeOK, NEW w \in Workers,
           UpdateRow(w) \/ LoadModelRows(w) \/ SetDeployments(w) \/ ClearCounters(w) \/ HealthQueryFails(w)
    PROVE  TypeOK'
<1>0. job[w] \in Job /\ "clear" \in Steps
  BY DEF TypeOK, Job, Steps
<1>1. CASE UpdateRow(w)
  <2>1. UNCHANGED <<yaml, aliasRows, tableVars, procVars, left, marks, up, inuse, failures, bad, good>>
        /\ disturbed' \in BOOLEAN
    BY <1>1 DEF UpdateRow, TypeOK, RegistryTypeOK
  <2>2. CASE Work(w, "clear") /\ UNCHANGED rows
    <3>1. job' \in [Workers -> Job]
      BY <1>0, <2>2, WorkTyped
    <3> QED
      BY <2>1, <2>2, <3>1 DEF TypeOK, RegistryTypeOK, tableVars, procVars
  <2>3. ASSUME NEW r \in Matched(w), rows' = (rows \ Matched(w)) \cup {Switched(w, x) : x \in Matched(w)},
               job' = [job EXCEPT ![w].at = "read", ![w].model = r.model]
        PROVE  TypeOK'
    <3>1. r \in rows /\ r.model \in Names
      BY DEF Matched, TypeOK, RegistryTypeOK, Row
    <3>2. [job[w] EXCEPT !.at = "read", !.model = r.model] \in Job
      BY <1>0, <3>1 DEF Job, Steps
    <3>3. job' = [job EXCEPT ![w] = [job[w] EXCEPT !.at = "read", !.model = r.model]]
      BY <2>3 DEF TypeOK
    <3>4. job' \in [Workers -> Job]
      BY <3>2, <3>3, JobTyped
    <3>5. rows' \subseteq Row
      BY <2>3, SwitchedTyped DEF Matched, TypeOK, RegistryTypeOK
    <3> QED
      BY <2>1, <3>4, <3>5 DEF TypeOK, RegistryTypeOK, tableVars, procVars
  <2> QED
    BY <1>1, <2>2, <2>3 DEF UpdateRow
<1>2. CASE LoadModelRows(w)
  <2> DEFINE G == EnabledIds(rows, job[w].model)
  <2>1. G \subseteq Deps
    BY DEF EnabledIds, TypeOK, RegistryTypeOK, Row
  <2>2. job' = [job EXCEPT ![w] = [job[w] EXCEPT !.at = "set", !.got = G]]
        /\ UNCHANGED <<registryVars, up, inuse, failures, bad, good>>
    BY <1>2 DEF LoadModelRows, TypeOK
  <2> HIDE DEF G
  <2>3. [job[w] EXCEPT !.at = "set", !.got = G] \in Job
    BY <1>0, <2>1 DEF Job, Steps
  <2>4. job' \in [Workers -> Job]
    BY <2>2, <2>3, JobTyped
  <2> QED
    BY <2>2, <2>4, RegistryKept DEF TypeOK
<1>3. CASE SetDeployments(w)
  <2>1. job' \in [Workers -> Job]
    BY <1>0, <1>3, WorkTyped DEF SetDeployments
  <2>2. job[w].model \in Names /\ job[w].got \subseteq Deps
    BY <1>0 DEF Job
  <2>3. mem' \subseteq Names \X Deps /\ known' \subseteq Names \cup Virtual
    BY <1>3, <2>2 DEF SetDeployments, TypeOK, RegistryTypeOK
  <2>4. UNCHANGED <<fileVars, exclusive, aliasMem, procVars, left, marks, up, inuse, failures, bad, good>>
        /\ disturbed' \in BOOLEAN
    BY <1>3 DEF SetDeployments, TypeOK, RegistryTypeOK
  <2> QED
    BY <2>1, <2>3, <2>4 DEF TypeOK, RegistryTypeOK, fileVars, procVars
<1>4. CASE ClearCounters(w)
  <2> DEFINE j == IF job[w].targets = {} THEN Idle ELSE [Idle EXCEPT !.at = "scan", !.targets = job[w].targets]
  <2>1. j \in Job
    BY <1>0, IdleJob DEF Job, Steps
  <2>2. job' = [job EXCEPT ![w] = j]
    BY <1>4 DEF ClearCounters
  <2> HIDE DEF j
  <2>3. job' \in [Workers -> Job]
    BY <2>1, <2>2, JobTyped
  <2>4. failures' \in [Deps -> 0 .. Threshold] /\ bad' \in [Deps -> 0 .. Threshold] /\ good' \in [Deps -> 0 .. Threshold]
    BY <1>4, ZeroTyped DEF ClearCounters, TypeOK
  <2> QED
    BY <1>4, <2>3, <2>4, RegistryKept DEF ClearCounters, TypeOK
<1>5. CASE HealthQueryFails(w)
  <2>1. job' \in [Workers -> Job] /\ disturbed' \in BOOLEAN
    BY <1>0, <1>5, WorkTyped DEF HealthQueryFails, Spend, Disturb, TypeOK, RegistryTypeOK
  <2> QED
    BY <1>5, <2>1 DEF HealthQueryFails, TypeOK, RegistryTypeOK, fileVars, tableVars, procVars
<1> QED
  BY <1>1, <1>2, <1>3, <1>4, <1>5

LEMMA HealthTyped == ASSUME TypeOK, HealthNext PROVE TypeOK'
BY RequestTyped, ProbeTyped, WorkerTyped DEF HealthNext, Step

LEMMA HealthInitTyped == ASSUME Init PROVE TypeOK
<1>1. RegistryTypeOK
  BY RegistryInitTyped DEF Init
<1> QED
  BY <1>1, IdleJob, HealthConstants DEF Init, HealthInit, TypeOK

\* The scenario keeps its shape while its bounds are counted down.
Bounded == left \in Scenario

LEMMA UseTyped ==
    ASSUME Bounded, NEW what \in {"edits", "reloads", "faults", "flips"}, Use(what) PROVE Bounded'
<1> USE DEF Bounded, Scenario, Use
<1>1. CASE what = "edits"
  BY <1>1
<1>2. CASE what = "reloads"
  BY <1>2
<1>3. CASE what = "faults"
  BY <1>3
<1>4. CASE what = "flips"
  BY <1>4
<1> QED
  BY <1>1, <1>2, <1>3, <1>4

LEMMA BoundedStep == ASSUME Bounded, [Next]_vars PROVE Bounded'
<1> SUFFICES UNCHANGED left \/ \E what \in {"edits", "reloads", "faults", "flips"} : Use(what)
  BY UseTyped DEF Bounded
<1>1. CASE HealthNext
  BY <1>1 DEF HealthNext, Flip, SelectProvider, RequestSucceeds, RequestFails, Step, Scan, Skip, Probe, UpdateRow,
       LoadModelRows, SetDeployments, HealthQueryFails, ClearCounters, Spend, Disturb, registryVars
<1>2. CASE Edit
  BY <1>2 DEF Edit, CreateModel, UpdateModel, DeleteModel, CreateAlias, UpdateAlias, DeleteAlias, Spend
<1>3. CASE Persist
  BY <1>3 DEF Persist, ConfigChanged, SnapshotModels, WriteYaml, PersistFails, Disturb
<1>4. ASSUME NEW p \in Reloaders, RequestReload(p) \/ Reload(p)
      PROVE  UNCHANGED left \/ \E what \in {"edits", "reloads", "faults", "flips"} : Use(what)
  BY <1>4 DEF RequestReload, Reload, ReadConfig, ReadFails, ClearStores, BuildStores, SyncDelete, SyncInsert, SyncFails,
     AliasDelete, AliasInsert, LoadDbOnly, LoadDbAliases, LoadFails, RegisterWorkflows, Disturb
<1>5. CASE UNCHANGED vars
  BY <1>5 DEF vars, registryVars
<1> QED
  BY <1>1, <1>2, <1>3, <1>4, <1>5 DEF Next, RegistryNext

LEMMA BoundedInit == ASSUME Init PROVE Bounded
BY RegistryConstants DEF Init, RegistryInit, Bounded

LEMMA TypeStep == ASSUME TypeOK, Bounded, [Next]_vars PROVE TypeOK'
<1>1. CASE HealthNext
  BY <1>1, HealthTyped
<1>2. CASE RegistryNext /\ UNCHANGED healthVars
  <2>1. left.forms \subseteq Entry
    BY DEF Bounded, Scenario
  <2> QED
    BY <1>2, <2>1, RegistryTyped DEF TypeOK, healthVars
<1>3. CASE UNCHANGED vars
  BY <1>3, RegistryKept DEF TypeOK, vars, healthVars
<1> QED
  BY <1>1, <1>2, <1>3 DEF Next

\* File, rows, routing tables, reloaders and health tasks keep their types.
THEOREM TypeCorrect == Spec => []TypeOK
<1>1. Init => TypeOK /\ Bounded
  BY HealthInitTyped, BoundedInit
<1>2. TypeOK /\ Bounded /\ [Next]_vars => (TypeOK /\ Bounded)'
  BY TypeStep, BoundedStep
<1> QED
  BY <1>1, <1>2, PTL DEF Spec
-----------------------------------------------------------------------------
(***************************************************************************)
(* DeploymentHealth: no deployment is lost, routing and rows agree.        *)
(***************************************************************************)
LEMMA SnapshotPairs == ASSUME NEW R PROVE PairsOf(SnapshotEntries(R)) = PairsOf(R)
<1> DEFINE snap(r) == [model |-> r.model, id |-> r.id, on |-> r.on, wild |-> r.wild]
<1>1. SnapshotEntries(R) = {snap(r) : r \in R} /\ \A r : snap(r).model = r.model /\ snap(r).id = r.id
  BY DEF SnapshotEntries
<1> HIDE DEF snap
<1> QED
  BY <1>1 DEF PairsOf

\* What a snapshot of the rows holds is deleted in full before it is inserted again.
LEMMA SnapshotNames ==
    ASSUME NEW R, NEW c, c.models = SnapshotEntries(R) PROVE \A r \in R : r.model \in YamlNames(c)
<1> DEFINE snap(r) == [model |-> r.model, id |-> r.id, on |-> r.on, wild |-> r.wild]
<1>1. SnapshotEntries(R) = {snap(r) : r \in R} /\ \A r : snap(r).model = r.model
  BY DEF SnapshotEntries
<1> HIDE DEF snap
<1> QED
  BY <1>1 DEF YamlNames

LEMMA YamlPairs == ASSUME NEW c PROVE PairsOf(c.models) \subseteq PairsOf(YamlRows(c))
<1>1. \A e : DeploymentRow(e, "yaml").model = e.model /\ DeploymentRow(e, "yaml").id = e.id
  BY DEF DeploymentRow
<1>2. \A e \in c.models : DeploymentRow(e, "yaml") \in YamlRows(c)
  BY DEF YamlRows
<1> QED
  BY <1>1, <1>2 DEF PairsOf

\* The providers that a file builds for an ordinary name are those of its rows.
LEMMA BuiltAgrees ==
    ASSUME NEW c \in Config, NEW n \in Models
    PROVE  {d \in Deps : <<n, d>> \in BuiltFromConfig(c)} = EnabledIds(YamlRows(c), n)
<1>0. c.models \subseteq Entry /\ n # Star
  BY RegistryConstants DEF Config
<1>1. \A e : LET r == DeploymentRow(e, "yaml") IN r.model = e.model /\ r.id = e.id /\ r.on = e.on
  BY DEF DeploymentRow
<1>2. ASSUME NEW d \in Deps, <<n, d>> \in BuiltFromConfig(c) PROVE d \in EnabledIds(YamlRows(c), n)
  <2>1. PICK e \in c.models : e.on /\ e.model = n /\ e.id = d
    BY <1>0, <1>2 DEF BuiltFromConfig, PairsOf
  <2>2. DeploymentRow(e, "yaml") \in YamlRows(c)
    BY DEF YamlRows
  <2> QED
    BY <1>1, <2>1, <2>2 DEF EnabledIds
<1>3. ASSUME NEW d \in EnabledIds(YamlRows(c), n) PROVE d \in Deps /\ <<n, d>> \in BuiltFromConfig(c)
  <2>1. PICK r \in YamlRows(c) : r.model = n /\ r.on /\ r.id = d
    BY DEF EnabledIds
  <2>2. \A e \in c.models : DeploymentRow([e EXCEPT !.model = Star], "yaml").model = Star
    BY <1>0, <1>1 DEF Entry
  <2>3. PICK e \in c.models : r = DeploymentRow(e, "yaml")
    <3> DEFINE copy(e) == DeploymentRow([e EXCEPT !.model = Star], "yaml")
    <3>1. \E e \in c.models : r = DeploymentRow(e, "yaml") \/ r = copy(e)
      BY <2>1 DEF YamlRows
    <3>2. \A e \in c.models : r # copy(e)
      BY <1>0, <2>1, <2>2
    <3> QED
      BY <3>1, <3>2
  <2>4. e.model = n /\ e.on /\ e.id = d
    BY <1>1, <2>1, <2>3
  <2>5. d \in Deps
    BY <1>0, <2>4 DEF Entry
  <2> QED
    BY <2>4, <2>5 DEF BuiltFromConfig, PairsOf
<1> QED
  BY <1>2, <1>3

Agreed(n) == Providers(n) = EnabledIds(rows, n)
Setting(n) == \E w \in Workers : job[w].at \in {"read", "set"} /\ job[w].model = n

\* Only the command handler persists and reloads, and at each of its places file,
\* rows and routing stand like this.  At rest, a model may differ from its rows
\* only while some health task is about to set it.
AtRest ==
    /\ \A n \in Models : Agreed(n) \/ Setting(n)
    /\ wanted \subseteq PairsOf(yaml.models)

Replaced == {"insert", "aliasdelete", "aliasinsert", "load", "loadalias", "workflows"}

Course ==
    /\ \A p \in Reloaders : p # Admin => at[p] = "idle"
    /\ at[Admin] = "idle" => AtRest
    /\ at[Admin] \in {"idle", "snapshot", "write", "read"} => wanted \subseteq PairsOf(rows)
    /\ at[Admin] = "write" => cfg[Admin].models = SnapshotEntries(rows)
    /\ at[Admin] = "read" => yaml.models = SnapshotEntries(rows)
    /\ at[Admin] \in {"clear", "build", "delete"} => cfg[Admin].models = SnapshotEntries(rows)
    /\ at[Admin] \in {"clear", "build", "delete"} \cup Replaced =>
          cfg[Admin].models = yaml.models /\ wanted \subseteq PairsOf(yaml.models)
    /\ at[Admin] \in {"delete"} \cup Replaced => mem = BuiltFromConfig(cfg[Admin])
    /\ at[Admin] = "insert" => rows = {}
    /\ at[Admin] \in Replaced \ {"insert"} => rows = YamlRows(cfg[Admin])

RegistryInv == ~disturbed => Course

\* A step that leaves file, rows, routing and the handler alone.
LEMMA CourseKept ==
    ASSUME Course, UNCHANGED <<yaml, rows, mem, at, cfg, wanted>>, \A n \in Models : Setting(n) => Setting(n)'
    PROVE  Course'
<1>1. AtRest => AtRest'
  BY DEF AtRest, Agreed, Providers
<1> QED
  BY <1>1 DEF Course

\* A worker that is not about to set a model takes another step.
LEMMA SettingKept ==
    ASSUME TypeOK, NEW w \in Workers, job[w].at \notin {"read", "set"},
           \A v \in Workers : v # w => job'[v] = job[v], NEW n, Setting(n)
    PROVE  Setting(n)'
BY DEF Setting

LEMMA CourseInit == ASSUME Init PROVE Course
<1>1. PICK s \in Scenarios :
         /\ yaml = s.file
         /\ rows = {[r EXCEPT !.on = @ /\ r.id \notin s.off, !.auto = r.on /\ r.id \in s.off] : r \in YamlRows(s.file)}
         /\ mem = {p \in BuiltFromConfig(s.file) : p[2] \notin s.off}
         /\ at = [p \in Reloaders |-> "idle"]
         /\ wanted = PairsOf(s.file.models)
  BY DEF Init, RegistryInit
<1> DEFINE c == s.file
           row(r) == [r EXCEPT !.on = r.on /\ r.id \notin s.off, !.auto = r.on /\ r.id \in s.off]
<1>2. c \in Config /\ YamlRows(c) \subseteq Row
  BY ScenarioTyped, YamlRowsTyped
<1>3. \A r \in YamlRows(c) : row(r).model = r.model /\ row(r).id = r.id /\ (row(r).on <=> r.on /\ r.id \notin s.off)
  BY <1>2 DEF Row
<1>4. rows = {row(r) : r \in YamlRows(c)}
  BY <1>1
<1> HIDE DEF row
<1>5. wanted \subseteq PairsOf(rows)
  <2>1. PairsOf(c.models) \subseteq PairsOf(YamlRows(c))
    BY YamlPairs
  <2>2. PairsOf(YamlRows(c)) \subseteq PairsOf(rows)
    BY <1>3, <1>4 DEF PairsOf
  <2> QED
    BY <1>1, <2>1, <2>2
<1>6. ASSUME NEW n \in Models PROVE Agreed(n)
  <2>1. {d \in Deps : <<n, d>> \in BuiltFromConfig(c)} = EnabledIds(YamlRows(c), n)
    BY <1>2, BuiltAgrees
  <2>2. Providers(n) = {d \in Deps : <<n, d>> \in BuiltFromConfig(c)} \ s.off
    BY <1>1 DEF Providers
  <2>3. EnabledIds(rows, n) = EnabledIds(YamlRows(c), n) \ s.off
    BY <1>3, <1>4 DEF EnabledIds
  <2> QED
    BY <2>1, <2>2, <2>3 DEF Agreed
<1>7. AtRest
  BY <1>1, <1>6 DEF AtRest
<1> QED
  BY <1>1, <1>5, <1>7, RegistryConstants DEF Course, Replaced

LEMMA AdminOnly ==
    ASSUME Course, NEW p \in Reloaders, Reload(p) PROVE p = Admin
BY DEF Course, Reload, ReadConfig, ReadFails, ClearStores, BuildStores, SyncDelete, SyncInsert, SyncFails,
     AliasDelete, AliasInsert, LoadDbOnly, LoadDbAliases, LoadFails, RegisterWorkflows

\* The handler changes a deployment's row.
LEMMA CourseModelEdit ==
    ASSUME TypeOK, Course,
           \/ \E e \in Entry : CreateModel(e)
           \/ \E r \in rows, e \in Entry : UpdateModel(r, e)
           \/ \E r \in rows : DeleteModel(r)
    PROVE  Course'
<1>1. at[Admin] = "idle" /\ Goto(Admin, "snapshot") /\ wanted \subseteq PairsOf(rows)
  BY DEF CreateModel, UpdateModel, DeleteModel, Course
<1>2. at'[Admin] = "snapshot" /\ \A q \in Reloaders : q # Admin => at'[q] = at[q]
  BY <1>1, GotoTyped, RegistryConstants DEF TypeOK, Places
<1>3. wanted' \subseteq PairsOf(rows')
  <2>1. ASSUME NEW e \in Entry, CreateModel(e) PROVE wanted' \subseteq PairsOf(rows')
    <3>1. rows' = rows \cup {DeploymentRow(e, "db")} /\ wanted' = wanted \cup {<<e.model, e.id>>}
      BY <2>1 DEF CreateModel
    <3>2. DeploymentRow(e, "db").model = e.model /\ DeploymentRow(e, "db").id = e.id
      BY DEF DeploymentRow
    <3> QED
      BY <1>1, <3>1, <3>2 DEF PairsOf
  <2>2. ASSUME NEW r \in rows, NEW e \in Entry, UpdateModel(r, e) PROVE wanted' \subseteq PairsOf(rows')
    <3> DEFINE x == [DeploymentRow(e, r.source) EXCEPT !.auto = ~e.on /\ ~r.on /\ r.auto]
    <3>1. /\ rows' = (rows \ {r}) \cup {x}
          /\ wanted' = (wanted \ (PairsOf({r}) \ PairsOf(rows \ {r}))) \cup {<<e.model, e.id>>}
      BY <2>2 DEF UpdateModel
    <3>2. x.model = e.model /\ x.id = e.id
      BY DEF DeploymentRow
    <3> HIDE DEF x
    <3> QED
      BY <1>1, <3>1, <3>2 DEF PairsOf
  <2>3. ASSUME NEW r \in rows, DeleteModel(r) PROVE wanted' \subseteq PairsOf(rows')
    BY <1>1, <2>3 DEF DeleteModel, PairsOf
  <2> QED
    BY <2>1, <2>2, <2>3
<1> QED
  BY <1>2, <1>3 DEF Course, Replaced

LEMMA CoursePersist ==
    ASSUME TypeOK, Course, Persist, ~disturbed' PROVE Course'
<1> USE RegistryConstants DEF fileVars, tableVars
<1>1. CASE ConfigChanged
  <2>1. at'[Admin] = "snapshot" /\ \A q \in Reloaders : q # Admin => at'[q] = at[q]
    BY <1>1, GotoTyped DEF ConfigChanged, TypeOK, Places
  <2> QED
    BY <1>1, <2>1 DEF ConfigChanged, Course, Replaced
<1>2. CASE SnapshotModels
  <2>1. at'[Admin] = "write" /\ \A q \in Reloaders : q # Admin => at'[q] = at[q]
    BY <1>2, GotoTyped DEF SnapshotModels, TypeOK, Places
  <2>2. cfg[Admin] \in Config /\ cfg'[Admin] = [cfg[Admin] EXCEPT !.models = SnapshotEntries(rows)]
    BY <1>2 DEF SnapshotModels, TypeOK, RegistryTypeOK
  <2>3. cfg'[Admin].models = SnapshotEntries(rows)
    BY <2>2 DEF Config
  <2> QED
    BY <1>2, <2>1, <2>3 DEF SnapshotModels, Course, Replaced
<1>3. CASE WriteYaml
  <2>1. at'[Admin] = "read" /\ \A q \in Reloaders : q # Admin => at'[q] = at[q]
    BY <1>3, GotoTyped DEF WriteYaml, TypeOK, Places
  <2> QED
    BY <1>3, <2>1 DEF WriteYaml, Course, Replaced
<1>4. CASE PersistFails
  BY <1>4 DEF PersistFails, Disturb
<1> QED
  BY <1>1, <1>2, <1>3, <1>4 DEF Persist

\* No database row of a model or an alias has the name of a workflow.
LEMMA NoConflict == ASSUME TypeOK PROVE WorkflowConflicts = {}
<1>1. \A r \in rows : r.model \in Names
  BY DEF TypeOK, RegistryTypeOK, Row
<1>2. DOMAIN aliasRows \subseteq Aliases
  BY MapsIn DEF TypeOK, RegistryTypeOK
<1> QED
  BY <1>1, <1>2, RegistryConstants DEF WorkflowConflicts

LEMMA CourseReload ==
    ASSUME TypeOK, Course, Reload(Admin), ~disturbed' PROVE Course'
<1>0. cfg[Admin] \in Config /\ Admin \in Reloaders /\ rows \subseteq Row
  BY RegistryConstants DEF TypeOK, RegistryTypeOK
<1>a. ASSUME NEW l \in Places, Goto(Admin, l)
      PROVE  at'[Admin] = l /\ \A q \in Reloaders : q # Admin => at'[q] = "idle"
  BY <1>0, <1>a, GotoTyped DEF TypeOK, Course
<1> USE DEF fileVars, tableVars
<1>1. CASE ReadConfig(Admin)
  <2>1. at'[Admin] = "clear" /\ \A q \in Reloaders : q # Admin => at'[q] = "idle"
    BY <1>1, <1>a, NoConflict DEF ReadConfig, Places
  <2>2. cfg'[Admin] = yaml /\ yaml' = yaml /\ rows' = rows /\ wanted' = wanted
    BY <1>0, <1>1 DEF ReadConfig, TypeOK, RegistryTypeOK
  <2>3. wanted \subseteq PairsOf(rows) /\ yaml.models = SnapshotEntries(rows)
    BY <1>1 DEF ReadConfig, Course
  <2>4. wanted \subseteq PairsOf(yaml.models)
    BY <2>3, SnapshotPairs
  <2> QED
    BY <2>1, <2>2, <2>3, <2>4 DEF Course, Replaced
<1>2. CASE ClearStores(Admin)
  <2>1. at'[Admin] = "build" /\ \A q \in Reloaders : q # Admin => at'[q] = "idle"
    BY <1>2, <1>a DEF ClearStores, Places
  <2> QED
    BY <1>2, <2>1 DEF ClearStores, Course, Replaced
<1>3. CASE BuildStores(Admin)
  <2>1. at'[Admin] = "delete" /\ \A q \in Reloaders : q # Admin => at'[q] = "idle"
    BY <1>3, <1>a DEF BuildStores, Places
  <2> QED
    BY <1>3, <2>1 DEF BuildStores, Course, Replaced
<1>4. CASE SyncDelete(Admin)
  <2>1. at'[Admin] = "insert" /\ \A q \in Reloaders : q # Admin => at'[q] = "idle"
    BY <1>4, <1>a DEF SyncDelete, Places
  <2>2. at[Admin] = "delete" /\ UNCHANGED <<yaml, mem, cfg, wanted>>
    BY <1>4 DEF SyncDelete
  <2>3. cfg[Admin].models = SnapshotEntries(rows)
    BY <2>2 DEF Course
  <2>4. rows' = {}
    BY <1>4, <2>3, SnapshotNames DEF SyncDelete
  <2> QED
    BY <2>1, <2>2, <2>4 DEF Course, Replaced
<1>5. CASE SyncInsert(Admin)
  <2>1. at'[Admin] = "aliasdelete" /\ \A q \in Reloaders : q # Admin => at'[q] = "idle"
    BY <1>5, <1>a DEF SyncInsert, Places
  <2>2. at[Admin] = "insert" /\ UNCHANGED <<yaml, mem, cfg, wanted>>
    BY <1>5 DEF SyncInsert
  <2>3. rows' = YamlRows(cfg[Admin])
    BY <1>5, <2>2 DEF SyncInsert, Course
  <2> QED
    BY <2>1, <2>2, <2>3 DEF Course, Replaced
<1>6. CASE SyncFails(Admin) \/ LoadFails(Admin) \/ ReadFails(Admin)
  BY <1>6 DEF SyncFails, LoadFails, ReadFails, Disturb
<1>7. CASE AliasDelete(Admin)
  <2>1. at'[Admin] = "aliasinsert" /\ \A q \in Reloaders : q # Admin => at'[q] = "idle"
    BY <1>7, <1>a DEF AliasDelete, Places
  <2>2. at[Admin] = "aliasdelete" /\ UNCHANGED <<yaml, rows, mem, cfg, wanted>>
    BY <1>7 DEF AliasDelete
  <2> QED
    BY <2>1, <2>2 DEF Course, Replaced
<1>8. CASE AliasInsert(Admin)
  <2>1. at'[Admin] = "load" /\ \A q \in Reloaders : q # Admin => at'[q] = "idle"
    BY <1>8, <1>a DEF AliasInsert, Places
  <2>2. at[Admin] = "aliasinsert" /\ UNCHANGED <<yaml, rows, mem, cfg, wanted>>
    BY <1>8 DEF AliasInsert
  <2> QED
    BY <2>1, <2>2 DEF Course, Replaced
<1>9. CASE LoadDbOnly(Admin)
  <2>1. at'[Admin] = "loadalias" /\ \A q \in Reloaders : q # Admin => at'[q] = "idle"
    BY <1>9, <1>a DEF LoadDbOnly, Places
  <2>2. at[Admin] = "load" /\ UNCHANGED <<yaml, rows, cfg, wanted>>
    BY <1>9 DEF LoadDbOnly
  <2>3. rows = YamlRows(cfg[Admin])
    BY <2>2 DEF Course, Replaced
  <2>4. {r \in rows : r.source = "db" /\ r.on /\ r.model \notin exclusive} = {}
    BY <1>0, <2>3, YamlRowsTyped
  <2>5. PairsOf({}) = {}
    BY DEF PairsOf
  <2>6. mem' = mem
    BY <1>9, <2>4, <2>5 DEF LoadDbOnly
  <2> QED
    BY <2>1, <2>2, <2>6 DEF Course, Replaced
<1>10. CASE LoadDbAliases(Admin)
  <2>1. at'[Admin] = "workflows" /\ \A q \in Reloaders : q # Admin => at'[q] = "idle"
    BY <1>10, <1>a DEF LoadDbAliases, Places
  <2>2. at[Admin] = "loadalias" /\ UNCHANGED <<yaml, rows, mem, cfg, wanted>>
    BY <1>10 DEF LoadDbAliases
  <2> QED
    BY <2>1, <2>2 DEF Course, Replaced
<1>11. CASE RegisterWorkflows(Admin)
  <2>1. at'[Admin] = "idle" /\ \A q \in Reloaders : q # Admin => at'[q] = "idle"
    BY <1>11, <1>a DEF RegisterWorkflows, Places
  <2>2. at[Admin] = "workflows" /\ UNCHANGED <<yaml, rows, mem, cfg, wanted>>
    BY <1>11 DEF RegisterWorkflows
  <2>3. /\ mem = BuiltFromConfig(cfg[Admin]) /\ rows = YamlRows(cfg[Admin])
        /\ cfg[Admin].models = yaml.models /\ wanted \subseteq PairsOf(yaml.models)
    BY <2>2 DEF Course, Replaced
  <2>4. \A n \in Models : Agreed(n)
    BY <1>0, <2>3, BuiltAgrees DEF Agreed, Providers
  <2>5. AtRest'
    BY <2>2, <2>3, <2>4 DEF AtRest, Agreed, Providers
  <2>6. wanted \subseteq PairsOf(rows)
    BY <2>3, YamlPairs
  <2> QED
    BY <2>1, <2>2, <2>5, <2>6 DEF Course, Replaced
<1> QED
  BY <1>1, <1>2, <1>3, <1>4, <1>5, <1>6, <1>7, <1>8, <1>9, <1>10, <1>11 DEF Reload

\* Requests, probes and counters leave the stores alone.
LEMMA CourseProbe ==
    ASSUME TypeOK, Course, NEW w \in Workers,
           \/ Scan(w) \/ (\E t \in job[w].targets : Skip(w, t) \/ Probe(w, t)) \/ LoadModelRows(w) \/ ClearCounters(w)
    PROVE  Course'
<1>0. job \in [Workers -> Job] /\ UNCHANGED <<yaml, rows, mem, at, cfg, wanted>>
  BY DEF TypeOK, Scan, Skip, Probe, LoadModelRows, ClearCounters, registryVars
<1>1. \A v \in Workers : v # w => job'[v] = job[v]
  BY <1>0 DEF Scan, Skip, Probe, LoadModelRows, ClearCounters
<1>2. CASE LoadModelRows(w)
  <2>1. job'[w].at = "set" /\ job'[w].model = job[w].model
    BY <1>0, <1>2 DEF LoadModelRows, Job
  <2>2. \A n \in Models : Setting(n) => Setting(n)'
    BY <1>1, <2>1 DEF Setting
  <2> QED
    BY <1>0, <2>2, CourseKept
<1>3. CASE ~LoadModelRows(w)
  <2>1. job[w].at \notin {"read", "set"}
    BY <1>3 DEF Scan, Skip, Probe, ClearCounters
  <2>2. \A n \in Models : Setting(n) => Setting(n)'
    BY <1>1, <2>1, SettingKept
  <2> QED
    BY <1>0, <2>2, CourseKept
<1> QED
  BY <1>2, <1>3

LEMMA CourseRequest ==
    ASSUME TypeOK, Course, NEW d \in Deps, Flip(d) \/ SelectProvider(d) \/ RequestSucceeds(d) \/ RequestFails(d)
    PROVE  Course'
<1>0. UNCHANGED <<yaml, rows, mem, at, cfg, wanted>>
  BY DEF Flip, SelectProvider, RequestSucceeds, RequestFails, registryVars, fileVars, tableVars, procVars
<1>1. CASE UNCHANGED job
  <2>1. \A n \in Models : Setting(n) => Setting(n)'
    BY <1>1 DEF Setting
  <2> QED
    BY <1>0, <2>1, CourseKept
<1>2. ASSUME NEW w \in Spawned, job[w].at = "idle", job' = [job EXCEPT ![w].at = "update", ![w].id = d] PROVE Course'
  <2>1. w \in Workers /\ \A v \in Workers : v # w => job'[v] = job[v]
    BY <1>2 DEF TypeOK, Workers
  <2>2. \A n \in Models : Setting(n) => Setting(n)'
    BY <1>2, <2>1, SettingKept
  <2> QED
    BY <1>0, <2>2, CourseKept
<1> QED
  BY <1>1, <1>2 DEF Flip, SelectProvider, RequestSucceeds, RequestFails

\* A health task switches the rows of a deployment: at rest, and all of one model.
LEMMA CourseUpdate ==
    ASSUME TypeOK, Course, NEW w \in Workers, UpdateRow(w), ~disturbed' PROVE Course'
<1>0. job[w].at = "update" /\ UNCHANGED <<yaml, mem, at, cfg, wanted>> /\ ~InTheWay(w)
  BY DEF UpdateRow, tableVars, procVars
<1>1. \A v \in Workers : v # w => job'[v] = job[v]
  BY DEF UpdateRow, Work, TypeOK
<1>2. \A n \in Models : Setting(n) => Setting(n)'
  BY <1>0, <1>1, SettingKept
<1>3. CASE UNCHANGED rows
  BY <1>0, <1>2, <1>3, CourseKept
<1>4. ASSUME NEW r \in Matched(w), rows' = (rows \ Matched(w)) \cup {Switched(w, x) : x \in Matched(w)},
             job' = [job EXCEPT ![w].at = "read", ![w].model = r.model]
      PROVE  Course'
  <2>1. (\A p \in Reloaders : at[p] = "idle") /\ \A x \in Matched(w) : x.model = r.model
    BY <1>0, <1>4 DEF InTheWay, Reloading
  <2>2. job'[w].at = "read" /\ job'[w].model = r.model
    BY <1>4 DEF TypeOK, Job
  <2>3. Setting(r.model)'
    BY <2>2 DEF Setting
  <2>4. \A x \in Matched(w) : x \in rows /\ Switched(w, x).model = x.model /\ Switched(w, x).id = x.id
    BY DEF Switched, Matched, TypeOK, RegistryTypeOK, Row
  <2>5. PairsOf(rows') = PairsOf(rows)
    BY <1>4, <2>4 DEF PairsOf
  <2>6. ASSUME NEW n \in Models, n # r.model PROVE EnabledIds(rows', n) = EnabledIds(rows, n)
    <3>1. {x \in rows' : x.model = n /\ x.on} = {x \in rows : x.model = n /\ x.on}
      BY <1>4, <2>1, <2>4, <2>6
    <3> QED
      BY <3>1 DEF EnabledIds
  <2>7. AtRest
    BY <2>1, RegistryConstants DEF Course
  <2>8. ASSUME NEW n \in Models PROVE Agreed(n)' \/ Setting(n)'
    <3>1. CASE n = r.model
      BY <2>3, <3>1
    <3>2. CASE n # r.model
      BY <1>0, <1>2, <2>6, <2>7, <3>2 DEF AtRest, Agreed, Providers
    <3> QED
      BY <3>1, <3>2
  <2>9. AtRest'
    BY <1>0, <2>7, <2>8 DEF AtRest
  <2> QED
    BY <1>0, <2>1, <2>5, <2>9, RegistryConstants DEF Course, Replaced
<1> QED
  BY <1>3, <1>4 DEF UpdateRow

\* A health task sets a model from rows that are still the table's.
LEMMA CourseSet ==
    ASSUME TypeOK, Course, NEW w \in Workers, SetDeployments(w), ~disturbed' PROVE Course'
<1> DEFINE m == job[w].model
<1>0. /\ job[w].at = "set" /\ UNCHANGED <<yaml, rows, at, cfg, wanted>> /\ ~Outdated(w)
      /\ \A v \in Workers : v # w => job'[v] = job[v]
  BY DEF SetDeployments, Work, fileVars, procVars, TypeOK
<1>1. (\A p \in Reloaders : at[p] = "idle") /\ job[w].got = EnabledIds(rows, m)
  BY <1>0 DEF Outdated, Reloading
<1>2. m \in Names /\ m \notin exclusive /\ job[w].got \subseteq Deps
  BY RegistryConstants DEF TypeOK, RegistryTypeOK, Job
<1>3. mem' = {p \in mem : p[1] # m} \cup ({m} \X job[w].got)
  BY <1>2 DEF SetDeployments
<1>4. AtRest
  BY <1>1, RegistryConstants DEF Course
<1>5. ASSUME NEW n \in Models PROVE Agreed(n)' \/ Setting(n)'
  <2>1. CASE n = m
    <3>1. {d \in Deps : <<m, d>> \in mem'} = job[w].got
      BY <1>2, <1>3
    <3> QED
      BY <1>0, <1>1, <2>1, <3>1 DEF Agreed, Providers
  <2>2. CASE n # m
    <3>1. {d \in Deps : <<n, d>> \in mem'} = {d \in Deps : <<n, d>> \in mem}
      BY <1>3, <2>2
    <3>2. Agreed(n) => Agreed(n)'
      BY <1>0, <3>1 DEF Agreed, Providers
    <3>3. Setting(n) => Setting(n)'
      BY <1>0, <2>2 DEF Setting
    <3> QED
      BY <1>4, <3>2, <3>3 DEF AtRest
  <2> QED
    BY <2>1, <2>2
<1>6. AtRest'
  BY <1>0, <1>4, <1>5 DEF AtRest
<1> QED
  BY <1>0, <1>1, <1>6, RegistryConstants DEF Course, Replaced

LEMMA CourseQueryFails ==
    ASSUME TypeOK, Course, NEW w \in Workers, HealthQueryFails(w), ~disturbed' PROVE Course'
<1>1. job[w].at = "update" /\ UNCHANGED <<yaml, rows, mem, at, cfg, wanted>>
  BY DEF HealthQueryFails, Disturb, fileVars, tableVars, procVars
<1>2. \A v \in Workers : v # w => job'[v] = job[v]
  BY DEF HealthQueryFails, Work, TypeOK
<1>3. \A n \in Models : Setting(n) => Setting(n)'
  BY <1>1, <1>2, SettingKept
<1> QED
  BY <1>1, <1>3, CourseKept

LEMMA DisturbedStays == ASSUME [Next]_vars, disturbed, disturbed \in BOOLEAN PROVE disturbed'
<1>1. CASE HealthNext
  BY <1>1 DEF HealthNext, Flip, SelectProvider, RequestSucceeds, RequestFails, Step, Scan, Skip, Probe, UpdateRow,
       LoadModelRows, SetDeployments, HealthQueryFails, ClearCounters, Spend, Disturb, registryVars
<1>2. CASE Edit
  BY <1>2 DEF Edit, CreateModel, UpdateModel, DeleteModel, CreateAlias, UpdateAlias, DeleteAlias, Spend
<1>3. CASE Persist
  BY <1>3 DEF Persist, ConfigChanged, SnapshotModels, WriteYaml, PersistFails, Disturb
<1>4. ASSUME NEW p \in Reloaders, RequestReload(p) \/ Reload(p) PROVE disturbed'
  BY <1>4 DEF RequestReload, Reload, ReadConfig, ReadFails, ClearStores, BuildStores, SyncDelete, SyncInsert, SyncFails,
     AliasDelete, AliasInsert, LoadDbOnly, LoadDbAliases, LoadFails, RegisterWorkflows, Disturb
<1>5. CASE UNCHANGED vars
  BY <1>5 DEF vars, registryVars
<1> QED
  BY <1>1, <1>2, <1>3, <1>4, <1>5 DEF Next, RegistryNext

LEMMA CourseStep == ASSUME TypeOK, Bounded, RegistryInv, [Next]_vars PROVE RegistryInv'
<1> SUFFICES ASSUME ~disturbed' PROVE Course'
  BY DEF RegistryInv
<1>1. Course
  BY DisturbedStays DEF RegistryInv, TypeOK, RegistryTypeOK
<1>2. CASE HealthNext
  BY <1>1, <1>2, CourseRequest, CourseProbe, CourseUpdate, CourseSet, CourseQueryFails DEF HealthNext, Step
<1>3. ASSUME RegistryNext, UNCHANGED healthVars PROVE Course'
  <2>1. ASSUME \/ \E a \in Aliases, x \in Alias : CreateAlias(a, x) \/ UpdateAlias(a, x)
               \/ \E a \in Aliases : DeleteAlias(a)
        PROVE  Course'
    <3>1. UNCHANGED <<yaml, rows, mem, at, cfg, wanted>>
      BY <2>1, AliasEditTyped DEF TypeOK
    <3>2. \A n \in Models : Setting(n) => Setting(n)'
      BY <1>3 DEF healthVars, Setting
    <3> QED
      BY <1>1, <3>1, <3>2, CourseKept
  <2>2. ASSUME NEW p \in Reloaders, RequestReload(p) PROVE Course'
    BY <2>2 DEF RequestReload, Disturb
  <2>3. ASSUME NEW p \in Reloaders, Reload(p) PROVE Course'
    BY <1>1, <2>3, AdminOnly, CourseReload
  <2>4. left.forms \subseteq Entry
    BY DEF Bounded, Scenario
  <2> QED
    BY <1>1, <1>3, <2>1, <2>2, <2>3, <2>4, CourseModelEdit, CoursePersist DEF RegistryNext, Edit
<1>4. CASE UNCHANGED vars
  <2>1. UNCHANGED <<yaml, rows, mem, at, cfg, wanted, job>>
    BY <1>4 DEF vars, registryVars, healthVars
  <2>2. \A n \in Models : Setting(n) => Setting(n)'
    BY <2>1 DEF Setting
  <2> QED
    BY <1>1, <2>1, <2>2, CourseKept
<1> QED
  BY <1>2, <1>3, <1>4 DEF Next

LEMMA CourseAlways == Spec => [](TypeOK /\ Bounded /\ RegistryInv)
<1>1. Init => TypeOK /\ Bounded /\ RegistryInv
  BY HealthInitTyped, BoundedInit, CourseInit DEF RegistryInv
<1>2. TypeOK /\ Bounded /\ RegistryInv /\ [Next]_vars => (TypeOK /\ Bounded /\ RegistryInv)'
  BY TypeStep, BoundedStep, CourseStep
<1> QED
  BY <1>1, <1>2, PTL DEF Spec

\* Unless something happened that only another reload repairs, whatever was
\* configured and not removed is in the file once everything has settled.
THEOREM NoDeploymentLost == Spec => []ConfigKept
<1>1. TypeOK /\ RegistryInv => ConfigKept
  BY RegistryConstants DEF RegistryInv, Course, AtRest, ConfigKept, Settled
<1> QED
  BY <1>1, CourseAlways, PTL

\* Unless something happened that only another reload repairs, a model is routed
\* to exactly the deployments whose rows are enabled once everything has settled.
THEOREM RoutingFollowsRows == Spec => []RoutingMatchesRows
<1>1. TypeOK /\ RegistryInv => RoutingMatchesRows
  <2> SUFFICES ASSUME RegistryInv, ~disturbed, Quiet, NEW n \in Models PROVE Providers(n) = EnabledIds(rows, n)
    BY DEF RoutingMatchesRows
  <2>1. AtRest
    BY RegistryConstants DEF RegistryInv, Course, Quiet, Settled
  <2>2. ~Setting(n)
    BY DEF Quiet, Setting
  <2> QED
    BY <2>1, <2>2 DEF AtRest, Agreed
<1> QED
  BY <1>1, CourseAlways, PTL
=============================================================================
