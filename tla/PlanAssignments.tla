--------------------------- MODULE PlanAssignments ---------------------------
(***************************************************************************)
(* PlanStore (concurrency.rs): plan definitions and the assignments of     *)
(* keys and teams, in memory and in their tables.  Administrators edit     *)
(* them through the dashboard (a statement, then memory) or through        *)
(* /admin/plans (memory only), the sync task writes the key assignments    *)
(* back, the command handler writes the plans to config.yaml, a reload     *)
(* rebuilds the plans, and a restart rebuilds everything.                  *)
(* A plan is told apart by its name and its type.                          *)
(***************************************************************************)
EXTENDS Naturals, FiniteSets

CONSTANTS
    Keys, Teams, Plans, Admins,
    Default,       \* plan_settings.default_plan
    YamlPlans,     \* the type of each plan that config.yaml defines at the start
    Unset,         \* no assignment: follow the default plan
    NoPlan,        \* the explicit choice of no plan (SQL NULL)
    None,          \* no such plan, no such row
    NoTask         \* no task of an administrator is running

Owners == Keys \cup Teams
Types == {"key", "team"}
TypeOf(o) == IF o \in Keys THEN "key" ELSE "team"
Choices == {Unset, NoPlan} \cup Plans
PlanRow == [type : Types, source : {"yaml", "db"}]
Kinds == {"upsert", "delete", "assign", "optout", "unassign"}
PlanEdit == [kind : Kinds, plan : Plans, type : Types, owner : Owners, tell : BOOLEAN]

ASSUME AssignmentConstants ==
    /\ Keys \cap Teams = {} /\ Default \in Plans
    /\ YamlPlans \in [Plans -> Types \cup {None}]
    /\ {Unset, NoPlan} \cap Plans = {} /\ Unset # NoPlan /\ NoTask \notin PlanEdit
    /\ None \notin Types /\ None \notin PlanRow

VARIABLES
    plans,      \* PlanStore.plans: the type, or None
    default,    \* default_plan_name is set
    assign,     \* key_assignments and team_assignments
    planRows,   \* boom_rate_limit_plan
    assignRows, \* boom_key_plan_assignment, boom_team_plan_assignment
    planYaml,   \* the plans in config.yaml
    task,       \* per administrator: the edit under way
    step,       \* per administrator: "stmt" or "apply" is next
    syncing,    \* what sync_assignments_to_db still has to write
    persist,    \* a ConfigChanged command waits
    stage,      \* where a reload stands
    found,      \* what the reload read: config.yaml, then the rows
    spoiled,    \* history: a statement of the reload failed, or a plan was deleted meanwhile
    quota       \* bounds: the edits on offer, and how many edits, reloads, ... are still to come

storeVars == <<plans, default, assign>>
planTables == <<planRows, assignRows, planYaml>>
adminVars == <<task, step, persist>>
reloadVars == <<stage, found, spoiled>>
planVars == <<storeVars, planTables, adminVars, reloadVars, syncing, quota>>

Stages == {"idle", "clear", "load", "delyaml", "delconf", "insert", "orphans", "select", "merge", "cleanup"}

PlanTypeOK ==
    /\ plans \in [Plans -> Types \cup {None}] /\ default \in BOOLEAN
    /\ assign \in [Owners -> Choices] /\ assignRows \in [Owners -> Choices]
    /\ planRows \in [Plans -> PlanRow \cup {None}] /\ planYaml \in [Plans -> Types \cup {None}]
    /\ task \in [Admins -> PlanEdit \cup {NoTask}] /\ step \in [Admins -> {"stmt", "apply"}]
    /\ syncing \in [Keys -> Choices] /\ persist \in BOOLEAN
    /\ stage \in Stages /\ found \in [Plans -> Types \cup {None}] /\ spoiled \in BOOLEAN

NoneFound == [p \in Plans |-> None]
YamlRow(t) == [type |-> t, source |-> "yaml"]
Exists(o, names) == o \in Plans /\ names[o] # None

\* Use one of a bounded number of events.
Take(what) == quota[what] > 0 /\ quota' = [quota EXCEPT ![what] = @ - 1]
-----------------------------------------------------------------------------
(* What the store answers. *)

\* get_default_plan: the name is set and the plan exists.
DefaultPlan == IF default /\ plans[Default] # None THEN Default ELSE NoPlan

\* The plan that a request of key k is held to (check_plan_limits; the user's
\* dashboard resolves it the same way).
ResolvePlan(k) ==
    IF assign[k] = NoPlan THEN NoPlan
    ELSE IF assign[k] # Unset /\ plans[assign[k]] = "key" THEN assign[k] ELSE DefaultPlan

ValidPlanForKey(p) == plans[p] = "key"
ValidPlanForTeam(p) == plans[p] = "team"
Valid(e) == e.kind = "assign" => IF e.owner \in Keys THEN ValidPlanForKey(e.plan)
                                                     ELSE ValidPlanForTeam(e.plan)

\* Explicit opt-outs name no plan and stay.
Without(gone) == [o \in Owners |-> IF assign[o] \in gone THEN Unset ELSE assign[o]]
-----------------------------------------------------------------------------
(* Edits. *)

\* upsert_plan, delete_plan, assign, assign_key_no_plan and unassign in memory.
ApplyEdit(e) ==
    /\ plans' = CASE e.kind = "upsert" -> [plans EXCEPT ![e.plan] = e.type]
                  [] e.kind = "delete" -> [plans EXCEPT ![e.plan] = None]
                  [] OTHER -> plans
    /\ assign' = CASE e.kind = "delete" -> Without({e.plan})
                   [] e.kind = "assign" -> [assign EXCEPT ![e.owner] = e.plan]
                   [] e.kind = "optout" -> [assign EXCEPT ![e.owner] = NoPlan]
                   [] e.kind = "unassign" -> [assign EXCEPT ![e.owner] = Unset]
                   [] OTHER -> assign
    /\ UNCHANGED default

\* The statements of the *_db functions: the tables after them.
UpsertPlanDb(p, t) == [planRows EXCEPT ![p] = [type |-> t, source |-> "db"]]
DeletePlanDb(p) == [planRows EXCEPT ![p] = None]
AssignDb(o, p) == [assignRows EXCEPT ![o] = p]
AssignNoPlanDb(o) == [assignRows EXCEPT ![o] = NoPlan]
UnassignDb(o) == [assignRows EXCEPT ![o] = Unset]

Execute(e) ==
    /\ planRows' = CASE e.kind = "upsert" -> UpsertPlanDb(e.plan, e.type)
                     [] e.kind = "delete" -> DeletePlanDb(e.plan)
                     [] OTHER -> planRows
    /\ assignRows' = CASE e.kind = "assign" -> AssignDb(e.owner, e.plan)
                 [] e.kind = "optout" -> AssignNoPlanDb(e.owner)
                 [] e.kind = "unassign" -> UnassignDb(e.owner)
                 [] OTHER -> assignRows
    /\ UNCHANGED planYaml

\* Whether there was a row to delete.
Hits(e) == CASE e.kind = "delete" -> planRows[e.plan] # None
             [] e.kind = "unassign" -> assignRows[e.owner] # Unset
             [] OTHER -> TRUE

Disturbs(e) == spoiled' = (spoiled \/ e.kind = "delete") /\ UNCHANGED <<stage, found>>

\* A dashboard handler: the type check, then the first await.
StartEdit(a, e) ==
    /\ task[a] = NoTask /\ e \in quota.menu /\ Valid(e) /\ Take("edits")
    /\ task' = [task EXCEPT ![a] = e] /\ step' = [step EXCEPT ![a] = "stmt"]
    /\ UNCHANGED <<storeVars, planTables, persist, reloadVars, syncing>>

EditStatement(a) ==
    /\ task[a] # NoTask /\ step[a] = "stmt"
    /\ Execute(task[a])
    /\ \/ Hits(task[a]) /\ step' = [step EXCEPT ![a] = "apply"] /\ UNCHANGED task
       \/ ~Hits(task[a]) /\ task' = [task EXCEPT ![a] = NoTask] /\ UNCHANGED step
    /\ Disturbs(task[a])
    /\ UNCHANGED <<storeVars, persist, syncing, quota>>

\* The statement fails: memory stays as it was.  upsert_plan reports success and
\* sends ConfigChanged all the same.
EditFails(a) ==
    /\ task[a] # NoTask /\ step[a] = "stmt" /\ Take("troubles")
    /\ task' = [task EXCEPT ![a] = NoTask]
    /\ persist' = (persist \/ (task[a].tell /\ task[a].kind = "upsert"))
    /\ UNCHANGED <<storeVars, planTables, step, reloadVars, syncing>>

\* Memory follows; the handlers for plans and assignments send ConfigChanged.
EditApplied(a) ==
    /\ task[a] # NoTask /\ step[a] = "apply"
    /\ ApplyEdit(task[a])
    /\ task' = [task EXCEPT ![a] = NoTask] /\ persist' = (persist \/ task[a].tell)
    /\ Disturbs(task[a])
    /\ UNCHANGED <<planTables, step, syncing, quota>>

\* PUT and DELETE under /admin/plans, and a new key that is assigned the default
\* plan by name: memory only.
MemoryEdit(e) ==
    /\ e \in quota.menu /\ Valid(e) /\ e.kind # "optout" /\ e.owner \in Keys /\ Take("edits")
    /\ ApplyEdit(e) /\ Disturbs(e)
    /\ UNCHANGED <<planTables, adminVars, syncing>>

\* The command handler writes every plan of the table to config.yaml.
PersistPlans ==
    /\ persist /\ persist' = FALSE
    /\ planYaml' = [p \in Plans |-> IF planRows[p] = None THEN None ELSE planRows[p].type]
    /\ UNCHANGED <<storeVars, planRows, assignRows, task, step, reloadVars, syncing, quota>>
-----------------------------------------------------------------------------
(* The sync task: a snapshot of the key assignments, then row by row. *)

SyncStart ==
    /\ \A k \in Keys : syncing[k] = Unset
    /\ \E k \in Keys : assign[k] # Unset
    /\ syncing' = [k \in Keys |-> assign[k]]
    /\ UNCHANGED <<storeVars, planTables, adminVars, reloadVars, quota>>

SyncRowSkipsOptOut(k) ==   \* mutant
    /\ syncing[k] # Unset
    /\ assignRows' = [assignRows EXCEPT ![k] = IF syncing[k] = NoPlan THEN @ ELSE syncing[k]]
    /\ syncing' = [syncing EXCEPT ![k] = Unset]
    /\ UNCHANGED <<storeVars, planRows, planYaml, adminVars, reloadVars, quota>>
SyncRow(k) ==
    /\ syncing[k] # Unset
    /\ assignRows' = [assignRows EXCEPT ![k] = syncing[k]]
    /\ syncing' = [syncing EXCEPT ![k] = Unset]
    /\ UNCHANGED <<storeVars, planRows, planYaml, adminVars, reloadVars, quota>>

\* A statement fails or the thirty seconds are over: the rest is dropped.
SyncAborts ==
    /\ \E k \in Keys : syncing[k] # Unset
    /\ Take("troubles")
    /\ syncing' = [k \in Keys |-> Unset]
    /\ UNCHANGED <<storeVars, planTables, adminVars, reloadVars>>
-----------------------------------------------------------------------------
(* Reload: YAML first, the table is brought in line, DB-only plans on top. *)

Stage(s) == stage' = s

ReadPlans ==
    /\ stage = "idle" /\ Take("reloads") /\ Stage("clear")
    /\ found' = planYaml /\ spoiled' = FALSE
    /\ UNCHANGED <<storeVars, planTables, adminVars, syncing>>

ClearPlans ==
    /\ stage = "clear" /\ Stage("load")
    /\ plans' = NoneFound /\ default' = FALSE
    /\ UNCHANGED <<assign, planTables, adminVars, found, spoiled, syncing, quota>>

\* Plans that were edited since the clear are overwritten; a default plan that
\* the file does not define is ignored.  list_plans() is what will be synced.
LoadPlans ==
    /\ stage = "load" /\ Stage("delyaml")
    /\ plans' = [p \in Plans |-> IF found[p] # None THEN found[p] ELSE plans[p]]
    /\ default' = (plans'[Default] # None)
    /\ found' = plans'
    /\ UNCHANGED <<assign, planTables, adminVars, spoiled, syncing, quota>>

TableStep(from, to, table) ==
    /\ stage = from /\ Stage(to)
    /\ planRows' = table
    /\ UNCHANGED <<storeVars, assignRows, planYaml, adminVars, found, spoiled, syncing, quota>>

DeleteYamlRows == TableStep("delyaml", "delconf",
    [p \in Plans |-> IF planRows[p] # None /\ planRows[p].source = "yaml" THEN None ELSE planRows[p]])
DeleteConflicts == TableStep("delconf", "insert",
    [p \in Plans |-> IF planRows[p] # None /\ planRows[p].source = "db" /\ found[p] # None
                     THEN None ELSE planRows[p]])

\* Inserted one by one; a name that came back in the meantime is a duplicate key.
InsertRows ==
    /\ \A p \in Plans : found[p] # None => planRows[p] = None
    /\ TableStep("insert", "orphans",
         [p \in Plans |-> IF found[p] # None THEN YamlRow(found[p]) ELSE planRows[p]])

DeleteOrphans ==
    /\ stage = "orphans" /\ Stage("select")
    /\ assignRows' = [o \in Owners |-> IF assignRows[o] \in Plans /\ planRows[assignRows[o]] = None THEN Unset ELSE assignRows[o]]
    /\ UNCHANGED <<storeVars, planRows, planYaml, adminVars, found, spoiled, syncing, quota>>

\* A failing statement ends sync_yaml_to_db; the reload goes on.
SyncPlansFails ==
    /\ stage \in {"delyaml", "delconf", "insert", "orphans"}
    /\ \/ Take("troubles")
       \/ stage = "insert" /\ (\E p \in Plans : found[p] # None /\ planRows[p] # None) /\ UNCHANGED quota
    /\ Stage("select") /\ spoiled' = TRUE
    /\ UNCHANGED <<storeVars, planTables, adminVars, found, syncing>>

SelectDbPlans ==
    /\ stage = "select" /\ Stage("merge")
    /\ found' = [p \in Plans |-> IF planRows[p] # None /\ planRows[p].source = "db"
                                 THEN planRows[p].type ELSE None]
    /\ UNCHANGED <<storeVars, planTables, adminVars, spoiled, syncing, quota>>

\* load_db_only_plans logs a failing SELECT and returns; a timeout, or the error
\* of register_fusion_models before the cleanup, ends the reload.
SelectFails ==
    /\ Take("troubles") /\ spoiled' = TRUE
    /\ \/ stage = "select" /\ Stage("cleanup")
       \/ stage \in {"select", "cleanup"} /\ Stage("idle")
    /\ UNCHANGED <<storeVars, planTables, adminVars, found, syncing>>

MergeDbPlans ==
    /\ stage = "merge" /\ Stage("cleanup")
    /\ plans' = [p \in Plans |-> IF found[p] # None THEN found[p] ELSE plans[p]]
    /\ UNCHANGED <<default, assign, planTables, adminVars, found, spoiled, syncing, quota>>

CleanupOfUnassigned == {p \in Plans \cup {NoPlan} : p = NoPlan \/ plans[p] = None}   \* mutant
\* cleanup_assignments: what names a plan that is not there.
CleanupOf == {p \in Plans : plans[p] = None}

CleanupAssignments ==
    /\ stage = "cleanup" /\ Stage("idle")
    /\ assign' = Without(CleanupOf)
    /\ UNCHANGED <<plans, default, planTables, adminVars, found, spoiled, syncing, quota>>
-----------------------------------------------------------------------------
\* The process restarts (from_config): YAML, sync, DB-only plans, assignments.
RestartPlans ==
    /\ Take("troubles")
    /\ \E synced, loaded, restored \in BOOLEAN :
         LET conflict == {p \in Plans : planYaml[p] # None}
             table == IF ~synced THEN planRows
                      ELSE [p \in Plans |-> IF p \in conflict THEN YamlRow(planYaml[p])
                              ELSE IF planRows[p] # None /\ planRows[p].source = "yaml" THEN None ELSE planRows[p]]
             kept == [o \in Owners |-> IF synced /\ assignRows[o] \in Plans /\ table[assignRows[o]] = None
                                       THEN Unset ELSE assignRows[o]]
         IN  /\ planRows' = table /\ assignRows' = kept
             /\ plans' = [p \in Plans |->
                   IF loaded /\ table[p] # None /\ table[p].source = "db" THEN table[p].type ELSE planYaml[p]]
             /\ assign' = IF restored THEN kept ELSE [o \in Owners |-> Unset]
    /\ default' = (planYaml[Default] # None)
    /\ task' = [a \in Admins |-> NoTask] /\ step' = [a \in Admins |-> "stmt"] /\ persist' = FALSE
    /\ stage' = "idle" /\ found' = NoneFound /\ spoiled' = FALSE
    /\ syncing' = [k \in Keys |-> Unset]
    /\ UNCHANGED planYaml

PlanInit ==
    /\ planYaml = YamlPlans /\ plans = YamlPlans /\ default = (YamlPlans[Default] # None)
    /\ planRows = [p \in Plans |-> IF YamlPlans[p] = None THEN None ELSE YamlRow(YamlPlans[p])]
    /\ assign = [o \in Owners |-> Unset] /\ assignRows = assign
    /\ task = [a \in Admins |-> NoTask] /\ step = [a \in Admins |-> "stmt"] /\ persist = FALSE
    /\ stage = "idle" /\ found = NoneFound /\ spoiled = FALSE
    /\ syncing = [k \in Keys |-> Unset]

AdminStep(a) == EditStatement(a) \/ EditFails(a) \/ EditApplied(a)
SyncStep == SyncStart \/ (\E k \in Keys : SyncRow(k)) \/ SyncAborts
ReloadStep ==
    \/ ReadPlans \/ ClearPlans \/ LoadPlans \/ DeleteYamlRows \/ DeleteConflicts \/ InsertRows
    \/ DeleteOrphans \/ SyncPlansFails \/ SelectDbPlans \/ SelectFails \/ MergeDbPlans

-----------------------------------------------------------------------------
\* upsert_plan between the row and the memory.
Upserting(p) ==
    \E a \in Admins : task[a] # NoTask /\ task[a].kind = "upsert" /\ task[a].plan = p /\ step[a] = "apply"

\* A reload during which no statement fails and no plan is deleted takes an
\* assignment away only if the plan it names has no row, or a row that the
\* handler of an upsert has not brought to memory yet: explicit choices,
\* opt-outs included, survive reloads (cleanup_assignments).
ReloadKeepsChoices ==
    [][stage = "cleanup" /\ stage' = "idle" /\ quota' = quota /\ ~spoiled =>
          \A o \in Owners : assign'[o] # assign[o] =>
             /\ assign[o] \in Plans
             /\ planRows[assign[o]] = None \/ Upserting(assign[o])]_planVars

\* Once administrators rest, the sync task brings the table to what memory says
\* of every assigned key, whatever order their statements and updates came in.
AssignmentsConverge ==
    \A k \in Keys : <>[](assign[k] # Unset => assignRows[k] = assign[k])
=============================================================================
