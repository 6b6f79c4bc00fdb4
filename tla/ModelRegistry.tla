--------------------------- MODULE ModelRegistry ---------------------------
(***************************************************************************)
(* Model deployments and aliases in their three places: the configuration  *)
(* file (yaml), the database (rows, aliasRows) and the routing tables in   *)
(* memory (known, mem, exclusive, aliasMem).  The dashboard edits the      *)
(* database; the command handler then writes the file from the database    *)
(* (persist_config_in_place) and reloads it.  A reload may also be asked   *)
(* for by a signal or an HTTP call, in a task of its own.                  *)
(*                                                                         *)
(* Of a deployment the model keeps its model name, its deployment id,      *)
(* whether it is enabled and whether it also serves unmatched names.       *)
(* Lists of deployments are sets: only presence matters here.              *)
(***************************************************************************)
EXTENDS Naturals, FiniteSets

CONSTANTS
    Models,     \* ordinary model names
    Star,       \* the name "*" of the catch-all
    Virtual,    \* names reserved by workflow_settings
    Aliases,    \* alias names
    Deps,       \* deployment ids
    Reloaders,  \* the tasks that can run reload()
    Admin,      \* the one of them that handles admin commands
    Scenarios   \* what may happen in a behaviour: see Scenario

Names == Models \cup {Star}
Entry == [model : Names, id : Deps, on : BOOLEAN, wild : BOOLEAN]
Sources == {"yaml", "db"}
Row == [model : Names, id : Deps, on : BOOLEAN, wild : BOOLEAN, auto : BOOLEAN, source : Sources]
PairsOf(S) == {<<x.model, x.id>> : x \in S}

\* Partial functions from alias names: model_group_alias, boom_model_alias.
Over(f, g) == [a \in DOMAIN f \cup DOMAIN g |-> IF a \in DOMAIN f THEN f[a] ELSE g[a]]
WithAlias(a, x, g) == Over([b \in {a} |-> x], g)
MapsOf(R) == UNION {[A -> R] : A \in SUBSET Aliases}
Alias == [target : Names, hidden : BOOLEAN]
AliasRow == [target : Names, hidden : BOOLEAN, source : Sources]
Config == [models : SUBSET Entry, aliases : MapsOf(Alias)]

\* A scenario: the file at start, deployments that are down and auto-disabled
\* at start, those that may break or recover, the switches of
\* deployment_health_check, the deployments with an api_base, what an
\* administrator may save as a deployment, and how much is still to happen (the bounds).
Checks == {"request", "offline", "recovery"}
Scenario == [file : Config, off : SUBSET Deps, flaky : SUBSET Deps, checks : SUBSET Checks,
             probed : SUBSET Deps, forms : SUBSET Entry,
             edits : Nat, reloads : Nat, faults : Nat, flips : Nat]

ASSUME RegistryConstants ==
    /\ Star \notin Models /\ Virtual \cap (Names \cup Aliases) = {}
    /\ Admin \in Reloaders
    /\ \A s \in Scenarios :
          /\ s \in Scenario /\ s.off \subseteq s.flaky
          /\ s.off = {} \/ ~ \E e \in s.file.models : e.wild

VARIABLES
    yaml, rows, aliasRows,
    known,      \* names with an entry in DeploymentStore.deployments
    mem,        \* the providers in it, as <<name, id>>
    exclusive,  \* DeploymentStore.exclusive_providers
    aliasMem,   \* AliasStore
    at,         \* where each reloader is
    cfg,        \* the configuration it carries
    pending,    \* ConfigChanged commands in the channel
    left,       \* the scenario, its budgets counted down
    wanted,     \* history: <<model, id>> created and not removed by an administrator
    stopped,    \* history: deployments that an administrator has switched off
    erased,     \* history: deployments whose row lost auto_disabled in a reload
    disturbed   \* history: something happened that only another reload repairs

fileVars == <<yaml, rows, aliasRows>>
tableVars == <<known, mem, exclusive, aliasMem>>
procVars == <<at, cfg, pending>>
registryVars == <<yaml, rows, aliasRows, known, mem, exclusive, aliasMem, at, cfg, pending, left, wanted, stopped, erased, disturbed>>
marks == <<wanted, stopped, erased>>

Use(what) == left[what] > 0 /\ left' = [left EXCEPT ![what] = @ - 1]
Spend(what) == Use(what) /\ UNCHANGED disturbed
Disturb(what) == Use(what) /\ disturbed' = TRUE
-----------------------------------------------------------------------------
(* Conversions between the three places. *)

\* A row as sync_yaml_to_db or create_db inserts it.
DeploymentRow(e, src) ==
    [model |-> e.model, id |-> e.id, on |-> e.on, wild |-> e.wild, auto |-> FALSE, source |-> src]

\* The rows of a file: a copy named "*" for each entry that serves unmatched
\* names, unless the file has entries of that name itself.
YamlRows(c) ==
    LET named == {e.model : e \in c.models}
        wild == IF Star \in named THEN {} ELSE {e \in c.models : e.wild}
    IN  {DeploymentRow(e, "yaml") : e \in c.models}
          \cup {DeploymentRow([e EXCEPT !.model = Star], "yaml") : e \in wild}

\* The names whose source='db' rows the file replaces.
YamlNames(c) ==
    {e.model : e \in c.models} \cup (IF \E e \in c.models : e.wild THEN {Star} ELSE {})

BuiltIgnoringEnabled(c) ==   \* mutant: disabled entries are built too
    PairsOf(c.models) \cup {<<Star, e.id>> : e \in {x \in c.models : x.wild}}

\* The providers of a file; disabled entries leave no trace, not even the name.
BuiltFromConfig(c) ==
    LET live == {e \in c.models : e.on}
    IN  PairsOf(live) \cup {<<Star, e.id>> : e \in {x \in live : x.wild}}

BuiltNames(c) == {p[1] : p \in BuiltFromConfig(c)}

\* Aliases whose target has no deployment are skipped.
BuiltAliases(c, names) ==
    [a \in {x \in DOMAIN c.aliases : c.aliases[x].target \in names} |-> c.aliases[a]]

SnapshotOfEnabled(R) ==   \* mutant: the snapshot reads enabled rows only
    {[model |-> r.model, id |-> r.id, on |-> r.on, wild |-> r.wild] : r \in {x \in R : x.on}}

\* What a snapshot of the database writes into the file: every row, disabled
\* ones too, without auto_disabled and source; aliases without hidden.
SnapshotEntries(R) == {[model |-> r.model, id |-> r.id, on |-> r.on, wild |-> r.wild] : r \in R}
SnapshotAliases(A) == [a \in DOMAIN A |-> [target |-> A[a].target, hidden |-> FALSE]]

EnabledIds(R, n) == {r.id : r \in {x \in R : x.model = n /\ x.on}}

\* Names an enabled database-only resource has taken from a workflow.
WorkflowConflicts ==
    Virtual \cap ({r.model : r \in {x \in rows : x.source = "db" /\ x.on}}
                   \cup {a \in DOMAIN aliasRows : aliasRows[a].source = "db"})

Providers(n) == {d \in Deps : <<n, d>> \in mem}

\* Router::resolve_candidates: the name itself, an alias, the catch-all.
ResolveCandidates(n) ==
    CASE n \in known -> Providers(n)
      [] n \notin known /\ n \in DOMAIN aliasMem -> Providers(aliasMem[n].target)
      [] OTHER -> Providers(Star)
-----------------------------------------------------------------------------
(* Edits through the dashboard.  The command handler runs one at a time.   *)

\* from_config on the scenario's file and an empty database; deployments in
\* off have been auto-disabled since.
RegistryInit ==
    \E s \in Scenarios :
        LET fresh == YamlRows(s.file)
        IN  /\ left = s
            /\ yaml = s.file
            /\ rows = {[r EXCEPT !.on = @ /\ r.id \notin s.off, !.auto = r.on /\ r.id \in s.off] : r \in fresh}
            /\ aliasRows = [a \in DOMAIN s.file.aliases |->
                             [target |-> s.file.aliases[a].target,
                              hidden |-> s.file.aliases[a].hidden, source |-> "yaml"]]
            /\ known = BuiltNames(s.file) \cup Virtual
            /\ mem = {p \in BuiltFromConfig(s.file) : p[2] \notin s.off}
            /\ exclusive = Virtual
            /\ aliasMem = BuiltAliases(s.file, BuiltNames(s.file))
            /\ at = [p \in Reloaders |-> "idle"]
            /\ cfg = [p \in Reloaders |-> s.file]
            /\ pending = 0
            /\ wanted = PairsOf(s.file.models)
            /\ stopped = {e.id : e \in {x \in s.file.models : ~x.on}}
            /\ erased = {}
            /\ disturbed = FALSE

Goto(p, l) == at' = [at EXCEPT ![p] = l]

\* AdminCommand::CreateModel, up to the reply; persist_config_in_place follows.
CreateModel(e) ==
    /\ at[Admin] = "idle" /\ Spend("edits")
    /\ e.model \notin Virtual
    /\ rows' = rows \cup {DeploymentRow(e, "db")}
    /\ wanted' = wanted \cup {<<e.model, e.id>>}
    /\ stopped' = IF e.on THEN stopped ELSE stopped \cup {e.id}
    /\ Goto(Admin, "snapshot")
    /\ UNCHANGED <<yaml, aliasRows, tableVars, cfg, pending, erased>>

UpdateModelForgetsAuto(r, e) ==   \* mutant: every edit clears auto_disabled
    /\ at[Admin] = "idle" /\ Spend("edits")
    /\ e.model \notin Virtual
    /\ rows' = (rows \ {r}) \cup {DeploymentRow(e, r.source)}
    /\ wanted' = (wanted \ (PairsOf({r}) \ PairsOf(rows \ {r}))) \cup {<<e.model, e.id>>}
    /\ stopped' = IF e.on \/ r.auto THEN stopped ELSE stopped \cup {e.id}
    /\ Goto(Admin, "snapshot")
    /\ UNCHANGED <<yaml, aliasRows, tableVars, cfg, pending, erased>>

\* AdminCommand::UpdateModel: auto_disabled survives only if the row was
\* disabled and stays so; the source is kept.
UpdateModel(r, e) ==
    /\ at[Admin] = "idle" /\ Spend("edits")
    /\ e.model \notin Virtual
    /\ rows' = (rows \ {r}) \cup {[DeploymentRow(e, r.source) EXCEPT !.auto = ~e.on /\ ~r.on /\ r.auto]}
    /\ wanted' = (wanted \ (PairsOf({r}) \ PairsOf(rows \ {r}))) \cup {<<e.model, e.id>>}
    /\ stopped' = IF e.on \/ r.auto THEN stopped ELSE stopped \cup {e.id}
    /\ Goto(Admin, "snapshot")
    /\ UNCHANGED <<yaml, aliasRows, tableVars, cfg, pending, erased>>

\* AdminCommand::DeleteModel.
DeleteModel(r) ==
    /\ at[Admin] = "idle" /\ Spend("edits")
    /\ rows' = rows \ {r}
    /\ wanted' = wanted \ (PairsOf({r}) \ PairsOf(rows \ {r}))
    /\ Goto(Admin, "snapshot")
    /\ UNCHANGED <<yaml, aliasRows, tableVars, cfg, pending, stopped, erased>>

\* create_alias: upsert the row, set it in memory, send ConfigChanged.
CreateAlias(a, x) ==
    /\ Spend("edits")
    /\ a \notin exclusive
    /\ aliasRows' = WithAlias(a, [target |-> x.target, hidden |-> x.hidden, source |-> "db"], aliasRows)
    /\ aliasMem' = WithAlias(a, x, aliasMem)
    /\ pending' = pending + 1
    /\ UNCHANGED <<yaml, rows, known, mem, exclusive, at, cfg, marks>>

\* update_alias: an existing row keeps its source.
UpdateAlias(a, x) ==
    /\ Spend("edits")
    /\ a \notin exclusive /\ a \in DOMAIN aliasRows
    /\ aliasRows' = [aliasRows EXCEPT ![a].target = x.target, ![a].hidden = x.hidden]
    /\ aliasMem' = WithAlias(a, x, aliasMem)
    /\ pending' = pending + 1
    /\ UNCHANGED <<yaml, rows, known, mem, exclusive, at, cfg, marks>>

DeleteAlias(a) ==
    /\ Spend("edits")
    /\ a \in DOMAIN aliasRows
    /\ aliasRows' = [b \in DOMAIN aliasRows \ {a} |-> aliasRows[b]]
    /\ aliasMem' = [b \in DOMAIN aliasMem \ {a} |-> aliasMem[b]]
    /\ pending' = pending + 1
    /\ UNCHANGED <<yaml, rows, known, mem, exclusive, at, cfg, marks>>

\* The handler takes ConfigChanged from the channel.
ConfigChanged ==
    /\ at[Admin] = "idle" /\ pending > 0
    /\ pending' = pending - 1
    /\ Goto(Admin, "snapshot")
    /\ UNCHANGED <<fileVars, tableVars, cfg, left, marks, disturbed>>

\* SIGHUP, POST /admin/config/reload, AdminCommand::ReloadConfig.
RequestReload(p) ==
    /\ at[p] = "idle" /\ Disturb("reloads")
    /\ Goto(p, "read")
    /\ UNCHANGED <<fileVars, tableVars, cfg, pending, marks>>
-----------------------------------------------------------------------------
(* persist_config_in_place: read the tables one after the other, replace   *)
(* the sections of the file, reload.                                       *)

SnapshotModels ==
    /\ at[Admin] = "snapshot"
    /\ cfg' = [cfg EXCEPT ![Admin].models = SnapshotEntries(rows)]
    /\ Goto(Admin, "write")
    /\ UNCHANGED <<fileVars, tableVars, pending, left, marks, disturbed>>

WriteYaml ==
    /\ at[Admin] = "write"
    /\ yaml' = [models |-> cfg[Admin].models, aliases |-> SnapshotAliases(aliasRows)]
    /\ Goto(Admin, "read")
    /\ UNCHANGED <<rows, aliasRows, tableVars, cfg, pending, left, marks, disturbed>>

\* A query or the file fails: the caller gets a warning, nothing is undone.
PersistFails ==
    /\ at[Admin] \in {"snapshot", "write"} /\ Disturb("faults")
    /\ Goto(Admin, "idle")
    /\ UNCHANGED <<fileVars, tableVars, cfg, pending, marks>>
-----------------------------------------------------------------------------
(* reload_inner, split where it awaits the database and where another      *)
(* thread can see the stores in between.                                   *)

ReadConfig(p) ==
    /\ at[p] = "read"
    /\ cfg' = [cfg EXCEPT ![p] = yaml]
    /\ Goto(p, IF WorkflowConflicts = {} THEN "clear" ELSE "idle")
    /\ UNCHANGED <<fileVars, tableVars, pending, left, marks, disturbed>>

\* load_config, the new pool or validate_db_workflow_namespace fails: nothing is
\* changed, the edit that asked for the reload included.
ReadFails(p) ==
    /\ at[p] = "read" /\ Disturb("faults")
    /\ Goto(p, "idle")
    /\ UNCHANGED <<fileVars, tableVars, cfg, pending, marks>>

ClearStores(p) ==
    /\ at[p] = "clear"
    /\ known' = {} /\ mem' = {} /\ exclusive' = {}
    /\ Goto(p, "build")
    /\ UNCHANGED <<fileVars, aliasMem, cfg, pending, left, marks, disturbed>>

\* build_deployments_from_config (which clears again) and build_aliases_from_config.
BuildStores(p) ==
    /\ at[p] = "build"
    /\ known' = BuiltNames(cfg[p]) /\ mem' = BuiltFromConfig(cfg[p]) /\ exclusive' = {}
    /\ aliasMem' = BuiltAliases(cfg[p], known')
    /\ Goto(p, "delete")
    /\ UNCHANGED <<fileVars, cfg, pending, left, marks, disturbed>>

\* DeploymentStore::sync_yaml_to_db: two DELETEs, then the INSERTs.  A deployment
\* that was disabled automatically comes back from the file as disabled, no more.
SyncDelete(p) ==
    /\ at[p] = "delete"
    /\ rows' = {r \in rows : r.source = "db" /\ r.model \notin YamlNames(cfg[p])}
    /\ erased' = erased \cup ({r.id : r \in {x \in rows \ rows' : x.auto}}
                               \cap {e.id : e \in {x \in cfg[p].models : ~x.on}})
    /\ Goto(p, "insert")
    /\ UNCHANGED <<yaml, aliasRows, tableVars, cfg, pending, left, wanted, stopped, disturbed>>

SyncInsert(p) ==
    /\ at[p] = "insert"
    /\ rows' = rows \cup YamlRows(cfg[p])
    /\ Goto(p, "aliasdelete")
    /\ UNCHANGED <<yaml, aliasRows, tableVars, cfg, pending, left, marks, disturbed>>

\* A statement fails or the 15 s are over: what was inserted stays, the rest
\* of the sync is skipped and the reload goes on.
SyncFails(p) ==
    /\ at[p] \in {"delete", "insert", "aliasdelete", "aliasinsert"} /\ Disturb("faults")
    /\ \E S \in SUBSET YamlRows(cfg[p]) : rows' = IF at[p] = "insert" THEN rows \cup S ELSE rows
    /\ Goto(p, "load")
    /\ UNCHANGED <<yaml, aliasRows, tableVars, cfg, pending, marks>>

AliasDelete(p) ==
    /\ at[p] = "aliasdelete"
    /\ aliasRows' = [a \in {b \in DOMAIN aliasRows : aliasRows[b].source = "db"} |-> aliasRows[a]]
    /\ Goto(p, "aliasinsert")
    /\ UNCHANGED <<yaml, rows, tableVars, cfg, pending, left, marks, disturbed>>

\* AliasStore::sync_yaml_to_db inserts in the order of a HashMap and stops at
\* the first name that a source='db' row has (alias_name is the primary key);
\* the DELETE of such rows comes after the INSERTs.
AliasInsert(p) ==
    /\ at[p] = "aliasinsert"
    /\ LET new == cfg[p].aliases
           taken == DOMAIN new \cap DOMAIN aliasRows
       IN  \E S \in SUBSET (DOMAIN new \ taken) :
             /\ taken = {} => S = DOMAIN new
             /\ aliasRows' = Over([a \in S |-> [target |-> new[a].target, hidden |-> new[a].hidden,
                                                source |-> "yaml"]], aliasRows)
    /\ Goto(p, "load")
    /\ UNCHANGED <<yaml, rows, tableVars, cfg, pending, left, marks, disturbed>>

LoadDbDisabledToo(p) ==   \* mutant: load_db_only_to_memory without the enabled filter
    /\ at[p] = "load"
    /\ LET add == PairsOf({r \in rows : r.source = "db" /\ r.model \notin exclusive})
       IN  mem' = mem \cup add /\ known' = known \cup {q[1] : q \in add}
    /\ Goto(p, "loadalias")
    /\ UNCHANGED <<fileVars, exclusive, aliasMem, cfg, pending, left, marks, disturbed>>

LoadDbOnly(p) ==
    /\ at[p] = "load"
    /\ LET add == PairsOf({r \in rows : r.source = "db" /\ r.on /\ r.model \notin exclusive})
       IN  mem' = mem \cup add /\ known' = known \cup {q[1] : q \in add}
    /\ Goto(p, "loadalias")
    /\ UNCHANGED <<fileVars, exclusive, aliasMem, cfg, pending, left, marks, disturbed>>

LoadDbAliases(p) ==
    /\ at[p] = "loadalias"
    /\ aliasMem' = Over([a \in {b \in DOMAIN aliasRows : aliasRows[b].source = "db"} |->
                           [target |-> aliasRows[a].target, hidden |-> aliasRows[a].hidden]], aliasMem)
    /\ Goto(p, "workflows")
    /\ UNCHANGED <<fileVars, known, mem, exclusive, cfg, pending, left, marks, disturbed>>

\* A failing query is logged and skipped, a timeout ends the reload.
LoadFails(p) ==
    /\ at[p] \in {"load", "loadalias"} /\ Disturb("faults")
    /\ \E l \in {"idle", IF at[p] = "load" THEN "loadalias" ELSE "workflows"} : Goto(p, l)
    /\ UNCHANGED <<fileVars, tableVars, cfg, pending, marks>>

\* register_fusion_models, then the new configuration is swapped in.
RegisterWorkflows(p) ==
    /\ at[p] = "workflows"
    /\ LET ok == Virtual \cap (known \cup DOMAIN aliasMem) = {}
       IN  /\ known' = IF ok THEN known \cup Virtual ELSE known
           /\ exclusive' = IF ok THEN exclusive \cup Virtual ELSE exclusive
    /\ Goto(p, "idle")
    /\ UNCHANGED <<fileVars, mem, aliasMem, cfg, pending, left, marks, disturbed>>

Edit ==
    \/ \E e \in left.forms : CreateModel(e)
    \/ \E r \in rows, e \in left.forms : UpdateModel(r, e)
    \/ \E r \in rows : DeleteModel(r)
    \/ \E a \in Aliases, x \in Alias : CreateAlias(a, x) \/ UpdateAlias(a, x)
    \/ \E a \in Aliases : DeleteAlias(a)

Persist == ConfigChanged \/ SnapshotModels \/ WriteYaml \/ PersistFails

Reload(p) ==
    \/ ReadConfig(p) \/ ReadFails(p) \/ ClearStores(p) \/ BuildStores(p)
    \/ SyncDelete(p) \/ SyncInsert(p) \/ SyncFails(p) \/ AliasDelete(p) \/ AliasInsert(p)
    \/ LoadDbOnly(p) \/ LoadDbAliases(p) \/ LoadFails(p) \/ RegisterWorkflows(p)

RegistryNext ==
    \/ Edit \/ Persist
    \/ \E p \in Reloaders : RequestReload(p) \/ Reload(p)

RegistryTypeOK ==
    /\ yaml \in Config /\ rows \subseteq Row /\ aliasRows \in MapsOf(AliasRow)
    /\ known \subseteq Names \cup Virtual /\ mem \subseteq Names \X Deps
    /\ exclusive \subseteq Virtual /\ aliasMem \in MapsOf(Alias)
    /\ at \in [Reloaders -> {"idle", "snapshot", "write", "read", "clear", "build", "delete", "insert",
                             "aliasdelete", "aliasinsert", "load", "loadalias", "workflows"}]
    /\ cfg \in [Reloaders -> Config]
    /\ pending \in Nat /\ wanted \subseteq Names \X Deps /\ disturbed \in BOOLEAN
    /\ stopped \subseteq Deps /\ erased \subseteq Deps

\* No reload and no edit is under way.
Settled == pending = 0 /\ \A p \in Reloaders : at[p] = "idle"
=============================================================================
