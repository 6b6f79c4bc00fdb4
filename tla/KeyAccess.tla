------------------------------ MODULE KeyAccess ------------------------------
(***************************************************************************)
(* Who may call what: API keys and teams in their tables, the token cache  *)
(* of DbAuthenticator, authenticate() as each request runs it, and the     *)
(* model checks of the handlers.  Composed with PlanAssignments: creating  *)
(* and deleting a key edits its assignment, a reload replaces the          *)
(* authenticator and with it the cache.  The master key, the budget (spend *)
(* is never written) and the key's display fields are left out.            *)
(***************************************************************************)
EXTENDS PlanAssignments

CONSTANTS
    Reqs,              \* requests under way at a time
    ModelNames,        \* model and alias names
    Wildcard,          \* the wildcard deployment "*"
    AllTeam, AllProxy, \* "all-team-models", "all-proxy-models"
    NoKey, NoTeam,
    AccessScenarios    \* bounds and inputs of the behaviours

Lists == SUBSET (ModelNames \cup {Wildcard, AllTeam, AllProxy})
Counts == {"edits", "reloads", "troubles", "keyEdits", "dates"}
Inputs == {"menu", "clients", "lists", "keys", "teamList", "dir"}
KeyRow == [blocked : BOOLEAN, expires : BOOLEAN, models : Lists, team : Teams \cup {NoTeam}]

ASSUME AccessConstants ==
    /\ NoKey \notin KeyRow /\ NoKey \notin Keys /\ NoTeam \notin Teams
    /\ \A s \in AccessScenarios :
          /\ DOMAIN s = Counts \cup Inputs /\ \A i \in Counts : s[i] \in Nat
          /\ s.menu \subseteq PlanEdit /\ s.clients \subseteq Reqs /\ s.lists \subseteq Lists
          /\ s.keys \in KeyRow \cup {NoKey} /\ s.teamList \in Lists \cup {NoTeam}

VARIABLES
    keyRows,    \* boom_verification_token
    deleted,    \* keys whose row was deleted
    teamRows,   \* boom_team_table: the models of each team
    late,       \* the expiry dates have passed
    cache, gen, \* the token cache of the current authenticator, and which one that is
    req,        \* requests
    drop,       \* per administrator: the key that delete_key is about to delete
    chore,      \* update_key or delete_team between its check and its statement
    swept       \* history: keys that were revoked when the authenticator was last
                \* replaced, and have been since

keyVars == <<keyRows, deleted, teamRows, late, cache, gen, req, drop, chore, swept>>
accessVars == <<planVars, keyVars>>

IdleReq == [at |-> "idle", key |-> NoKey, row |-> NoKey, gen |-> 0, models |-> {}]
NoChore == [kind |-> "none", key |-> NoKey, team |-> NoTeam]
EmptyCache == [k \in Keys |-> NoKey]
Set(r, rec) == req' = [req EXCEPT ![r] = rec]

\* Some of the scenario's events are used up; its inputs stay.
QuotaOK ==
    /\ DOMAIN quota = Counts \cup Inputs /\ \A i \in Counts : quota[i] \in Nat
    /\ \E s \in AccessScenarios : \A i \in Inputs : quota[i] = s[i]

\* What a request knows while it is authenticated.
Caller == [at : {"idle", "query", "insert", "team", "authed", "admitted"},
           key : Keys \cup {NoKey}, row : KeyRow \cup {NoKey}, gen : Nat, models : Lists]

KeyTypeOK ==
    /\ keyRows \in [Keys -> KeyRow \cup {NoKey}] /\ deleted \subseteq Keys
    /\ teamRows \in [Teams -> Lists \cup {NoTeam}] /\ late \in BOOLEAN
    /\ cache \in [Keys -> KeyRow \cup {NoKey}] /\ gen \in Nat
    /\ req \in [Reqs -> Caller]
    /\ drop \in [Admins -> Keys \cup {NoKey}]
    /\ chore \in [kind : {"none", "move", "delete"}, key : Keys \cup {NoKey}, team : Teams \cup {NoTeam}]

AccessTypeOK == PlanTypeOK /\ QuotaOK /\ KeyTypeOK /\ swept \subseteq Keys
-----------------------------------------------------------------------------
(* The model checks of routes.rs, for a directory d of names:              *)
(* d.alias maps aliases to targets, d.deployed, d.public and d.hybrid are  *)
(* sets of names, d.hidden the aliases that are not listed.                *)

Resolves(d, n, T) == n \in DOMAIN d.alias /\ d.alias[n] \in T
IsPublic(d, n) == n \in d.public \/ Resolves(d, n, d.public)

\* check_model_access.
MayCall(d, L, n) ==
    \/ IsPublic(d, n) \/ L = {}
    \/ n \in L \/ Resolves(d, n, L) \/ (\E a \in L : Resolves(d, a, {n}))
    \/ n \in d.hybrid
    \/ n \notin d.deployed /\ Wildcard \in L

IsModelVisibleDirect(d, L, n) == IsPublic(d, n) \/ n \in L \/ Resolves(d, n, L)   \* mutant
\* is_model_visible.
IsModelVisible(d, L, n) ==
    \/ IsPublic(d, n)
    \/ LET own == L \ {Wildcard}
       IN  n \in own \/ Resolves(d, n, own) \/ (\E a \in own : Resolves(d, a, {n}))

\* visible_model_names and the filter of list_models.
Listed(d, L) ==
    LET all == (d.deployed \ {Wildcard}) \cup (DOMAIN d.alias \ d.hidden) \cup d.hybrid
    IN  IF L = {} THEN all ELSE {n \in all : IsModelVisible(d, L, n)}

\* resolve_team_models.
TeamModels(L) == IF L = NoTeam \/ L \cap {AllTeam, AllProxy} # {} THEN {} ELSE L

\* The models of an identity (authenticate, step 5): the key's own list, the
\* team's where the key says so or says nothing.
IdentityModels(own, team) ==
    LET a == IF AllTeam \in own THEN team ELSE own
        b == IF AllProxy \in a THEN {} ELSE a
    IN  IF b = {} THEN team ELSE b
-----------------------------------------------------------------------------
(* authenticate and the check of the model, as a request runs them. *)

\* A hit answers from the cache and keeps the entry alive.
Arrive(r, k) ==
    /\ req[r].at = "idle" /\ r \in quota.clients
    /\ Set(r, [IdleReq EXCEPT !.key = k, !.gen = gen, !.row = cache[k],
                 !.at = IF cache[k] = NoKey THEN "query" ELSE "team"])
    /\ UNCHANGED <<planVars, keyRows, deleted, teamRows, late, cache, gen, drop, chore>>

LookupToken(r) ==
    /\ req[r].at = "query"
    /\ LET row == keyRows[req[r].key]
       IN  Set(r, IF row = NoKey THEN IdleReq ELSE [req[r] EXCEPT !.row = row, !.at = "insert"])
    /\ UNCHANGED <<planVars, keyRows, deleted, teamRows, late, cache, gen, drop, chore>>

LookupFails(r) ==
    /\ req[r].at = "query" /\ Take("troubles") /\ Set(r, IdleReq)
    /\ UNCHANGED <<storeVars, planTables, adminVars, reloadVars, syncing,
                   keyRows, deleted, teamRows, late, cache, gen, drop, chore>>

CacheTokenForAll(r) ==   \* mutant: one cache for all authenticators
    /\ req[r].at = "insert"
    /\ cache' = [cache EXCEPT ![req[r].key] = req[r].row]
    /\ Set(r, [req[r] EXCEPT !.at = "team"])
    /\ UNCHANGED <<planVars, keyRows, deleted, teamRows, late, gen, drop, chore>>

\* The request holds the authenticator it started with.
CacheToken(r) ==
    /\ req[r].at = "insert"
    /\ cache' = IF req[r].gen = gen THEN [cache EXCEPT ![req[r].key] = req[r].row] ELSE cache
    /\ Set(r, [req[r] EXCEPT !.at = "team"])
    /\ UNCHANGED <<planVars, keyRows, deleted, teamRows, late, gen, drop, chore>>

Accepts(row) == ~row.blocked /\ ~(row.expires /\ late)

Authenticated(r, team) ==
    Set(r, IF Accepts(req[r].row)
           THEN [req[r] EXCEPT !.at = "authed", !.models = IdentityModels(req[r].row.models, team)]
           ELSE IdleReq)

\* lookup_team is not cached.
LookupTeam(r) ==
    /\ req[r].at = "team"
    /\ Authenticated(r, IF req[r].row.team = NoTeam THEN {} ELSE TeamModels(teamRows[req[r].row.team]))
    /\ UNCHANGED <<planVars, keyRows, deleted, teamRows, late, cache, gen, drop, chore>>

\* An error is logged and the team has no list.
LookupTeamFails(r) ==
    /\ req[r].at = "team" /\ req[r].row.team # NoTeam /\ Take("troubles")
    /\ Authenticated(r, {})
    /\ UNCHANGED <<storeVars, planTables, adminVars, reloadVars, syncing,
                   keyRows, deleted, teamRows, late, cache, gen, drop, chore>>

CallModel(r, n) ==
    /\ req[r].at = "authed"
    /\ Set(r, IF MayCall(quota.dir, req[r].models, n) THEN [req[r] EXCEPT !.at = "admitted"] ELSE IdleReq)
    /\ UNCHANGED <<planVars, keyRows, deleted, teamRows, late, cache, gen, drop, chore>>

Finish(r) ==
    /\ req[r].at = "admitted" /\ Set(r, IdleReq)
    /\ UNCHANGED <<planVars, keyRows, deleted, teamRows, late, cache, gen, drop, chore>>

\* Five minutes without a hit, or the capacity of the cache.
CacheExpires(k) ==
    /\ cache[k] # NoKey /\ cache' = [cache EXCEPT ![k] = NoKey]
    /\ UNCHANGED <<planVars, keyRows, deleted, teamRows, late, gen, req, drop, chore>>

DatesPass ==
    /\ ~late /\ Take("dates") /\ late' = TRUE
    /\ UNCHANGED <<storeVars, planTables, adminVars, reloadVars, syncing,
                   keyRows, deleted, teamRows, cache, gen, req, drop, chore>>
-----------------------------------------------------------------------------
(* Keys and teams.  None of these statements touches the cache. *)

KeyStatement(k, row) ==
    /\ Take("keyEdits")
    /\ keyRows' = [keyRows EXCEPT ![k] = row]
    /\ UNCHANGED <<storeVars, planTables, reloadVars, syncing, teamRows, late, cache, gen, req>>

\* The row that is inserted.
NewRow(row) == [row EXCEPT !.models = IF AllTeam \in @ THEN {AllTeam} ELSE @]

\* The assignment asked for with a new key; the default plan is assigned in memory only.
AssignNewKey(a, k, choice) ==
    LET e == [kind |-> IF choice = NoPlan THEN "optout" ELSE "assign", type |-> "key", owner |-> k,
              plan |-> IF choice \in Plans THEN choice ELSE Default, tell |-> FALSE]
    IN  IF choice = Unset \/ ~Valid(e) THEN UNCHANGED <<storeVars, task, step>>
        ELSE IF choice = Default /\ default THEN ApplyEdit(e) /\ UNCHANGED <<task, step>>
        ELSE task' = [task EXCEPT ![a] = e] /\ step' = [step EXCEPT ![a] = "stmt"] /\ UNCHANGED storeVars

\* create_key and insert_single_key: the row, then the assignment.  The hash of a
\* key is fresh.
CreateKey(a, k, row, choice) ==
    /\ keyRows[k] = NoKey /\ k \notin deleted /\ task[a] = NoTask /\ drop[a] = NoKey
    /\ keyRows' = [keyRows EXCEPT ![k] = NewRow(row)]
    /\ Take("keyEdits")
    /\ AssignNewKey(a, k, choice)
    /\ UNCHANGED <<planTables, persist, reloadVars, syncing, deleted, teamRows, late, cache, gen, req, drop, chore>>

\* block_key, unblock_key.
BlockKey(k, b) ==
    /\ keyRows[k] # NoKey /\ KeyStatement(k, [keyRows[k] EXCEPT !.blocked = b])
    /\ UNCHANGED <<adminVars, deleted, drop, chore>>

\* update_key: COALESCE sets a date and never clears one.
UpdateKey(k, L) ==
    /\ keyRows[k] # NoKey
    /\ KeyStatement(k, [keyRows[k] EXCEPT !.models = IF AllTeam \in L THEN {AllTeam} ELSE L, !.expires = TRUE])
    /\ UNCHANGED <<adminVars, deleted, drop, chore>>

\* update_key with a team: the team is looked up before the UPDATE.
MoveKeyCheck(k, t) ==
    /\ chore = NoChore /\ Take("keyEdits")
    /\ t # NoTeam => teamRows[t] # NoTeam
    /\ chore' = [kind |-> "move", key |-> k, team |-> t]
    /\ UNCHANGED <<storeVars, planTables, adminVars, reloadVars, syncing,
                   keyRows, deleted, teamRows, late, cache, gen, req, drop>>

MoveKey ==
    /\ chore.kind = "move" /\ chore' = NoChore
    /\ keyRows' = [keyRows EXCEPT ![chore.key] = IF @ = NoKey THEN @ ELSE [@ EXCEPT !.team = chore.team]]
    /\ UNCHANGED <<planVars, deleted, teamRows, late, cache, gen, req, drop>>

\* delete_key: the assignment first (a failure is only logged), then the row.
DeleteKey(a, k) ==
    /\ keyRows[k] # NoKey /\ task[a] = NoTask /\ drop[a] = NoKey /\ Take("keyEdits")
    /\ drop' = [drop EXCEPT ![a] = k]
    /\ task' = [task EXCEPT ![a] = [kind |-> "unassign", plan |-> Default, type |-> "key",
                                     owner |-> k, tell |-> FALSE]]
    /\ step' = [step EXCEPT ![a] = "stmt"]
    /\ UNCHANGED <<storeVars, planTables, persist, reloadVars, syncing,
                   keyRows, deleted, teamRows, late, cache, gen, req, chore>>

DeleteToken(a) ==
    /\ drop[a] # NoKey /\ task[a] = NoTask
    /\ keyRows' = [keyRows EXCEPT ![drop[a]] = NoKey] /\ deleted' = deleted \cup {drop[a]}
    /\ drop' = [drop EXCEPT ![a] = NoKey]
    /\ UNCHANGED <<planVars, teamRows, late, cache, gen, req, chore>>

\* create_team, update_team.
WriteTeam(t, L) ==
    /\ Take("keyEdits") /\ teamRows' = [teamRows EXCEPT ![t] = L]
    /\ UNCHANGED <<storeVars, planTables, adminVars, reloadVars, syncing,
                   keyRows, deleted, late, cache, gen, req, drop, chore>>

\* delete_team: refused while the team has keys.
DeleteTeamCheck(t) ==
    /\ chore = NoChore /\ teamRows[t] # NoTeam /\ Take("keyEdits")
    /\ \A k \in Keys : keyRows[k] # NoKey => keyRows[k].team # t
    /\ chore' = [kind |-> "delete", key |-> NoKey, team |-> t]
    /\ UNCHANGED <<storeVars, planTables, adminVars, reloadVars, syncing,
                   keyRows, deleted, teamRows, late, cache, gen, req, drop>>

DeleteTeam ==
    /\ chore.kind = "delete" /\ chore' = NoChore
    /\ teamRows' = [teamRows EXCEPT ![chore.team] = NoTeam]
    /\ UNCHANGED <<planVars, keyRows, deleted, late, cache, gen, req, drop>>

\* The end of a reload: build_inner makes a new authenticator.
ReloadEnds ==
    /\ CleanupAssignments
    /\ cache' = EmptyCache /\ gen' = gen + 1
    /\ UNCHANGED <<keyRows, deleted, teamRows, late, req, drop, chore>>

Restart ==
    /\ RestartPlans
    /\ cache' = EmptyCache /\ gen' = gen + 1
    /\ req' = [r \in Reqs |-> IdleReq]
    /\ drop' = [a \in Admins |-> NoKey] /\ chore' = NoChore
    /\ UNCHANGED <<keyRows, deleted, teamRows, late>>
-----------------------------------------------------------------------------
AccessInit ==
    /\ quota \in AccessScenarios /\ PlanInit
    /\ keyRows = [k \in Keys |-> quota.keys] /\ deleted = {}
    /\ teamRows = [t \in Teams |-> quota.teamList] /\ late = FALSE
    /\ cache = EmptyCache /\ gen = 0 /\ req = [r \in Reqs |-> IdleReq]
    /\ drop = [a \in Admins |-> NoKey] /\ chore = NoChore /\ swept = {}

AccessStep ==
    \/ \E r \in Reqs :
         \/ (\E k \in Keys : Arrive(r, k)) \/ LookupToken(r) \/ LookupFails(r) \/ CacheToken(r)
         \/ LookupTeam(r) \/ LookupTeamFails(r) \/ (\E n \in ModelNames : CallModel(r, n)) \/ Finish(r)
    \/ \E k \in Keys :
         \/ CacheExpires(k) \/ (\E b \in BOOLEAN : BlockKey(k, b))
         \/ \E L \in quota.lists : UpdateKey(k, L)
         \/ \E t \in Teams \cup {NoTeam} : MoveKeyCheck(k, t)
    \/ \E a \in Admins, k \in Keys :
         \/ DeleteKey(a, k)
         \/ \E L \in quota.lists, c \in Choices :
              CreateKey(a, k, [blocked |-> FALSE, expires |-> FALSE, models |-> L, team |-> NoTeam], c)
    \/ \E a \in Admins : DeleteToken(a)
    \/ \E t \in Teams : DeleteTeamCheck(t) \/ \E L \in quota.lists : WriteTeam(t, L)
    \/ MoveKey \/ DeleteTeam \/ DatesPass \/ ReloadEnds \/ Restart

Stored ==
    /\ \/ \E a \in Admins : AdminStep(a) \/ \E e \in quota.menu : StartEdit(a, e)
       \/ (\E e \in quota.menu : MemoryEdit(e)) \/ PersistPlans \/ SyncStep \/ ReloadStep
    /\ UNCHANGED <<keyRows, deleted, teamRows, late, cache, gen, req, drop, chore>>

Usable(row) == row # NoKey /\ ~row.blocked
Revoked(k) == ~Usable(keyRows[k])

AccessNext ==
    /\ AccessStep \/ Stored
    /\ swept' = {k \in Keys : Revoked(k)' /\ (k \in swept \/ gen' # gen)}

AccessSpec == AccessInit /\ [][AccessNext]_accessVars

\* Handlers and the reload run on, the sync task wakes up and writes.
FairAccessSpec ==
    /\ AccessSpec
    /\ \A a \in Admins : WF_accessVars(AdminStep(a) /\ AccessNext)
    /\ WF_accessVars(ReloadStep /\ AccessNext) /\ WF_accessVars(ReloadEnds /\ AccessNext)
    /\ WF_accessVars(SyncStart /\ AccessNext) /\ \A k \in Keys : WF_accessVars(SyncRow(k) /\ AccessNext)
-----------------------------------------------------------------------------
\* A key that is blocked or deleted keeps its old rights as long as the cache
\* holds its old row.  A reload ends that: a request that begins after the new
\* authenticator is in place is never admitted with such a key, although requests
\* that began before may still insert the row they read (lookup_token).
ReloadRevokes ==
    [][\A r \in Reqs : req[r].at # "admitted" /\ req'[r].at = "admitted" =>
          ~(req[r].key \in swept /\ req[r].gen = gen)]_accessVars

\* No alias is named "*", and none that has the name of a deployed model stands
\* for "*": the code accepts such aliases, but visible_model_names hides what
\* they make callable.
PlainAliases ==
    \A s \in AccessScenarios :
        /\ Wildcard \notin DOMAIN s.dir.alias
        /\ \A n \in s.dir.deployed : ~Resolves(s.dir, n, {Wildcard})

\* list_models shows no model that the key could not call, and no deployed model
\* that it could call is missing, whatever the lists of the key and the team say.
ListingAgreesWithAccess ==
    \A k \in Keys : keyRows[k] # NoKey =>
        LET d == quota.dir
            t == keyRows[k].team
            L == IdentityModels(keyRows[k].models, IF t = NoTeam THEN {} ELSE TeamModels(teamRows[t]))
        IN  /\ \A n \in Listed(d, L) : MayCall(d, L, n)
            /\ \A n \in d.deployed \ (d.hybrid \cup {Wildcard}) : MayCall(d, L, n) => n \in Listed(d, L)
=============================================================================
