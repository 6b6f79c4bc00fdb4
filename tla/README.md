# BooMGateway: TLA+ models and proofs

BooMGateway is an LLM API gateway in Rust: it authenticates a request, checks it
against rate-limit plans, routes it to a deployment, queues it for that
deployment, calls the upstream provider and accounts for the reply. This
directory holds TLA+ models of the parts whose correctness depends on the
interleaving of requests, timers, disconnects and administration, the TLC runs
that check them and TLAPS proofs of the invariants that matter most.

## The system

| component | state | operations | hard part |
|---|---|---|---|
| flow control (`boom-flowcontrol`) | per deployment: limits, two queues, next id; a reverse index key → requests | `acquire`, `dispatch`, Drop of `AcquireCleanup` and `FlowControlGuard`, `ensure_slot`, `retain_slots`, `periodic_dispatch`, `get_key_request_status` | timeout and disconnect racing a grant; slots re-created under load; lost wake-ups |
| plan admission (`routes.rs`) | `PlanCharge` of each request | `check_plan_limits`, `commit`, `settle`, Drop | check, commit and settlement are far apart; guards on every exit path |
| limiter (`boom-limiter`) | window counters, lifetime totals, concurrency counters, dirty sets | `peek_only`, `commit_counts`, `settle_usage`, `clear_windows`, resets, sync, restore | stale windows; resets against the sync task |
| plans (`boom-limiter`) | plans, assignments, defaults | CRUD, `effective_limits`, assignment sync | schedules that switch in the middle of a request |
| deployments and aliases (`boom-routing` stores, `state.rs`) | `config.yaml`, two tables, the stores in memory | dashboard edits, `persist_config_in_place`, `reload`, `sync_models_to_db`, `load_db_only_*` | an edit goes through the file and back into the database; stores are cleared and refilled under load |
| health monitor, admin commands | failure counters, probe counters, rows | auto-disable, auto-enable, `reload_model_deployments` | tasks spawned per failure, counters cleared although a statement failed |
| routing (policies, `inflight.rs`, `kvc.rs`) | in-flight counts, affinities, turns | `select`, rebalance, the index asked before and taught after the choice | loads that move between reading and choosing |
| KV index (`boom-kvindex`) | trie, reverse lookup, LRU queue, timers | record, query, evict, sweep | a lock per node; nodes cut off under a task's feet |
| rate rings (`rebalance.rs`, `request_rate.rs`, `ctxaware/stats.rs`) | 60 buckets and a start minute | `record`, `snapshot` | lazy clearing |
| fusion (`fusion.rs`, `boom-fusion`) | a panel of child calls, a billing channel | panel, aggregator, stream | one charge for many calls, some of which fail |
| handlers (`routes.rs`) and request log | guards in hand, forwarding task, dedup cache, channel, buffer, batch | every exit of `chat_completions` and `messages`, `try_send`, `flush_batch` | disconnects at any await; INSERTs that time out and commit |
| keys, teams, plans (`boom-auth`, `boom-limiter`, dashboard) | tables, token cache, plans and assignments in memory | `authenticate`, CRUD, assignment sync, reload, cleanup | cached rights, two writers of one table in opposite order |
| load balancer (`misc/LB`) | snapshot, blacklist, unhealthy set | filter, route, retry, probe, hot reload | three values swapped independently under a request |

A request passes them in this order: authentication → `check_plan_limits`
(guards taken, windows peeked) → router → `FlowController::acquire` → provider →
`PlanCharge::commit` → reply, or a stream wrapped in `GuardedStream`,
`FlowControlledStream` and `LoggedStream` → `PlanCharge::settle`. Reloads, the
one-second dispatcher, the ten-minute sync and the dashboard run beside it.
`PROJECT.json` lists every component, and every place that is hard to test.

## Modules

| module | models |
|---|---|
| `FlowControl` | one flow-control slot per deployment, the requests that use it, the reverse index, reconfiguration |
| `FlowDispatch` | the dispatch loop as written, against the definition that `FlowControl` uses |
| `PlanSchedule` | `effective_limits`: shorthand, slots, stale windows |
| `PlanAdmission` | plan checks, guards, counters and totals along the life of a request |
| `LimiterPersistence` | lifetime totals between memory and database: settlement, sync, resets, failures, restarts |
| `ModelRegistry` | deployments and aliases in file, database and memory: edits, persist, reload |
| `DeploymentHealth` | failing requests, both checkers, auto-disable and auto-enable; extends `ModelRegistry` |
| `AuditLog` | the abstract promise of the request log |
| `LogWriter` | channel, buffer, batch, retry, counting; shown to implement `AuditLog` |
| `RequestPipeline` | a request through the handlers, its guards, its stream and its records; extends `LogWriter` |
| `PlanAssignments` | plans and assignments in memory and tables: edits, sync, reload, cleanup, restart |
| `KeyAccess` | keys, teams, the token cache, `authenticate`, model checks and listings; extends `PlanAssignments` |
| `KvIndex` | the prefix index |
| `RateWindow` | the hourly ring buffers |
| `Routing` | the three policies over the loads; extends `KvIndex` and `RateWindow` |
| `Fusion` | a fusion workflow whose children are calls of `Routing`; extends it |
| `LoadBalancer` | misc/LB: requests, prober, watcher |
| `MC*` | instances for TLC |
| `FlowControlProofs`, `PlanAdmissionProofs`, `LimiterPersistenceProofs`, `RequestPipelineProofs`, `FusionProofs`, `LoadBalancerProofs` | theorems about the module of that name and the modules it extends |
| `StoreProofs` | theorems about `KeyAccess` and `DeploymentHealth` and the modules they extend |
| `SumTheorems` | what sums over finite sets do when one term or the set changes |

Modules that compose several parts bound the environment with a record `left` (`quota`
in `PlanAssignments`, `load` in `Fusion`): how many edits, reloads, failures, flips remain and which of them this
behaviour has. Init chooses one of the instance's scenarios, so that one run
covers each kind of disturbance, and pairs of them, without their product.

### FlowControl

A request is one call of `acquire()`. It is its own oneshot channel (`chan`) and,
while queued, its own entry: `waiting[d]` and `inflight[d]` are the entries of
both queues with `dispatched` false and true. The order of a queue is the order
of the ids (`rid`), since an id is drawn and the entry pushed under one lock.
`limits[d] = NoSlot` stands for an absent slot, which is what `ensure_slot` makes
of a 0/0 configuration. Every action is one critical section of the code:

* `AcquireNoSlot`, `AcquireReject`, `AcquireEnqueue` (draw an id, push, dispatch),
  `IndexPush`: the first part of `acquire`;
* `Granted`, `SenderGone`, `TimerFires` followed by `TimeoutLookup`, `Cancel`
  followed by `CancelCleanup`: the ways the await ends. The timer and the
  disconnect drop the receiver first and lock the slot later, which is where
  other tasks get in between;
* `Release`: `FlowControlGuard::drop`; `Unref` and `Reap`: the two sections of
  `remove_key_ref`; `StatusBegin` to `StatusReap`: a dashboard query;
* `EnsureSlot`, `RetainSlots`, `PeriodicDispatch`: administration and the ticker.

`Dispatch` describes the result of `dispatch()` by the set of entries whose grant
was sent. `FlowDispatch` writes the loop as the code does (recursively, so it is
kept apart from the proofs) and states that both agree; `fc_queue` evaluates this
in every reachable state.

### PlanAdmission

A request goes through `check_plan_limits` for its team and then its key
(`TeamGuard`, `TeamStart`, `KeyGuard`, `GuardFails`, `ClearStale`, `PeekWindow`,
`PeekTotal`),
is `admitted`, and then abandoned (`Abandon`) or answered (`ProviderReturns`):
by a reply, a stream, or an error of a call that already cost something.
`CommitWindow`, `Committed`, `StreamEnds`, `DropStream`, `SettleWindow`,
`SettleTotal` and `DropGuard` follow `PlanCharge` and the stream wrappers. Every
access to one counter is one step, because only the entry of a DashMap is locked.
`Elapse` ends a window at any time, `ChangePeriod` moves the schedule and
`ChangePlan` replaces a plan while requests hold clones of the old one. Tokens
and costs follow the same rules everywhere and are one dimension, `usage`; a
limit is a set of numbers, empty when not configured. `PlanSchedule` computes the
plans' effective limits; `MCPlanAdmission` applies it to concrete plans. The
evaluation of the limits, the guard that uses them, the clearing of stale windows
and the peek of each window are steps of their own. Three reads are taken in one
step with what follows: the key's and the team's plan (`Resolve`), and the limits
with the acquisition of the guard that they are evaluated for (`TeamGuard`,
`KeyGuard`). Plans and periods change at any step, back as well as forth, so an
evaluation that is out of date when it is used is also one that was made in time,
between two changes.

### LimiterPersistence

`mem` and `row` are the lifetime totals in memory and in
`boom_rate_limit_cumulative`, `dirty` is the set of keys the next sync is to write.
A settlement adds to the total (`AddKey`, `AddTeam`) and enters the key in the dirty
set afterwards, under another lock (`MarkKey`, `MarkTeam`). The sync task takes a
snapshot of the windows (`SyncBegin`, `WriteWindow`), takes the dirty set away
(`TakeDirty`), and for each key reads the total and writes the row (`ReadTotal`,
`WriteTotal`); `SyncFails` is a failing statement or the 30-second timeout. A reset
is the sequence of its lock sections and statements (`KeySteps`, `TeamSteps`), so
that the order in which each of the six resets does them is kept; `NextMember`
is the cascade from a team to its keys, `ResetFails` an early return by `?`.
`WipeBegin`, `WipeTotal` and `WipeDirty` are `clear_all()`, `Restart` is the loss
of memory followed by `restore_counters_from_db()`. The six counters of a scope
have keys of their own and are one total; a window is only live or not, which
decides whether the sync does anything. The history variables are not in the
code: `lost` collects the scopes whose row was given up; `short` adds up what a
team's total lacks of its members' usage (usage that was never charged to the team,
and what a reset took off a team after another reset had taken it off already);
`troubles` counts failures, restarts and `clear_all()`s, `crossings` the resets that
begin beside another one, and `MaxTroubles` bounds both together.

### ModelRegistry and DeploymentHealth

`yaml` is the file, `rows` and `aliasRows` are the tables, `mem`, `known`,
`exclusive` and `aliasMem` the stores. A dashboard edit is a statement followed by
a message to the command handler (`pending`), which takes a snapshot of the
enabled and disabled rows, writes the file and reloads. A reload (`at[p]`) is
the sequence of its awaited steps: read the file, clear and build, sync the file
into the database, load the rows that exist only there. `Admin` is the command
handler; other reloaders are the signal and the HTTP call. No lock orders them:
their steps interleave.

A reload whose `load_config`, pool or namespace check fails changes nothing
(`ReadFails`); an edit of a row may give it another id (`UpdateModel`). `forms` and
`probed` are part of a scenario: the entries that an administrator may write, and
the deployments with a health URL; the checkers skip the others (`Skip`).

The health tasks have a `job` each: a spawned task starts with the UPDATE, a checker
with a scan and probes; both go on with the SELECT, `set_deployments` and the
clearing of the counters, one step each. Counters are capped at the threshold.
`disturbed` is a history variable: it is set by what the code does not guard
against and only a reload repairs (a reload overlapping with an edit, a failing
statement in the middle of a reload, rows that changed between the SELECT and
`set_deployments`, one deployment id under two model names). The safety properties
are about undisturbed behaviours, `ReloadHeals` about the others. `stopped` and
`erased` are history variables too: the deployments that an administrator switched
off, and those whose row a reload replaced by the file's entry, which does not know
that they were disabled automatically. `CreateAlias` merges the statement and the
change of memory, unlike the edits of deployments: no property relates an alias in
memory to its row.

### LogWriter, AuditLog and RequestPipeline

`AuditLog` knows five sets: records sent, pending, stored, counted as dropped, and
gone with a restart. `LogWriter` has the channel, the task's buffer, the batch with
its attempt, and `late`, the INSERTs that timed out and may still commit;
`Audit == INSTANCE AuditLog WITH pending <- chan \cup buffer \cup batch, ...` is
the refinement mapping. `RequestPipeline` writes through it: `Arrive`, the refusals
with their suppression (`dedup` asked and entered in two steps), the guards
(`held`), the provider's answer, the forwarding task (`fwd`) with its bounded
channel, `DropStream` for the Drop of the wrappers, and `Disconnect` at any await.

### PlanAssignments and KeyAccess

Assignments have three values: a plan, an explicit "no plan" and none. The
dashboard runs a statement and then changes memory, `/admin/plans` changes memory
only, the sync task writes one row after the other, and a reload goes through its
stages up to `cleanup_assignments`. `KeyAccess` adds the key and team tables, the
cache (which nothing invalidates, a reload replaces it), and a request that
looks the cache up, reads the row and enters it in steps. `gen` counts the
authenticators: a request keeps the one it began with, and writes to the cache of
that one. `swept` is a history variable: the keys that were revoked when the
authenticator was last replaced and have been since. `ReloadEnds` is the
replacement with the cleanup before it; the reload may fail at any earlier stage
(`register_fusion_models` included). An error between the cleanup and the
replacement is left out: it leaves the assignments as a complete reload does and the
old authenticator in place, and no property relates the two.

### KvIndex, RateWindow, Routing, Fusion

In `KvIndex` every lock of the trie, the lookup, the queue and the timers is a step;
nodes have an identity and may be cut off while a task holds them. A node is freed
when nobody holds it any more, directly or through its ancestors: `Live` is the
least set that contains what is held and is closed under children, and a new node
is one outside of it; the heap `Nodes` is a bound. `RateWindow`
keeps `served`, what was really recorded in each minute, beside the rings. A call
of `Routing` starts, asks the index (policy `kvc_aware`), reads the loads one after
the other while other calls come and go, decides over what it read, records, waits
for its slot and runs; a load is the in-flight count over the capacity, in per cent,
and reading one is a step. `SwapPolicy` is a reload: the new policy has no
affinities and starts its turns again; calls under way keep the old one. A reload
that leaves `kvc_aware` in force keeps its index; one that introduces it starts with
an empty index, as Init does, and is not among the swaps. `Fusion` makes its children
calls of `Routing` and keeps `usage`, what each child's provider reported, and
`settled`, what the parent was charged. The task that forwards a stream's chunks
(`fwd`) is apart from the response: when the response is dropped it settles, the
task goes on until its next send fails, and what it bills until then is `late`.

### LoadBalancer

A request loads the blacklist, then the snapshot, and for each attempt snapshot and
unhealthy set again; a body is counted against the limit once per attempt
(`counted`). The prober loads backends and threshold from the configuration, probes
and publishes. The watcher starts after snapshot and blacklist were loaded, watches
the directory of the configuration and then that of the blacklist
(`WatchConfigDir`, `WatchBlacklistDir`), and from then on receives and drains events
and reloads. Edits in a directory that is not watched raise no event. `torn` and
`missed` are history variables: ring requests under which the snapshot was swapped,
and files that were edited after they were read and before their directory was
watched, until they are read again.

## Runs

Passing runs:

| run | instance | shows |
|---|---|---|
| `fc_queue` | 3 requests (VIP or not, context 1 or 2); limits 2/3 and 0/1 in turn, the slot removed and re-created at any time | `NoLeakedEntry`, `LoopGrantsSentSet`, `CapacityRespected`, `WorkConserving`, `PriorityRespected` |
| `fc_live` | 2 requests of context 1 or 2, with and without a key, status queries, the slot resized in turn, `FairSpec` | `TypeOK`, `QueueIsTruth`, `RefsAreLive`, `WaitersAreServed` |
| `plan_accounts` | 3 requests of one key in a team; 2 guards, 1 request and 2 tokens per minute, a lifetime limit of 1 | `TypeOK`, `OvershootBounded`, `TotalsExact`, `TeamOvershootBounded` |
| `plan_schedule` | 2 requests of one key of a team; a base plan with `rpm_limit` and an hour window, a slot with a one-minute window instead, switching at any step; the key's plan removed and set again, `FairSpec` | `GuardsCounted`, `ForgottenOnlyBy`, `SlotsComeBack` |
| `persist_sync` | 1 request on a key and its team, 2 administrators with all resets between them, 1 failure, restart, `clear_all()` or reset beside another | `TypeOK`, `NothingForgotten`, `ShortfallExplained` |
| `registry` | 2 models, 2 deployments, an alias, 2 reloaders, 1 spawned task, both checkers; 9 scenarios of edits, flips, reloads and failures, with and without health URLs, `FairSpec` | `ConfigKept`, `RoutingMatchesRows`, `FaultyLeaves`, `RecoveredReturns`, `ReloadHeals` |
| `access` | 1 key, 1 team, 2 plans, 2 administrators, 1 request; 7 scenarios with up to 3 edits, a reload, a failure or restart, `FairAccessSpec` | `ListingAgreesWithAccess`, `ReloadRevokes`, `ReloadKeepsChoices`, `AssignmentsConverge` |
| `log` | 2 requests with one dedup key, 2 chunks, channels of 1, batches of 2, 1 restart, `FairSpec` | `OneRecordEach`, `UsageComplete`, `CounterExact`, `KeepsAuditPromise`, `EverythingEnds` |
| `routing` | 2 deployments of capacity 1 and 2, up to 3 requests (in one load three more hold slots from the start) or a panel of 2 with its aggregator, prefixes of 2 blocks, an index bounded to 1 block, rings of 2 buckets over 6 minutes; 7 loads | `MatchesAreReal`, `ChildrenSettled`, `RateWindowExact`, `ChoiceIsBalanced` |
| `lb` | 3 backends, 1 request with 3 attempts, 2 configurations with thresholds 2 and 1, 2 blacklist files in directories of their own, 2 edits, 1 flip, `FairSpec` | `NoTryWasted`, `HealthConverges`, `FilesInForce` |

Three requests are enough for the queue: the races involve a request that
leaves, the one that takes its place and the one that is passed over. One
deployment is enough since slots share nothing but the reverse index, whose
lookups are by deployment. In the plans, two guards and three requests let one
request arrive between the peek and the commit of two others. In `persist_sync` one
request is enough because totals are sums: what a reset or the sync does to the
contribution of one request does not depend on the others. Two administrators are
enough for a reset that crosses another, and one crossing shows what it takes away;
one of them resets the key's totals, the other uses every other reset. All of its
requests are charged to the team; the theorems have neither restriction. `fc_queue`
and `plan_accounts` treat their requests as symmetric; runs with a liveness property
use no symmetry.

For the registry two deployments of one model let two tasks work on one name, and
one spawned task beside the two checkers gives three writers of one row; a
threshold of 1 keeps the counters short, since larger thresholds only delay what
follows. In `access` one key is enough because rows and cache entries of different
keys do not meet. An index bounded to one block evicts at every second
recording; a ring of 2 buckets over 6 minutes laps twice, with gaps below, at and
above its length. In `lb` three attempts exceed every list; two edits are enough for
a change of the configuration and one of the list that it names, in either order
and with any step of the watcher in between. The types of
`DeploymentHealth` (`TypeOK`) and `KeyAccess` (`AccessTypeOK`) are proved; they and
`TypeOK` of `RequestPipeline` were checked once on the same instances and are not
part of a run.

The registry's, access, log, routing and lb runs do not check for deadlock: their
requests end and their environment has a budget, so these systems may stop.

Two runs show a disagreement between the code and what is written about it
(details in `PROJECT.json`, "findings"):

* `fc_admitted` (`AdmittedWithinLimit`): `max_inflight` is documented as the maximum
  in flight; a timed-out request whose entry `dispatch()` has just removed believes it
  was dispatched, and runs beside the one that got its place.
* `plan_stale` (`CountersKept`): stale windows are documented as those of the other
  schedule period; outside of all slots they are chosen before the shorthand is merged
  in, so that with `rpm_limit` in the base plan and a 60-second window in a slot every
  check clears the counter that it enforces. `ForgottenOnlyBy` in `plan_schedule`, on
  the same plan, says that nothing else goes wrong.

### Observations

Met while modelling; the models have these behaviours, and the properties are
stated so that they allow for them.

* Flow control: a reload drops the slots of deployments that live only in the
  database and creates them again (`state.rs` 1326, 1079); requests that were queued
  get `NoSlot` and pass without a slot (`FlowControl!SenderGone`).
* Plans: a request that resolved its plan before the plan was replaced clears the
  stale windows of the old plan, which may be windows in force of the new one.
* Persistence: `clear_key_cumulative_db` zeroes the key, waits for its DELETE and then
  takes what the key had off the team, to keep "team = Σ members"
  (`sliding_window.rs` 1026, `handlers_admin.rs` 4603). If another administrator
  resets the team in between, it is taken off twice and the team's total is too small
  from then on, even negative. The two comments claim the consistency without that
  restriction. `ShortfallExplained` measures what such crossings take (`short`) and
  says that nothing else is missing; without `short` TLC shows the crossing.
* Persistence: totals are written only if some window is live when the sync task
  wakes up (`main.rs` 388). The windows written come from a snapshot that an
  intervening reset does not correct (`sliding_window.rs` 902).
* Registry: `reload_model_deployments` is not ordered against itself or a reload;
  auto-disable updates every row of the id and reloads one name; persisting forgets
  an alias's `hidden` and the slot's `tpm_limit`; a
  model with only disabled deployments disappears from memory with a reload, and
  its name then falls to `*`; a reload by signal or HTTP is not locked against the
  handler's write of the file.
* Registry: automatic recovery is promised without a condition (`README.md` 26 of the
  repository), but the file does not carry `auto_disabled`: any edit that persists and
  reloads while a deployment is out turns it into one that an administrator switched
  off, and it stays out for good (`erased`). A deployment without `api_base` is
  disabled by failing requests and never probed, so it stays out as well
  (`health_monitor.rs` 262). `RecoveredReturns` names both exceptions.
* Request log: the suppression of refusals is not atomic (two records, never none);
  an INSERT that timed out may commit and be repeated; what is in the buffer at a
  restart is not counted; a client that leaves before the answer leaves no record;
  an error in mid-stream is logged as 200.
* Access: nothing invalidates the token cache; a team lookup that fails makes
  "all-team-models" unrestricted for that request; the sync task can re-insert an
  assignment that was just removed; a failing SELECT in a reload is swallowed and
  the cleanup then removes the assignments of the plans it did not load; the same
  befalls a plan whose upsert has written its row after the reload's SELECT and not
  yet the memory (`PlanAssignments!Upserting`); team assignments are never synced.
* Access: nothing rejects an alias named `*`, or one that has the name of a deployed
  model and stands for `*` (`create_alias`, `handlers_admin.rs` 2063); a key whose list
  has `*` may call what `list_models` then hides (hence the hypothesis `PlainAliases`).
* Fusion: a client that leaves before the answer is not charged for the panel; what
  the forwarding task polls after the response was dropped is billed to a charge that
  has been settled (`routes.rs` 360 and 2572, `fusion.rs` 494) and stays unpaid;
  decreasing usage snapshots of a stream are billed as if they were new.
* KV index: a sweep racing a recording can leave entries that never age out.
* Load balancer: a retry uses the old route's index in the new snapshot's rings
  (`proxy.rs` 431, against the comment at 130); a file that is edited between its load
  and the watch of its directory, at start (`main.rs` 84-93) or when a reload moves the
  blacklist to another directory (`proxy.rs` 831-855), is read at its next change
  only, although `misc/LB/README.md` (31, 153) says that changes of both files take
  effect by themselves. `FilesInForce` excepts exactly these edits (`missed`).

### Fairness

`FlowControl!FairSpec` assumes weak fairness of a task's own next step (the
runtime polls woken tasks, provider timeouts bound an upstream call, so a guard is
eventually dropped) and of the one-second dispatcher. Nothing obliges a client to
come or go, a timer to fire, a query or a reload. `PlanAdmission!FairSpec` assumes
weak fairness of a handler that has begun; abandoning, time and administration are
not forced. `DeploymentHealth!FairSpec` assumes weak fairness of the checkers, which
wake up again and again, of tasks and reloads that have begun and of the command
handler; edits, requests, signals and faults are not forced. `KeyAccess!FairAccessSpec`
assumes it of an administrator's second step, of a reload under way and of the sync
task, row by row. `RequestPipeline!FairSpec` assumes it of a handler, a stream and a
response that have begun (provider timeouts bound them), and of the log task: its
receive, its timer, and the end of an INSERT, which the timeout guarantees.
`LoadBalancer!FairSpec` assumes it of the prober's and the watcher's thread. Deadlock
is checked in the flow-control, plan and persistence runs: the ticker, the schedule,
the elapsing windows and the sync task are always there.

## Proofs

All theorems hold for every value of the constants that satisfies the named
assumptions (`ConstantsAssumption`; `PlanConstants`, `PlanBounds`;
`PersistenceConstants`; `WriterConstants`; `PipelineConstants`; `RateAssumption`,
`IndexAssumption`, `RoutingAssumption`, `FusionAssumption`, `LoadAssumption`;
`LoadBalancerConstants`; `AssignmentConstants`, `AccessConstants`;
`RegistryConstants`, `HealthConstants`). Every inductive
invariant was an invariant of a TLC run before it was proved.

**Flow control** (`FlowControlProofs`)

* `TypeCorrect` and `NoEntryLeaks` (Spec ⇒ □NoLeakedEntry). That an entry never
  outlives its request is not inductive: the removal looks the entry up by id, so it
  also needs that ids are distinct within a slot (`IdsDistinct`, from `IdsDrawn`),
  that waiting and dispatched entries are disjoint, that an absent slot has no
  entries, and that an entry's sender has not been dropped. Their conjunction is
  `EntryInv`.
* `GrantsWithinCapacity`, `NoLostWakeup`, `PriorityIsRespected`: the three action
  properties of `dispatch()`. They rest on what `SentSet` says: a waiting entry
  is granted exactly if it fits beside those in flight and the granted entries before
  it in the order of priority and id. The last granted entry of a step therefore bears
  witness to the limits for all of them; the context in use is a sum over a set.
* `DispatchIsAFunction`: `SentSet` has exactly one solution on every reachable slot, so
  the relation by which the model describes `dispatch()` blocks no step and leaves no
  choice. Two solutions would differ on a first entry, beside which both grant the
  same; a solution for a queue without its last entry extends to the whole queue. This
  is the half of `LoopGrantsSentSet` that does not mention the recursive loop.
* `QueueStaysTrue` and `RefsStayLive` assume `OnlyResized`: no configuration of 0/0
  and no `retain_slots` that drops a slot. The hypothesis is the condition under which
  the code promises it: a slot that is dropped and re-created draws its ids from 1
  again and meets entries of the reverse index that name the old ones. `TicketInv`
  says who holds which id (`TicketsHeld`, `TicketsDrawn`, `TicketsUnique`).

**Plan admission** (`PlanAdmissionProofs`)

* `PlanTypeCorrect` and `GuardsExact` (Spec ⇒ □GuardsCounted). The invariant
  `GuardInv` ties the guards a request may hold to its place in the handler
  (`LocalInv`) and counts them.
* `OvershootIsBounded` and `TeamOvershootIsBounded`. A request that has passed the
  peek of a window and not yet committed it is pending; a pending request holds its
  guard; so the pending requests are at most `MaxConc`. `CountRoom` and `TotalRoom`
  reserve room in the counter for every pending request, and a peek succeeds only
  when the room is there.
* `TotalsStayExact`: every lifetime total is the sum of what the requests that have
  settled with it used. Inductive together with `NothingOwed`: a request has used
  nothing before the provider answers, and pays a scope once.
* `WindowsKeepCounts` (Spec ⇒ ForgottenOnlyBy) and `StaleApart`. The first takes from
  the plans only `PlanSchedules`: in a period, the windows a plan clears are apart from
  those it enforces, but for the one-minute window of the base period. A counter that
  is cleared otherwise was cleared by limits that are not in force any more. The second
  proves `PlanSchedules` of `effective_limits` as `PlanSchedule` translates it, for any
  base plan and slots, so the assumption is no restriction of the plans.

**Persistence** (`LimiterPersistenceProofs`)

* `PersistenceTypeCorrect` and `NoTotalForgotten` (Spec ⇒ □NothingForgotten), for
  any number of administrators and troubles. `ForgetInv` adds that a reset marks what
  it zeroes next (`ScriptsMark`), that the sync holds totals only while it writes them
  (`SyncShape`), and that a value that was read and not yet written is either still
  right or marked again (`ValueCurrent`): without the last, writing it could not be
  shown to be harmless.
* `TeamCovers` (Spec ⇒ □ShortfallExplained), for any number of administrators whose
  resets cross in any way, and whether or not usage is charged to the team. In between
  the sums do not agree: `CoverInv` credits the team with what settlements have added to a key and not
  yet to the team (`Owes`), debits it with what resets have still to subtract
  (`Subs`), and leaves out the members that a cascade is going to clear (`Doomed`).

**Request log and pipeline** (`RequestPipelineProofs`)

* `CounterIsExact` (WriterSpec ⇒ □CounterExact) and `WriterImplementsAudit`
  (WriterSpec ⇒ Audit!AuditSafety), the step simulation of the refinement. The
  invariant `Inv` says where a record can be (`Places`: in one of channel, buffer,
  batch, or none), that the sets are finite, and counts the uses of a record: INSERTs
  that stored it plus those still open (`Tried`); while it is in the batch these are
  fewer than the attempts, which the retry needs.
* `PipelineImplementsWriter` (Spec ⇒ WriterSpec): a step of the gateway is a step of
  the writer or leaves it alone, since a request hands its record over at most once.
  From it `PipelineCounterExact` and `PipelineKeepsAudit`.
* `EachRequestRecorded`, `UsageIsComplete` and `InflightIsExact`, from an invariant
  that ties the guards in hand, the forwarding task and the records of a request to
  its place in the handler.

**Routing, index and fusion** (`FusionProofs`)

* `RateWindowsStayExact`: a ring's bucket holds what was recorded in the minute that
  it stands for, for every number of buckets and every gap.
* `MatchesStayReal`: `path`, the blocks that lead to a node, is right for every node
  that is live, whether it hangs in the trie or is only held by a task or the lookup,
  and a worker marks a node only if a request with that prefix was recorded for it. A
  node is re-used only outside of `Live`, which is why nobody who holds one is
  deceived.
* `FusionSettlesExactly`: the account of a workflow against its children's usage,
  from an invariant on which of the children have been billed at each stage, the
  forwarding task's bills after the settlement (`late`) apart.
* `ChoicesStayBalanced`: of the loads that were read one is least, and the chosen
  deployment is within the threshold of it, for every weight, threshold and gate and
  however the loads move while they are read.

**Load balancer** (`LoadBalancerProofs`)

* `FailoverWastesNothing` (Spec ⇒ □NoTryWasted), for any lists, number of attempts,
  requests and configurations. `TryInv` counts the backends that a request has tried
  against its attempts and keeps them within its list (`Tried`), and says that the
  ring a retry will ask is still the ring of the list that the request keeps
  (`RingInForce`): a retry asks the rings of the snapshot then in force, by the index
  of the route in the old one. A swap breaks the second part, which is why requests on
  a ring at that moment (`torn`) are excepted. `LoadBalancerConstants` takes from the
  parser of the configuration that no list is empty.

**Keys, plans and reloads** (`StoreProofs`)

* `AccessTypeCorrect` (AccessSpec ⇒ □AccessTypeOK). The invariant `Shaped` adds which
  row a request holds at each place of `authenticate` (`RequestShape`) and what a
  dashboard handler that moves or deletes has in hand (`ChoreShape`).
* `ReloadsRevoke` (AccessSpec ⇒ ReloadRevokes). `SweptInv`: of a swept key neither the
  table nor the cache of the present authenticator nor a request that belongs to it has
  a usable row. A request is admitted with a usable row in hand; a cache is filled only
  by requests of its own authenticator, and these read the table after the key was
  revoked. Requests that began before the reload may hold the old row and insert it,
  into a cache that nobody asks any more.
* `ReloadsKeepChoices` (AccessSpec ⇒ ReloadKeepsChoices). `ReloadInv` follows one plan
  through the stages of a reload: while the rows of the file are replaced, what is to
  be inserted is in memory; from then on a row without a plan in memory is one of the
  database that the reload has still to fetch, or belongs to an upsert under way
  (`Upserting`). The exception was found by the attempt to prove the property without
  it; the scenario `Recreates` of the run has such an upsert.
* `ListingMatchesAccess` (AccessSpec ⇒ □ListingAgreesWithAccess) assumes
  `PlainAliases`, and is false without it: both functions follow an alias in either
  direction, but the listing takes `*` out of the key's list first. Otherwise directory
  and lists are arbitrary.

**Registry and health** (`StoreProofs`)

* `TypeCorrect` (Spec ⇒ □TypeOK of `DeploymentHealth`), `NoDeploymentLost`
  (Spec ⇒ □ConfigKept) and `RoutingFollowsRows` (Spec ⇒ □RoutingMatchesRows).
  `RegistryInv` says, for undisturbed behaviours, how file, rows and routing stand at
  each place of the command handler (`Course`): what is wanted is in the rows until they
  are deleted and in the file from when it is written; the routing table is the one built from the
  file while the rows are replaced; at rest every model is routed to its enabled rows
  unless a health task is about to set it (`Setting`). The last is what makes the
  statement inductive over the tasks that update a row and set the routing later.

**Sums** (`SumTheorems`). The library's induction principles take an operator as a
parameter, which the provers cannot instantiate; the facts about
`SumFunctionOnSet` are proved from the definition instead, by a least counterexample:
if the set of subsets for which a fact fails is not empty it has a minimal element
(`SmallestSet`), and taking one element out of that gives a smaller one. The same
argument gives the recursive function behind a sum.

Only model-checked: the liveness properties `WaitersAreServed`, `SlotsComeBack`,
`FaultyLeaves`, `RecoveredReturns`, `ReloadHeals`, `AssignmentsConverge`,
`EverythingEnds`, `HealthConverges`, `FilesInForce` and the fairness part of
`KeepsAuditPromise` (the prover has no ENABLED), and that the loop of `dispatch()`
computes `SentSet` (`LoopGrantsSentSet`; its loop is recursive). Every other invariant and
action property of a run is a theorem.

## Not modelled, and the plan

Left for later, in this order:

1. `LimiterPersistence`: the values of persisted windows.
2. Flow control as an implementation of an abstract bounded semaphore.

Left out for good: providers and protocol conversion (stateless data conversion
and I/O; their outcomes are choices of the models), YAML parsing and validation, the
hour parser of schedules, tokenisation and hashing, the tier classifier of the
hybrid router and the context classifier (functions of one request's text), the
list of recent rebalance moves, the prompt log's rotating files, audit inserts,
dashboard login, sessions, statistics and pages, the master key and the budget
check, plug-in hooks (foreign code), and the test tools.
