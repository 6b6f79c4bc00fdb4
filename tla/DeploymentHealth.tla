-------------------------- MODULE DeploymentHealth --------------------------
(***************************************************************************)
(* Deployments that fail are taken out of routing and put back: failing    *)
(* requests spawn tasks that disable a deployment, the offline checker     *)
(* probes enabled rows, the recovery checker probes auto-disabled ones.    *)
(* All of them end in auto_disable_deployment or auto_enable_deployment:   *)
(* one UPDATE, one SELECT of the model's enabled rows, and                 *)
(* set_deployments with what was read.                                     *)
(***************************************************************************)
EXTENDS ModelRegistry

CONSTANTS
    Spawned,    \* tasks that record_request_failure can have running
    Offline,    \* the offline checker
    Recovery,   \* the recovery checker
    Threshold   \* failures (successes) in a row that disable (enable)

Workers == Spawned \cup {Offline, Recovery}

ASSUME HealthConstants ==
    Offline # Recovery /\ {Offline, Recovery} \cap Spawned = {} /\ Threshold \in Nat \ {0}

VARIABLES
    up,         \* what a probe of the deployment would find
    inuse,      \* deployments that requests have been sent to
    failures,   \* request_failure_counter
    bad, good,  \* DeploymentHealthCounters
    job         \* what each worker is doing

healthVars == <<up, inuse, failures, bad, good, job>>
vars == <<registryVars, healthVars>>

Idle == [at |-> "idle", id |-> Star, model |-> Star, got |-> {}, targets |-> {}]
Steps == {"idle", "scan", "update", "read", "set", "clear"}
Job == [at : Steps, id : Deps \cup {Star}, model : Names, got : SUBSET Deps, targets : SUBSET (Names \X Deps)]
Cap(n) == IF n > Threshold THEN Threshold ELSE n   \* bound: larger counts act alike

HealthInit ==
    /\ up = [d \in Deps |-> d \notin left.off]
    /\ inuse = {}
    /\ failures = [d \in Deps |-> 0]
    /\ bad = [d \in Deps |-> 0] /\ good = [d \in Deps |-> 0]
    /\ job = [w \in Workers |-> Idle]

Work(w, l) == job' = [job EXCEPT ![w].at = l]
-----------------------------------------------------------------------------
(* Requests and the world. *)

\* A backend breaks or recovers.
Flip(d) ==
    /\ d \in left.flaky /\ Spend("flips")
    /\ up' = [up EXCEPT ![d] = ~@]
    /\ UNCHANGED <<fileVars, tableVars, procVars, marks, inuse, failures, bad, good, job>>

\* The router hands a request one of the candidates of some name.  Unless its
\* failure is counted the request leaves nothing behind.
SelectProvider(d) ==
    /\ "request" \in left.checks
    /\ d \in UNION {ResolveCandidates(n) : n \in Names \cup Aliases}
    /\ inuse' = inuse \cup {d}
    /\ UNCHANGED <<registryVars, up, failures, bad, good, job>>

\* reset_request_failure.
RequestSucceeds(d) ==
    /\ d \in inuse /\ up[d]
    /\ inuse' = inuse \ {d}
    /\ failures' = [failures EXCEPT ![d] = 0]
    /\ UNCHANGED <<registryVars, up, bad, good, job>>

\* record_request_failure: every failure at or past the threshold spawns a task.
RequestFails(d) ==
    /\ d \in inuse /\ ~up[d]
    /\ inuse' = inuse \ {d}
    /\ failures' = [failures EXCEPT ![d] = Cap(@ + 1)]
    /\ \/ failures'[d] < Threshold /\ UNCHANGED job
       \/ /\ failures'[d] >= Threshold
          /\ \E w \in Spawned :
               /\ job[w].at = "idle"
               /\ job' = [job EXCEPT ![w].at = "update", ![w].id = d]
    /\ UNCHANGED <<registryVars, up, bad, good>>
-----------------------------------------------------------------------------
(* The two checkers: a list of targets, then one probe after the other.    *)

Scan(w) ==
    /\ w \in {Offline, Recovery} /\ job[w].at = "idle"
    /\ (IF w = Offline THEN "offline" ELSE "recovery") \in left.checks
    /\ LET found == PairsOf({x \in rows : IF w = Offline THEN x.on ELSE ~x.on /\ x.auto})
       IN  found # {} /\ job' = [job EXCEPT ![w].at = "scan", ![w].targets = found]
    /\ UNCHANGED <<registryVars, up, inuse, failures, bad, good>>

\* The counters after a probe of d by w.
Probed(w, d) ==
    /\ bad' = [bad EXCEPT ![d] = IF up[d] THEN 0 ELSE Cap(@ + 1)]
    /\ good' = [good EXCEPT ![d] = IF up[d] /\ w = Recovery THEN Cap(@ + 1) ELSE 0]

Reached(w, d) == IF w = Offline THEN ~up[d] /\ bad'[d] >= Threshold
                                ELSE up[d] /\ good'[d] >= Threshold

\* A target without a health_url is skipped.
Skip(w, t) ==
    /\ w \in {Offline, Recovery} /\ job[w].at = "scan"
    /\ t[2] \notin left.probed
    /\ LET rest == job[w].targets \ {t}
       IN  job' = [job EXCEPT ![w].targets = rest, ![w].at = IF rest = {} THEN "idle" ELSE "scan"]
    /\ UNCHANGED <<registryVars, up, inuse, failures, bad, good>>

Probe(w, t) ==
    LET d == t[2] IN
    /\ w \in {Offline, Recovery} /\ job[w].at = "scan"
    /\ d \in left.probed
    /\ Probed(w, d)
    /\ LET rest == job[w].targets \ {t}
       IN  job' = [job EXCEPT ![w] = [@ EXCEPT !.targets = rest, !.id = d,
                    !.at = IF Reached(w, d) THEN "update" ELSE IF rest = {} THEN "idle" ELSE "scan"]]
    /\ UNCHANGED <<registryVars, up, inuse, failures>>
-----------------------------------------------------------------------------
(* auto_disable_deployment and auto_enable_deployment.                     *)

\* The rows the UPDATE matches; all of them are changed, the name of one is returned.
Matched(w) == {r \in rows : r.id = job[w].id /\ IF w = Recovery THEN r.auto ELSE r.on}
Switched(w, r) == [r EXCEPT !.on = (w = Recovery), !.auto = (w # Recovery)]

\* What nothing repairs until the next reload: rows that change under a reload, rows
\* of one id under two names, of which one is reloaded, and a table that is set
\* from rows that have changed since.
Reloading == \E p \in Reloaders : at[p] # "idle"
InTheWay(w) == (Matched(w) # {} /\ Reloading) \/ \E r, x \in Matched(w) : r.model # x.model
Outdated(w) == Reloading \/ job[w].got # EnabledIds(rows, job[w].model)

UpdateRow(w) ==
    /\ job[w].at = "update"
    /\ \/ Matched(w) = {} /\ Work(w, "clear") /\ UNCHANGED rows
       \/ \E r \in Matched(w) :
            /\ rows' = (rows \ Matched(w)) \cup {Switched(w, x) : x \in Matched(w)}
            /\ job' = [job EXCEPT ![w].at = "read", ![w].model = r.model]
    /\ disturbed' = (disturbed \/ InTheWay(w))
    /\ UNCHANGED <<yaml, aliasRows, tableVars, procVars, left, marks, up, inuse, failures, bad, good>>

\* reload_model_deployments: load_model_rows, later set_deployments.
LoadModelRows(w) ==
    /\ job[w].at = "read"
    /\ job' = [job EXCEPT ![w].at = "set", ![w].got = EnabledIds(rows, job[w].model)]
    /\ UNCHANGED <<registryVars, up, inuse, failures, bad, good>>

SetDeployments(w) ==
    /\ job[w].at = "set"
    /\ LET m == job[w].model
       IN  IF m \in exclusive THEN UNCHANGED <<mem, known>>
           ELSE /\ mem' = {p \in mem : p[1] # m} \cup ({m} \X job[w].got)
                /\ known' = known \cup {m}
    /\ Work(w, "clear")
    /\ disturbed' = (disturbed \/ Outdated(w))
    /\ UNCHANGED <<fileVars, exclusive, aliasMem, procVars, left, marks, up, inuse, failures, bad, good>>

HealthQueryFailsForGood(w) ==   \* mutant: the error ends the checker's loop
    /\ \/ job[w].at = "update" /\ Spend("faults")
       \/ job[w].at = "read" /\ Disturb("faults")
    /\ Work(w, "stopped")
    /\ UNCHANGED <<fileVars, tableVars, procVars, marks, up, inuse, failures, bad, good>>

\* A failing statement: nothing is reloaded, the counters are cleared all the same.
HealthQueryFails(w) ==
    /\ \/ job[w].at = "update" /\ Spend("faults")      \* a later probe tries again
       \/ job[w].at = "read" /\ Disturb("faults")      \* the row says disabled: no one does
    /\ Work(w, "clear")
    /\ UNCHANGED <<fileVars, tableVars, procVars, marks, up, inuse, failures, bad, good>>

\* deployment_health.clear and request_failure_counter.remove.
ClearCounters(w) ==
    /\ job[w].at = "clear"
    /\ LET d == job[w].id
       IN  /\ bad' = [bad EXCEPT ![d] = 0] /\ good' = [good EXCEPT ![d] = 0]
           /\ failures' = [failures EXCEPT ![d] = 0]
    /\ job' = [job EXCEPT ![w] = IF job[w].targets = {} THEN Idle
                                 ELSE [Idle EXCEPT !.at = "scan", !.targets = job[w].targets]]
    /\ UNCHANGED <<registryVars, up, inuse>>

Step(w) ==
    \/ Scan(w) \/ \E t \in job[w].targets : Skip(w, t) \/ Probe(w, t)
    \/ UpdateRow(w) \/ LoadModelRows(w) \/ SetDeployments(w) \/ ClearCounters(w)

HealthNext ==
    \/ \E d \in Deps : Flip(d) \/ SelectProvider(d) \/ RequestSucceeds(d) \/ RequestFails(d)
    \/ \E w \in Workers : Step(w) \/ HealthQueryFails(w)
-----------------------------------------------------------------------------
Init == RegistryInit /\ HealthInit
Next == HealthNext \/ (RegistryNext /\ UNCHANGED healthVars)
Spec == Init /\ [][Next]_vars

\* Tasks that have begun go on and the checkers wake up again and again; edits,
\* signals, faults and requests are not forced.
FairSpec ==
    /\ Spec
    /\ \A w \in Workers : WF_vars(Step(w))
    /\ WF_vars((ConfigChanged \/ SnapshotModels \/ WriteYaml) /\ UNCHANGED healthVars)
    /\ \A p \in Reloaders : WF_vars(Reload(p) /\ UNCHANGED healthVars)

\* One type invariant for the stores, the reloaders and the health tasks.
TypeOK ==
    /\ RegistryTypeOK
    /\ up \in [Deps -> BOOLEAN] /\ inuse \subseteq Deps
    /\ failures \in [Deps -> 0 .. Threshold]
    /\ bad \in [Deps -> 0 .. Threshold] /\ good \in [Deps -> 0 .. Threshold]
    /\ job \in [Workers -> Job]

Quiet == Settled /\ \A w \in Workers : job[w].at \in {"idle", "scan"}

\* Whatever an administrator configured and did not remove is in the file once
\* everything has settled: the way through the database (persist, sync, reload)
\* loses no deployment, disabled and auto-disabled ones included.
ConfigKept == (~disturbed /\ Settled) => wanted \subseteq PairsOf(yaml.models)

\* Once everything has settled, an ordinary name is routed to exactly the
\* deployments whose rows are enabled: an edit, an automatic disable or enable
\* takes effect in memory as well as in the database.
RoutingMatchesRows ==
    (~disturbed /\ Quiet) => \A n \in Models : Providers(n) = EnabledIds(rows, n)

\* A deployment with a health URL that stays broken is taken out of routing by
\* the checkers, also when the UPDATE that disables it fails at first.
FaultyLeaves ==
    \A d \in Deps : <>[](~up[d] /\ ~disturbed /\ d \in left.probed) =>
        <>[](\A n \in Models : <<n, d>> \notin mem)

\* A deployment with a health URL that works again for good is enabled and
\* routed again, also when an administrator edits it meanwhile.  The only ones
\* that stay out are those that an administrator has switched off and those
\* whose row a reload has replaced by the file's, which does not know that they
\* were disabled automatically.
RecoveredReturns ==
    \A d \in Deps : <>[](up[d] /\ ~disturbed /\ d \in left.probed /\ d \notin stopped \cup erased) =>
        <>[](\A r \in rows : r.id = d => r.on /\ (r.model \in Models => <<r.model, d>> \in mem))

\* Whatever failed before, a reload with nothing else under way brings routing
\* and rows together again.
Alone(p) == /\ at[p] = "read" /\ \A q \in Reloaders \ {p} : at[q] = "idle"
            /\ pending = 0 /\ left.faults = 0 /\ left.edits = 0 /\ left.reloads = 0
            /\ left.checks = {}
ReloadHeals ==
    \A p \in Reloaders :
        Alone(p) ~> (at[p] = "idle" /\ \A n \in Models : Providers(n) = EnabledIds(rows, n))
=============================================================================
