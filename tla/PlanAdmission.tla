--------------------------- MODULE PlanAdmission ---------------------------
(***************************************************************************)
(* Plan limits along the life of a request: check_plan_limits, PlanCharge, *)
(* the window counters of boom-limiter and its concurrency guards.         *)
(*                                                                         *)
(* A request is checked on two layers, its team's plan and then its key's. *)
(* Each layer takes a concurrency guard, drops stale windows, peeks at the *)
(* windows and at the lifetime total, and charges nothing.  The counts are *)
(* committed only when the provider has accepted the request, the usage is *)
(* settled only when the response is over; in between the windows may roll *)
(* over, plans may be replaced and a schedule may change the limits.       *)
(*                                                                         *)
(* Abstractions.  Tokens and costs obey the same rules at every place and  *)
(* are one dimension, usage; so are the lifetime counters.  A limit is a   *)
(* set of numbers, empty when it is not configured.  Absent and elapsed    *)
(* counters behave alike and are both not live; a window elapses at any    *)
(* time, which subsumes the clock, and the periodic removal of elapsed     *)
(* windows is not visible; neither is the removal of idle concurrency      *)
(* counters.                                                               *)
(***************************************************************************)
EXTENDS Naturals, FiniteSets, Functions, PlanSchedule

CONSTANTS
    Requests,       \* requests to /v1/chat/completions and /v1/messages
    Keys,           \* API keys
    Teams,          \* teams
    TeamOf,         \* the team of each key, or None
    None,           \* no team, no plan
    Windows,        \* values of window_secs
    Periods,        \* the schedule slots, and the time outside of them
    Base,           \* the time outside of all slots
    Plans,          \* effective limits of the plans, per period
    Legacy,         \* the limits of a key without plan (global rpm/tpm)
    Replaceable,    \* scopes whose plan is replaced at run time
    Weights,        \* quota weights of the models
    Usages,         \* usage (tokens or cost) that a provider reports
    MaxConc,        \* bounds of the plans' limits, weights and usages
    MaxCount,
    MaxTotal,
    MinWeight,
    MaxWeight,
    MaxUsage

Scopes == Keys \cup Teams

\* Where a scope counts: under its plan, or a key without one per model.
Buckets == {"plan", "model"}

Counters == Scopes \X Buckets \X Windows

\* What effective_limits() returns, with the lifetime limit of the plan.
Limits == [conc : SUBSET Nat, counts : [Windows -> SUBSET Nat],
           usage : [Windows -> SUBSET Nat], total : SUBSET Nat, stale : SUBSET Windows]

Layers == {"team", "key"}

ASSUME PlanConstants ==
    /\ IsFiniteSet(Requests)
    /\ Keys \cap Teams = {}
    /\ None \notin Scopes
    /\ TeamOf \in [Keys -> Teams \cup {None}]
    /\ Plans \subseteq [Periods -> Limits]
    /\ None \notin Plans
    /\ Legacy \in Limits
    /\ Legacy.conc = {} /\ Legacy.stale = {} /\ Legacy.total = {}
    /\ Replaceable \subseteq Scopes
    /\ Weights \subseteq Nat
    /\ Usages \subseteq Nat

ASSUME PlanBounds ==
    /\ {MaxConc, MaxCount, MaxTotal, MinWeight, MaxWeight, MaxUsage} \subseteq Nat
    /\ \A p \in Plans, q \in Periods :
         /\ \A w \in Windows : \A L \in p[q].counts[w] : L <= MaxCount
         /\ \A L \in p[q].total : L <= MaxTotal
    /\ \A w \in Weights : MinWeight <= w /\ w <= MaxWeight
    /\ MinWeight <= MaxCount
    /\ MaxTotal # 0
    /\ \A u \in Usages : u <= MaxUsage

WindowsOf(lim) == {w \in Windows : lim.counts[w] \cup lim.usage[w] # {}}

CountedWindows(lim) == {w \in Windows : lim.counts[w] # {}}

(***************************************************************************)
(* The plans come from effective_limits: a slot clears no window that it   *)
(* counts in.  Outside of all slots the one-minute window may be both: the *)
(* shorthand brings it in after the stale windows have been picked.        *)
(***************************************************************************)
ASSUME PlanSchedules ==
    \A p \in Plans, q \in Periods :
        p[q].stale \cap WindowsOf(p[q]) \subseteq IF q = Base THEN {Minute} ELSE {}

VARIABLES
    plan,       \* the plan of each scope, None without one
    period,     \* the schedule slot that is active now
    conc,       \* key_concurrency_counters, team_concurrency_counters
    counter,    \* SlidingWindowLimiter.windows
    total,      \* SlidingWindowLimiter.cumulative
    ask,        \* key and weight of each request
    pc,         \* where the handler of each request is
    cloned,     \* the plans that check_plan_limits resolved, per layer
    charge,     \* the limits in PlanCharge, per layer
    held,       \* the layers whose ConcurrencyGuard the request holds
    left,       \* <<layer, window>> pairs still to visit in this phase
    used        \* the usage to settle

storeVars == <<plan, period>>
reqVars == <<ask, cloned, charge, used>>
vars == <<storeVars, conc, counter, total, pc, held, left, reqVars>>

Committing == {"commitReply", "commitStream", "commitError"}

PC == {"idle", "team", "teamStart", "teamClear", "teamPeek", "key", "keyClear", "keyPeek",
       "admitted", "streaming", "ended", "settleKey", "settleTeam", "dropping", "done"} \cup Committing

NoLimits == [conc |-> {}, counts |-> [w \in Windows |-> {}],
             usage |-> [w \in Windows |-> {}], total |-> {}, stale |-> {}]

Window == [live : BOOLEAN, counts : Nat, usage : Nat]

NoWindow == [live |-> FALSE, counts |-> 0, usage |-> 0]

TypeOK ==
    /\ plan \in [Scopes -> Plans \cup {None}]
    /\ period \in Periods
    /\ conc \in [Scopes -> Nat]
    /\ counter \in [Counters -> Window]
    /\ total \in [Scopes -> Nat]
    /\ ask \in [Requests -> [key : Keys, weight : Weights]]
    /\ pc \in [Requests -> PC]
    /\ cloned \in [Requests -> [Layers -> Plans \cup {None}]]
    /\ charge \in [Requests -> [Layers -> Limits]]
    /\ held \in [Requests -> SUBSET Layers]
    /\ left \in [Requests -> SUBSET (Layers \X Windows)]
    /\ used \in [Requests -> Usages \cup {0}]

Init ==
    /\ plan \in [Scopes -> Plans \cup {None}]
    /\ period \in Periods
    /\ conc = [s \in Scopes |-> 0]
    /\ counter = [c \in Counters |-> NoWindow]
    /\ total = [s \in Scopes |-> 0]
    /\ ask \in [Requests -> [key : Keys, weight : Weights]]
    /\ pc = [r \in Requests |-> "idle"]
    /\ cloned = [r \in Requests |-> [l \in Layers |-> None]]
    /\ charge = [r \in Requests |-> [l \in Layers |-> NoLimits]]
    /\ held = [r \in Requests |-> {}]
    /\ left = [r \in Requests |-> {}]
    /\ used = [r \in Requests |-> 0]

-----------------------------------------------------------------------------
(***************************************************************************)
(* The window counters.                                                    *)
(***************************************************************************)

Team(r) == TeamOf[ask[r].key]

ScopeOf(r, l) == IF l = "team" THEN Team(r) ELSE ask[r].key

CounterOf(r, l, w) ==
    <<ScopeOf(r, l), IF cloned[r][l] = None THEN "model" ELSE "plan", w>>

\* What a reader sees: nothing is left of a window that has elapsed.
Now(c) == IF counter[c].live THEN counter[c] ELSE NoWindow

\* Mutant: the weight of the request itself is forgotten.
PeekAllowsUnweighted(lim, c, weight) ==
    /\ \A L \in lim.counts[c[3]] : Now(c).counts <= L
    /\ \A L \in lim.usage[c[3]] : Now(c).usage < L

\* peek_only for one window: counts must leave room for this request, usage
\* is checked after the fact.
PeekAllows(lim, c, weight) ==
    /\ \A L \in lim.counts[c[3]] : Now(c).counts + weight <= L
    /\ \A L \in lim.usage[c[3]] : Now(c).usage < L

TotalAllows(lim, s) == \A L \in lim.total : total[s] < L

\* bump_counts: the first commit after the window has elapsed starts a new one.
BumpCounts(c, weight) ==
    [live |-> TRUE, counts |-> Now(c).counts + weight, usage |-> Now(c).usage]

\* bump_tokens_and_cost: no usage leaves the window as it is.
BumpUsage(c, u) ==
    IF u = 0 THEN counter[c]
    ELSE [live |-> TRUE, counts |-> Now(c).counts, usage |-> Now(c).usage + u]

\* Mutant: every window of the scope is cleared, the active ones too.
ClearAllWindows(s, stale) ==
    [c \in Counters |-> IF c[1] = s /\ c[2] = "plan" THEN NoWindow ELSE counter[c]]

\* clear_windows: the counters of stale windows are removed.
ClearWindows(s, stale) ==
    [c \in Counters |-> IF c[1] = s /\ c[2] = "plan" /\ c[3] \in stale
                          THEN NoWindow ELSE counter[c]]

-----------------------------------------------------------------------------
(***************************************************************************)
(* check_plan_limits                                                       *)
(***************************************************************************)

\* Resolve both plans; a plan replaced later is not seen by this request.
Resolve(r) ==
    /\ pc[r] = "idle"
    /\ cloned' = [cloned EXCEPT ![r] = [l \in Layers |->
                    IF ScopeOf(r, l) = None THEN None ELSE plan[ScopeOf(r, l)]]]
    /\ pc' = [pc EXCEPT ![r] = IF cloned'[r]["team"] = None THEN "key" ELSE "team"]
    /\ UNCHANGED <<storeVars, conc, counter, total, held, left, ask, charge, used>>

\* effective_limits() at this time of day.
Effective(p) == IF p = None THEN Legacy ELSE p[period]

HasRoom(s, lim) == \A L \in lim.conc : conc[s] < L

\* try_acquire_inner, under the lock of the counter's entry.
TryAcquire(r, l, lim) ==
    LET s == ScopeOf(r, l) IN
    /\ HasRoom(s, lim)
    /\ IF lim.conc = {}
         THEN UNCHANGED <<conc, held>>
         ELSE /\ conc' = [conc EXCEPT ![s] = @ + 1]
              /\ held' = [held EXCEPT ![r] = @ \cup {l}]

\* 1a: the team's guard.
TeamGuard(r) ==
    /\ pc[r] = "team"
    /\ TryAcquire(r, "team", Effective(cloned[r]["team"]))
    /\ pc' = [pc EXCEPT ![r] = "teamStart"]
    /\ UNCHANGED <<storeVars, counter, total, left, reqVars>>

\* 1b: effective_limits() is evaluated again, possibly in another period.
TeamStart(r) ==
    /\ pc[r] = "teamStart"
    /\ charge' = [charge EXCEPT ![r]["team"] = Effective(cloned[r]["team"])]
    /\ pc' = [pc EXCEPT ![r] = "teamClear"]
    /\ UNCHANGED <<storeVars, conc, counter, total, held, left, ask, cloned, used>>

\* 2a: one evaluation for the key's guard and its windows.
KeyGuard(r) ==
    LET lim == Effective(cloned[r]["key"]) IN
    /\ pc[r] = "key"
    /\ TryAcquire(r, "key", lim)
    /\ charge' = [charge EXCEPT ![r]["key"] = lim]
    /\ pc' = [pc EXCEPT ![r] = "keyClear"]
    /\ UNCHANGED <<storeVars, counter, total, left, ask, cloned, used>>

\* Stale windows go first, then every window of the limits is visited.  The
\* period may have changed, or the plan been replaced, since the evaluation.
ClearStale(r, l) ==
    /\ pc[r] = (IF l = "team" THEN "teamClear" ELSE "keyClear")
    /\ counter' = ClearWindows(ScopeOf(r, l), charge[r][l].stale)
    /\ left' = [left EXCEPT ![r] = {l} \X WindowsOf(charge[r][l])]
    /\ pc' = [pc EXCEPT ![r] = IF l = "team" THEN "teamPeek" ELSE "keyPeek"]
    /\ UNCHANGED <<storeVars, conc, total, held, reqVars>>

\* Mutant: the error of the key layer leaves the team's guard behind.
GuardFailsForgetting(r, l) ==
    /\ pc[r] = l
    /\ ~HasRoom(ScopeOf(r, l), Effective(cloned[r][l]))
    /\ pc' = [pc EXCEPT ![r] = "done"]
    /\ UNCHANGED <<storeVars, conc, counter, total, held, left, reqVars>>

\* ConcurrencyExceeded: `?` drops whatever guards are held.
GuardFails(r, l) ==
    /\ pc[r] = l
    /\ ~HasRoom(ScopeOf(r, l), Effective(cloned[r][l]))
    /\ pc' = [pc EXCEPT ![r] = "dropping"]
    /\ UNCHANGED <<storeVars, conc, counter, total, held, left, reqVars>>

Peeking(r, l) == pc[r] = (IF l = "team" THEN "teamPeek" ELSE "keyPeek")

\* One window of the layer is read, without a lock on the others.
PeekWindow(r, l) ==
    /\ Peeking(r, l)
    /\ \E w \in Windows :
         /\ <<l, w>> \in left[r]
         /\ IF PeekAllows(charge[r][l], CounterOf(r, l, w), ask[r].weight)
              THEN /\ left' = [left EXCEPT ![r] = @ \ {<<l, w>>}]
                   /\ UNCHANGED pc
              ELSE /\ left' = [left EXCEPT ![r] = {}]
                   /\ pc' = [pc EXCEPT ![r] = "dropping"]
    /\ UNCHANGED <<storeVars, conc, counter, total, held, reqVars>>

\* The lifetime total ends the layer.
PeekTotal(r, l) ==
    /\ Peeking(r, l)
    /\ left[r] = {}
    /\ pc' = [pc EXCEPT ![r] =
                IF ~TotalAllows(charge[r][l], ScopeOf(r, l)) THEN "dropping"
                ELSE IF l = "team" THEN "key" ELSE "admitted"]
    /\ UNCHANGED <<storeVars, conc, counter, total, held, left, reqVars>>

-----------------------------------------------------------------------------
(***************************************************************************)
(* The handler with its PlanCharge: routing, flow control and the call of  *)
(* the provider are awaited with the guards held.                          *)
(***************************************************************************)

\* No provider, no slot, a provider error without usage, or a disconnect.
Abandon(r) ==
    /\ pc[r] = "admitted"
    /\ pc' = [pc EXCEPT ![r] = "dropping"]
    /\ UNCHANGED <<storeVars, conc, counter, total, held, left, reqVars>>

ToCommit(r) == {lw \in Layers \X Windows : lw[2] \in CountedWindows(charge[r][lw[1]])}

\* The provider accepts, or fails after calls that already cost something.
\* The usage of a stream is known only at its end.
ProviderReturns(r) ==
    /\ pc[r] = "admitted"
    /\ \E next \in Committing, u \in Usages \cup {0} :
         /\ next = "commitStream" => u = 0
         /\ pc' = [pc EXCEPT ![r] = next]
         /\ used' = [used EXCEPT ![r] = u]
    /\ left' = [left EXCEPT ![r] = ToCommit(r)]
    /\ UNCHANGED <<storeVars, conc, counter, total, held, ask, cloned, charge>>

\* PlanCharge::commit, one window after the other, the key's before the team's.
CommitWindow(r) ==
    /\ pc[r] \in Committing
    /\ \E l \in Layers, w \in Windows :
         /\ <<l, w>> \in left[r]
         /\ l = "team" => \A v \in Windows : <<"key", v>> \notin left[r]
         /\ counter' = [counter EXCEPT ![CounterOf(r, l, w)] =
                          BumpCounts(CounterOf(r, l, w), ask[r].weight)]
         /\ left' = [left EXCEPT ![r] = @ \ {<<l, w>>}]
    /\ UNCHANGED <<storeVars, conc, total, pc, held, reqVars>>

\* Mutant: the guard is dropped but stays where it was, to be dropped again.
ReleaseGuardTwice(r, l) ==
    IF l \in held[r]
      THEN /\ conc' = [conc EXCEPT ![ScopeOf(r, l)] = @ - 1]
           /\ held' = [held EXCEPT ![r] = IF l = "key" /\ pc[r] = "commitReply" THEN @ ELSE @ \ {l}]
      ELSE UNCHANGED <<conc, held>>

\* The guard of layer l is dropped, if there is one.
ReleaseGuard(r, l) ==
    IF l \in held[r]
      THEN /\ conc' = [conc EXCEPT ![ScopeOf(r, l)] = @ - 1]
           /\ held' = [held EXCEPT ![r] = @ \ {l}]
      ELSE UNCHANGED <<conc, held>>

ToSettle(r, l) == {l} \X WindowsOf(charge[r][l])

\* Mutant: the reply releases the team's guard instead of the key's.
CommittedReleasingTeam(r) ==
    /\ left[r] = {}
    /\ pc[r] \in Committing
    /\ ReleaseGuard(r, "team")
    /\ pc' = [pc EXCEPT ![r] = IF @ = "commitStream" THEN "streaming" ELSE "settleKey"]
    /\ left' = [left EXCEPT ![r] = ToSettle(r, "key")]
    /\ UNCHANGED <<storeVars, counter, total, reqVars>>

\* The key's guard goes with the reply, moves into a stream, or waits for
\* the end of the handler.
Committed(r) ==
    /\ left[r] = {}
    /\ \/ /\ pc[r] = "commitReply"
          /\ ReleaseGuard(r, "key")
          /\ pc' = [pc EXCEPT ![r] = "settleKey"]
          /\ left' = [left EXCEPT ![r] = ToSettle(r, "key")]
       \/ /\ pc[r] = "commitError"
          /\ pc' = [pc EXCEPT ![r] = "settleKey"]
          /\ left' = [left EXCEPT ![r] = ToSettle(r, "key")]
          /\ UNCHANGED <<conc, held>>
       \/ /\ pc[r] = "commitStream"
          /\ pc' = [pc EXCEPT ![r] = "streaming"]
          /\ UNCHANGED <<conc, held, left>>
    /\ UNCHANGED <<storeVars, counter, total, reqVars>>

\* GuardedStream returns None and lets its guard go.
StreamEnds(r) ==
    /\ pc[r] = "streaming"
    /\ ReleaseGuard(r, "key")
    /\ pc' = [pc EXCEPT ![r] = "ended"]
    /\ UNCHANGED <<storeVars, counter, total, left, reqVars>>

\* LoggedStream::drop, after the end or when the client goes away.
DropStream(r) ==
    /\ pc[r] \in {"streaming", "ended"}
    /\ \E u \in Usages \cup {0} : used' = [used EXCEPT ![r] = u]
    /\ left' = [left EXCEPT ![r] = ToSettle(r, "key")]
    /\ pc' = [pc EXCEPT ![r] = "settleKey"]
    /\ UNCHANGED <<storeVars, conc, counter, total, held, ask, cloned, charge>>

SettleLayer(r) == IF pc[r] = "settleKey" THEN "key" ELSE "team"

\* settle_usage, one window after the other ...
SettleWindow(r) ==
    LET l == SettleLayer(r) IN
    /\ pc[r] \in {"settleKey", "settleTeam"}
    /\ \E w \in Windows :
         /\ <<l, w>> \in left[r]
         /\ counter' = [counter EXCEPT ![CounterOf(r, l, w)] =
                          BumpUsage(CounterOf(r, l, w), used[r])]
         /\ left' = [left EXCEPT ![r] = @ \ {<<l, w>>}]
    /\ UNCHANGED <<storeVars, conc, total, pc, held, reqVars>>

\* Mutant: the team is not settled.
SettleTotalKeyOnly(r) ==
    /\ pc[r] = "settleKey"
    /\ left[r] = {}
    /\ total' = [total EXCEPT ![ScopeOf(r, "key")] = @ + used[r]]
    /\ pc' = [pc EXCEPT ![r] = "dropping"]
    /\ UNCHANGED <<storeVars, conc, counter, held, left, reqVars>>

\* ... then the lifetime total; the key first, then a team with a plan.
SettleTotal(r) ==
    LET l == SettleLayer(r)
        again == l = "key" /\ cloned[r]["team"] # None
    IN  /\ pc[r] \in {"settleKey", "settleTeam"}
        /\ left[r] = {}
        /\ total' = [total EXCEPT ![ScopeOf(r, l)] = @ + used[r]]
        /\ pc' = [pc EXCEPT ![r] = IF again THEN "settleTeam" ELSE "dropping"]
        /\ left' = [left EXCEPT ![r] = IF again THEN ToSettle(r, "team") ELSE {}]
        /\ UNCHANGED <<storeVars, conc, counter, held, reqVars>>

\* The guards that are left go with PlanCharge and GuardedStream.
DropGuard(r) ==
    /\ pc[r] = "dropping"
    /\ \E l \in held[r] : ReleaseGuard(r, l)
    /\ UNCHANGED <<storeVars, counter, total, pc, left, reqVars>>

Finish(r) ==
    /\ pc[r] = "dropping"
    /\ held[r] = {}
    /\ pc' = [pc EXCEPT ![r] = "done"]
    /\ UNCHANGED <<storeVars, conc, counter, total, held, left, reqVars>>

-----------------------------------------------------------------------------
(***************************************************************************)
(* Time and administration.                                                *)
(***************************************************************************)

\* The window's time is over; its numbers stay until somebody writes it.
Elapse(c) ==
    /\ counter[c].live
    /\ counter' = [counter EXCEPT ![c].live = FALSE]
    /\ UNCHANGED <<storeVars, conc, total, pc, held, left, reqVars>>

ChangePeriod(q) ==
    /\ period' = q
    /\ UNCHANGED <<plan, conc, counter, total, pc, held, left, reqVars>>

\* Upsert, delete, assign or reload: the next request resolves another plan.
ChangePlan(s, p) ==
    /\ plan' = [plan EXCEPT ![s] = p]
    /\ UNCHANGED <<period, conc, counter, total, pc, held, left, reqVars>>

Step(r) ==
    \/ TeamGuard(r) \/ TeamStart(r) \/ KeyGuard(r)
    \/ \E l \in Layers : GuardFails(r, l) \/ ClearStale(r, l) \/ PeekWindow(r, l) \/ PeekTotal(r, l)
    \/ ProviderReturns(r) \/ CommitWindow(r) \/ Committed(r)
    \/ StreamEnds(r) \/ DropStream(r) \/ SettleWindow(r) \/ SettleTotal(r)
    \/ DropGuard(r) \/ Finish(r)

Next ==
    \/ \E r \in Requests : Resolve(r) \/ Step(r) \/ Abandon(r)
    \/ \E c \in Counters : Elapse(c)
    \/ \E q \in Periods : ChangePeriod(q)
    \/ \E s \in Replaceable, p \in Plans \cup {None} : ChangePlan(s, p)

Spec == Init /\ [][Next]_vars

(***************************************************************************)
(* A handler that has begun is polled until it ends, and the provider's    *)
(* timeout bounds its call.  No request has to come, no client has to go   *)
(* away.                                                                   *)
(***************************************************************************)
FairSpec == Spec /\ \A r \in Requests : WF_vars(Step(r))

-----------------------------------------------------------------------------
(***************************************************************************)
(* Properties that hold of every execution.                                *)
(***************************************************************************)

Holders(s) == {r \in Requests : \E l \in held[r] : ScopeOf(r, l) = s}

\* A concurrency counter is the number of guards alive: on every path out of
\* check_plan_limits, the handler and the stream, each guard is dropped once,
\* so no slot leaks, none is freed twice and fetch_sub never wraps around.
GuardsCounted == \A s \in Scopes : conc[s] = Cardinality(Holders(s))

\* Every plan has a concurrency limit.
Capped == \A p \in Plans, q \in Periods : \E C \in p[q].conc : C <= MaxConc

\* Peeking and committing apart overshoots a window, but never by more than
\* the other requests that the concurrency limit admits: the guard is taken
\* before the peek and held until the commit, also when windows roll over,
\* schedules switch or plans are replaced meanwhile.
OvershootBounded ==
    Capped => \A s \in Scopes, w \in Windows :
        Now(<<s, "plan", w>>).counts + MinWeight <= MaxCount + MaxWeight * MaxConc

\* Every plan has a lifetime limit.
Metered == \A p \in Plans, q \in Periods : p[q].total # {}

\* A team overshoots its lifetime limit by at most one request per guard,
\* because its guard is dropped only after the usage was settled.  (A key's
\* guard is dropped before, so the same does not hold of keys.)
TeamOvershootBounded ==
    Capped /\ Metered => \A t \in Teams : total[t] < MaxTotal + MaxUsage * MaxConc

Settled(r, l) ==
    /\ l = "team" => cloned[r]["team"] # None
    /\ pc[r] \in {"dropping", "done"} \/ (l = "key" /\ pc[r] = "settleTeam")

\* The requests that have settled with s, as their key or as their team.
Payers(s) == {r \in Requests : \E l \in Layers : ScopeOf(r, l) = s /\ Settled(r, l)}

\* The lifetime totals are exactly what the providers reported, each request
\* once, for its key and for its team; requests that were not served cost
\* nothing ("no quota consumed").
TotalsExact ==
    \A s \in Scopes : total[s] = SumFunctionOnSet(used, Payers(s))

Enforced(s, w) == plan[s] # None /\ w \in WindowsOf(plan[s][period])

\* What a window has counted is forgotten only when the window elapses: no
\* check, commit or settlement resets a counter that the plan in force uses.
\* ("stale_window_secs contains the window_secs values from the OTHER schedule
\* period".)  The code does not keep this.
CountersKept ==
    [][\A s \in Scopes, w \in Windows :
          LET c == <<s, "plan", w>> IN
          Enforced(s, w) /\ Now(c)'.counts < Now(c).counts => Elapse(c)]_vars

\* A check clears w by limits of s that are not in force any more.
ClearsOutdated(s, w) ==
    \E r \in Requests, l \in Layers :
        /\ ClearStale(r, l)
        /\ ScopeOf(r, l) = s
        /\ w \in charge[r][l].stale
        /\ charge[r][l] # plan[s][period]

\* What it keeps: a window that the plan in force uses loses its counts only
\* by elapsing, to a check that evaluated its limits before the period changed
\* or the plan was replaced, or, outside of all slots, if it is the one-minute
\* window.  While a slot is active its own checks clear none of its windows,
\* also if other slots or the base plan have windows of the same length.
ForgottenOnlyBy ==
    [][\A s \in Scopes, w \in Windows :
          LET c == <<s, "plan", w>> IN
          Enforced(s, w) /\ Now(c)'.counts < Now(c).counts =>
              \/ Elapse(c)
              \/ ClearsOutdated(s, w)
              \/ period = Base /\ w = Minute]_vars

\* Guards come back: once all requests have come, every slot is free again.
SlotsComeBack == \A s \in Scopes : conc[s] > 0 ~> conc[s] = 0

-----------------------------------------------------------------------------
(***************************************************************************)
(* The inductive invariant behind GuardsCounted and the two bounds.  What  *)
(* may still be added to a counter is bounded by the guards: a request     *)
(* that has passed the peek of a layer and not yet charged it is pending,  *)
(* a pending request holds its guard, and guards are counted.              *)
(***************************************************************************)

AfterTeam == {"key", "keyClear", "keyPeek", "admitted"} \cup Committing

Unsettled == AfterTeam \cup {"streaming", "ended", "settleKey", "settleTeam"}

\* r has passed window w of layer l and has still to commit it.
PendingOn(r, l, w) ==
    /\ cloned[r][l] # None
    /\ \/ /\ w \in CountedWindows(charge[r][l])
          /\ \/ Peeking(r, l) /\ <<l, w>> \notin left[r]
             \/ l = "team" /\ pc[r] \in {"key", "keyClear", "keyPeek"}
             \/ pc[r] = "admitted"
       \/ pc[r] \in Committing /\ <<l, w>> \in left[r]

Pending(s, w) == {r \in Requests : \E l \in Layers : ScopeOf(r, l) = s /\ PendingOn(r, l, w)}

\* r has passed the lifetime check of its team and has still to settle there.
PendingTotal(t) ==
    {r \in Requests : Team(r) = t /\ cloned[r]["team"] # None /\ pc[r] \in Unsettled}

LocalInv(r) ==
    /\ pc[r] \in {"idle", "team"} => held[r] = {}
    /\ pc[r] \in {"teamStart", "teamClear", "teamPeek", "key"} => held[r] \subseteq {"team"}
    /\ pc[r] = "idle" => \A l \in Layers : charge[r][l] = NoLimits
    /\ "team" \in held[r] \/ cloned[r]["team"] # None => Team(r) \in Teams
    /\ \A l \in Layers : cloned[r][l] # None =>
         \A w \in Windows : \A L \in charge[r][l].counts[w] : L <= MaxCount
    /\ Metered /\ cloned[r]["team"] # None /\ pc[r] \in {"teamClear", "teamPeek"} =>
         \E L \in charge[r]["team"].total : L <= MaxTotal
    /\ Capped /\ cloned[r]["team"] # None /\ pc[r] \in {"teamStart", "teamClear", "teamPeek"} \cup Unsettled
         => "team" \in held[r]
    /\ Capped /\ cloned[r]["key"] # None /\ pc[r] \in {"keyClear", "keyPeek", "admitted"} \cup Committing
         => "key" \in held[r]

ConcBounded == Capped => \A s \in Scopes : conc[s] <= MaxConc

CountRoom ==
    Capped => \A s \in Scopes, w \in Windows :
        Now(<<s, "plan", w>>).counts + MaxWeight * Cardinality(Pending(s, w)) + MinWeight
            <= MaxCount + MaxWeight * MaxConc

TotalRoom ==
    Capped /\ Metered => \A t \in Teams :
        total[t] + MaxUsage * Cardinality(PendingTotal(t)) < MaxTotal + MaxUsage * MaxConc

GuardInv ==
    /\ TypeOK
    /\ GuardsCounted
    /\ ConcBounded
    /\ \A r \in Requests : LocalInv(r)

\* Only requests of a team with a plan settle their team.
TeamSettles == \A r \in Requests : pc[r] = "settleTeam" => cloned[r]["team"] # None

\* A request has used nothing before the provider returned, so that one that
\* is refused or abandoned settles with everybody by paying nothing.
NothingOwed ==
    \A r \in Requests :
        pc[r] \in {"idle", "team", "teamStart", "teamClear", "teamPeek", "key", "keyClear",
                  "keyPeek", "admitted"} => used[r] = 0

=============================================================================
