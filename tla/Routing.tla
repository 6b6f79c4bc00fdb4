------------------------------- MODULE Routing -------------------------------
(***************************************************************************)
(* Choosing a deployment for a call (router.rs, policy/*.rs, kvc.rs): the  *)
(* three scheduling policies over the loads of the deployments, the KV     *)
(* index queried before and taught after the choice, and the slot of the   *)
(* deployment the call then waits for.  A call is a request of a client or *)
(* a call a fusion workflow makes for it (Fusion.tla).  There is one model *)
(* with several deployments; a worker of the index is a deployment.        *)
(***************************************************************************)
EXTENDS KvIndex, RateWindow, FiniteSetsExt

CONSTANTS
    Deps,       \* the candidates, in the order of the store
    Cap,        \* per deployment: max_inflight of its slot, 0 for no slot
    Requests,   \* calls of clients
    Children,   \* calls of a fusion workflow
    ApiKeys,
    RebalanceThreshold, OverloadPct, CacheWeight, LoadWeight,
    ContextThreshold,   \* key_affinity_context_threshold; a call has one character
    TurnPeriod,         \* bound: the counters are kept modulo this
    Policies,
    Total, Agents       \* the rings that are not of a deployment

Calls == Requests \cup Children
Tasks == Writers \ Children    \* a child records in its own task

ASSUME RoutingAssumption ==
    /\ Deps \in Seq(Workers) /\ Deps # <<>> /\ Workers = {Deps[i] : i \in DOMAIN Deps}
    /\ Cap \in [Workers -> Nat] /\ IsFiniteSet(Calls) /\ Calls \subseteq Readers
    /\ {RebalanceThreshold, OverloadPct, CacheWeight, LoadWeight} \subseteq Nat /\ TurnPeriod \in Nat \ {0}
    /\ Nil \notin Workers

VARIABLES
    policy,     \* name of the policy in force
    affinity,   \* KeyAffinityPolicy.affinity
    turn,       \* RoundRobinPolicy.counters, KvcAwarePolicy.tie_counter
    call        \* per call: where it is and what it carries

routeVars == <<policy, affinity, turn, call>>

\* loads: what the policy has read of the candidates' loads so far, in order;
\* own: the load of the preferred one, read before.
IdleCall == [at |-> "idle", key |-> Nil, p |-> <<>>, dep |-> Nil, pref |-> Nil,
             own |-> 0, loads |-> <<>>, pol |-> Nil, stale |-> FALSE]

\* held: requests that are being answered already, and where.
RoutingInit(held) ==
    /\ policy \in Policies /\ affinity = [k \in ApiKeys |-> Nil] /\ turn = 0
    /\ call = [c \in Calls |-> IF c \in DOMAIN held THEN [IdleCall EXCEPT !.at = "running", !.dep = held[c]]
                              ELSE IdleCall]

ToCall(c, rec) == call' = [call EXCEPT ![c] = rec]
In(states, d) == Cardinality({c \in Calls : call[c].at \in states /\ call[c].dep = d})
Holding == {"running", "streaming"}
-----------------------------------------------------------------------------
(* The policies. *)

\* deployment_load: a percentage of the slot, or the count where there is none.
Load(d) ==
    LET raw == Max({In(Holding, d), IF Cap[d] = 0 THEN 0 ELSE In(Holding \cup {"waiting"}, d)})
    IN  IF Cap[d] = 0 THEN raw ELSE (raw * 100) \div Cap[d]

\* A candidate is named by its position in Deps, its load is what was read of it: L[j].
\* min_load_candidate: the first of least load among the candidates in S.
Least(L, S) == Min({j \in S : \A i \in S : L[j] <= L[i]})
LeastOf(L) == Least(L, DOMAIN Deps)

ShouldRebalance(preferred, least) == preferred > least + RebalanceThreshold

\* key_affinity: the warm-up, and whether the key stays where it is.
WarmUp == ContextThreshold > 0 /\ Cardinality({c \in Calls : call[c].at \in Holding}) < ContextThreshold
Sticks(r) == r.pref # Nil /\ ~ShouldRebalance(r.own, r.loads[LeastOf(r.loads)])
KeyAffinityChoice(r) == IF Sticks(r) THEN r.pref ELSE Deps[LeastOf(r.loads)]

\* kvc_aware, with the depths the query found.
Hit(j, q) == (100 * q.depth[Deps[j]]) \div Len(q.p)
Score(j, q, L) == CacheWeight * Hit(j, q) + LoadWeight * (100 - Min({L[j], 100}))
Scored(L) == {j \in DOMAIN Deps : OverloadPct >= 100 \/ L[j] < OverloadPct}
\* The best scores, and the k-th of them, from 0.
TiesOf(q, L) == {j \in Scored(L) : \A i \in Scored(L) : Score(i, q, L) <= Score(j, q, L)}
Nth(ties, k) == CHOOSE j \in ties : Cardinality({i \in ties : i < j}) = k

\* k: tie_counter
KvcWinner(q, L, k) ==
    LET ties == TiesOf(q, L)
        n == Cardinality(ties)
    IN  Nth(ties, IF n > 1 THEN k % n ELSE 0)
KvcChoiceUnbalanced(q, L, k) == KvcWinner(q, L, k)   \* mutant: the best score wins whatever its load
KvcChoice(q, L, k) ==
    LET least == Least(L, Scored(L))
        best == KvcWinner(q, L, k)
    IN  IF RebalanceThreshold < 100 /\ ShouldRebalance(L[best], L[least]) THEN least ELSE best

Bumped == (turn + 1) % TurnPeriod
-----------------------------------------------------------------------------
(* A call, from its start to the end of its upstream call. *)

\* Candidates are resolved.  kvc_aware asks the index first, key_affinity whether it
\* is still warming up, in which case the key's affinity does not matter.
StartCall(c, key, p) ==
    /\ call[c].at = "idle"
    /\ LET rec == [IdleCall EXCEPT !.key = key, !.p = p, !.pol = policy]
       IN  CASE policy = "kvc_aware" -> ToCall(c, [rec EXCEPT !.at = "query"]) /\ QueryStart(c, p, Workers)
             [] policy = "key_affinity" -> /\ ToCall(c, [rec EXCEPT !.at = IF WarmUp THEN "loads" ELSE "prefer"])
                                           /\ UNCHANGED indexVars
             [] OTHER -> ToCall(c, [rec EXCEPT !.at = "decide"]) /\ UNCHANGED indexVars
    /\ UNCHANGED <<policy, affinity, turn, rateVars>>

\* The round robin.  A call that took its policy before a reload replaced it counts,
\* looks up and inserts there, where nobody else looks any more.
Decide(c) ==
    /\ call[c].at = "decide"
    /\ \E d \in Workers :
          /\ call[c].stale \/ d = Deps[(turn % Len(Deps)) + 1]
          /\ ToCall(c, [call[c] EXCEPT !.at = "acquire", !.dep = d])
    /\ turn' = (IF call[c].stale THEN turn ELSE Bumped)
    /\ UNCHANGED <<policy, affinity, indexVars, rateVars>>

\* The deployment that the key has, and its load.
Prefer(c) ==
    /\ call[c].at = "prefer"
    /\ \E d \in Workers \cup {Nil} :
          /\ call[c].stale \/ d = affinity[call[c].key]
          /\ ToCall(c, [call[c] EXCEPT !.at = IF d = Nil THEN "loads" ELSE "own", !.pref = d])
    /\ UNCHANGED <<policy, affinity, turn, indexVars, rateVars>>

ReadOwnLoad(c) ==
    /\ call[c].at = "own"
    /\ ToCall(c, [call[c] EXCEPT !.at = "loads", !.own = Load(call[c].pref)])
    /\ UNCHANGED <<policy, affinity, turn, indexVars, rateVars>>

\* The loads of the candidates, one after the other, while other calls come and go.
AllRead(c) == Len(call[c].loads) = Len(Deps)
ReadLoad(c) ==
    /\ call[c].at \in {"loads", "lowest"} \/ (call[c].at = "query" /\ rd[c].at = "done")
    /\ ~AllRead(c)
    /\ ToCall(c, [call[c] EXCEPT !.at = IF @ = "query" THEN "loads" ELSE @,
                                 !.loads = Append(@, Load(Deps[Len(@) + 1]))])
    /\ UNCHANGED <<policy, affinity, turn, indexVars, rateVars>>

Chosen(c, d, next) == [call[c] EXCEPT !.at = next, !.dep = d, !.pref = Nil, !.own = 0, !.loads = <<>>]

DecideAffinity(c) ==
    /\ call[c].at = "loads" /\ call[c].pol = "key_affinity" /\ AllRead(c)
    /\ LET d == KeyAffinityChoice(call[c])
       IN  /\ ToCall(c, Chosen(c, d, "acquire"))
           /\ affinity' = IF call[c].stale \/ Sticks(call[c]) THEN affinity
                          ELSE [affinity EXCEPT ![call[c].key] = d]
    /\ UNCHANGED <<policy, turn, indexVars, rateVars>>

\* The end of a KV-aware choice.  A client's request leaves the recording to a task, if one
\* of the permits of record_semaphore is free; a child records before it goes on.
ChooseKvc(c, d) ==
    /\ ToCall(c, Chosen(c, d, IF c \in Children THEN "record" ELSE "acquire"))
    /\ LET free == {t \in IF c \in Children THEN {c} ELSE Tasks : wr[t].at = "idle"}
       IN  IF free = {} THEN UNCHANGED <<wr, learned>>
           ELSE RecordStart(CHOOSE t \in free : TRUE, d, call[c].p)
    /\ rd' = [rd EXCEPT ![c] = IdleReader]
    /\ UNCHANGED <<policy, affinity, trieVars, lookup, lru, timer, sweep, rateVars>>

DecideKvc(c) ==
    LET L == call[c].loads IN
    /\ call[c].at = "loads" /\ call[c].pol = "kvc_aware" /\ rd[c].at = "done" /\ AllRead(c) /\ Scored(L) # {}
    /\ \E k \in IF call[c].stale THEN 0 .. TurnPeriod - 1 ELSE {turn} : ChooseKvc(c, Deps[KvcChoice(rd[c], L, k)])
    /\ turn' = IF Cardinality(TiesOf(rd[c], L)) > 1 /\ ~call[c].stale THEN Bumped ELSE turn

\* Every candidate is overloaded: select_lowest_load reads the loads anew.
AllOverloaded(c) ==
    /\ call[c].at = "loads" /\ call[c].pol = "kvc_aware" /\ AllRead(c) /\ Scored(call[c].loads) = {}
    /\ ToCall(c, [call[c] EXCEPT !.at = "lowest", !.loads = <<>>])
    /\ UNCHANGED <<policy, affinity, turn, indexVars, rateVars>>

DecideLowest(c) ==
    /\ call[c].at = "lowest" /\ AllRead(c)
    /\ ChooseKvc(c, Deps[LeastOf(call[c].loads)]) /\ UNCHANGED turn

RecordDone(c) ==
    /\ call[c].at = "record" /\ wr[c].at = "idle"
    /\ ToCall(c, [call[c] EXCEPT !.at = "acquire"])
    /\ UNCHANGED <<policy, affinity, turn, indexVars, rateVars>>

\* flow_controller.acquire: at once, refused for its context, or in the queue.
AcquireSlot(c) ==
    /\ call[c].at = "acquire"
    /\ LET d == call[c].dep
       IN  \/ ToCall(c, [call[c] EXCEPT !.at = IF Cap[d] = 0 \/ In(Holding, d) < Cap[d]
                                               THEN "running" ELSE "waiting"])
           \/ Cap[d] > 0 /\ ToCall(c, [call[c] EXCEPT !.at = "failed"])
    /\ UNCHANGED <<policy, affinity, turn, indexVars, rateVars>>

SlotGranted(c) ==
    /\ call[c].at = "waiting" /\ In(Holding, call[c].dep) < Cap[call[c].dep]
    /\ ToCall(c, [call[c] EXCEPT !.at = "running"])
    /\ UNCHANGED <<policy, affinity, turn, indexVars, rateVars>>

\* The queue timeout, or an error of the provider.
CallFails(c) ==
    /\ call[c].at \in {"waiting", "running"}
    /\ ToCall(c, [call[c] EXCEPT !.at = "failed"])
    /\ UNCHANGED <<policy, affinity, turn, indexVars, rateVars>>

\* A client's request is answered.
RequestAnswered(c) ==
    /\ c \in Requests /\ call[c].at = "running"
    /\ ToCall(c, [call[c] EXCEPT !.at = "ok"])
    /\ RecordIn({call[c].dep, Total, Agents})
    /\ UNCHANGED <<policy, affinity, turn, indexVars>>

\* A reload builds the policy anew: nothing it had learned of keys is left.  The KV index
\* stays as long as the policy does; a switch to kvc_aware begins with an empty one, as Init.
SwapPolicy(p) ==
    /\ (policy = "kvc_aware") = (p = "kvc_aware") /\ policy' = p
    /\ affinity' = [k \in ApiKeys |-> Nil] /\ turn' = 0
    /\ call' = [c \in Calls |-> [call[c] EXCEPT !.stale = TRUE]]
    /\ UNCHANGED <<indexVars, rateVars>>

IndexStep ==
    /\ (\E t \in Writers : WriterStep(t)) \/ SweepStep \/ (\E c \in Calls : ReaderStep(c))
    /\ UNCHANGED <<routeVars, rateVars>>
-----------------------------------------------------------------------------
\* A load-aware policy never sends a call to a deployment whose load, as it was read,
\* is more than the rebalance threshold above the least load that was read, although
\* the loads move while they are read: not for the affinity of its key, not for its
\* cached prefix, not by a tie or past the overload gate (should_rebalance: "both use
\* identical rebalance semantics").
Within(v, L) == v <= L[LeastOf(L)] + RebalanceThreshold
ChoiceIsBalanced ==
    [][\A c \in Calls :
        (/\ call[c].at \in {"loads", "lowest"} /\ call'[c].at \notin {"loads", "lowest"}
         /\ RebalanceThreshold < 100)
        => LET L == call[c].loads
               d == call'[c].dep
           IN  \/ d = call[c].pref /\ Within(call[c].own, L)
               \/ \E j \in DOMAIN Deps : d = Deps[j] /\ Within(L[j], L)]_call
=============================================================================
