--------------------------- MODULE LoadBalancer ---------------------------
(***************************************************************************)
(* The stand-alone load balancer in misc/LB: requests that are filtered,   *)
(* routed, sent to a backend and retried; the thread that probes the       *)
(* backends; the thread that watches the configuration and the blacklist.  *)
(*                                                                         *)
(* The three share a snapshot of the configuration, the blacklist and the  *)
(* set of unhealthy backends, each swapped atomically on its own: every    *)
(* load is a step, and whatever a request keeps from an earlier load may   *)
(* be out of date.                                                         *)
(*                                                                         *)
(* Abstractions.  Host, path, method and body of a request are its kind,   *)
(* which the routes match.  The 150 points of a backend on a ring depend   *)
(* on its address only, so a key meets the backends of any ring in one     *)
(* order, Walk[key], restricted to that ring.  Counters and log lines are  *)
(* left out.  The file system reports every change of a watched directory, *)
(* and none of another one.                                                *)
(***************************************************************************)
EXTENDS Integers, FiniteSets, SequencesExt

CONSTANTS
    Backends,       \* upstream addresses
    Clients,        \* client addresses
    Requests,       \* requests
    Peer, Hop,      \* the client of each request, and the one it forwards for
    Kinds,          \* what a request may ask for
    Own,            \* kinds that the balancer answers itself
    Ambiguous,      \* kinds with ambiguous framing
    Oversized,      \* kinds that declare a body that is too large
    Endless,        \* kinds whose undeclared body turns out to be too large
    Large,          \* kinds whose body is too large if it is counted twice
    Retryable,      \* kinds with a method of retry_5xx.methods
    Keys, Walk,     \* affinity keys, and the order in which they meet backends
    Configs,        \* configurations that an operator may write
    Bad,            \* a configuration file that does not parse
    First,          \* the configuration at start
    Paths, DirOf,   \* blacklist files, and the directory of each
    ConfigDir,      \* the directory of the configuration file
    Missing,        \* content of a file that does not exist
    Lists,          \* contents of blacklist files
    Unsure,         \* backends that may be down at the start
    MaxRetries,     \* max_retries: the attempts that pingora makes
    MaxFailures,    \* bound on the failures in a row that are counted
    MaxEdits,       \* bound on changes of files
    MaxFlips,       \* bound on backends going down or coming up
    None            \* no address, route or path

Modes == {"redirect", "single", "standby", "active"}

ASSUME LoadBalancerConstants ==
    /\ Peer \in [Requests -> Clients]
    /\ Hop \in [Requests -> Clients \cup {None}]
    /\ IsFiniteSet(Backends)
    /\ \A k \in Keys : Walk[k] \in Seq(Backends) /\ IsInjective(Walk[k]) /\ ToSet(Walk[k]) = Backends
    /\ First \in Configs /\ Bad \notin Configs
    /\ Missing \notin Lists
    /\ MaxRetries \in Nat
    /\ \A c \in Configs : /\ c.default \in Seq(Backends) \ {<< >>}
                          /\ c.retry5xx \in Nat
                          /\ c.limited \in BOOLEAN
                          /\ c.threshold \in 1..MaxFailures
                          /\ c.blacklist \in Paths \cup {None}
                          /\ DOMAIN c.routes \subseteq Nat \ {0}
                          /\ \A i \in DOMAIN c.routes : /\ c.routes[i].mode \in Modes
                                                        /\ c.routes[i].mode # "redirect" =>
                                                             c.routes[i].list \in Seq(Backends) \ {<< >>}
                                                        /\ c.routes[i].mode = "single" =>
                                                             Len(c.routes[i].list) = 1

VARIABLES
    snapshot,   \* ConfigSnapshot: the configuration in force
    blacklist,  \* the blocked clients
    unhealthy,  \* the backends that the prober has marked
    prober,     \* the probing thread: its copy of the backends, its counters
    watcher,    \* the watching thread
    events,     \* changes reported to it and not yet received
    file,       \* the configuration file
    lists,      \* the blacklist files
    up,         \* the backends that accept connections
    req,        \* RoutingCtx of each request, and where it is
    torn,       \* history: requests on a ring during a swap of the snapshot
    missed,     \* history: files edited after they were read, before they were watched
    edits, flips \* history: changes so far

shared == <<snapshot, blacklist, unhealthy>>
world == <<file, lists, up>>
history == <<torn, missed, edits, flips>>
vars == <<shared, prober, watcher, events, world, req, history>>

(***************************************************************************)
(* Selection of a backend.                                                 *)
(***************************************************************************)

\* The first address of an order that lies in S.
FirstIn(order, S) == order[Min({i \in DOMAIN order : order[i] \in S})]

\* The first healthy untried address of a list or ring in an order, the first
\* untried one if none is healthy, the first one if all have been tried.
Pick(order, list, bad, attempted) ==
    LET untried == list \ attempted
        good == untried \ bad
    IN FirstIn(order, CASE good # {} -> good
                        [] good = {} /\ untried # {} -> untried
                        [] OTHER -> list)

PickPrimary(list, bad, attempted) == Pick(list, ToSet(list), bad, attempted)

Ring(list) == ToSet(list)

PickRing(ring, key, bad, attempted) == Pick(Walk[key], ring, bad, attempted)

BuildRings(c) ==
    [i \in {i \in DOMAIN c.routes : c.routes[i].mode = "active"} |-> Ring(c.routes[i].list)]

PickActiveActive(idx, list, rings, key, bad, attempted) ==
    IF idx \in DOMAIN rings
    THEN PickRing(rings[idx], key, bad, attempted)
    ELSE PickPrimary(list, bad, attempted)

CollectAllBackends(c) ==
    ToSet(c.default) \cup
        UNION {ToSet(c.routes[i].list) : i \in {i \in DOMAIN c.routes : c.routes[i].mode # "redirect"}}

\* The first route that matches the kind and the client.
Matches(route, kind, client) ==
    kind \in route.kinds /\ (route.clients = {} \/ client \in route.clients)

ResolveRoute(c, kind, client) ==
    LET hits == {i \in DOMAIN c.routes : Matches(c.routes[i], kind, client)}
    IN IF hits = {} THEN 0 ELSE Min(hits)

\* A forwarded address counts only behind a trusted proxy.
EffectiveClientIp(r, trusted) ==
    IF Peer[r] \in trusted /\ Hop[r] # None /\ Hop[r] \notin trusted
    THEN Hop[r] ELSE Peer[r]

(***************************************************************************)
(* A request.                                                              *)
(***************************************************************************)
NoCtx == [pc |-> "idle", kind |-> None, key |-> None, client |-> None,
          backend |-> None, route |-> None, attempted |-> {}, last |-> None,
          left |-> 0, tries |-> 0, counted |-> FALSE]

\* A request that is answered, refused or given up; its context is dropped.
Done == [NoCtx EXCEPT !.pc = "done"]

\* The filter: endpoints of the balancer, framing, the client's address.
Arrive(r, kind, key) ==
    /\ req[r].pc = "idle"
    /\ req' = [req EXCEPT ![r] =
                  IF kind \in Own \cup Ambiguous
                  THEN Done
                  ELSE [@ EXCEPT !.pc = "client", !.kind = kind, !.key = key,
                                 !.client = EffectiveClientIp(r, snapshot.trusted)]]
    /\ UNCHANGED <<shared, prober, watcher, events, world, history>>

CheckBlacklist(r) ==
    /\ req[r].pc = "client"
    /\ req' = [req EXCEPT ![r] =
                  IF req[r].client \in blacklist THEN Done ELSE [@ EXCEPT !.pc = "resolve"]]
    /\ UNCHANGED <<shared, prober, watcher, events, world, history>>

\* The rest of the filter, on one load of the snapshot.  Only lists leave a
\* route to choose from in a retry; the default list has no index.
Chosen(ctx, c, i) ==
    LET route == c.routes[i]
    IN CASE i = 0 -> PickPrimary(c.default, unhealthy, {})
         [] i # 0 /\ route.mode = "single" -> route.list[1]
         [] i # 0 /\ route.mode = "standby" -> PickPrimary(route.list, unhealthy, {})
         [] OTHER -> PickActiveActive(i, route.list, BuildRings(c), ctx.key, unhealthy, {})

RouteCtx(c, i) ==
    CASE i = 0 -> [idx |-> 0, mode |-> "standby", list |-> c.default]
      [] i # 0 /\ c.routes[i].mode = "single" -> None
      [] OTHER -> [idx |-> i, mode |-> c.routes[i].mode, list |-> c.routes[i].list]

Resolve(r) ==
    /\ req[r].pc = "resolve"
    /\ LET i == ResolveRoute(snapshot, req[r].kind, req[r].client)
           redirected == i # 0 /\ snapshot.routes[i].mode = "redirect"
           refused == snapshot.limited /\ req[r].kind \in Oversized
       IN req' = [req EXCEPT ![r] =
                     IF refused \/ redirected
                     THEN Done
                     ELSE [@ EXCEPT !.pc = "peer",
                                    !.left = IF req[r].kind \in Retryable THEN snapshot.retry5xx ELSE 0,
                                    !.backend = Chosen(req[r], snapshot, i),
                                    !.route = RouteCtx(snapshot, i)]]
    /\ UNCHANGED <<shared, prober, watcher, events, world, history>>

\* upstream_peer: the resolved backend at first; in a retry another one of
\* the route, by the rings of the snapshot in force now.
Repick(ctx) ==
    IF ctx.route.mode = "standby"
    THEN PickPrimary(ctx.route.list, unhealthy, ctx.attempted)
    ELSE PickActiveActive(ctx.route.idx, ctx.route.list, BuildRings(snapshot),
                          ctx.key, unhealthy, ctx.attempted)

UpstreamPeer(r) ==
    /\ req[r].pc = "peer"
    /\ req' = [req EXCEPT ![r] =
                  [req[r] EXCEPT !.pc = "connect", !.tries = req[r].tries + 1,
                                 !.last = IF req[r].attempted = {} \/ req[r].route = None
                                          THEN req[r].backend ELSE Repick(req[r])]]
    /\ UNCHANGED <<shared, prober, watcher, events, world, history>>

\* The retry loop of pingora: another attempt until max_retries were made.
Retry(ctx) == IF ctx.tries < MaxRetries THEN [ctx EXCEPT !.pc = "peer"] ELSE Done

\* The backend just tried will not be asked again.
Failed(ctx) == [ctx EXCEPT !.attempted = @ \cup {ctx.last}]

FailToConnect(r) ==
    /\ req[r].pc = "connect" /\ req[r].last \notin up
    /\ req' = [req EXCEPT ![r] = Retry(Failed(req[r]))]
    /\ UNCHANGED <<shared, prober, watcher, events, world, history>>

\* request_body_filter: an error that is not retried.  Bytes are counted while
\* there is a limit, and again when a retry sends the body once more.
TooLarge(ctx) == ctx.kind \in Endless \/ (ctx.kind \in Large /\ ctx.counted)

Send(r) ==
    /\ req[r].pc = "connect" /\ req[r].last \in up
    /\ req' = [req EXCEPT ![r] =
                  IF snapshot.limited /\ TooLarge(req[r])
                  THEN Done
                  ELSE [req[r] EXCEPT !.pc = "wait", !.counted = req[r].counted \/ snapshot.limited]]
    /\ UNCHANGED <<shared, prober, watcher, events, world, history>>

\* A defect: the backend that answered 5xx is not excluded from the retry.
RespondUnexcluded(r, is5xx) ==
    /\ req[r].pc = "wait"
    /\ req' = [req EXCEPT ![r] =
                  IF is5xx /\ req[r].left > 0 THEN Retry([req[r] EXCEPT !.left = @ - 1]) ELSE Done]
    /\ UNCHANGED <<shared, prober, watcher, events, world, history>>

\* response_filter: a 5xx is retried while the budget lasts.
Respond(r, is5xx) ==
    /\ req[r].pc = "wait"
    /\ req' = [req EXCEPT ![r] =
                  IF is5xx /\ req[r].left > 0
                  THEN Retry([Failed(req[r]) EXCEPT !.left = @ - 1])
                  ELSE Done]
    /\ UNCHANGED <<shared, prober, watcher, events, world, history>>

(***************************************************************************)
(* The probing thread, the only writer of unhealthy.                       *)
(***************************************************************************)
IdleProber == [pc |-> "sleep", backends |-> {}, failed |-> {},
               threshold |-> 0, failures |-> [b \in {} |-> 0]]

ProbeBegin ==
    /\ prober.pc = "sleep"
    /\ prober' = [prober EXCEPT !.pc = "probe", !.backends = CollectAllBackends(snapshot),
                                !.threshold = snapshot.threshold]
    /\ UNCHANGED <<shared, watcher, events, world, req, history>>

\* The concurrent probes of a round: one does not influence another.
ProbeAll ==
    /\ prober.pc = "probe"
    /\ prober' = [prober EXCEPT !.pc = "publish", !.failed = prober.backends \ up]
    /\ UNCHANGED <<shared, watcher, events, world, req, history>>

\* Failures in a row; beyond MaxFailures, which no threshold exceeds, more of
\* them change nothing.
ClassifyHealth(prev, healthy) ==
    IF healthy THEN 0 ELSE IF prev < MaxFailures THEN prev + 1 ELSE prev

Failures(b) == IF b \in DOMAIN prober.failures THEN prober.failures[b] ELSE 0

\* A defect: marks are added and never taken back.
PublishAdding ==
    /\ prober.pc = "publish"
    /\ LET counts == [b \in prober.backends |-> ClassifyHealth(Failures(b), b \notin prober.failed)]
       IN /\ prober' = [IdleProber EXCEPT !.failures = counts]
          /\ unhealthy' = unhealthy \cup {b \in prober.backends : counts[b] >= prober.threshold}
    /\ UNCHANGED <<snapshot, blacklist, watcher, events, world, req, history>>

Publish ==
    /\ prober.pc = "publish"
    /\ LET counts == [b \in prober.backends |-> ClassifyHealth(Failures(b), b \notin prober.failed)]
       IN /\ prober' = [IdleProber EXCEPT !.failures = counts]
          /\ unhealthy' = {b \in prober.backends : counts[b] >= prober.threshold}
    /\ UNCHANGED <<snapshot, blacklist, watcher, events, world, req, history>>

(***************************************************************************)
(* The watching thread.  An event is a file: "config" or a path.           *)
(***************************************************************************)
\* At start the snapshot and the blacklist are loaded and nothing is watched:
\* the thread watches the directory of the configuration, then the one of the
\* blacklist, and only then waits for events.
IdleWatcher(dirs) == [pc |-> "recv", cfg |-> FALSE, bl |-> FALSE, name |-> None,
                      next |-> None, dirs |-> dirs]

BlacklistDir(path) == IF path = None THEN {} ELSE {DirOf[path]}

WatchConfigDir ==
    /\ watcher.pc = "start"
    /\ watcher' = [watcher EXCEPT !.pc = "startList", !.dirs = {ConfigDir}]
    /\ UNCHANGED <<shared, prober, events, world, req, history>>

WatchBlacklistDir ==
    /\ watcher.pc = "startList"
    /\ watcher' = IdleWatcher({ConfigDir} \cup BlacklistDir(snapshot.blacklist))
    /\ UNCHANGED <<shared, prober, events, world, req, history>>

\* The blacklist's path is read when the first event of a burst arrives; the
\* burst is drained until 200 ms pass without an event.
Targets(w, e) == [w EXCEPT !.cfg = @ \/ e = "config", !.bl = @ \/ e = w.name]

RecvEvent(e) ==
    /\ watcher.pc = "recv" /\ e \in events
    /\ events' = events \ {e}
    /\ watcher' = [Targets([watcher EXCEPT !.name = snapshot.blacklist], e) EXCEPT !.pc = "drain"]
    /\ UNCHANGED <<shared, prober, world, req, history>>

DrainEvent(e) ==
    /\ watcher.pc = "drain" /\ e \in events
    /\ events' = events \ {e}
    /\ watcher' = Targets(watcher, e)
    /\ UNCHANGED <<shared, prober, world, req, history>>

AfterConfig(w) == [w EXCEPT !.next = None, !.pc = IF w.bl THEN "list" ELSE "recv",
                            !.cfg = FALSE, !.name = None]

\* reload_config: a file that does not parse leaves everything as it is.  A
\* new blacklist path is loaded before the snapshot is swapped, and its
\* directory is watched after that: an edit in between raises no event.
LoadBlacklistState(path) ==
    IF path = None \/ lists[path] = Missing THEN {} ELSE lists[path]

LoadConfig ==
    /\ watcher.pc = "drain" /\ events = {}
    /\ watcher' = CASE watcher.cfg /\ file \in Configs -> [watcher EXCEPT !.pc = "swapList", !.next = file]
                    [] watcher.cfg /\ file = Bad -> AfterConfig(watcher)
                    [] OTHER -> AfterConfig(watcher)
    /\ missed' = IF watcher.cfg THEN missed \ {"config"} ELSE missed
    /\ UNCHANGED <<shared, prober, events, world, req, torn, edits, flips>>

SwapBlacklist ==
    /\ watcher.pc = "swapList"
    /\ IF watcher.next.blacklist # snapshot.blacklist
       THEN /\ blacklist' = LoadBlacklistState(watcher.next.blacklist)
            /\ watcher' = [watcher EXCEPT !.pc = "watch"]
            /\ missed' = missed \ {watcher.next.blacklist}
       ELSE /\ watcher' = [watcher EXCEPT !.pc = "swap"]
            /\ UNCHANGED <<blacklist, missed>>
    /\ UNCHANGED <<snapshot, unhealthy, prober, events, world, req, torn, edits, flips>>

\* A defect: the directory of the new blacklist is not watched.
RewatchNothing ==
    /\ watcher.pc = "watch"
    /\ watcher' = [watcher EXCEPT !.pc = "swap"]
    /\ UNCHANGED <<shared, prober, events, world, req, history>>

Rewatch ==
    /\ watcher.pc = "watch"
    /\ watcher' = [watcher EXCEPT !.pc = "swap",
                                  !.dirs = {ConfigDir} \cup BlacklistDir(watcher.next.blacklist)]
    /\ UNCHANGED <<shared, prober, events, world, req, history>>

OnRing(r) == /\ req[r].pc \in {"peer", "connect", "wait"}
             /\ req[r].route # None
             /\ req[r].route.mode = "active"

SwapSnapshot ==
    /\ watcher.pc = "swap"
    /\ snapshot' = watcher.next
    /\ watcher' = AfterConfig(watcher)
    /\ torn' = torn \cup {r \in Requests : OnRing(r)}
    /\ UNCHANGED <<blacklist, unhealthy, prober, events, world, req, missed, edits, flips>>

\* reload_blacklist: a file that cannot be read leaves the old entries.
ReloadBlacklist ==
    /\ watcher.pc = "list"
    /\ blacklist' = IF snapshot.blacklist = None \/ lists[snapshot.blacklist] = Missing
                    THEN blacklist ELSE lists[snapshot.blacklist]
    /\ watcher' = IdleWatcher(watcher.dirs)
    /\ missed' = missed \ {snapshot.blacklist}
    /\ UNCHANGED <<snapshot, unhealthy, prober, events, world, req, torn, edits, flips>>

(***************************************************************************)
(* The environment.                                                        *)
(***************************************************************************)
\* A change is reported if the directory is watched.  One that is not, because
\* the thread is between reading the file and watching it, is missed.
Report(f, dir) == events' = IF dir \in watcher.dirs THEN events \cup {f} ELSE events

Miss(f, dir) ==
    missed' = IF dir \notin watcher.dirs /\ watcher.pc \in {"start", "startList", "watch"}
              THEN missed \cup {f} ELSE missed

EditConfig(c) ==
    /\ edits < MaxEdits /\ c # file
    /\ file' = c
    /\ edits' = edits + 1
    /\ Report("config", ConfigDir) /\ Miss("config", ConfigDir)
    /\ UNCHANGED <<shared, prober, watcher, lists, up, req, torn, flips>>

\* The removal of a file is not among the events that count.
EditList(p, content) ==
    /\ edits < MaxEdits /\ content # lists[p]
    /\ lists' = [lists EXCEPT ![p] = content]
    /\ edits' = edits + 1
    /\ IF content = Missing THEN UNCHANGED events ELSE Report(p, DirOf[p])
    /\ Miss(p, DirOf[p])
    /\ UNCHANGED <<shared, prober, watcher, file, up, req, torn, flips>>

Flip(b) ==
    /\ flips < MaxFlips
    /\ flips' = flips + 1
    /\ up' = IF b \in up THEN up \ {b} ELSE up \cup {b}
    /\ UNCHANGED <<shared, prober, watcher, events, file, lists, req, torn, missed, edits>>

Init ==
    /\ snapshot = First /\ file = First
    /\ lists \in [Paths -> {{}}]
    /\ blacklist = LoadBlacklistState(First.blacklist)
    /\ unhealthy = {}
    /\ prober = IdleProber
    /\ watcher = [IdleWatcher({}) EXCEPT !.pc = "start"]
    /\ events = {}
    /\ \E down \in SUBSET Unsure : up = Backends \ down
    /\ req = [r \in Requests |-> NoCtx]
    /\ torn = {} /\ missed = {}
    /\ edits = 0 /\ flips = 0

RequestStep(r) == \/ \E kind \in Kinds, key \in Keys : Arrive(r, kind, key)
                  \/ CheckBlacklist(r) \/ Resolve(r) \/ UpstreamPeer(r)
                  \/ FailToConnect(r) \/ Send(r)
                  \/ \E is5xx \in BOOLEAN : Respond(r, is5xx)

ProbeStep == ProbeBegin \/ ProbeAll \/ Publish

WatchStep == \/ WatchConfigDir \/ WatchBlacklistDir
             \/ \E e \in {"config"} \cup Paths : RecvEvent(e) \/ DrainEvent(e)
             \/ LoadConfig \/ SwapBlacklist \/ Rewatch \/ SwapSnapshot \/ ReloadBlacklist

Environment == \/ \E c \in Configs \cup {Bad} : EditConfig(c)
               \/ \E p \in Paths, content \in Lists \cup {Missing} : EditList(p, content)
               \/ \E b \in Backends : Flip(b)

Next == (\E r \in Requests : RequestStep(r)) \/ ProbeStep \/ WatchStep \/ Environment

Spec == Init /\ [][Next]_vars

\* Both threads loop for ever; a pause of 200 ms ends a burst of events.
FairSpec == Spec /\ WF_vars(ProbeStep) /\ WF_vars(WatchStep)

(***************************************************************************)
(* Properties.                                                             *)
(***************************************************************************)

\* What a request keeps of the route it was resolved to.
Routed == [idx : Nat, mode : {"standby", "active"}, list : Seq(Backends) \ {<< >>}]

Contexts == [pc : {"idle", "client", "resolve", "peer", "connect", "wait", "done"},
             kind : Kinds \cup {None}, key : Keys \cup {None}, client : Clients \cup {None},
             backend : Backends \cup {None}, route : Routed \cup {None},
             attempted : SUBSET Backends, last : Backends \cup {None}, left : Nat, tries : Nat,
             counted : BOOLEAN]

Watching == [pc : {"start", "startList", "recv", "drain", "swapList", "watch", "swap", "list"},
             cfg : BOOLEAN, bl : BOOLEAN, name : Paths \cup {None}, next : Configs \cup {None},
             dirs : SUBSET ({ConfigDir} \cup {DirOf[p] : p \in Paths})]

\* The contexts of the requests and what is or will be in force have their types.
TypeOK ==
    /\ req \in [Requests -> Contexts]
    /\ snapshot \in Configs
    /\ watcher \in Watching
    /\ watcher.pc \in {"swapList", "watch", "swap"} => watcher.next \in Configs

\* Failover: no attempt of a request is wasted on a backend that it has tried
\* while its list has an untried one, whatever the prober publishes and
\* whatever is reloaded meanwhile (fail_to_connect, response_filter and
\* upstream_peer together).  Requests on a ring are excepted once the snapshot
\* was swapped under them.
NoTryWasted ==
    \A r \in Requests :
        req[r].route # None /\ req[r].tries > 0 /\ r \notin torn
            => LET n == Cardinality(ToSet(req[r].route.list))
                   tried == Cardinality(req[r].attempted \cup {req[r].last})
               IN tried = IF req[r].tries < n THEN req[r].tries ELSE n

(***************************************************************************)
(* The inductive invariant behind NoTryWasted: the attempts of a request   *)
(* stay within its list, and the ring that a retry will ask is the ring of *)
(* that list.                                                              *)
(***************************************************************************)
\* After k attempts the backends in S have been tried.
Tried(S, list, k) ==
    /\ S \subseteq ToSet(list)
    /\ Cardinality(S) = IF k < Cardinality(ToSet(list)) THEN k ELSE Cardinality(ToSet(list))

RingInForce(route) ==
    route.mode = "active" =>
        /\ route.idx \in DOMAIN BuildRings(snapshot)
        /\ BuildRings(snapshot)[route.idx] = ToSet(route.list)

TryInv ==
    \A r \in Requests :
        /\ req[r].pc \in {"idle", "client", "resolve"} =>
             req[r].attempted = {} /\ req[r].tries = 0 /\ req[r].route = None
        /\ req[r].pc \notin {"idle", "done"} => req[r].key \in Keys
        /\ req[r].pc = "done" => req[r].route = None
        /\ req[r].pc \in {"peer", "connect", "wait"} => req[r].backend \in Backends
        /\ req[r].pc \in {"connect", "wait"} => req[r].last \in Backends
        /\ req[r].pc \in {"peer", "connect", "wait"} /\ req[r].route # None /\ r \notin torn =>
             /\ req[r].backend \in ToSet(req[r].route.list)
             /\ RingInForce(req[r].route)
             /\ req[r].pc = "peer" =>
                  /\ Tried(req[r].attempted, req[r].route.list, req[r].tries)
                  /\ req[r].tries > 0 => req[r].last \in req[r].attempted
             /\ req[r].pc # "peer" =>
                  /\ req[r].tries > 0
                  /\ Tried(req[r].attempted \cup {req[r].last}, req[r].route.list, req[r].tries)

\* The prober converges: when configuration and backends stop changing,
\* exactly the configured backends that are down stay marked.
HealthConverges ==
    \A b \in Backends : <>[](b \in unhealthy <=> b \in CollectAllBackends(snapshot) \ up)

\* Hot reload converges: what stands in readable files comes into force and
\* stays, however edits, bursts of events and changes of the path interleave.
\* The one exception is an edit that falls between the load of a file and the
\* watch of its directory (main.rs 84-93, proxy.rs 831-855): it raises no event
\* and stands until the next edit.
FilesInForce ==
    /\ <>[](file # Bad /\ "config" \notin missed => snapshot = file)
    /\ <>[](snapshot.blacklist \in Paths \ missed /\ lists[snapshot.blacklist] # Missing
              => blacklist = lists[snapshot.blacklist])
=============================================================================
