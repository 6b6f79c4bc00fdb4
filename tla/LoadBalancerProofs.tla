------------------------- MODULE LoadBalancerProofs -------------------------
(***************************************************************************)
(* Proofs about the stand-alone load balancer, for every set of backends,  *)
(* clients, requests and configurations: types, and that failover wastes   *)
(* no attempt.                                                             *)
(***************************************************************************)
EXTENDS LoadBalancer, SumTheorems

-----------------------------------------------------------------------------
(***************************************************************************)
(* Selection.                                                              *)
(***************************************************************************)
\* A set of natural numbers has a least one.
LEMMA LeastOfNat ==
    ASSUME NEW S, S # {}, S \subseteq Nat
    PROVE  \E x \in S : \A y \in S : x <= y
<1>1. PICK n \in S : TRUE
  OBVIOUS
<1> DEFINE T == S \cap (0..n)
<1>2. n \in T /\ T \subseteq Int /\ T \in SUBSET (0..n)
  BY <1>1
<1>3. IsFiniteSet(0..n)
  BY <1>1, FS_Interval
<1>4. IsFiniteSet(T)
  <2> HIDE DEF T
  <2> QED
    BY <1>2, <1>3, FS_Subset
<1>5. PICK x \in T : \A y \in T : x <= y
  <2> HIDE DEF T
  <2> QED
    BY <1>2, <1>4, LeastNumber
<1>6. \A y \in S : x <= y
  <2> SUFFICES ASSUME NEW y \in S PROVE x <= y
    OBVIOUS
  <2>1. y \in Nat /\ x \in 0..n
    BY <1>5
  <2> QED
    BY <1>1, <1>5, <2>1
<1> QED
  BY <1>5, <1>6

LEMMA FirstIsIn ==
    ASSUME NEW order \in Seq(Backends), NEW S, S \cap ToSet(order) # {}
    PROVE  FirstIn(order, S) \in S /\ FirstIn(order, S) \in Backends
<1> DEFINE hits == {i \in DOMAIN order : order[i] \in S}
<1>1. DOMAIN order = 1..Len(order) /\ Len(order) \in Nat /\ \A i \in DOMAIN order : order[i] \in Backends
  OBVIOUS
<1>2. hits # {}
  BY DEF ToSet
<1>3. hits \subseteq Nat
  BY <1>1
<1>4. Min(hits) \in hits
  <2> HIDE DEF hits
  <2> QED
    BY <1>2, <1>3, LeastOfNat DEF Min
<1> QED
  BY <1>1, <1>4 DEF FirstIn

\* A pick stays in its list, and is untried as long as something is.
LEMMA PickIsUntried ==
    ASSUME NEW order \in Seq(Backends), NEW list, list # {}, list \subseteq ToSet(order), NEW bad, NEW attempted
    PROVE  LET b == Pick(order, list, bad, attempted)
           IN  b \in list /\ b \in Backends /\ (list \subseteq attempted \/ b \notin attempted)
<1> DEFINE untried == list \ attempted
           good == untried \ bad
<1>1. CASE good # {}
  <2>1. Pick(order, list, bad, attempted) = FirstIn(order, good)
    BY <1>1 DEF Pick
  <2>2. good \cap ToSet(order) # {}
    BY <1>1
  <2> QED
    BY <2>1, <2>2, FirstIsIn
<1>2. CASE good = {} /\ untried # {}
  <2>1. Pick(order, list, bad, attempted) = FirstIn(order, untried)
    BY <1>2 DEF Pick
  <2>2. untried \cap ToSet(order) # {}
    BY <1>2
  <2> QED
    BY <2>1, <2>2, FirstIsIn
<1>3. CASE untried = {}
  <2>1. Pick(order, list, bad, attempted) = FirstIn(order, list)
    BY <1>3 DEF Pick
  <2>2. list \cap ToSet(order) # {}
    OBVIOUS
  <2>3. list \subseteq attempted
    BY <1>3
  <2> QED
    BY <2>1, <2>2, <2>3, FirstIsIn
<1> QED
  BY <1>1, <1>2, <1>3

LEMMA ListSet ==
    ASSUME NEW list \in Seq(Backends) \ {<< >>}
    PROVE  /\ ToSet(list) # {} /\ ToSet(list) \subseteq Backends /\ list[1] \in ToSet(list)
           /\ IsFiniteSet(ToSet(list)) /\ Cardinality(ToSet(list)) \in Nat /\ Cardinality(ToSet(list)) >= 1
<1>1. 1 \in DOMAIN list /\ \A i \in DOMAIN list : list[i] \in Backends
  OBVIOUS
<1>2. list[1] \in ToSet(list) /\ ToSet(list) \in SUBSET Backends
  BY <1>1 DEF ToSet
<1>3. IsFiniteSet(ToSet(list)) /\ Cardinality(ToSet(list)) \in Nat
  BY <1>2, FS_Subset, FS_CardinalityType, LoadBalancerConstants
<1>4. Cardinality(ToSet(list)) # 0
  BY <1>2, <1>3, FS_EmptySet
<1> QED
  BY <1>2, <1>3, <1>4

LEMMA PrimaryIsUntried ==
    ASSUME NEW list \in Seq(Backends) \ {<< >>}, NEW bad, NEW attempted
    PROVE  LET b == PickPrimary(list, bad, attempted)
           IN  b \in ToSet(list) /\ b \in Backends /\ (ToSet(list) \subseteq attempted \/ b \notin attempted)
BY ListSet, PickIsUntried DEF PickPrimary

\* On the ring of a list.
LEMMA RingIsUntried ==
    ASSUME NEW list \in Seq(Backends) \ {<< >>}, NEW key \in Keys, NEW rings, NEW idx, NEW bad, NEW attempted,
           idx \in DOMAIN rings, rings[idx] = ToSet(list)
    PROVE  LET b == PickActiveActive(idx, list, rings, key, bad, attempted)
           IN  b \in ToSet(list) /\ b \in Backends /\ (ToSet(list) \subseteq attempted \/ b \notin attempted)
<1>1. Walk[key] \in Seq(Backends) /\ ToSet(list) \subseteq ToSet(Walk[key])
  BY ListSet, LoadBalancerConstants
<1> QED
  BY <1>1, ListSet, PickIsUntried DEF PickActiveActive, PickRing

\* On whatever ring the snapshot has by now, or on none.
LEMMA ActiveTyped ==
    ASSUME NEW list \in Seq(Backends) \ {<< >>}, NEW key \in Keys, NEW c \in Configs, NEW idx, NEW bad, NEW attempted
    PROVE  PickActiveActive(idx, list, BuildRings(c), key, bad, attempted) \in Backends
<1>1. CASE idx \in DOMAIN BuildRings(c)
  <2>1. /\ BuildRings(c)[idx] = ToSet(c.routes[idx].list)
        /\ c.routes[idx].list \in Seq(Backends) \ {<< >>}
    BY <1>1, LoadBalancerConstants DEF BuildRings, Ring
  <2>2. Walk[key] \in Seq(Backends) /\ ToSet(c.routes[idx].list) \subseteq ToSet(Walk[key])
    BY <2>1, ListSet, LoadBalancerConstants
  <2>3. PICK ring : ring = BuildRings(c)[idx]
    OBVIOUS
  <2>4. ring # {} /\ ring \subseteq ToSet(Walk[key])
    BY <2>1, <2>2, <2>3, ListSet
  <2>5. Pick(Walk[key], ring, bad, attempted) \in Backends
    BY <2>2, <2>4, PickIsUntried
  <2> QED
    BY <1>1, <2>3, <2>5 DEF PickActiveActive, PickRing
<1>2. CASE idx \notin DOMAIN BuildRings(c)
  BY <1>2, PrimaryIsUntried DEF PickActiveActive
<1> QED
  BY <1>1, <1>2

\* One attempt more.
LEMMA TryOne ==
    ASSUME NEW list \in Seq(Backends) \ {<< >>}, NEW S, NEW k \in Nat, Tried(S, list, k),
           NEW b \in ToSet(list), ToSet(list) \subseteq S \/ b \notin S
    PROVE  Tried(S \cup {b}, list, k + 1)
<1> DEFINE B == ToSet(list)
           n == Cardinality(B)
<1>1. IsFiniteSet(B) /\ n \in Nat /\ n >= 1 /\ S \in SUBSET B
  BY ListSet DEF Tried
<1>2. /\ IsFiniteSet(S) /\ Cardinality(S) \in Nat /\ Cardinality(S) <= n
      /\ n = Cardinality(S) => B = S
  <2> HIDE DEF B
  <2> QED
    BY <1>1, FS_Subset, FS_CardinalityType
<1>3. Cardinality(S \cup {b}) = IF b \in S THEN Cardinality(S) ELSE Cardinality(S) + 1
  BY <1>2, FS_AddElement
<1>4. Cardinality(S) = IF k < n THEN k ELSE n
  BY DEF Tried
<1>5. S \cup {b} \subseteq B
  BY <1>1
<1>6. CASE B \subseteq S
  <2>1. S = B /\ S \cup {b} = S
    BY <1>1, <1>6
  <2>2. k >= n
    BY <1>1, <1>4, <2>1
  <2>3. ~(k + 1 < n)
    BY <1>1, <2>2
  <2> QED
    BY <1>5, <2>1, <2>3 DEF Tried
<1>7. CASE ~(B \subseteq S)
  <2>1. b \notin S /\ Cardinality(S) # n
    BY <1>2, <1>7
  <2>2. k < n /\ Cardinality(S \cup {b}) = k + 1
    BY <1>1, <1>3, <1>4, <2>1
  <2>3. (IF k + 1 < n THEN k + 1 ELSE n) = k + 1
    BY <1>1, <2>2
  <2> QED
    BY <1>5, <2>2, <2>3 DEF Tried
<1> QED
  BY <1>6, <1>7

-----------------------------------------------------------------------------
(***************************************************************************)
(* The steps of a request.                                                 *)
(***************************************************************************)
Busy == {"peer", "connect", "wait"}

\* TryInv for one context c, in a snapshot or under a swapped one.
CtxInv(c, untorn) ==
    /\ c.pc \in {"idle", "client", "resolve"} => c.attempted = {} /\ c.tries = 0 /\ c.route = None
    /\ c.pc \notin {"idle", "done"} => c.key \in Keys
    /\ c.pc = "done" => c.route = None
    /\ c.pc \in Busy => c.backend \in Backends
    /\ c.pc \in {"connect", "wait"} => c.last \in Backends
    /\ c.pc \in Busy /\ c.route # None /\ untorn =>
         /\ c.backend \in ToSet(c.route.list)
         /\ RingInForce(c.route)
         /\ c.pc = "peer" =>
              /\ Tried(c.attempted, c.route.list, c.tries)
              /\ c.tries > 0 => c.last \in c.attempted
         /\ c.pc # "peer" =>
              /\ c.tries > 0
              /\ Tried(c.attempted \cup {c.last}, c.route.list, c.tries)

LEMMA ByContext == TryInv <=> \A r \in Requests : CtxInv(req[r], r \notin torn)
BY DEF TryInv, CtxInv, Busy

LEMMA ByContextAfter == TryInv' <=> \A r \in Requests : CtxInv(req[r], r \notin torn)'
BY DEF TryInv, CtxInv, Busy, RingInForce

LEMMA DoneContext == Done \in Contexts /\ Done.pc = "done" /\ \A u : CtxInv(Done, u)
<1>1. Done \in Contexts
  BY DEF Done, NoCtx, Contexts
<1>2. Done.pc = "done" /\ Done.route = None
  BY DEF Done, NoCtx
<1> QED
  BY <1>1, <1>2 DEF CtxInv, Busy

\* What the filter keeps for the retries.
LEMMA Resolved ==
    ASSUME NEW c \in Contexts, c.key \in Keys, NEW s \in Configs, NEW i \in Nat,
           i # 0 => i \in DOMAIN s.routes /\ s.routes[i].mode # "redirect"
    PROVE  /\ Chosen(c, s, i) \in Backends
           /\ RouteCtx(s, i) \in Routed \cup {None}
           /\ RouteCtx(s, i) # None =>
                /\ Chosen(c, s, i) \in ToSet(RouteCtx(s, i).list)
                /\ RouteCtx(s, i).mode = "active" =>
                     /\ RouteCtx(s, i).idx \in DOMAIN BuildRings(s)
                     /\ BuildRings(s)[RouteCtx(s, i).idx] = ToSet(RouteCtx(s, i).list)
<1> USE LoadBalancerConstants
<1>1. CASE i = 0
  <2>1. RouteCtx(s, i) = [idx |-> 0, mode |-> "standby", list |-> s.default]
    BY <1>1 DEF RouteCtx
  <2>2. Chosen(c, s, i) = PickPrimary(s.default, unhealthy, {})
    BY <1>1 DEF Chosen
  <2>3. s.default \in Seq(Backends) \ {<< >>}
    OBVIOUS
  <2> QED
    BY <2>1, <2>2, <2>3, PrimaryIsUntried DEF Routed
<1>2. CASE i # 0
  <2>1. s.routes[i].mode \in {"single", "standby", "active"} /\ s.routes[i].list \in Seq(Backends) \ {<< >>}
    BY <1>2 DEF Modes
  <2>2. CASE s.routes[i].mode = "single"
    <3>1. RouteCtx(s, i) = None /\ Chosen(c, s, i) = s.routes[i].list[1]
      BY <1>2, <2>2 DEF RouteCtx, Chosen
    <3> QED
      BY <2>1, <3>1, ListSet
  <2>3. CASE s.routes[i].mode = "standby"
    <3>1. RouteCtx(s, i) = [idx |-> i, mode |-> "standby", list |-> s.routes[i].list]
      BY <1>2, <2>3 DEF RouteCtx
    <3>2. Chosen(c, s, i) = PickPrimary(s.routes[i].list, unhealthy, {})
      BY <1>2, <2>3 DEF Chosen
    <3> QED
      BY <2>1, <3>1, <3>2, PrimaryIsUntried DEF Routed
  <2>4. CASE s.routes[i].mode = "active"
    <3>1. RouteCtx(s, i) = [idx |-> i, mode |-> "active", list |-> s.routes[i].list]
      BY <1>2, <2>4 DEF RouteCtx
    <3>2. Chosen(c, s, i) = PickActiveActive(i, s.routes[i].list, BuildRings(s), c.key, unhealthy, {})
      BY <1>2, <2>4 DEF Chosen
    <3>3. i \in DOMAIN BuildRings(s) /\ BuildRings(s)[i] = ToSet(s.routes[i].list)
      BY <1>2, <2>4 DEF BuildRings, Ring
    <3>4. PICK list \in Seq(Backends) \ {<< >>} : list = s.routes[i].list
      BY <2>1
    <3>5. Chosen(c, s, i) \in ToSet(list) /\ Chosen(c, s, i) \in Backends
      BY <3>2, <3>3, <3>4, RingIsUntried
    <3> QED
      BY <3>1, <3>3, <3>4, <3>5 DEF Routed
  <2> QED
    BY <2>1, <2>2, <2>3, <2>4
<1> QED
  BY <1>1, <1>2

\* A step that changes one context and nothing else that matters.
LEMMA OneContext ==
    ASSUME TypeOK, TryInv, NEW r \in Requests, NEW g \in Contexts, CtxInv(g, r \notin torn),
           req' = [req EXCEPT ![r] = g], UNCHANGED <<snapshot, torn, watcher>>
    PROVE  TypeOK' /\ TryInv'
<1>1. req \in [Requests -> Contexts]
  BY DEF TypeOK
<1>2. req'[r] = g /\ \A q \in Requests : q # r => req'[q] = req[q]
  BY <1>1
<1>3. TypeOK'
  BY <1>1 DEF TypeOK
<1>4. \A q \in Requests : CtxInv(req[q], q \notin torn)
  BY ByContext
<1>5. \A q \in Requests : CtxInv(req'[q], q \notin torn)
  BY <1>2, <1>4
<1>6. \A q \in Requests : CtxInv(req[q], q \notin torn)'
  BY <1>5 DEF CtxInv, RingInForce
<1> QED
  BY <1>3, <1>6, ByContextAfter

\* A retry, or the end.
LEMMA RetryKeeps ==
    ASSUME NEW c \in Contexts, NEW u, CtxInv(c, u), c.pc \in {"connect", "wait"}, NEW l \in Nat,
           NEW g, g = [Failed(c) EXCEPT !.left = l]
    PROVE  Retry(g) \in Contexts /\ CtxInv(Retry(g), u)
<1>1. c.last \in Backends /\ c.attempted \subseteq Backends /\ c.backend \in Backends /\ c.key \in Keys
  BY DEF CtxInv, Contexts, Busy
<1>2. CASE g.tries < MaxRetries
  <2> USE DEF Failed
  <2> DEFINE h == [g EXCEPT !.pc = "peer"]
  <2>1. h \in Contexts
    BY <1>1 DEF Contexts
  <2>2. /\ h.pc = "peer" /\ h.attempted = c.attempted \cup {c.last} /\ h.last = c.last /\ h.route = c.route
        /\ h.tries = c.tries /\ h.backend = c.backend /\ h.key = c.key
    BY DEF Contexts
  <2>3. Retry(g) = h
    BY <1>2 DEF Retry
  <2> HIDE DEF h
  <2>4. c.route # None /\ u =>
          /\ c.backend \in ToSet(c.route.list) /\ RingInForce(c.route)
          /\ c.tries > 0 /\ Tried(c.attempted \cup {c.last}, c.route.list, c.tries)
    BY DEF CtxInv, Busy
  <2>5. CtxInv(h, u)
    BY <1>1, <2>2, <2>4 DEF CtxInv, Busy
  <2> QED
    BY <2>1, <2>3, <2>5
<1>3. CASE ~(g.tries < MaxRetries)
  BY <1>3, DoneContext DEF Retry
<1> QED
  BY <1>2, <1>3

LEMMA ResolveKeeps ==
    ASSUME TypeOK, TryInv, NEW r \in Requests, Resolve(r) PROVE TypeOK' /\ TryInv'
<1> DEFINE c == req[r]
           i == ResolveRoute(snapshot, c.kind, c.client)
           redirected == i # 0 /\ snapshot.routes[i].mode = "redirect"
           refused == snapshot.limited /\ c.kind \in Oversized
           l == IF c.kind \in Retryable THEN snapshot.retry5xx ELSE 0
           g == [c EXCEPT !.pc = "peer", !.left = l, !.backend = Chosen(c, snapshot, i),
                          !.route = RouteCtx(snapshot, i)]
<1>1. c \in Contexts /\ c.pc = "resolve" /\ CtxInv(c, r \notin torn) /\ snapshot \in Configs
  BY ByContext DEF Resolve, TypeOK
<1>2. UNCHANGED <<snapshot, torn, watcher>>
  BY DEF Resolve, shared, history
<1>3. CASE refused \/ redirected
  <2>1. req' = [req EXCEPT ![r] = Done]
    BY <1>3 DEF Resolve
  <2> QED
    BY <1>2, <2>1, DoneContext, OneContext
<1>4. CASE ~(refused \/ redirected)
  <2>1. req' = [req EXCEPT ![r] = g]
    BY <1>4 DEF Resolve
  <2>2. i = 0 \/ i \in DOMAIN snapshot.routes
    <3> DEFINE hits == {j \in DOMAIN snapshot.routes : Matches(snapshot.routes[j], c.kind, c.client)}
    <3>1. i = IF hits = {} THEN 0 ELSE Min(hits)
      BY DEF ResolveRoute
    <3>2. hits \subseteq DOMAIN snapshot.routes /\ hits \subseteq Nat
      BY <1>1, LoadBalancerConstants
    <3>3. hits # {} => Min(hits) \in hits
      <4> HIDE DEF hits
      <4> QED
        BY <3>2, LeastOfNat DEF Min
    <3> HIDE DEF hits, i
    <3> QED
      BY <3>1, <3>2, <3>3
  <2>3. i \in Nat
    BY <1>1, <2>2, LoadBalancerConstants
  <2>4. i # 0 => i \in DOMAIN snapshot.routes /\ snapshot.routes[i].mode # "redirect"
    BY <1>4, <2>2
  <2>5. c.key \in Keys /\ c.attempted = {} /\ c.tries = 0
    BY <1>1 DEF CtxInv
  <2> DEFINE b == Chosen(c, snapshot, i)
             route == RouteCtx(snapshot, i)
  <2>6. /\ b \in Backends /\ route \in Routed \cup {None}
        /\ route # None => b \in ToSet(route.list) /\ RingInForce(route)
    <3> HIDE DEF i, c
    <3> QED
      BY <1>1, <2>3, <2>4, <2>5, Resolved DEF RingInForce
  <2>7. l \in Nat
    BY <1>1, LoadBalancerConstants
  <2> HIDE DEF b, route, l, i, c
  <2>8. g = [c EXCEPT !.pc = "peer", !.left = l, !.backend = b, !.route = route]
    BY DEF b, route
  <2>9. g \in Contexts
    BY <1>1, <2>6, <2>7, <2>8 DEF Contexts
  <2>10. /\ g.pc = "peer" /\ g.key = c.key /\ g.attempted = {} /\ g.tries = 0 /\ g.backend = b /\ g.route = route
    BY <1>1, <2>5, <2>8 DEF Contexts
  <2>11. route # None => Tried({}, route.list, 0)
    <3>1. route # None => route.list \in Seq(Backends) \ {<< >>}
      BY <2>6 DEF Routed
    <3> QED
      BY <3>1, ListSet, FS_EmptySet DEF Tried
  <2> HIDE DEF g
  <2>12. CtxInv(g, r \notin torn)
    BY <2>5, <2>6, <2>10, <2>11 DEF CtxInv, Busy
  <2> QED
    BY <1>2, <2>1, <2>9, <2>12, OneContext
<1> QED
  BY <1>3, <1>4
\* upstream_peer: an untried backend, whatever the prober says.
LEMMA PeerKeeps ==
    ASSUME TypeOK, TryInv, NEW r \in Requests, UpstreamPeer(r) PROVE TypeOK' /\ TryInv'
<1> DEFINE c == req[r]
           b == IF c.attempted = {} \/ c.route = None THEN c.backend ELSE Repick(c)
           n == c.tries + 1
           g == [c EXCEPT !.pc = "connect", !.tries = n, !.last = b]
<1>1. /\ c \in Contexts /\ c.pc = "peer" /\ CtxInv(c, r \notin torn) /\ snapshot \in Configs
      /\ c.tries \in Nat /\ c.attempted \subseteq Backends
  BY ByContext DEF UpstreamPeer, TypeOK, Contexts
<1>2. req' = [req EXCEPT ![r] = g] /\ UNCHANGED <<snapshot, torn, watcher>>
  BY DEF UpstreamPeer, shared, history
<1> HIDE DEF c
<1>3. c.backend \in Backends /\ c.key \in Keys
  BY <1>1 DEF CtxInv, Busy
<1>4. c.route # None => c.route \in Routed /\ c.route.list \in Seq(Backends) \ {<< >>}
  BY <1>1 DEF Contexts, Routed
<1>5. c.route # None => Repick(c) \in Backends
  <2>1. CASE c.route.mode = "standby"
    BY <1>4, <2>1, PrimaryIsUntried DEF Repick
  <2>2. CASE c.route.mode # "standby"
    BY <1>1, <1>3, <1>4, <2>2, ActiveTyped DEF Repick
  <2> QED
    BY <2>1, <2>2
<1>6. b \in Backends
  BY <1>3, <1>5
<1>7. ASSUME c.route # None, r \notin torn
      PROVE  /\ c.backend \in ToSet(c.route.list) /\ RingInForce(c.route)
             /\ Tried(c.attempted \cup {b}, c.route.list, c.tries + 1)
  <2>1. c.backend \in ToSet(c.route.list) /\ RingInForce(c.route) /\ Tried(c.attempted, c.route.list, c.tries)
    BY <1>1, <1>7 DEF CtxInv, Busy
  <2>2. b \in ToSet(c.route.list) /\ (ToSet(c.route.list) \subseteq c.attempted \/ b \notin c.attempted)
    <3>1. CASE c.attempted = {}
      BY <2>1, <3>1
    <3>2. CASE c.attempted # {} /\ c.route.mode = "standby"
      <4>1. b = PickPrimary(c.route.list, unhealthy, c.attempted)
        BY <1>7, <3>2 DEF Repick
      <4> HIDE DEF b
      <4> QED
        BY <1>4, <1>7, <4>1, PrimaryIsUntried
    <3>3. CASE c.attempted # {} /\ c.route.mode # "standby"
      <4>1. b = PickActiveActive(c.route.idx, c.route.list, BuildRings(snapshot), c.key, unhealthy, c.attempted)
        BY <1>7, <3>3 DEF Repick
      <4>2. c.route.mode = "active"
        BY <1>4, <1>7, <3>3 DEF Routed
      <4>3. c.route.idx \in DOMAIN BuildRings(snapshot) /\ BuildRings(snapshot)[c.route.idx] = ToSet(c.route.list)
        BY <2>1, <4>2 DEF RingInForce
      <4> HIDE DEF b
      <4> QED
        BY <1>3, <1>4, <1>7, <4>1, <4>3, RingIsUntried
    <3> QED
      BY <3>1, <3>2, <3>3
  <2> HIDE DEF b
  <2> QED
    BY <1>1, <1>4, <1>7, <2>1, <2>2, TryOne
<1> HIDE DEF b
<1>8. g \in Contexts
  <2>1. n \in Nat
    BY <1>1
  <2> HIDE DEF n
  <2> QED
    BY <1>1, <1>6, <2>1 DEF Contexts
<1>9. /\ g.pc = "connect" /\ g.tries = c.tries + 1 /\ g.last = b /\ g.attempted = c.attempted
      /\ g.key = c.key /\ g.route = c.route /\ g.backend = c.backend
  BY <1>1 DEF Contexts
<1> HIDE DEF g
<1>10. CtxInv(g, r \notin torn)
  BY <1>1, <1>3, <1>6, <1>7, <1>9 DEF CtxInv, Busy
<1> QED
  BY <1>2, <1>8, <1>10, OneContext

\* Every step of a request.
LEMMA RequestKeeps ==
    ASSUME TypeOK, TryInv, NEW r \in Requests, RequestStep(r) PROVE TypeOK' /\ TryInv'
<1> DEFINE c == req[r]
<1>1. c \in Contexts /\ CtxInv(c, r \notin torn)
  BY ByContext DEF TypeOK
<1>2. UNCHANGED <<snapshot, torn, watcher>>
  BY DEF RequestStep, Arrive, CheckBlacklist, Resolve, UpstreamPeer, FailToConnect, Send, Respond, shared, history
<1>3. ASSUME req' = [req EXCEPT ![r] = Done] PROVE TypeOK' /\ TryInv'
  BY <1>2, <1>3, DoneContext, OneContext
<1>4. ASSUME NEW kind \in Kinds, NEW key \in Keys, Arrive(r, kind, key) PROVE TypeOK' /\ TryInv'
  <2> DEFINE client == EffectiveClientIp(r, snapshot.trusted)
             g == [c EXCEPT !.pc = "client", !.kind = kind, !.key = key, !.client = client]
  <2>1. client \in Clients \cup {None}
    BY LoadBalancerConstants DEF EffectiveClientIp
  <2>2. c.pc = "idle" /\ c.attempted = {} /\ c.tries = 0 /\ c.route = None
    BY <1>1, <1>4 DEF Arrive, CtxInv
  <2>3. CASE kind \in Own \cup Ambiguous
    <3>1. req' = [req EXCEPT ![r] = Done]
      BY <1>4, <2>3 DEF Arrive
    <3> QED
      BY <1>3, <3>1
  <2>4. CASE kind \notin Own \cup Ambiguous
    <3>1. req' = [req EXCEPT ![r] = g]
      BY <1>4, <2>4 DEF Arrive
    <3> HIDE DEF client, c
    <3>2. g \in Contexts /\ g.pc = "client" /\ g.key = key /\ g.attempted = {} /\ g.tries = 0 /\ g.route = None
      BY <1>1, <2>1, <2>2 DEF Contexts
    <3> HIDE DEF g
    <3>3. CtxInv(g, r \notin torn)
      BY <3>2 DEF CtxInv, Busy
    <3> QED
      BY <1>2, <3>1, <3>2, <3>3, OneContext
  <2> QED
    BY <2>3, <2>4
<1>5. CASE CheckBlacklist(r)
  <2> DEFINE g == [c EXCEPT !.pc = "resolve"]
  <2>1. c.pc = "client" /\ (req' = [req EXCEPT ![r] = Done] \/ req' = [req EXCEPT ![r] = g])
    BY <1>5 DEF CheckBlacklist
  <2>2. /\ g \in Contexts /\ g.pc = "resolve" /\ g.key = c.key /\ g.attempted = c.attempted
        /\ g.tries = c.tries /\ g.route = c.route
    BY <1>1 DEF Contexts
  <2>3. CtxInv(g, r \notin torn)
    <3> HIDE DEF g, c
    <3> QED
      BY <1>1, <2>1, <2>2 DEF CtxInv, Busy
  <2> QED
    BY <1>2, <1>3, <2>1, <2>2, <2>3, OneContext
<1>6. CASE FailToConnect(r)
  <2>1. c.pc = "connect" /\ req' = [req EXCEPT ![r] = Retry(Failed(c))]
    BY <1>6 DEF FailToConnect
  <2> HIDE DEF c
  <2>2. Failed(c) = [Failed(c) EXCEPT !.left = c.left] /\ c.left \in Nat
    BY <1>1 DEF Contexts, Failed
  <2>3. PICK h : h = Retry(Failed(c))
    OBVIOUS
  <2>4. h \in Contexts /\ CtxInv(h, r \notin torn)
    BY <1>1, <2>1, <2>2, <2>3, RetryKeeps
  <2> QED
    BY <1>2, <2>1, <2>3, <2>4, OneContext
<1>7. CASE Send(r)
  <2> DEFINE n == c.counted \/ snapshot.limited
             g == [c EXCEPT !.pc = "wait", !.counted = n]
  <2>1. c.pc = "connect" /\ (req' = [req EXCEPT ![r] = Done] \/ req' = [req EXCEPT ![r] = g])
    BY <1>7 DEF Send
  <2>4. n \in BOOLEAN
    OBVIOUS
  <2> HIDE DEF n
  <2>2. /\ g \in Contexts /\ g.pc = "wait" /\ g.key = c.key /\ g.attempted = c.attempted
        /\ g.tries = c.tries /\ g.route = c.route /\ g.last = c.last /\ g.backend = c.backend
    BY <1>1, <2>4 DEF Contexts
  <2>3. CtxInv(g, r \notin torn)
    <3> HIDE DEF g, c
    <3> QED
      BY <1>1, <2>1, <2>2 DEF CtxInv, Busy
  <2> QED
    BY <1>2, <1>3, <2>1, <2>2, <2>3, OneContext
<1>8. ASSUME NEW is5xx \in BOOLEAN, Respond(r, is5xx) PROVE TypeOK' /\ TryInv'
  <2>1. c.pc = "wait"
    BY <1>8 DEF Respond
  <2>2. CASE is5xx /\ c.left > 0
    <3>1. req' = [req EXCEPT ![r] = Retry([Failed(c) EXCEPT !.left = @ - 1])]
      BY <1>8, <2>2 DEF Respond
    <3> HIDE DEF c
    <3>2. c.left - 1 \in Nat /\ [Failed(c) EXCEPT !.left = @ - 1] = [Failed(c) EXCEPT !.left = c.left - 1]
      BY <1>1, <2>2 DEF Contexts, Failed
    <3>3. PICK h : h = Retry([Failed(c) EXCEPT !.left = @ - 1])
      OBVIOUS
    <3>4. h \in Contexts /\ CtxInv(h, r \notin torn)
      BY <1>1, <2>1, <3>2, <3>3, RetryKeeps
    <3> QED
      BY <1>2, <3>1, <3>3, <3>4, OneContext
  <2>3. CASE ~(is5xx /\ c.left > 0)
    <3>1. req' = [req EXCEPT ![r] = Done]
      BY <1>8, <2>3 DEF Respond
    <3> QED
      BY <1>3, <3>1
  <2> QED
    BY <2>2, <2>3
<1> QED
  BY <1>4, <1>5, <1>6, <1>7, <1>8, ResolveKeeps, PeerKeeps DEF RequestStep

-----------------------------------------------------------------------------
(***************************************************************************)
(* The threads.                                                            *)
(***************************************************************************)
LEMMA IdleTyped ==
    ASSUME NEW dirs \in SUBSET ({ConfigDir} \cup {DirOf[p] : p \in Paths})
    PROVE  /\ IdleWatcher(dirs) \in Watching /\ IdleWatcher(dirs).pc = "recv"
           /\ [IdleWatcher(dirs) EXCEPT !.pc = "start"] \in Watching
           /\ [IdleWatcher(dirs) EXCEPT !.pc = "start"].pc = "start"
BY DEF IdleWatcher, Watching

LEMMA TargetsTyped ==
    ASSUME NEW w \in Watching, NEW e
    PROVE  Targets(w, e) \in Watching /\ Targets(w, e).pc = w.pc
BY DEF Targets, Watching

LEMMA AfterTyped ==
    ASSUME NEW w \in Watching
    PROVE  AfterConfig(w) \in Watching /\ AfterConfig(w).pc \in {"recv", "list"}
BY DEF AfterConfig, Watching

LEMMA BlacklistDirTyped ==
    ASSUME NEW c \in Configs
    PROVE  {ConfigDir} \cup BlacklistDir(c.blacklist) \in SUBSET ({ConfigDir} \cup {DirOf[p] : p \in Paths})
BY LoadBalancerConstants DEF BlacklistDir

\* The watching thread hands on what it loaded.
LEMMA WatcherTyped ==
    ASSUME TypeOK, WatchStep
    PROVE  watcher' \in Watching /\ (watcher.pc \in {"swapList", "watch", "swap"} => watcher.next \in Configs)'
<1>1. watcher \in Watching /\ snapshot.blacklist \in Paths \cup {None}
  BY LoadBalancerConstants DEF TypeOK
<1>2. ASSUME NEW e, RecvEvent(e)
      PROVE  watcher' \in Watching /\ watcher'.pc = "drain"
  <2> DEFINE w == [watcher EXCEPT !.name = snapshot.blacklist]
  <2>1. w \in Watching
    BY <1>1 DEF Watching
  <2>2. watcher' = [Targets(w, e) EXCEPT !.pc = "drain"]
    BY <1>2 DEF RecvEvent
  <2> HIDE DEF w
  <2>3. Targets(w, e) \in Watching
    BY <2>1, TargetsTyped
  <2> QED
    BY <2>2, <2>3 DEF Watching
<1>3. ASSUME NEW e, DrainEvent(e)
      PROVE  watcher' \in Watching /\ watcher'.pc = "drain"
  BY <1>1, <1>3, TargetsTyped DEF DrainEvent
<1>4. ASSUME LoadConfig
      PROVE  watcher' \in Watching /\ (watcher'.pc \in {"swapList", "watch", "swap"} => watcher'.next \in Configs)
  <2>1. CASE watcher.cfg /\ file \in Configs
    <3>1. file # Bad
      BY <2>1, LoadBalancerConstants
    <3>2. watcher' = [watcher EXCEPT !.pc = "swapList", !.next = file]
      BY <1>4, <2>1, <3>1 DEF LoadConfig
    <3> QED
      BY <1>1, <2>1, <3>2 DEF Watching
  <2>2. CASE ~(watcher.cfg /\ file \in Configs)
    <3>1. watcher' = AfterConfig(watcher)
      BY <1>4, <2>2 DEF LoadConfig
    <3> QED
      BY <1>1, <3>1, AfterTyped
  <2> QED
    BY <2>1, <2>2
<1>5. ASSUME SwapBlacklist
      PROVE  watcher' \in Watching /\ watcher'.next \in Configs
  <2>1. watcher.next \in Configs
    BY <1>5 DEF SwapBlacklist, TypeOK
  <2>2. watcher' = [watcher EXCEPT !.pc = "watch"] \/ watcher' = [watcher EXCEPT !.pc = "swap"]
    BY <1>5 DEF SwapBlacklist
  <2> QED
    BY <1>1, <2>1, <2>2 DEF Watching
<1>6. ASSUME Rewatch
      PROVE  watcher' \in Watching /\ watcher'.next \in Configs
  <2> DEFINE dirs == {ConfigDir} \cup BlacklistDir(watcher.next.blacklist)
  <2>1. watcher.next \in Configs
    BY <1>6 DEF Rewatch, TypeOK
  <2>2. dirs \in SUBSET ({ConfigDir} \cup {DirOf[p] : p \in Paths})
    BY <2>1, BlacklistDirTyped
  <2>3. watcher' = [watcher EXCEPT !.pc = "swap", !.dirs = dirs]
    BY <1>6 DEF Rewatch
  <2> HIDE DEF dirs
  <2> QED
    BY <1>1, <2>1, <2>2, <2>3 DEF Watching
<1>7. ASSUME SwapSnapshot
      PROVE  watcher' \in Watching /\ watcher'.pc \in {"recv", "list"}
  BY <1>1, <1>7, AfterTyped DEF SwapSnapshot
<1>8. ASSUME ReloadBlacklist
      PROVE  watcher' \in Watching /\ watcher'.pc = "recv"
  <2>1. watcher.dirs \in SUBSET ({ConfigDir} \cup {DirOf[p] : p \in Paths})
    BY <1>1 DEF Watching
  <2> QED
    BY <1>8, <2>1, IdleTyped DEF ReloadBlacklist
<1>9. ASSUME WatchConfigDir
      PROVE  watcher' \in Watching /\ watcher'.pc = "startList"
  BY <1>1, <1>9 DEF WatchConfigDir, Watching
<1>10. ASSUME WatchBlacklistDir
       PROVE  watcher' \in Watching /\ watcher'.pc = "recv"
  <2>1. {ConfigDir} \cup BlacklistDir(snapshot.blacklist) \in SUBSET ({ConfigDir} \cup {DirOf[p] : p \in Paths})
    BY BlacklistDirTyped DEF TypeOK
  <2> QED
    BY <1>10, <2>1, IdleTyped DEF WatchBlacklistDir
<1> QED
  BY <1>2, <1>3, <1>4, <1>5, <1>6, <1>7, <1>8, <1>9, <1>10 DEF WatchStep

\* Nothing that the contexts depend on changes.
LEMMA ContextsKept ==
    ASSUME TypeOK, TryInv, UNCHANGED <<req, snapshot, torn>>
    PROVE  TryInv' /\ (req \in [Requests -> Contexts] /\ snapshot \in Configs)'
<1>1. \A r \in Requests : CtxInv(req[r], r \notin torn)
  BY ByContext
<1>2. \A r \in Requests : CtxInv(req[r], r \notin torn)'
  BY <1>1 DEF CtxInv, RingInForce
<1> QED
  BY <1>2, ByContextAfter DEF TypeOK

\* The swap of the snapshot: requests on a ring are torn, and the others ask
\* no ring.
LEMMA SwapKeeps ==
    ASSUME TypeOK, TryInv, SwapSnapshot
    PROVE  TryInv' /\ (req \in [Requests -> Contexts] /\ snapshot \in Configs)'
<1>1. snapshot' \in Configs /\ req' = req /\ torn' = torn \cup {r \in Requests : OnRing(r)}
  BY DEF SwapSnapshot, TypeOK
<1>2. ASSUME NEW r \in Requests PROVE CtxInv(req[r], r \notin torn)'
  <2>1. CtxInv(req[r], r \notin torn)
    BY ByContext
  <2>2. CASE req[r].pc \in Busy /\ req[r].route # None /\ r \notin torn'
    <3>1. req[r].route.mode # "active" /\ r \notin torn
      BY <1>1, <2>2 DEF OnRing, Busy
    <3> QED
      BY <1>1, <2>1, <2>2, <3>1 DEF CtxInv, RingInForce
  <2>3. CASE ~(req[r].pc \in Busy /\ req[r].route # None /\ r \notin torn')
    BY <1>1, <2>1, <2>3 DEF CtxInv
  <2> QED
    BY <2>2, <2>3
<1> QED
  BY <1>1, <1>2, ByContextAfter DEF TypeOK

LEMMA TryInit == Init => TypeOK /\ TryInv
<1> SUFFICES ASSUME Init PROVE TypeOK /\ TryInv
  OBVIOUS
<1>1. NoCtx \in Contexts /\ NoCtx.pc = "idle" /\ NoCtx.attempted = {} /\ NoCtx.tries = 0 /\ NoCtx.route = None
  BY DEF NoCtx, Contexts
<1>2. req = [r \in Requests |-> NoCtx]
  BY DEF Init
<1>3. TryInv
  BY <1>1, <1>2 DEF TryInv
<1>4. watcher \in Watching /\ watcher.pc = "start"
  BY IdleTyped DEF Init
<1> QED
  BY <1>1, <1>2, <1>3, <1>4, LoadBalancerConstants DEF TypeOK, Init

LEMMA TryStep == TypeOK /\ TryInv /\ [Next]_vars => (TypeOK /\ TryInv)'
<1> SUFFICES ASSUME TypeOK, TryInv, [Next]_vars PROVE TypeOK' /\ TryInv'
  OBVIOUS
<1>1. ASSUME NEW r \in Requests, RequestStep(r) PROVE TypeOK' /\ TryInv'
  BY <1>1, RequestKeeps
<1>2. ASSUME UNCHANGED <<req, snapshot, torn, watcher>> PROVE TypeOK' /\ TryInv'
  BY <1>2, ContextsKept DEF TypeOK
<1>3. CASE ProbeStep
  BY <1>2, <1>3 DEF ProbeStep, ProbeBegin, ProbeAll, Publish, shared, history
<1>4. CASE Environment
  BY <1>2, <1>4 DEF Environment, EditConfig, EditList, Flip, shared
<1>5. CASE WatchStep
  <2>1. CASE SwapSnapshot
    BY <1>5, <2>1, WatcherTyped, SwapKeeps DEF TypeOK
  <2>2. CASE ~SwapSnapshot
    <3>1. UNCHANGED <<req, snapshot, torn>>
      BY <1>5, <2>2 DEF WatchStep, RecvEvent, DrainEvent, LoadConfig, SwapBlacklist, Rewatch, ReloadBlacklist,
                                 WatchConfigDir, WatchBlacklistDir, shared, history
    <3> QED
      BY <1>5, <3>1, WatcherTyped, ContextsKept DEF TypeOK
  <2> QED
    BY <2>1, <2>2
<1>6. CASE UNCHANGED vars
  BY <1>2, <1>6 DEF vars, shared, history
<1> QED
  BY <1>1, <1>3, <1>4, <1>5, <1>6 DEF Next

\* Failover wastes no attempt: whatever the prober publishes and the watcher
\* reloads between the attempts of a request, fail_to_connect, response_filter
\* and upstream_peer together ask an untried backend of its list as long as
\* there is one.
THEOREM FailoverWastesNothing == Spec => []NoTryWasted
<1>1. TypeOK /\ TryInv => NoTryWasted
  <2> SUFFICES ASSUME TypeOK, TryInv, NEW r \in Requests, req[r].route # None, req[r].tries > 0, r \notin torn
               PROVE  Tried(req[r].attempted \cup {req[r].last}, req[r].route.list, req[r].tries)
    BY DEF NoTryWasted, Tried
  <2> DEFINE c == req[r]
  <2>1. c \in Contexts /\ CtxInv(c, r \notin torn)
    BY ByContext DEF TypeOK
  <2> HIDE DEF c
  <2>2. c.route # None /\ c.tries > 0
    BY DEF c
  <2>3. c.pc \in Busy
    BY <2>1, <2>2 DEF CtxInv, Busy, Contexts
  <2>4. CASE c.pc = "peer"
    <3>1. Tried(c.attempted, c.route.list, c.tries) /\ c.last \in c.attempted
      BY <2>1, <2>2, <2>3, <2>4 DEF CtxInv
    <3>2. c.attempted \cup {c.last} = c.attempted
      BY <3>1
    <3> QED
      BY <3>1, <3>2 DEF c
  <2>5. CASE c.pc # "peer"
    BY <2>1, <2>2, <2>3, <2>5 DEF CtxInv, c
  <2> QED
    BY <2>4, <2>5
<1> QED
  BY <1>1, TryInit, TryStep, PTL DEF Spec
=============================================================================
