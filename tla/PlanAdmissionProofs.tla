------------------------ MODULE PlanAdmissionProofs ------------------------
(***************************************************************************)
(* Proofs about PlanAdmission, for any number of requests, keys, teams and *)
(* windows and for any plans: types and guards; how far a plan can be      *)
(* overshot; what the lifetime totals and the windows account for.         *)
(***************************************************************************)
EXTENDS PlanAdmission, SumTheorems

-----------------------------------------------------------------------------
(***************************************************************************)
(* Helpers.                                                                *)
(***************************************************************************)

\* The two layers of a request never meet in one scope.
LEMMA ScopeFacts ==
    ASSUME TypeOK, NEW r \in Requests
    PROVE  /\ ScopeOf(r, "key") = ask[r].key
           /\ ScopeOf(r, "team") = Team(r)
           /\ ask[r].key \in Keys
           /\ ask[r].weight \in Weights
           /\ Team(r) \in Teams \cup {None}
           /\ Team(r) # ask[r].key
BY PlanConstants DEF TypeOK, ScopeOf, Team, Scopes

\* Weights and usages are numbers.
LEMMA NumberFacts ==
    /\ \A n \in Weights : n \in Nat
    /\ \A n \in Usages \cup {0} : n \in Nat
BY PlanConstants

\* What the readers and writers of a counter compute.
LEMMA WindowType ==
    ASSUME TypeOK, NEW c \in Counters, NEW n \in Nat
    PROVE  /\ Now(c) \in Window
           /\ BumpCounts(c, n) \in Window
           /\ BumpUsage(c, n) \in Window
BY DEF TypeOK, Window, Now, NoWindow, BumpCounts, BumpUsage

LEMMA ClearType ==
    ASSUME TypeOK, NEW s, NEW S
    PROVE  ClearWindows(s, S) \in [Counters -> Window]
BY DEF TypeOK, Window, NoWindow, ClearWindows

\* effective_limits() of a resolved plan is well-formed and within the bounds.
LEMMA EffectiveType ==
    ASSUME TypeOK, NEW p \in Plans \cup {None}
    PROVE  /\ Effective(p) \in Limits
           /\ p # None => \A w \in Windows : \A L \in Effective(p).counts[w] : L <= MaxCount
           /\ p # None /\ Metered => \E L \in Effective(p).total : L <= MaxTotal
           /\ p # None /\ Capped => \E C \in Effective(p).conc : C <= MaxConc
<1>1. CASE p = None
  BY <1>1, PlanConstants DEF Effective
<1>2. CASE p # None
  <2>1. p \in Plans /\ period \in Periods /\ Effective(p) = p[period]
    BY <1>2 DEF TypeOK, Effective
  <2>2. p[period] \in Limits
    BY <2>1, PlanConstants
  <2>3. p[period].total # {} => \E L \in p[period].total : L <= MaxTotal
    BY <2>1, PlanBounds
  <2>. QED
    BY <1>2, <2>1, <2>2, <2>3, PlanBounds DEF Metered, Capped
<1>. QED
  BY <1>1, <1>2

-----------------------------------------------------------------------------
(***************************************************************************)
(* Concurrency guards.  Every step leaves the guards alone, takes one or   *)
(* drops one; the three cases keep the counters exact.                     *)
(***************************************************************************)

LEMMA HoldersFinite ==
    ASSUME NEW s
    PROVE  IsFiniteSet(Holders(s)) /\ Cardinality(Holders(s)) \in Nat
<1>1. Holders(s) \subseteq Requests
  BY DEF Holders
<1>. QED
  BY <1>1, PlanConstants, FS_Subset, FS_CardinalityType

\* Taking a guard that the request does not hold yet.
LEMMA AcquireGuard ==
    ASSUME TypeOK, GuardsCounted, ConcBounded,
           NEW r \in Requests, NEW l \in Layers, NEW lim \in Limits,
           l \notin held[r], ScopeOf(r, l) \in Scopes,
           Capped => lim.conc = {} \/ \E C \in lim.conc : C <= MaxConc,
           TryAcquire(r, l, lim), UNCHANGED ask
    PROVE  /\ GuardsCounted'
           /\ ConcBounded'
           /\ conc' \in [Scopes -> Nat]
           /\ held' \in [Requests -> SUBSET Layers]
           /\ held' = [held EXCEPT ![r] = IF lim.conc = {} THEN @ ELSE @ \cup {l}]
<1>0. PICK s \in Scopes : s = ScopeOf(r, l)
  OBVIOUS
<1>1. CASE lim.conc = {}
  <2>1. UNCHANGED <<conc, held, ask>>
    BY <1>1 DEF TryAcquire
  <2>2. \A x \in Scopes : Holders(x)' = Holders(x)
    BY <2>1 DEF Holders, ScopeOf, Team
  <2>3. GuardsCounted' /\ ConcBounded'
    BY <2>1, <2>2 DEF GuardsCounted, ConcBounded, Capped
  <2>. QED
    BY <1>1, <2>1, <2>3 DEF TypeOK
<1>2. CASE lim.conc # {}
  <2>1. /\ conc' = [conc EXCEPT ![s] = @ + 1]
        /\ held' = [held EXCEPT ![r] = @ \cup {l}]
        /\ \A L \in lim.conc : conc[s] < L
    BY <1>0, <1>2 DEF TryAcquire, HasRoom
  <2>2. /\ \A q \in Requests, m \in Layers : ScopeOf(q, m)' = ScopeOf(q, m)
        /\ held \in [Requests -> SUBSET Layers]
        /\ conc \in [Scopes -> Nat]
    BY DEF ScopeOf, Team, TypeOK
  <2>3. \A m \in Layers : m # l => ScopeOf(r, m) # s
    BY <1>0, ScopeFacts DEF Layers
  <2>4. Holders(s)' = Holders(s) \cup {r} /\ r \notin Holders(s)
    BY <1>0, <2>1, <2>2, <2>3 DEF Holders
  <2>5. \A x \in Scopes : x # s => Holders(x)' = Holders(x)
    BY <1>0, <2>1, <2>2 DEF Holders
  <2>6. Cardinality(Holders(s)') = Cardinality(Holders(s)) + 1
    BY <2>4, HoldersFinite, FS_AddElement
  <2>7. GuardsCounted'
    BY <2>1, <2>2, <2>5, <2>6 DEF GuardsCounted
  <2>8. Capped => conc[s] + 1 <= MaxConc
    <3> SUFFICES ASSUME Capped PROVE conc[s] + 1 <= MaxConc
      OBVIOUS
    <3>1. PICK C \in lim.conc : C <= MaxConc
      BY <1>2
    <3>2. C \in Nat /\ conc[s] \in Nat /\ MaxConc \in Nat
      BY <2>2, PlanBounds DEF Limits
    <3>. QED
      BY <2>1, <3>1, <3>2
  <2>9. ConcBounded'
    <3> SUFFICES ASSUME Capped, NEW x \in Scopes PROVE conc'[x] <= MaxConc
      BY DEF ConcBounded, Capped
    <3>1. conc[x] <= MaxConc
      BY DEF ConcBounded
    <3>. QED
      BY <2>1, <2>2, <2>8, <3>1
  <2>10. conc' \in [Scopes -> Nat] /\ held' \in [Requests -> SUBSET Layers]
    BY <2>1, <2>2
  <2>11. held' = [held EXCEPT ![r] = IF lim.conc = {} THEN @ ELSE @ \cup {l}]
    BY <1>2, <2>1
  <2>. QED
    BY <2>7, <2>9, <2>10, <2>11
<1>. QED
  BY <1>1, <1>2

\* Dropping a guard, or finding that there is none.
LEMMA DropsGuard ==
    ASSUME TypeOK, GuardsCounted, ConcBounded,
           NEW r \in Requests, NEW l \in Layers, LocalInv(r),
           ReleaseGuard(r, l), UNCHANGED ask
    PROVE  /\ GuardsCounted'
           /\ ConcBounded'
           /\ conc' \in [Scopes -> Nat]
           /\ held' \in [Requests -> SUBSET Layers]
           /\ held' = [held EXCEPT ![r] = @ \ {l}]
<1>s. PICK s : s = ScopeOf(r, l)
  OBVIOUS
<1>0. held \in [Requests -> SUBSET Layers] /\ conc \in [Scopes -> Nat]
  BY DEF TypeOK
<1>1. CASE l \notin held[r]
  <2>1. UNCHANGED <<conc, held, ask>>
    BY <1>1 DEF ReleaseGuard
  <2>2. \A x \in Scopes : Holders(x)' = Holders(x)
    BY <2>1 DEF Holders, ScopeOf, Team
  <2>3. GuardsCounted' /\ ConcBounded'
    BY <2>1, <2>2 DEF GuardsCounted, ConcBounded, Capped
  <2>. QED
    BY <1>0, <1>1, <2>1, <2>3
<1>2. CASE l \in held[r]
  <2>1. /\ conc' = [conc EXCEPT ![s] = @ - 1]
        /\ held' = [held EXCEPT ![r] = @ \ {l}]
    BY <1>s, <1>2 DEF ReleaseGuard
  <2>2. \A q \in Requests, m \in Layers : ScopeOf(q, m)' = ScopeOf(q, m)
    BY DEF ScopeOf, Team
  <2>3. \A m \in Layers : m # l => ScopeOf(r, m) # s
    BY <1>s, ScopeFacts DEF Layers
  <2>4. s \in Scopes
    BY <1>s, <1>2, ScopeFacts DEF LocalInv, Layers, Scopes
  <2>5. Holders(s)' = Holders(s) \ {r} /\ r \in Holders(s)
    BY <1>s, <1>0, <1>2, <2>1, <2>2, <2>3 DEF Holders
  <2>6. \A x \in Scopes : x # s => Holders(x)' = Holders(x)
    BY <1>s, <1>0, <2>1, <2>2 DEF Holders
  <2>7. Cardinality(Holders(s)') = Cardinality(Holders(s)) - 1
    BY <2>5, HoldersFinite, FS_RemoveElement
  <2>8. /\ conc[s] = Cardinality(Holders(s))
        /\ Cardinality(Holders(s)') \in Nat
    <3>1. IsFiniteSet(Holders(s) \ {r})
      BY HoldersFinite, FS_Subset
    <3>. QED
      BY <2>4, <2>5, <3>1, FS_CardinalityType DEF GuardsCounted
  <2>9. conc[s] - 1 \in Nat /\ conc[s] - 1 = Cardinality(Holders(s)')
    BY <2>7, <2>8
  <2>10. GuardsCounted'
    <3> SUFFICES ASSUME NEW x \in Scopes PROVE conc'[x] = Cardinality(Holders(x)')
      BY DEF GuardsCounted
    <3>1. CASE x = s
      BY <1>0, <2>1, <2>4, <2>9, <3>1
    <3>2. CASE x # s
      BY <1>0, <2>1, <2>6, <3>2 DEF GuardsCounted
    <3>. QED
      BY <3>1, <3>2
  <2>11. ConcBounded'
    <3> SUFFICES ASSUME Capped, NEW x \in Scopes PROVE conc'[x] <= MaxConc
      BY DEF ConcBounded, Capped
    <3>1. conc[x] <= MaxConc /\ conc[x] \in Nat /\ MaxConc \in Nat
      BY <1>0, PlanBounds DEF ConcBounded
    <3>. QED
      BY <1>0, <2>1, <3>1
  <2>. QED
    BY <1>0, <2>1, <2>9, <2>10, <2>11
<1>. QED
  BY <1>1, <1>2

\* Leaving the guards alone.
LEMMA KeepsGuards ==
    ASSUME TypeOK, GuardsCounted, ConcBounded, UNCHANGED <<conc, held, ask>>
    PROVE  GuardsCounted' /\ ConcBounded'
<1>1. \A x \in Scopes : Holders(x)' = Holders(x)
  BY DEF Holders, ScopeOf, Team
<1>. QED
  BY <1>1 DEF GuardsCounted, ConcBounded, Capped

-----------------------------------------------------------------------------
(***************************************************************************)
(* The part of the invariant that is about types, guards and control.      *)
(***************************************************************************)

\* Nothing that a request's local facts depend on changes.
LEMMA LocalFrame ==
    ASSUME NEW q \in Requests, LocalInv(q), ask'[q] = ask[q], pc'[q] = pc[q],
           held'[q] = held[q], cloned'[q] = cloned[q], charge'[q] = charge[q]
    PROVE  LocalInv(q)'
BY DEF LocalInv, Team, Metered, Capped

\* A step of r concerns r alone.
LEMMA StepOfOne ==
    ASSUME GuardInv, NEW r \in Requests, UNCHANGED ask,
           TypeOK', GuardsCounted', ConcBounded', LocalInv(r)',
           \A q \in Requests \ {r} : /\ pc'[q] = pc[q] /\ held'[q] = held[q]
                                     /\ cloned'[q] = cloned[q] /\ charge'[q] = charge[q]
    PROVE  GuardInv'
<1>1. ASSUME NEW q \in Requests, q # r PROVE LocalInv(q)'
  <2>1. LocalInv(q) /\ ask'[q] = ask[q]
    BY DEF GuardInv
  <2>. QED
    BY <1>1, <2>1, LocalFrame
<1>. QED
  BY <1>1 DEF GuardInv

\* The counters that a request with a resolved layer writes exist.
LEMMA CounterExists ==
    ASSUME TypeOK, NEW r \in Requests, NEW l \in Layers, NEW w \in Windows,
           l = "team" => Team(r) \in Teams
    PROVE  CounterOf(r, l, w) \in Counters
BY ScopeFacts DEF CounterOf, Counters, Buckets, Scopes, Layers

\* Writing one counter keeps the table a table, whatever the index.
LEMMA CounterType ==
    ASSUME TypeOK, NEW c, NEW v, c \in Counters => v \in Window
    PROVE  [counter EXCEPT ![c] = v] \in [Counters -> Window]
BY DEF TypeOK

\* The windows to visit are pairs of a layer and a window.
LEMMA LeftType ==
    ASSUME TypeOK, NEW r \in Requests
    PROVE  /\ \A l \in Layers : \A lim : {l} \X WindowsOf(lim) \in SUBSET (Layers \X Windows)
           /\ \A l \in Layers : ToSettle(r, l) \in SUBSET (Layers \X Windows)
           /\ ToCommit(r) \in SUBSET (Layers \X Windows)
           /\ \A x : left[r] \ {x} \in SUBSET (Layers \X Windows)
           /\ left[r] \in SUBSET (Layers \X Windows)
<1>1. \A lim : WindowsOf(lim) \subseteq Windows
  BY DEF WindowsOf
<1>2. left[r] \in SUBSET (Layers \X Windows)
  BY DEF TypeOK
<1>. QED
  BY <1>1, <1>2 DEF ToSettle, ToCommit

\* A move of the control of r that keeps what LocalInv says of its place.
LEMMA LocalMove ==
    ASSUME NEW r \in Requests, LocalInv(r), UNCHANGED <<ask, held, cloned, charge>>,
           \/ pc'[r] = pc[r]
           \/ pc'[r] \in {"dropping", "done"}
           \/ pc[r] = "teamPeek" /\ pc'[r] = "key"
           \/ pc[r] = "keyPeek" /\ pc'[r] = "admitted"
           \/ pc[r] = "teamClear" /\ pc'[r] = "teamPeek"
           \/ pc[r] = "keyClear" /\ pc'[r] = "keyPeek"
           \/ pc[r] = "admitted" /\ pc'[r] \in Committing
           \/ pc[r] \in Unsettled /\ pc'[r] \in {"streaming", "ended", "settleKey", "settleTeam"}
    PROVE  LocalInv(r)'
BY DEF LocalInv, Team, Metered, Capped, Unsettled, AfterTeam, Committing

\* Steps that leave the guards and the plans of the request alone.
LEMMA QuietStep ==
    ASSUME GuardInv, NEW r \in Requests,
           \/ \E l \in Layers : GuardFails(r, l) \/ ClearStale(r, l) \/ PeekWindow(r, l) \/ PeekTotal(r, l)
           \/ Abandon(r) \/ ProviderReturns(r) \/ CommitWindow(r) \/ DropStream(r)
           \/ SettleWindow(r) \/ SettleTotal(r) \/ Finish(r)
    PROVE  GuardInv'
<1> USE DEF storeVars, reqVars
<1>1. TypeOK /\ GuardsCounted /\ ConcBounded /\ LocalInv(r)
  BY DEF GuardInv
<1>2. /\ UNCHANGED <<conc, held, ask, cloned, charge, plan, period>>
      /\ \A q \in Requests \ {r} : pc'[q] = pc[q]
  <2>1. pc \in [Requests -> PC]
    BY <1>1 DEF TypeOK
  <2>2. UNCHANGED <<conc, held, ask, cloned, charge, plan, period>>
    BY DEF GuardFails, ClearStale, PeekWindow, PeekTotal, Abandon, ProviderReturns, CommitWindow,
           DropStream, SettleWindow, SettleTotal, Finish
  <2>3. pc' = pc \/ \E x : pc' = [pc EXCEPT ![r] = x]
    BY DEF GuardFails, ClearStale, PeekWindow, PeekTotal, Abandon, ProviderReturns, CommitWindow,
           DropStream, SettleWindow, SettleTotal, Finish
  <2>. QED
    BY <2>1, <2>2, <2>3
<1>3. GuardsCounted' /\ ConcBounded'
  BY <1>1, <1>2, KeepsGuards
<1>4. ASSUME counter' \in [Counters -> Window], total' \in [Scopes -> Nat],
             left' \in [Requests -> SUBSET (Layers \X Windows)],
             used' \in [Requests -> Usages \cup {0}], pc' \in [Requests -> PC]
      PROVE  TypeOK'
  BY <1>1, <1>2, <1>4 DEF TypeOK
<1>5. /\ counter \in [Counters -> Window] /\ total \in [Scopes -> Nat]
      /\ left \in [Requests -> SUBSET (Layers \X Windows)]
      /\ used \in [Requests -> Usages \cup {0}] /\ pc \in [Requests -> PC]
  BY <1>1 DEF TypeOK
<1>6. used[r] \in Nat /\ ask[r].weight \in Nat
  <2>1. ask[r].weight \in Weights
    BY <1>1, ScopeFacts
  <2>2. used[r] \in Usages \cup {0}
    BY <1>5
  <2>. QED
    BY <2>1, <2>2, NumberFacts, Zenon
<1>7. ASSUME NEW l \in Layers, GuardFails(r, l) PROVE TypeOK' /\ LocalInv(r)'
  <2>1. UNCHANGED <<counter, total, left, used>> /\ pc' = [pc EXCEPT ![r] = "dropping"]
    BY <1>7 DEF GuardFails
  <2>. QED
    BY <1>1, <1>2, <1>4, <1>5, <2>1, LocalMove DEF PC
<1>8. ASSUME NEW l \in Layers, PeekWindow(r, l) PROVE TypeOK' /\ LocalInv(r)'
  <2>1. UNCHANGED <<counter, total, used>>
    BY <1>8 DEF PeekWindow
  <2>2. pc' = pc \/ pc' = [pc EXCEPT ![r] = "dropping"]
    BY <1>8 DEF PeekWindow
  <2>3. left' \in [Requests -> SUBSET (Layers \X Windows)]
    <3>1. (\E x : left' = [left EXCEPT ![r] = left[r] \ {x}]) \/ left' = [left EXCEPT ![r] = {}]
      BY <1>8 DEF PeekWindow
    <3>. QED
      BY <1>1, <1>5, <3>1, LeftType
  <2>. QED
    BY <1>1, <1>2, <1>4, <1>5, <2>1, <2>2, <2>3, LocalMove DEF PC
<1>9. ASSUME NEW l \in Layers, PeekTotal(r, l) PROVE TypeOK' /\ LocalInv(r)'
  <2>1. UNCHANGED <<counter, total, left, used>>
    BY <1>9 DEF PeekTotal
  <2>2. \/ pc' = [pc EXCEPT ![r] = "dropping"]
        \/ pc[r] = "teamPeek" /\ pc' = [pc EXCEPT ![r] = "key"]
        \/ pc[r] = "keyPeek" /\ pc' = [pc EXCEPT ![r] = "admitted"]
    BY <1>9 DEF PeekTotal, Peeking
  <2>. QED
    BY <1>1, <1>2, <1>4, <1>5, <2>1, <2>2, LocalMove DEF PC
<1>10. ASSUME Abandon(r) \/ Finish(r) PROVE TypeOK' /\ LocalInv(r)'
  <2>1. UNCHANGED <<counter, total, left, used>>
    BY <1>10 DEF Abandon, Finish
  <2>2. pc' = [pc EXCEPT ![r] = "dropping"] \/ pc' = [pc EXCEPT ![r] = "done"]
    BY <1>10 DEF Abandon, Finish
  <2>. QED
    BY <1>1, <1>2, <1>4, <1>5, <2>1, <2>2, LocalMove DEF PC
<1>11. ASSUME ProviderReturns(r) PROVE TypeOK' /\ LocalInv(r)'
  <2>1. PICK next \in Committing, u \in Usages \cup {0} :
           pc' = [pc EXCEPT ![r] = next] /\ used' = [used EXCEPT ![r] = u]
    BY <1>11 DEF ProviderReturns
  <2>2. UNCHANGED <<counter, total>> /\ left' = [left EXCEPT ![r] = ToCommit(r)] /\ pc[r] = "admitted"
    BY <1>11 DEF ProviderReturns
  <2>3. left' \in [Requests -> SUBSET (Layers \X Windows)]
    BY <1>1, <1>5, <2>2, LeftType
  <2>4. used' \in [Requests -> Usages \cup {0}] /\ pc' \in [Requests -> PC] /\ pc'[r] \in Committing
    BY <1>5, <2>1 DEF PC
  <2>. QED
    BY <1>1, <1>2, <1>4, <1>5, <2>2, <2>3, <2>4, LocalMove
<1>12. ASSUME CommitWindow(r) PROVE TypeOK' /\ LocalInv(r)'
  <2>1. PICK l \in Layers, w \in Windows :
           /\ counter' = [counter EXCEPT ![CounterOf(r, l, w)] =
                            BumpCounts(CounterOf(r, l, w), ask[r].weight)]
           /\ left' = [left EXCEPT ![r] = left[r] \ {<<l, w>>}]
    BY <1>5, <1>12 DEF CommitWindow
  <2>2. UNCHANGED <<total, pc, used>>
    BY <1>12 DEF CommitWindow
  <2>3. counter' \in [Counters -> Window]
    BY <1>1, <1>6, <2>1, WindowType, CounterType
  <2>4. left' \in [Requests -> SUBSET (Layers \X Windows)]
    BY <1>1, <1>5, <2>1, LeftType
  <2>. QED
    BY <1>1, <1>2, <1>4, <1>5, <2>2, <2>3, <2>4, LocalMove
<1>13. ASSUME DropStream(r) PROVE TypeOK' /\ LocalInv(r)'
  <2>1. PICK u \in Usages \cup {0} : used' = [used EXCEPT ![r] = u]
    BY <1>13 DEF DropStream
  <2>2. /\ UNCHANGED <<counter, total>>
        /\ left' = [left EXCEPT ![r] = ToSettle(r, "key")]
        /\ pc[r] \in {"streaming", "ended"} /\ pc' = [pc EXCEPT ![r] = "settleKey"]
    BY <1>13 DEF DropStream
  <2>3. left' \in [Requests -> SUBSET (Layers \X Windows)]
    BY <1>1, <1>5, <2>2, LeftType DEF Layers
  <2>4. used' \in [Requests -> Usages \cup {0}] /\ pc' \in [Requests -> PC]
    BY <1>5, <2>1, <2>2 DEF PC
  <2>5. pc[r] \in Unsettled /\ pc'[r] = "settleKey"
    BY <1>5, <2>2 DEF Unsettled
  <2>. QED
    BY <1>1, <1>2, <1>4, <1>5, <2>2, <2>3, <2>4, <2>5, LocalMove
<1>14. ASSUME SettleWindow(r) PROVE TypeOK' /\ LocalInv(r)'
  <2>1. PICK l \in Layers, w \in Windows :
           /\ counter' = [counter EXCEPT ![CounterOf(r, l, w)] =
                            BumpUsage(CounterOf(r, l, w), used[r])]
           /\ left' = [left EXCEPT ![r] = left[r] \ {<<l, w>>}]
    BY <1>5, <1>14 DEF SettleWindow, SettleLayer, Layers
  <2>2. UNCHANGED <<total, pc, used>>
    BY <1>14 DEF SettleWindow
  <2>3. counter' \in [Counters -> Window]
    BY <1>1, <1>6, <2>1, WindowType, CounterType
  <2>4. left' \in [Requests -> SUBSET (Layers \X Windows)]
    BY <1>1, <1>5, <2>1, LeftType
  <2>. QED
    BY <1>1, <1>2, <1>4, <1>5, <2>2, <2>3, <2>4, LocalMove
<1>15. ASSUME SettleTotal(r) PROVE TypeOK' /\ LocalInv(r)'
  <2>1. /\ pc[r] \in {"settleKey", "settleTeam"}
        /\ total' = [total EXCEPT ![ScopeOf(r, SettleLayer(r))] = @ + used[r]]
        /\ UNCHANGED <<counter, used>>
        /\ pc' = [pc EXCEPT ![r] = "settleTeam"] \/ pc' = [pc EXCEPT ![r] = "dropping"]
        /\ left' = [left EXCEPT ![r] = ToSettle(r, "team")] \/ left' = [left EXCEPT ![r] = {}]
    BY <1>15 DEF SettleTotal
  <2>2. total' \in [Scopes -> Nat]
    <3>1. PICK s : s = ScopeOf(r, SettleLayer(r))
      OBVIOUS
    <3>2. total' = [total EXCEPT ![s] = @ + used[r]]
      BY <2>1, <3>1
    <3>3. s \in Scopes => total[s] + used[r] \in Nat
      BY <1>5, <1>6
    <3>. QED
      BY <1>5, <3>2, <3>3
  <2>3. left' \in [Requests -> SUBSET (Layers \X Windows)]
    BY <1>1, <1>5, <2>1, LeftType DEF Layers
  <2>4. pc' \in [Requests -> PC]
    BY <1>5, <2>1 DEF PC
  <2>5. pc[r] \in Unsettled /\ pc'[r] \in {"settleTeam", "dropping"}
    BY <1>5, <2>1 DEF Unsettled
  <2>. QED
    BY <1>1, <1>2, <1>4, <1>5, <2>1, <2>2, <2>3, <2>4, <2>5, LocalMove
<1>17. ASSUME NEW l \in Layers, ClearStale(r, l) PROVE TypeOK' /\ LocalInv(r)'
  <2>1. /\ UNCHANGED <<total, used>> /\ counter' = ClearWindows(ScopeOf(r, l), charge[r][l].stale)
        /\ left' = [left EXCEPT ![r] = {l} \X WindowsOf(charge[r][l])]
    BY <1>17 DEF ClearStale
  <2>2. \/ pc[r] = "teamClear" /\ pc' = [pc EXCEPT ![r] = "teamPeek"]
        \/ pc[r] = "keyClear" /\ pc' = [pc EXCEPT ![r] = "keyPeek"]
    BY <1>17 DEF ClearStale
  <2>3. counter' \in [Counters -> Window]
    BY <1>1, <2>1, ClearType
  <2>4. left' \in [Requests -> SUBSET (Layers \X Windows)]
    BY <1>1, <1>5, <2>1, LeftType
  <2>5. pc' \in [Requests -> PC]
    BY <1>5, <2>2 DEF PC
  <2>. QED
    BY <1>1, <1>2, <1>4, <1>5, <2>1, <2>2, <2>3, <2>4, <2>5, LocalMove
<1>16. TypeOK' /\ LocalInv(r)'
  BY <1>17, <1>7, <1>8, <1>9, <1>10, <1>11, <1>12, <1>13, <1>14, <1>15
<1>. QED
  BY <1>2, <1>3, <1>16, StepOfOne

\* check_plan_limits resolves the plans of a request that holds nothing.
LEMMA ResolveStep ==
    ASSUME GuardInv, NEW r \in Requests, Resolve(r)
    PROVE  GuardInv'
<1> USE DEF storeVars, reqVars
<1>1. TypeOK /\ GuardsCounted /\ ConcBounded /\ LocalInv(r)
  BY DEF GuardInv
<1>2. /\ pc[r] = "idle"
      /\ UNCHANGED <<plan, period, conc, counter, total, held, left, ask, charge, used>>
  BY DEF Resolve
<1>3. PICK cl : /\ cl = [l \in Layers |-> IF ScopeOf(r, l) = None THEN None ELSE plan[ScopeOf(r, l)]]
                /\ cloned' = [cloned EXCEPT ![r] = cl]
  BY DEF Resolve
<1>4. /\ cloned \in [Requests -> [Layers -> Plans \cup {None}]]
      /\ pc \in [Requests -> PC]
      /\ plan \in [Scopes -> Plans \cup {None}]
  BY <1>1 DEF TypeOK
<1>5. /\ ScopeOf(r, "key") \in Scopes
      /\ ScopeOf(r, "team") \in Scopes \cup {None}
      /\ ScopeOf(r, "team") = Team(r)
      /\ Team(r) \in Teams \cup {None}
  BY <1>1, ScopeFacts DEF Scopes
<1>6. cl \in [Layers -> Plans \cup {None}]
  BY <1>3, <1>4, <1>5 DEF Layers
<1>7. cloned' \in [Requests -> [Layers -> Plans \cup {None}]] /\ cloned'[r] = cl
  BY <1>3, <1>4, <1>6
<1>8. pc' = [pc EXCEPT ![r] = "key"] \/ (pc' = [pc EXCEPT ![r] = "team"])
  BY DEF Resolve
<1>8a. cl["team"] # None => pc'[r] = "team"
  BY <1>4, <1>7 DEF Resolve
<1>9. TypeOK'
  <2>1. pc' \in [Requests -> PC]
    BY <1>4, <1>8 DEF PC
  <2>. QED
    BY <1>1, <1>2, <1>7, <2>1 DEF TypeOK
<1>10. cl["team"] # None => Team(r) \in Teams
  BY <1>3, <1>5 DEF Layers
<1>11. LocalInv(r)'
  <2>1. held'[r] = {} /\ \A l \in Layers : charge'[r][l] = NoLimits
    BY <1>1, <1>2 DEF LocalInv
  <2>2. \A w \in Windows : NoLimits.counts[w] = {}
    BY DEF NoLimits
  <2>3. pc'[r] \in {"key", "team"} /\ Team(r)' = Team(r)
    BY <1>2, <1>4, <1>8 DEF Team
  <2>. QED
    BY <1>7, <1>8a, <1>10, <2>1, <2>2, <2>3
       DEF LocalInv, Metered, Capped, Unsettled, AfterTeam, Committing
<1>12. GuardsCounted' /\ ConcBounded'
  BY <1>1, <1>2, KeepsGuards
<1>13. \A q \in Requests \ {r} : pc'[q] = pc[q] /\ cloned'[q] = cloned[q]
  BY <1>3, <1>4, <1>8
<1>. QED
  BY <1>2, <1>9, <1>11, <1>12, <1>13, StepOfOne

\* The team's guard is taken.
LEMMA TeamGuardStep ==
    ASSUME GuardInv, NEW r \in Requests, TeamGuard(r)
    PROVE  GuardInv'
<1> USE DEF storeVars, reqVars
<1>1. TypeOK /\ GuardsCounted /\ ConcBounded /\ LocalInv(r)
  BY DEF GuardInv
<1>2. PICK lim : lim = Effective(cloned[r]["team"])
  OBVIOUS
<1>3. /\ pc[r] = "team" /\ TryAcquire(r, "team", lim)
      /\ pc' = [pc EXCEPT ![r] = "teamStart"]
      /\ UNCHANGED <<plan, period, counter, total, left, ask, cloned, charge, used>>
  BY <1>2 DEF TeamGuard
<1>4. held[r] = {}
  BY <1>1, <1>3 DEF LocalInv
<1>5. pc \in [Requests -> PC] /\ held \in [Requests -> SUBSET Layers]
      /\ cloned[r]["team"] \in Plans \cup {None}
  BY <1>1 DEF TypeOK, Layers
<1>6. /\ lim \in Limits
      /\ cloned[r]["team"] # None /\ Capped => \E C \in lim.conc : C <= MaxConc
  BY <1>1, <1>2, <1>5, EffectiveType
<1>7. CASE cloned[r]["team"] = None
  <2>1. lim.conc = {}
    BY <1>2, <1>7, PlanConstants DEF Effective
  <2>2. UNCHANGED <<conc, held>>
    BY <1>3, <2>1 DEF TryAcquire
  <2>3. GuardsCounted' /\ ConcBounded'
    BY <1>1, <1>3, <2>2, KeepsGuards
  <2>4. TypeOK'
    BY <1>1, <1>3, <2>2 DEF TypeOK, PC
  <2>5. LocalInv(r)'
    BY <1>1, <1>3, <1>4, <1>5, <1>7, <2>2
       DEF LocalInv, Team, Metered, Capped, Unsettled, AfterTeam, Committing
  <2>. QED
    BY <1>3, <1>5, <2>2, <2>3, <2>4, <2>5, StepOfOne
<1>8. CASE cloned[r]["team"] # None
  <2>1. Team(r) \in Teams /\ ScopeOf(r, "team") \in Scopes /\ "team" \in Layers
    BY <1>1, <1>8, ScopeFacts DEF LocalInv, Scopes, Layers
  <2>2. /\ GuardsCounted' /\ ConcBounded'
        /\ conc' \in [Scopes -> Nat] /\ held' \in [Requests -> SUBSET Layers]
        /\ held' = [held EXCEPT ![r] = IF lim.conc = {} THEN @ ELSE @ \cup {"team"}]
    BY <1>1, <1>3, <1>4, <1>6, <1>8, <2>1, AcquireGuard
  <2>3. TypeOK'
    BY <1>1, <1>3, <2>2 DEF TypeOK, PC
  <2>4. /\ held'[r] \subseteq {"team"}
        /\ Capped => "team" \in held'[r]
    BY <1>4, <1>5, <1>6, <1>8, <2>2
  <2>5. pc'[r] = "teamStart" /\ Team(r)' = Team(r)
    BY <1>3, <1>5 DEF Team
  <2>6. LocalInv(r)'
    BY <1>1, <1>3, <2>1, <2>4, <2>5
       DEF LocalInv, Metered, Capped, Unsettled, AfterTeam, Committing
  <2>7. \A q \in Requests \ {r} : pc'[q] = pc[q] /\ held'[q] = held[q]
    BY <1>3, <1>5, <2>2
  <2>. QED
    BY <1>3, <2>2, <2>3, <2>6, <2>7, StepOfOne
<1>. QED
  BY <1>7, <1>8

\* What the evaluation of a layer's limits writes.
LEMMA ChargeFacts ==
    ASSUME TypeOK, NEW r \in Requests, NEW l \in Layers, NEW lim \in Limits,
           charge' = [charge EXCEPT ![r][l] = lim]
    PROVE  /\ charge' \in [Requests -> [Layers -> Limits]]
           /\ charge'[r][l] = lim
           /\ \A m \in Layers \ {l} : charge'[r][m] = charge[r][m]
           /\ \A q \in Requests \ {r} : charge'[q] = charge[q]
<1>1. charge \in [Requests -> [Layers -> Limits]]
  BY DEF TypeOK
<1>. QED
  BY <1>1

\* The team's limits are evaluated.
LEMMA TeamStartStep ==
    ASSUME GuardInv, NEW r \in Requests, TeamStart(r)
    PROVE  GuardInv'
<1> USE DEF storeVars, reqVars
<1>1. TypeOK /\ GuardsCounted /\ ConcBounded /\ LocalInv(r)
  BY DEF GuardInv
<1>2. PICK lim : lim = Effective(cloned[r]["team"])
  OBVIOUS
<1>3. /\ pc[r] = "teamStart" /\ charge' = [charge EXCEPT ![r]["team"] = lim]
      /\ pc' = [pc EXCEPT ![r] = "teamClear"]
      /\ UNCHANGED <<plan, period, conc, counter, total, held, left, ask, cloned, used>>
  BY <1>2 DEF TeamStart
<1>4. pc \in [Requests -> PC] /\ cloned[r]["team"] \in Plans \cup {None} /\ "team" \in Layers
  BY <1>1 DEF TypeOK, Layers
<1>5. /\ lim \in Limits
      /\ cloned[r]["team"] # None => \A w \in Windows : \A L \in lim.counts[w] : L <= MaxCount
      /\ cloned[r]["team"] # None /\ Metered => \E L \in lim.total : L <= MaxTotal
  BY <1>1, <1>2, <1>4, EffectiveType
<1>6. /\ charge' \in [Requests -> [Layers -> Limits]]
      /\ charge'[r]["team"] = lim
      /\ charge'[r]["key"] = charge[r]["key"]
      /\ \A q \in Requests \ {r} : charge'[q] = charge[q]
  <2>1. "key" \in Layers \ {"team"}
    BY DEF Layers
  <2>. QED
    BY <1>1, <1>3, <1>4, <1>5, <2>1, ChargeFacts
<1>7. GuardsCounted' /\ ConcBounded'
  BY <1>1, <1>3, KeepsGuards
<1>8. TypeOK'
  BY <1>1, <1>3, <1>6 DEF TypeOK, PC
<1>9. LocalInv(r)'
  <2>1. pc'[r] = "teamClear" /\ Team(r)' = Team(r)
    BY <1>3, <1>4 DEF Team
  <2>2. \A l \in Layers : cloned'[r][l] # None =>
           \A w \in Windows : \A L \in charge'[r][l].counts[w] : L <= MaxCount
    BY <1>1, <1>3, <1>5, <1>6 DEF LocalInv, Layers
  <2>. QED
    BY <1>1, <1>3, <1>5, <1>6, <2>1, <2>2
       DEF LocalInv, Metered, Capped, Unsettled, AfterTeam, Committing
<1>10. \A q \in Requests \ {r} : pc'[q] = pc[q]
  BY <1>3, <1>4
<1>. QED
  BY <1>3, <1>6, <1>7, <1>8, <1>9, <1>10, StepOfOne

\* The key's guard is taken.
LEMMA KeyGuardStep ==
    ASSUME GuardInv, NEW r \in Requests, KeyGuard(r)
    PROVE  GuardInv'
<1> USE DEF storeVars, reqVars
<1>1. TypeOK /\ GuardsCounted /\ ConcBounded /\ LocalInv(r)
  BY DEF GuardInv
<1>2. PICK lim : lim = Effective(cloned[r]["key"])
  OBVIOUS
<1>3. /\ pc[r] = "key" /\ TryAcquire(r, "key", lim) /\ charge' = [charge EXCEPT ![r]["key"] = lim]
      /\ pc' = [pc EXCEPT ![r] = "keyClear"]
      /\ UNCHANGED <<plan, period, counter, total, left, ask, cloned, used>>
  BY <1>2 DEF KeyGuard
<1>4. /\ pc \in [Requests -> PC] /\ held \in [Requests -> SUBSET Layers]
      /\ cloned[r]["key"] \in Plans \cup {None} /\ "key" \in Layers
  BY <1>1 DEF TypeOK, Layers
<1>5. /\ lim \in Limits
      /\ cloned[r]["key"] # None => \A w \in Windows : \A L \in lim.counts[w] : L <= MaxCount
      /\ cloned[r]["key"] # None /\ Capped => \E C \in lim.conc : C <= MaxConc
      /\ Capped => lim.conc = {} \/ \E C \in lim.conc : C <= MaxConc
  <2>1. cloned[r]["key"] = None => lim.conc = {}
    BY <1>2, PlanConstants DEF Effective
  <2>. QED
    BY <1>1, <1>2, <1>4, <2>1, EffectiveType
<1>6. held[r] \subseteq {"team"} /\ ScopeOf(r, "key") \in Scopes
  BY <1>1, <1>3, ScopeFacts DEF LocalInv, Scopes
<1>7. /\ GuardsCounted' /\ ConcBounded'
      /\ conc' \in [Scopes -> Nat] /\ held' \in [Requests -> SUBSET Layers]
      /\ held' = [held EXCEPT ![r] = IF lim.conc = {} THEN @ ELSE @ \cup {"key"}]
  <2>1. "key" \notin held[r]
    BY <1>6
  <2>. QED
    BY <1>1, <1>3, <1>4, <1>5, <1>6, <2>1, AcquireGuard
<1>8. /\ charge' \in [Requests -> [Layers -> Limits]]
      /\ charge'[r]["key"] = lim
      /\ charge'[r]["team"] = charge[r]["team"]
      /\ \A q \in Requests \ {r} : charge'[q] = charge[q]
  <2>1. "team" \in Layers \ {"key"}
    BY DEF Layers
  <2>. QED
    BY <1>1, <1>3, <1>4, <1>5, <2>1, ChargeFacts
<1>9. TypeOK'
  BY <1>1, <1>3, <1>7, <1>8 DEF TypeOK, PC
<1>10. LocalInv(r)'
  <2>1. pc'[r] = "keyClear" /\ Team(r)' = Team(r)
    BY <1>3, <1>4 DEF Team
  <2>2. \A l \in Layers : cloned'[r][l] # None =>
           \A w \in Windows : \A L \in charge'[r][l].counts[w] : L <= MaxCount
    BY <1>1, <1>3, <1>5, <1>8 DEF LocalInv, Layers
  <2>3. /\ "team" \in held'[r] <=> "team" \in held[r]
        /\ Capped /\ cloned[r]["key"] # None => "key" \in held'[r]
    BY <1>4, <1>5, <1>7
  <2>4. Capped /\ cloned[r]["team"] # None => "team" \in held[r]
    BY <1>1, <1>3 DEF LocalInv, Unsettled, AfterTeam
  <2>5. Capped' = Capped
    BY DEF Capped
  <2>. QED
    BY <1>1, <1>3, <2>1, <2>2, <2>3, <2>4, <2>5 DEF LocalInv
<1>11. \A q \in Requests \ {r} : pc'[q] = pc[q] /\ held'[q] = held[q]
  BY <1>3, <1>4, <1>7
<1>. QED
  BY <1>3, <1>7, <1>8, <1>9, <1>10, <1>11, StepOfOne

\* Dropping a guard together with a move to where it is not needed.
LEMMA ReleaseStep ==
    ASSUME GuardInv, NEW r \in Requests, NEW l \in Layers, ReleaseGuard(r, l),
           NEW next \in PC, pc' = [pc EXCEPT ![r] = next],
           \/ next = "dropping"
           \/ l = "key" /\ pc[r] \in Unsettled /\ next \in {"ended", "settleKey"},
           left' \in [Requests -> SUBSET (Layers \X Windows)],
           UNCHANGED <<plan, period, counter, total, ask, cloned, charge, used>>
    PROVE  GuardInv'
<1>1. TypeOK /\ GuardsCounted /\ ConcBounded /\ LocalInv(r)
  BY DEF GuardInv
<1>2. /\ GuardsCounted' /\ ConcBounded'
      /\ conc' \in [Scopes -> Nat] /\ held' \in [Requests -> SUBSET Layers]
      /\ held' = [held EXCEPT ![r] = @ \ {l}]
  BY <1>1, DropsGuard
<1>3. pc \in [Requests -> PC] /\ held \in [Requests -> SUBSET Layers]
  BY <1>1 DEF TypeOK
<1>4. TypeOK'
  BY <1>1, <1>2, <1>3 DEF TypeOK
<1>5. LocalInv(r)'
  <2>1. pc'[r] = next /\ Team(r)' = Team(r) /\ held'[r] = held[r] \ {l}
    BY <1>2, <1>3 DEF Team
  <2>2. CASE next = "dropping"
    BY <1>1, <2>1, <2>2 DEF LocalInv, Metered, Capped, Unsettled, AfterTeam, Committing
  <2>3. CASE l = "key" /\ pc[r] \in Unsettled /\ next \in {"ended", "settleKey"}
    <3>1. Capped /\ cloned[r]["team"] # None => "team" \in held'[r]
      BY <1>1, <2>1, <2>3 DEF LocalInv
    <3>. QED
      BY <1>1, <2>1, <2>3, <3>1 DEF LocalInv, Metered, Capped, Committing
  <2>. QED
    BY <2>2, <2>3
<1>6. \A q \in Requests \ {r} : pc'[q] = pc[q] /\ held'[q] = held[q]
  BY <1>2, <1>3
<1>. QED
  BY <1>2, <1>4, <1>5, <1>6, StepOfOne

\* The steps that drop a guard, and the end of the commit.
LEMMA GuardsGoStep ==
    ASSUME GuardInv, NEW r \in Requests, Committed(r) \/ StreamEnds(r) \/ DropGuard(r)
    PROVE  GuardInv'
<1> USE DEF storeVars, reqVars
<1>1. TypeOK /\ GuardsCounted /\ ConcBounded /\ LocalInv(r)
  BY DEF GuardInv
<1>2. /\ pc \in [Requests -> PC] /\ left \in [Requests -> SUBSET (Layers \X Windows)]
      /\ "key" \in Layers
  BY <1>1 DEF TypeOK, Layers
<1>3. ToSettle(r, "key") \in SUBSET (Layers \X Windows)
  BY <1>1, <1>2, LeftType
<1>4. CASE Committed(r) /\ pc[r] = "commitReply"
  <2>1. /\ ReleaseGuard(r, "key") /\ pc' = [pc EXCEPT ![r] = "settleKey"]
        /\ left' = [left EXCEPT ![r] = ToSettle(r, "key")]
        /\ UNCHANGED <<plan, period, counter, total, ask, cloned, charge, used>>
    BY <1>4 DEF Committed
  <2>2. left' \in [Requests -> SUBSET (Layers \X Windows)]
    BY <1>2, <1>3, <2>1
  <2>3. "settleKey" \in PC /\ pc[r] \in Unsettled
    BY <1>4 DEF PC, Unsettled, AfterTeam, Committing
  <2>. QED
    BY <1>2, <2>1, <2>2, <2>3, ReleaseStep
<1>5. CASE Committed(r) /\ pc[r] # "commitReply"
  <2>1. /\ UNCHANGED <<plan, period, conc, held, counter, total, ask, cloned, charge, used>>
        /\ pc[r] \in Unsettled
        /\ pc' = [pc EXCEPT ![r] = "settleKey"] \/ pc' = [pc EXCEPT ![r] = "streaming"]
        /\ left' = [left EXCEPT ![r] = ToSettle(r, "key")] \/ left' = left
    BY <1>5 DEF Committed, Unsettled, AfterTeam, Committing
  <2>2. left' \in [Requests -> SUBSET (Layers \X Windows)]
    BY <1>2, <1>3, <2>1
  <2>3. /\ pc' \in [Requests -> PC] /\ pc'[r] \in {"settleKey", "streaming"}
        /\ \A q \in Requests \ {r} : pc'[q] = pc[q]
    BY <1>2, <2>1 DEF PC
  <2>4. TypeOK'
    BY <1>1, <2>1, <2>2, <2>3 DEF TypeOK
  <2>5. LocalInv(r)'
    BY <1>1, <2>1, <2>3, LocalMove
  <2>6. GuardsCounted' /\ ConcBounded'
    BY <1>1, <2>1, KeepsGuards
  <2>. QED
    BY <2>1, <2>3, <2>4, <2>5, <2>6, StepOfOne
<1>6. CASE StreamEnds(r)
  <2>1. /\ ReleaseGuard(r, "key") /\ pc[r] = "streaming" /\ pc' = [pc EXCEPT ![r] = "ended"]
        /\ UNCHANGED <<plan, period, counter, total, left, ask, cloned, charge, used>>
    BY <1>6 DEF StreamEnds
  <2>2. "ended" \in PC /\ pc[r] \in Unsettled
    BY <2>1 DEF PC, Unsettled
  <2>. QED
    BY <1>2, <2>1, <2>2, ReleaseStep
<1>7. CASE DropGuard(r)
  <2>1. PICK l \in held[r] : ReleaseGuard(r, l)
    BY <1>7 DEF DropGuard
  <2>2. /\ pc[r] = "dropping" /\ l \in Layers /\ "dropping" \in PC
        /\ UNCHANGED <<plan, period, counter, total, pc, left, ask, cloned, charge, used>>
    BY <1>1, <1>7 DEF DropGuard, TypeOK, PC
  <2>3. pc' = [pc EXCEPT ![r] = "dropping"]
    BY <1>2, <2>2
  <2>. QED
    BY <1>2, <2>1, <2>2, <2>3, ReleaseStep
<1>. QED
  BY <1>4, <1>5, <1>6, <1>7

\* Time and administration touch no request.
LEMMA OutsideStep ==
    ASSUME GuardInv,
           \/ \E c \in Counters : Elapse(c)
           \/ \E q \in Periods : ChangePeriod(q)
           \/ \E s \in Replaceable, p \in Plans \cup {None} : ChangePlan(s, p)
           \/ UNCHANGED vars
    PROVE  GuardInv'
<1> USE DEF storeVars, reqVars
<1>1. TypeOK /\ GuardsCounted /\ ConcBounded
  BY DEF GuardInv
<1>2. UNCHANGED <<conc, total, pc, held, left, ask, cloned, charge, used>>
  BY DEF Elapse, ChangePeriod, ChangePlan, vars
<1>3. ASSUME NEW c \in Counters, Elapse(c) PROVE TypeOK'
  <2>1. counter' = [counter EXCEPT ![c].live = FALSE] /\ UNCHANGED <<plan, period>>
    BY <1>3 DEF Elapse
  <2>2. [counter[c] EXCEPT !.live = FALSE] \in Window
    BY <1>1 DEF TypeOK, Window
  <2>. QED
    BY <1>1, <1>2, <2>1, <2>2 DEF TypeOK
<1>4. ASSUME NEW q \in Periods, ChangePeriod(q) PROVE TypeOK'
  BY <1>1, <1>2, <1>4 DEF ChangePeriod, TypeOK
<1>5. ASSUME NEW s \in Replaceable, NEW p \in Plans \cup {None}, ChangePlan(s, p) PROVE TypeOK'
  BY <1>1, <1>2, <1>5 DEF ChangePlan, TypeOK
<1>6. ASSUME UNCHANGED vars PROVE TypeOK'
  BY <1>1, <1>2, <1>6 DEF vars, TypeOK
<1>7. TypeOK'
  BY <1>3, <1>4, <1>5, <1>6
<1>8. GuardsCounted' /\ ConcBounded'
  BY <1>1, <1>2, KeepsGuards
<1>9. \A q \in Requests : LocalInv(q)'
  BY <1>2, LocalFrame DEF GuardInv
<1>. QED
  BY <1>7, <1>8, <1>9 DEF GuardInv

LEMMA GuardStep == GuardInv /\ [Next]_vars => GuardInv'
<1> SUFFICES ASSUME GuardInv, [Next]_vars PROVE GuardInv'
  OBVIOUS
<1>1. ASSUME NEW r \in Requests, Resolve(r) \/ Step(r) \/ Abandon(r) PROVE GuardInv'
  BY <1>1, ResolveStep, TeamGuardStep, TeamStartStep, KeyGuardStep, QuietStep, GuardsGoStep DEF Step
<1>. QED
  BY <1>1, OutsideStep DEF Next

LEMMA GuardInit == Init => GuardInv
<1> SUFFICES ASSUME Init PROVE GuardInv
  OBVIOUS
<1> USE DEF Init
<1>1. NoWindow \in Window /\ NoLimits \in Limits
  BY DEF NoWindow, Window, NoLimits, Limits
<1>2. TypeOK
  BY <1>1 DEF TypeOK, PC
<1>3. \A s \in Scopes : Holders(s) = {}
  BY DEF Holders
<1>4. GuardsCounted
  BY <1>3, FS_EmptySet DEF GuardsCounted
<1>5. ConcBounded
  BY PlanBounds DEF ConcBounded
<1>6. \A r \in Requests : LocalInv(r)
  BY DEF LocalInv, NoLimits, Layers, Unsettled, AfterTeam, Committing
<1>. QED
  BY <1>2, <1>4, <1>5, <1>6 DEF GuardInv

\* Every reachable state is well-typed: in particular no concurrency counter
\* goes below zero (fetch_sub never wraps) on any path of the handlers.
THEOREM PlanTypeCorrect == Spec => []TypeOK
<1>1. GuardInv => TypeOK
  BY DEF GuardInv
<1>. QED
  BY <1>1, GuardInit, GuardStep, PTL DEF Spec

\* The concurrency counters of keys and teams are exactly the guards alive,
\* for any number of requests and any interleaving of their handlers.
THEOREM GuardsExact == Spec => []GuardsCounted
<1>1. GuardInv => GuardsCounted
  BY DEF GuardInv
<1>. QED
  BY <1>1, GuardInit, GuardStep, PTL DEF Spec

-----------------------------------------------------------------------------
(***************************************************************************)
(* How far a plan can be overshot.  A request that has passed a peek and   *)
(* not yet charged is pending; pending requests hold guards, so there are  *)
(* at most MaxConc of them; and a peek that succeeds proves that the       *)
(* counter was below its limit at that moment, whatever was pending before.*)
(***************************************************************************)
(***************************************************************************)
(* Arithmetic and finite sets.                                             *)
(***************************************************************************)

LEMMA TimesMonotone ==
    ASSUME NEW k \in Nat, NEW a \in Nat, NEW b \in Nat, a <= b
    PROVE  k * a <= k * b /\ k * a \in Nat /\ k * b \in Nat
<1>1. PICK d \in Nat : b = a + d
  <2>1. b - a \in Nat /\ b = a + (b - a)
    OBVIOUS
  <2>. QED
    BY <2>1
<1>2. k * b = k * a + k * d /\ k * d \in Nat /\ k * a \in Nat
  BY <1>1
<1>. QED
  BY <1>2

LEMMA TimesPredecessor ==
    ASSUME NEW k \in Nat, NEW a \in Nat, NEW b \in Nat, a + 1 <= b
    PROVE  k * a + k <= k * b /\ k * a \in Nat /\ k * b \in Nat
<1>1. k * (a + 1) = k * a + k /\ k * a \in Nat /\ a + 1 \in Nat
  OBVIOUS
<1>. QED
  BY <1>1, TimesMonotone

\* Sets of requests are finite, and smaller ones have fewer elements.
LEMMA RequestSets ==
    ASSUME NEW S \in SUBSET Requests, NEW T \in SUBSET Requests, S \subseteq T
    PROVE  /\ Cardinality(S) \in Nat
           /\ Cardinality(T) \in Nat
           /\ Cardinality(S) <= Cardinality(T)
           /\ \A r \in T : r \notin S => Cardinality(S) + 1 <= Cardinality(T)
<1>1. IsFiniteSet(S) /\ IsFiniteSet(T)
  BY PlanConstants, FS_Subset
<1>2. Cardinality(S) \in Nat /\ Cardinality(T) \in Nat /\ Cardinality(S) <= Cardinality(T)
  BY <1>1, FS_Subset, FS_CardinalityType
<1>3. ASSUME NEW r \in T, r \notin S PROVE Cardinality(S) + 1 <= Cardinality(T)
  <2>1. /\ IsFiniteSet(S \cup {r}) /\ Cardinality(S \cup {r}) = Cardinality(S) + 1
    BY <1>1, <1>3, FS_AddElement
  <2>2. S \cup {r} \subseteq T
    BY <1>3
  <2>3. Cardinality(S \cup {r}) <= Cardinality(T)
    BY <1>1, <2>2, FS_Subset
  <2>. QED
    BY <2>1, <2>3
<1>. QED
  BY <1>2, <1>3

\* The bounds are numbers.
LEMMA BoundTypes ==
    /\ MaxConc \in Nat /\ MaxCount \in Nat /\ MaxTotal \in Nat
    /\ MinWeight \in Nat /\ MaxWeight \in Nat /\ MaxUsage \in Nat
    /\ MinWeight <= MaxCount /\ MaxTotal # 0
BY PlanBounds

\* A plan has a counter for every window.
LEMMA PlanCounter ==
    ASSUME NEW s \in Scopes, NEW w \in Windows
    PROVE  <<s, "plan", w>> \in Counters
BY DEF Counters, Buckets

-----------------------------------------------------------------------------
(***************************************************************************)
(* Pending requests hold guards.                                           *)
(***************************************************************************)

\* At most MaxConc requests are pending on a window or on a lifetime total.
PendingBounded ==
    Capped => /\ \A s \in Scopes, w \in Windows : Cardinality(Pending(s, w)) <= MaxConc
              /\ \A t \in Teams : Cardinality(PendingTotal(t)) <= MaxConc

LEMMA PendingHold == GuardInv => PendingBounded
<1> SUFFICES ASSUME GuardInv, Capped
             PROVE  /\ \A s \in Scopes, w \in Windows : Cardinality(Pending(s, w)) <= MaxConc
                    /\ \A t \in Teams : Cardinality(PendingTotal(t)) <= MaxConc
  BY DEF PendingBounded
<1>1. ASSUME NEW s \in Scopes, NEW S \in SUBSET Holders(s) PROVE Cardinality(S) <= MaxConc
  <2>1. conc[s] = Cardinality(Holders(s)) /\ conc[s] <= MaxConc
    BY DEF GuardInv, GuardsCounted, ConcBounded
  <2>2. Holders(s) \in SUBSET Requests
    BY DEF Holders
  <2>3. Cardinality(S) \in Nat /\ Cardinality(S) <= Cardinality(Holders(s)) /\ Cardinality(Holders(s)) \in Nat
    BY <2>2, RequestSets
  <2>. QED
    BY <2>1, <2>3, BoundTypes
<1>2. ASSUME NEW s \in Scopes, NEW w \in Windows PROVE Pending(s, w) \subseteq Holders(s)
  <2>1. SUFFICES ASSUME NEW r \in Requests, NEW l \in Layers, ScopeOf(r, l) = s, PendingOn(r, l, w)
                 PROVE  l \in held[r]
    BY DEF Pending, Holders
  <2>2. LocalInv(r)
    BY DEF GuardInv
  <2>3. CASE l = "team"
    <3>1. cloned[r]["team"] # None /\ pc[r] \in {"teamPeek"} \cup Unsettled
      BY <2>1, <2>3 DEF PendingOn, Peeking, Unsettled, AfterTeam
    <3>. QED
      BY <2>2, <2>3, <3>1 DEF LocalInv
  <2>4. CASE l = "key"
    <3>1. cloned[r]["key"] # None /\ pc[r] \in {"keyPeek", "admitted"} \cup Committing
      BY <2>1, <2>4 DEF PendingOn, Peeking
    <3>. QED
      BY <2>2, <2>4, <3>1 DEF LocalInv
  <2>. QED
    BY <2>3, <2>4 DEF Layers
<1>3. ASSUME NEW t \in Teams PROVE t \in Scopes /\ PendingTotal(t) \subseteq Holders(t)
  <2>1. SUFFICES ASSUME NEW r \in Requests, Team(r) = t, cloned[r]["team"] # None, pc[r] \in Unsettled
                 PROVE  "team" \in held[r]
    BY DEF PendingTotal, Holders, ScopeOf, Scopes
  <2>2. LocalInv(r)
    BY DEF GuardInv
  <2>. QED
    BY <2>1, <2>2 DEF LocalInv
<1>. QED
  BY <1>1, <1>2, <1>3

\* The same after a step.
LEMMA PendingHoldAfter == GuardInv' => PendingBounded'
BY PendingHold, PTL

-----------------------------------------------------------------------------
(***************************************************************************)
(* What a step can do to the pending requests and to the counters.         *)
(***************************************************************************)

\* A step of r leaves the other requests where they are.
LEMMA OthersStay ==
    ASSUME TypeOK, NEW r \in Requests, Resolve(r) \/ Step(r) \/ Abandon(r)
    PROVE  /\ ask' = ask
           /\ \A q \in Requests \ {r} : /\ pc'[q] = pc[q] /\ cloned'[q] = cloned[q]
                                         /\ charge'[q] = charge[q] /\ left'[q] = left[q]
<1> USE DEF Step, reqVars
<1>1. ask' = ask /\ (cloned' = cloned \/ \E x : cloned' = [cloned EXCEPT ![r] = x])
  BY DEF Resolve, TeamGuard, TeamStart, KeyGuard, GuardFails, ClearStale, PeekWindow, PeekTotal, Abandon,
         ProviderReturns, CommitWindow, Committed, StreamEnds, DropStream, SettleWindow,
         SettleTotal, DropGuard, Finish
<1>2. pc' = pc \/ \E x : pc' = [pc EXCEPT ![r] = x]
  BY DEF Resolve, TeamGuard, TeamStart, KeyGuard, GuardFails, ClearStale, PeekWindow, PeekTotal, Abandon,
         ProviderReturns, CommitWindow, Committed, StreamEnds, DropStream, SettleWindow,
         SettleTotal, DropGuard, Finish
<1>3. left' = left \/ \E x : left' = [left EXCEPT ![r] = x]
  BY DEF Resolve, TeamGuard, TeamStart, KeyGuard, GuardFails, ClearStale, PeekWindow, PeekTotal, Abandon,
         ProviderReturns, CommitWindow, Committed, StreamEnds, DropStream, SettleWindow,
         SettleTotal, DropGuard, Finish
<1>4. charge' = charge \/ \E l, x : charge' = [charge EXCEPT ![r][l] = x]
  BY DEF Resolve, TeamGuard, TeamStart, KeyGuard, GuardFails, ClearStale, PeekWindow, PeekTotal, Abandon,
         ProviderReturns, CommitWindow, Committed, StreamEnds, DropStream, SettleWindow,
         SettleTotal, DropGuard, Finish
<1>5. /\ cloned \in [Requests -> [Layers -> Plans \cup {None}]] /\ pc \in [Requests -> PC]
      /\ left \in [Requests -> SUBSET (Layers \X Windows)]
      /\ charge \in [Requests -> [Layers -> Limits]]
  BY DEF TypeOK
<1>. QED
  BY <1>1, <1>2, <1>3, <1>4, <1>5

\* So nobody but r becomes pending.
LEMMA OthersPending ==
    ASSUME NEW r \in Requests, ask' = ask,
           \A q \in Requests \ {r} : /\ pc'[q] = pc[q] /\ cloned'[q] = cloned[q]
                                     /\ charge'[q] = charge[q] /\ left'[q] = left[q],
           NEW s, NEW w \in Windows
    PROVE  /\ Pending(s, w)' \ {r} = Pending(s, w) \ {r}
           /\ \A l \in Layers : ScopeOf(r, l)' = ScopeOf(r, l)
<1>1. \A q \in Requests, l \in Layers : ScopeOf(q, l)' = ScopeOf(q, l)
  BY DEF ScopeOf, Team
<1>2. \A q \in Requests \ {r}, l \in Layers : PendingOn(q, l, w)' <=> PendingOn(q, l, w)
  BY DEF PendingOn, Peeking, CountedWindows
<1>3. Pending(s, w)' \ {r} = Pending(s, w) \ {r}
  BY <1>1, <1>2 DEF Pending
<1>. QED
  BY <1>1, <1>3

\* A counted window is among the windows to peek at.
LEMMA CountedIsVisited ==
    ASSUME NEW lim, NEW w \in CountedWindows(lim), NEW l
    PROVE  <<l, w>> \in {l} \X WindowsOf(lim)
BY DEF CountedWindows, WindowsOf

\* r becomes pending on a window only by an allowed peek at it.
LEMMA BecomesPending ==
    ASSUME GuardInv, NEW r \in Requests, Resolve(r) \/ Step(r) \/ Abandon(r),
           NEW l \in Layers, NEW w \in Windows, PendingOn(r, l, w)', ~PendingOn(r, l, w)
    PROVE  /\ PeekWindow(r, l) /\ Peeking(r, l)
           /\ w \in CountedWindows(charge[r][l]) /\ cloned[r][l] # None
           /\ PeekAllows(charge[r][l], CounterOf(r, l, w), ask[r].weight)
<1> USE DEF reqVars
<1>1. TypeOK /\ LocalInv(r)
  BY DEF GuardInv
<1>2. /\ pc \in [Requests -> PC] /\ left \in [Requests -> SUBSET (Layers \X Windows)]
      /\ cloned \in [Requests -> [Layers -> Plans \cup {None}]]
      /\ charge \in [Requests -> [Layers -> Limits]]
  BY <1>1 DEF TypeOK
<1>3. ~Resolve(r)
  <2> SUFFICES ASSUME Resolve(r) PROVE FALSE
    OBVIOUS
  <2>1. pc'[r] \in {"key", "team"} /\ charge'[r][l] = NoLimits
    BY <1>1, <1>2 DEF Resolve, LocalInv
  <2>2. CountedWindows(NoLimits) = {}
    BY DEF CountedWindows, NoLimits
  <2>. QED
    BY <2>1, <2>2 DEF PendingOn, Committing
<1>4. ~TeamGuard(r)
  BY <1>2 DEF TeamGuard, PendingOn, Peeking, Committing
<1>5. ~TeamStart(r)
  BY <1>2 DEF TeamStart, PendingOn, Peeking, Committing
<1>6. ~KeyGuard(r)
  <2> SUFFICES ASSUME KeyGuard(r) PROVE FALSE
    OBVIOUS
  <2>1. /\ pc[r] = "key" /\ pc'[r] = "keyClear" /\ {"key", "team"} = Layers
        /\ charge'[r]["team"] = charge[r]["team"] /\ cloned' = cloned
    BY <1>2 DEF KeyGuard, Layers
  <2>. QED
    BY <2>1 DEF PendingOn, Peeking, Committing
<1>19. ASSUME NEW m \in Layers PROVE ~ClearStale(r, m)
  <2> SUFFICES ASSUME ClearStale(r, m) PROVE FALSE
    OBVIOUS
  <2>1. /\ left'[r] = {m} \X WindowsOf(charge[r][m]) /\ {"key", "team"} = Layers
        /\ charge' = charge /\ cloned' = cloned
        /\ \/ m = "team" /\ pc'[r] = "teamPeek"
           \/ m = "key" /\ pc[r] = "keyClear" /\ pc'[r] = "keyPeek"
    BY <1>2 DEF ClearStale, Layers
  <2>2. CASE l = m
    <3>1. w \in CountedWindows(charge[r][l]) /\ <<l, w>> \notin left'[r]
      BY <2>1, <2>2 DEF PendingOn, Peeking, Committing
    <3>. QED
      BY <2>1, <2>2, <3>1, CountedIsVisited
  <2>3. CASE l # m
    BY <2>1, <2>3 DEF PendingOn, Peeking, Committing
  <2>. QED
    BY <2>2, <2>3
<1>7. ASSUME NEW m \in Layers PROVE ~GuardFails(r, m) /\ ~PeekTotal(r, m)
  <2>1. ~GuardFails(r, m)
    BY <1>2 DEF GuardFails, PendingOn, Peeking, Committing
  <2>2. ~PeekTotal(r, m)
    BY <1>2 DEF PeekTotal, PendingOn, Peeking, Committing, Layers
  <2>. QED
    BY <2>1, <2>2
<1>8. ~Abandon(r)
  BY <1>2 DEF Abandon, PendingOn, Peeking, Committing
<1>9. ~ProviderReturns(r)
  <2> SUFFICES ASSUME ProviderReturns(r) PROVE FALSE
    OBVIOUS
  <2>1. /\ pc[r] = "admitted" /\ pc'[r] \in Committing /\ left'[r] = ToCommit(r)
        /\ UNCHANGED <<cloned, charge>>
    BY <1>2 DEF ProviderReturns
  <2>2. <<l, w>> \in ToCommit(r) => w \in CountedWindows(charge[r][l])
    BY DEF ToCommit
  <2>. QED
    BY <2>1, <2>2 DEF PendingOn, Peeking, Committing
<1>10. ~CommitWindow(r)
  <2> SUFFICES ASSUME CommitWindow(r) PROVE FALSE
    OBVIOUS
  <2>1. /\ pc[r] \in Committing /\ left'[r] \subseteq left[r]
        /\ UNCHANGED <<pc, cloned, charge>>
    BY <1>2 DEF CommitWindow
  <2>. QED
    BY <2>1 DEF PendingOn, Peeking, Committing
<1>11. ~(Committed(r) \/ StreamEnds(r) \/ DropStream(r) \/ SettleWindow(r) \/ SettleTotal(r)
         \/ DropGuard(r) \/ Finish(r))
  <2>1. ASSUME Committed(r) \/ StreamEnds(r) \/ DropStream(r) \/ SettleWindow(r) \/ SettleTotal(r)
               \/ DropGuard(r) \/ Finish(r)
        PROVE  pc'[r] \in {"streaming", "ended", "settleKey", "settleTeam", "dropping", "done"}
    BY <1>2, <2>1 DEF Committed, StreamEnds, DropStream, SettleWindow, SettleTotal, DropGuard, Finish
  <2>. QED
    BY <2>1 DEF PendingOn, Peeking, Committing
<1>12. PICK m \in Layers : PeekWindow(r, m)
  BY <1>19, <1>3, <1>4, <1>5, <1>6, <1>7, <1>8, <1>9, <1>10, <1>11 DEF Step
<1>13. PICK v \in Windows :
         /\ <<m, v>> \in left[r]
         /\ IF PeekAllows(charge[r][m], CounterOf(r, m, v), ask[r].weight)
              THEN left' = [left EXCEPT ![r] = @ \ {<<m, v>>}] /\ UNCHANGED pc
              ELSE left' = [left EXCEPT ![r] = {}] /\ pc' = [pc EXCEPT ![r] = "dropping"]
  BY <1>12 DEF PeekWindow
<1>14. UNCHANGED <<cloned, charge>> /\ Peeking(r, m)
  BY <1>12 DEF PeekWindow
<1>15. PeekAllows(charge[r][m], CounterOf(r, m, v), ask[r].weight)
  <2> SUFFICES ASSUME ~PeekAllows(charge[r][m], CounterOf(r, m, v), ask[r].weight) PROVE FALSE
    OBVIOUS
  <2>1. pc'[r] = "dropping"
    BY <1>2, <1>13
  <2>. QED
    BY <2>1 DEF PendingOn, Peeking, Committing
<1>16. left'[r] = left[r] \ {<<m, v>>} /\ pc' = pc
  BY <1>2, <1>13, <1>15
<1>17. Peeking(r, l) /\ <<l, w>> \in left[r] /\ <<l, w>> \notin left'[r]
       /\ w \in CountedWindows(charge[r][l]) /\ cloned[r][l] # None
  BY <1>14, <1>16 DEF PendingOn, Peeking, Committing
<1>18. l = m /\ w = v
  BY <1>16, <1>17
<1>. QED
  BY <1>12, <1>15, <1>17, <1>18

\* A counter of a plan grows only by a commit on it.
LEMMA CounterGrows ==
    ASSUME GuardInv, NEW r \in Requests, Resolve(r) \/ Step(r) \/ Abandon(r),
           NEW s \in Scopes, NEW w \in Windows,
           NEW c, c = <<s, "plan", w>>
    PROVE  \/ Now(c)'.counts <= Now(c).counts
           \/ /\ Now(c)'.counts = Now(c).counts + ask[r].weight
              /\ CommitWindow(r)
              /\ \E l \in Layers : /\ ScopeOf(r, l) = s /\ cloned[r][l] # None
                                   /\ <<l, w>> \in left[r] /\ <<l, w>> \notin left'[r]
<1> USE DEF reqVars
<1>1. TypeOK /\ LocalInv(r)
  BY DEF GuardInv
<1>2. /\ counter \in [Counters -> Window] /\ left \in [Requests -> SUBSET (Layers \X Windows)]
      /\ c \in Counters
  BY <1>1 DEF TypeOK, Counters, Buckets
<1>3. Now(c).counts \in Nat
  BY <1>1, <1>2, WindowType DEF Window
<1>4. CASE counter' = counter
  BY <1>3, <1>4 DEF Now
<1>5. ASSUME NEW x, NEW S, counter' = ClearWindows(x, S) PROVE Now(c)'.counts <= Now(c).counts
  <2>1. counter'[c] = NoWindow \/ counter'[c] = counter[c]
    BY <1>2, <1>5 DEF ClearWindows
  <2>2. CASE counter'[c] = NoWindow
    BY <1>3, <2>2 DEF Now, NoWindow
  <2>3. CASE counter'[c] = counter[c]
    BY <1>3, <2>3 DEF Now
  <2>. QED
    BY <2>1, <2>2, <2>3
<1>6. CASE SettleWindow(r)
  <2>1. PICK d, u : counter' = [counter EXCEPT ![d] = BumpUsage(d, u)]
    BY <1>6 DEF SettleWindow
  <2>2. CASE d # c
    BY <1>2, <1>3, <2>1, <2>2 DEF Now
  <2>3. CASE d = c
    <3>1. counter'[c] = BumpUsage(c, u)
      BY <1>2, <2>1, <2>3
    <3>2. CASE u = 0
      BY <1>3, <3>1, <3>2 DEF Now, BumpUsage
    <3>3. CASE u # 0
      <4>1. counter'[c].live = TRUE /\ counter'[c].counts = Now(c).counts
        BY <3>1, <3>3 DEF BumpUsage
      <4>. QED
        BY <1>3, <4>1 DEF Now
    <3>. QED
      BY <3>2, <3>3
  <2>. QED
    BY <2>2, <2>3
<1>7. CASE CommitWindow(r)
  <2>1. PICK l \in Layers, v \in Windows :
           /\ <<l, v>> \in left[r]
           /\ counter' = [counter EXCEPT ![CounterOf(r, l, v)] = BumpCounts(CounterOf(r, l, v), ask[r].weight)]
           /\ left' = [left EXCEPT ![r] = @ \ {<<l, v>>}]
    BY <1>7 DEF CommitWindow
  <2>2. PICK d : d = CounterOf(r, l, v)
    OBVIOUS
  <2>3. CASE d # c
    <3>1. counter'[c] = counter[c]
      BY <1>2, <2>1, <2>2, <2>3
    <3>. QED
      BY <1>3, <3>1 DEF Now
  <2>4. CASE d = c
    <3>1. ScopeOf(r, l) = s /\ cloned[r][l] # None /\ v = w
      BY <2>2, <2>4 DEF CounterOf
    <3>2. counter'[c] = BumpCounts(c, ask[r].weight)
      BY <1>2, <2>1, <2>2, <2>4
    <3>3. counter'[c].live = TRUE /\ counter'[c].counts = Now(c).counts + ask[r].weight
      BY <3>2 DEF BumpCounts
    <3>4. Now(c)'.counts = Now(c).counts + ask[r].weight
      BY <3>3 DEF Now
    <3>5. <<l, w>> \in left[r] /\ <<l, w>> \notin left'[r]
      BY <1>2, <2>1, <3>1
    <3>. QED
      BY <1>7, <3>1, <3>4, <3>5
  <2>. QED
    BY <2>3, <2>4
<1>8. CASE ~SettleWindow(r) /\ ~CommitWindow(r)
  <2>1. counter' = counter \/ \E x, S : counter' = ClearWindows(x, S)
    BY <1>8 DEF Step, Resolve, TeamGuard, TeamStart, KeyGuard, GuardFails, ClearStale, PeekWindow, PeekTotal,
           Abandon, ProviderReturns, Committed, StreamEnds, DropStream, SettleTotal, DropGuard,
           Finish
  <2>. QED
    BY <1>4, <1>5, <2>1
<1>. QED
  BY <1>6, <1>7, <1>8

-----------------------------------------------------------------------------
(***************************************************************************)
(* Window counters.                                                        *)
(***************************************************************************)

\* CountRoom for one window of one scope.
RoomAt(s, w) ==
    Now(<<s, "plan", w>>).counts + MaxWeight * Cardinality(Pending(s, w)) + MinWeight
        <= MaxCount + MaxWeight * MaxConc

\* Nothing is counted and nobody becomes pending.
LEMMA RoomKept ==
    ASSUME TypeOK, TypeOK', NEW s \in Scopes, NEW w \in Windows, RoomAt(s, w),
           Now(<<s, "plan", w>>)'.counts <= Now(<<s, "plan", w>>).counts,
           Pending(s, w)' \subseteq Pending(s, w)
    PROVE  RoomAt(s, w)'
<1>1. PICK c : c = <<s, "plan", w>> /\ c \in Counters
  BY PlanCounter
<1>2. Now(c).counts \in Nat /\ Now(c)'.counts \in Nat
  <2>1. counter[c] \in Window /\ counter'[c] \in Window
    BY <1>1 DEF TypeOK
  <2>. QED
    BY <2>1 DEF Now, Window, NoWindow
<1>3. Pending(s, w)' \in SUBSET Requests /\ Pending(s, w) \in SUBSET Requests
  BY DEF Pending
<1>4. /\ Cardinality(Pending(s, w)') \in Nat /\ Cardinality(Pending(s, w)) \in Nat
      /\ Cardinality(Pending(s, w)') <= Cardinality(Pending(s, w))
  BY <1>3, RequestSets
<1>5. /\ MaxWeight * Cardinality(Pending(s, w)') <= MaxWeight * Cardinality(Pending(s, w))
      /\ MaxWeight * Cardinality(Pending(s, w)') \in Nat
      /\ MaxWeight * Cardinality(Pending(s, w)) \in Nat
      /\ MaxWeight * MaxConc \in Nat
  BY <1>4, BoundTypes, TimesMonotone
<1>. QED
  BY <1>1, <1>2, <1>5, BoundTypes DEF RoomAt

\* A commit trades one pending request for at most MaxWeight.
LEMMA RoomAfterCommit ==
    ASSUME TypeOK, NEW s \in Scopes, NEW w \in Windows, RoomAt(s, w),
           NEW r \in Pending(s, w), NEW n \in Nat, n <= MaxWeight,
           Now(<<s, "plan", w>>)'.counts = Now(<<s, "plan", w>>).counts + n,
           Pending(s, w)' \subseteq Pending(s, w) \ {r}
    PROVE  RoomAt(s, w)'
<1>1. PICK c : c = <<s, "plan", w>> /\ c \in Counters
  BY PlanCounter
<1>2. Now(c).counts \in Nat
  BY <1>1, WindowType DEF Window
<1>3. Pending(s, w)' \in SUBSET Requests /\ Pending(s, w) \in SUBSET Requests
  BY DEF Pending
<1>4. /\ Cardinality(Pending(s, w)') \in Nat /\ Cardinality(Pending(s, w)) \in Nat
      /\ Cardinality(Pending(s, w)') + 1 <= Cardinality(Pending(s, w))
  BY <1>3, RequestSets
<1>5. /\ MaxWeight * Cardinality(Pending(s, w)') + MaxWeight <= MaxWeight * Cardinality(Pending(s, w))
      /\ MaxWeight * Cardinality(Pending(s, w)') \in Nat
      /\ MaxWeight * Cardinality(Pending(s, w)) \in Nat
  BY <1>4, BoundTypes, TimesPredecessor
<1>6. MaxWeight * MaxConc \in Nat
  BY BoundTypes, TimesMonotone
<1>. QED
  BY <1>1, <1>2, <1>5, <1>6, BoundTypes DEF RoomAt

\* A peek that succeeds sees room for at least the smallest weight.
LEMMA RoomAfterPeek ==
    ASSUME PendingBounded', Capped, NEW s \in Scopes, NEW w \in Windows,
           Now(<<s, "plan", w>>)'.counts \in Nat,
           Now(<<s, "plan", w>>)'.counts + MinWeight <= MaxCount
    PROVE  RoomAt(s, w)'
<1>1. Pending(s, w)' \in SUBSET Requests
  BY DEF Pending
<1>2. Cardinality(Pending(s, w)') \in Nat
  BY <1>1, RequestSets
<1>3. Cardinality(Pending(s, w)') <= MaxConc
  BY DEF PendingBounded, Capped
<1>4. /\ MaxWeight * Cardinality(Pending(s, w)') <= MaxWeight * MaxConc
      /\ MaxWeight * Cardinality(Pending(s, w)') \in Nat
      /\ MaxWeight * MaxConc \in Nat
  BY <1>2, <1>3, BoundTypes, TimesMonotone
<1>. QED
  BY <1>4, BoundTypes DEF RoomAt

\* Steps of a request keep the room in every window.
LEMMA RoomStepOfOne ==
    ASSUME GuardInv, GuardInv', Capped, NEW r \in Requests, Resolve(r) \/ Step(r) \/ Abandon(r),
           NEW s \in Scopes, NEW w \in Windows, RoomAt(s, w)
    PROVE  RoomAt(s, w)'
<1>1. TypeOK /\ TypeOK' /\ LocalInv(r)
  BY DEF GuardInv
<1>2. /\ Pending(s, w)' \ {r} = Pending(s, w) \ {r}
      /\ \A l \in Layers : ScopeOf(r, l)' = ScopeOf(r, l)
  BY <1>1, OthersStay, OthersPending
<1>3. PICK c : c = <<s, "plan", w>> /\ c \in Counters
  BY PlanCounter
<1>4. ask[r].weight \in Nat /\ MinWeight <= ask[r].weight /\ ask[r].weight <= MaxWeight
  <2>1. ask[r].weight \in Weights
    BY <1>1, ScopeFacts
  <2>2. MinWeight <= ask[r].weight /\ ask[r].weight <= MaxWeight
    BY <2>1, PlanBounds
  <2>3. ask[r].weight \in Nat
    BY <2>1, NumberFacts, Zenon
  <2>. QED
    BY <2>2, <2>3
<1>5. Now(c).counts \in Nat
  BY <1>1, <1>3, WindowType DEF Window
<1>6. CASE r \in Pending(s, w)' /\ r \notin Pending(s, w)
  <2>1. PICK l \in Layers : ScopeOf(r, l) = s /\ PendingOn(r, l, w)' /\ ~PendingOn(r, l, w)
    BY <1>2, <1>6 DEF Pending
  <2>2. /\ PeekWindow(r, l)
        /\ w \in CountedWindows(charge[r][l]) /\ cloned[r][l] # None
        /\ PeekAllows(charge[r][l], CounterOf(r, l, w), ask[r].weight)
    BY <2>1, BecomesPending
  <2>3. CounterOf(r, l, w) = c
    BY <1>3, <2>1, <2>2 DEF CounterOf
  <2>4. PICK L \in charge[r][l].counts[w] : TRUE
    BY <2>2 DEF CountedWindows
  <2>5. Now(c).counts + ask[r].weight <= L
    BY <1>3, <2>2, <2>3, <2>4 DEF PeekAllows
  <2>6. L <= MaxCount /\ L \in Nat
    <3>1. L <= MaxCount
      BY <1>1, <2>2, <2>4 DEF LocalInv
    <3>2. charge[r][l] \in Limits
      BY <1>1 DEF TypeOK
    <3>3. charge[r][l].counts[w] \in SUBSET Nat
      BY <3>2 DEF Limits
    <3>. QED
      BY <2>4, <3>1, <3>3
  <2>7. Now(c)' = Now(c)
    BY <2>2 DEF PeekWindow, Now
  <2>8. Now(c)'.counts \in Nat /\ Now(c)'.counts + MinWeight <= MaxCount
    BY <1>4, <1>5, <2>5, <2>6, <2>7, BoundTypes
  <2>. QED
    BY <1>3, <2>8, PendingHoldAfter, RoomAfterPeek
<1>7. CASE ~(r \in Pending(s, w)' /\ r \notin Pending(s, w))
  <2>1. Pending(s, w)' \subseteq Pending(s, w)
    BY <1>2, <1>7
  <2>2. CASE Now(c)'.counts <= Now(c).counts
    BY <1>1, <1>3, <2>1, <2>2, RoomKept
  <2>3. CASE ~(Now(c)'.counts <= Now(c).counts)
    <3>1. /\ Now(c)'.counts = Now(c).counts + ask[r].weight
          /\ CommitWindow(r)
      BY <1>3, <2>3, CounterGrows
    <3>2. PICK l \in Layers : /\ ScopeOf(r, l) = s /\ cloned[r][l] # None
                              /\ <<l, w>> \in left[r] /\ <<l, w>> \notin left'[r]
      BY <1>3, <2>3, CounterGrows
    <3>3. pc[r] \in Committing /\ pc' = pc
      BY <3>1 DEF CommitWindow
    <3>4. r \in Pending(s, w)
      BY <3>2, <3>3 DEF Pending, PendingOn
    <3>5. \A m \in Layers : ScopeOf(r, m) = s => m = l
      BY <1>1, <3>2, ScopeFacts DEF Layers
    <3>6. ~PendingOn(r, l, w)'
      BY <3>2, <3>3 DEF PendingOn, Peeking, Committing
    <3>7. r \notin Pending(s, w)'
      BY <1>2, <3>5, <3>6 DEF Pending
    <3>. QED
      BY <1>1, <1>3, <1>4, <2>1, <3>1, <3>4, <3>7, RoomAfterCommit
  <2>. QED
    BY <2>2, <2>3
<1>. QED
  BY <1>6, <1>7

\* Time and administration make nobody pending and count nothing.
LEMMA RoomOutside ==
    ASSUME GuardInv, GuardInv',
           \/ \E c \in Counters : Elapse(c)
           \/ \E q \in Periods : ChangePeriod(q)
           \/ \E s \in Replaceable, p \in Plans \cup {None} : ChangePlan(s, p)
           \/ UNCHANGED vars,
           NEW s \in Scopes, NEW w \in Windows, RoomAt(s, w)
    PROVE  RoomAt(s, w)'
<1> USE DEF reqVars
<1>1. TypeOK /\ TypeOK'
  BY DEF GuardInv
<1>2. UNCHANGED <<ask, pc, cloned, charge, left>>
  BY DEF Elapse, ChangePeriod, ChangePlan, vars
<1>3. Pending(s, w)' = Pending(s, w)
  BY <1>2 DEF Pending, PendingOn, Peeking, CountedWindows, ScopeOf, Team
<1>4. PICK c : c = <<s, "plan", w>> /\ c \in Counters
  BY PlanCounter
<1>5. Now(c).counts \in Nat /\ counter \in [Counters -> Window]
  BY <1>1, <1>4, WindowType DEF Window, TypeOK
<1>6. Now(c)'.counts <= Now(c).counts
  <2>1. CASE counter' = counter
    BY <1>5, <2>1 DEF Now
  <2>2. ASSUME NEW d \in Counters, Elapse(d) PROVE Now(c)'.counts <= Now(c).counts
    <3>1. counter' = [counter EXCEPT ![d].live = FALSE]
      BY <2>2 DEF Elapse
    <3>2. CASE c # d
      BY <1>4, <1>5, <3>1, <3>2 DEF Now
    <3>3. CASE c = d
      <4>1. counter'[c] = [counter[c] EXCEPT !.live = FALSE]
        BY <1>4, <1>5, <3>1, <3>3
      <4>2. counter'[c].live = FALSE
        BY <1>4, <1>5, <4>1 DEF Window
      <4>. QED
        BY <1>5, <4>2 DEF Now, NoWindow
    <3>. QED
      BY <3>2, <3>3
  <2>. QED
    BY <2>1, <2>2 DEF ChangePeriod, ChangePlan, vars
<1>. QED
  BY <1>1, <1>3, <1>4, <1>6, RoomKept

LEMMA CountRoomStep == GuardInv /\ GuardInv' /\ CountRoom /\ [Next]_vars => CountRoom'
<1> SUFFICES ASSUME GuardInv, GuardInv', CountRoom, [Next]_vars, Capped,
                    NEW s \in Scopes, NEW w \in Windows
             PROVE  RoomAt(s, w)'
  BY DEF CountRoom, RoomAt, Capped
<1>1. RoomAt(s, w)
  BY DEF CountRoom, RoomAt
<1>2. ASSUME NEW r \in Requests, Resolve(r) \/ Step(r) \/ Abandon(r) PROVE RoomAt(s, w)'
  BY <1>1, <1>2, RoomStepOfOne
<1>. QED
  BY <1>1, <1>2, RoomOutside DEF Next

LEMMA CountRoomInit == Init => CountRoom
<1> SUFFICES ASSUME Init, NEW s \in Scopes, NEW w \in Windows PROVE RoomAt(s, w)
  BY DEF CountRoom, RoomAt
<1>1. Pending(s, w) = {}
  BY DEF Init, Pending, PendingOn
<1>2. Cardinality(Pending(s, w)) = 0
  BY <1>1, FS_EmptySet
<1>3. PICK c : c = <<s, "plan", w>> /\ c \in Counters
  BY PlanCounter
<1>4. Now(c).counts = 0
  BY <1>3 DEF Init, Now, NoWindow
<1>5. MaxWeight * 0 = 0 /\ MaxWeight * MaxConc \in Nat
  BY BoundTypes, TimesMonotone
<1>. QED
  BY <1>2, <1>3, <1>4, <1>5, BoundTypes DEF RoomAt

\* A window of a plan counts at most MaxCount and one weight per guard,
\* although requests are peeked at and committed at different times.
THEOREM OvershootIsBounded == Spec => []OvershootBounded
<1>1. GuardInv /\ CountRoom => OvershootBounded
  <2> SUFFICES ASSUME GuardInv, CountRoom, Capped, NEW s \in Scopes, NEW w \in Windows
               PROVE  Now(<<s, "plan", w>>).counts + MinWeight <= MaxCount + MaxWeight * MaxConc
    BY DEF OvershootBounded
  <2>1. PICK c : c = <<s, "plan", w>> /\ c \in Counters
    BY PlanCounter
  <2>2. Now(c).counts \in Nat
    BY <2>1, WindowType DEF Window, GuardInv
  <2>3. Pending(s, w) \in SUBSET Requests
    BY DEF Pending
  <2>4. Cardinality(Pending(s, w)) \in Nat
    BY <2>3, RequestSets
  <2>5. MaxWeight * Cardinality(Pending(s, w)) \in Nat /\ MaxWeight * MaxConc \in Nat
    BY <2>4, BoundTypes, TimesMonotone
  <2>6. Now(c).counts + MaxWeight * Cardinality(Pending(s, w)) + MinWeight
          <= MaxCount + MaxWeight * MaxConc
    BY <2>1 DEF CountRoom
  <2>. QED
    BY <2>1, <2>2, <2>5, <2>6, BoundTypes
<1>. QED
  BY <1>1, GuardInit, GuardStep, CountRoomInit, CountRoomStep, PTL DEF Spec

-----------------------------------------------------------------------------
(***************************************************************************)
(* Lifetime totals of teams.                                               *)
(***************************************************************************)

\* TotalRoom for one team.
TotalRoomAt(t) ==
    total[t] + MaxUsage * Cardinality(PendingTotal(t)) < MaxTotal + MaxUsage * MaxConc

LEMMA TeamSettlesStep == TypeOK /\ TeamSettles /\ [Next]_vars => TeamSettles'
<1> SUFFICES ASSUME TypeOK, TeamSettles, [Next]_vars, NEW q \in Requests, pc'[q] = "settleTeam"
             PROVE  cloned'[q]["team"] # None
  BY DEF TeamSettles
<1> USE DEF reqVars
<1>1. pc \in [Requests -> PC] /\ cloned \in [Requests -> [Layers -> Plans \cup {None}]]
  BY DEF TypeOK
<1>2. pc[q] = "settleTeam" => cloned[q]["team"] # None
  BY DEF TeamSettles
<1>3. ASSUME NEW r \in Requests, Resolve(r) \/ Step(r) \/ Abandon(r), q # r
      PROVE  cloned'[q]["team"] # None
  <2>1. pc'[q] = pc[q] /\ cloned'[q] = cloned[q]
    BY <1>3, OthersStay
  <2>. QED
    BY <1>2, <2>1
<1>4. ~Resolve(q)
  BY <1>1 DEF Resolve
<1>5. ASSUME Step(q) \/ Abandon(q) PROVE cloned'[q]["team"] # None
  <2>1. cloned' = cloned
    BY <1>5 DEF Step, TeamGuard, TeamStart, KeyGuard, GuardFails, ClearStale, PeekWindow, PeekTotal,
           Abandon, ProviderReturns, CommitWindow, Committed, StreamEnds, DropStream,
           SettleWindow, SettleTotal, DropGuard, Finish
  <2>2. CASE SettleTotal(q)
    BY <1>1, <2>1, <2>2 DEF SettleTotal, SettleLayer
  <2>3. CASE ~SettleTotal(q)
    <3>1. pc'[q] = pc[q] \/ pc'[q] # "settleTeam"
      BY <1>1, <1>5, <2>3 DEF Step, TeamGuard, TeamStart, KeyGuard, GuardFails, ClearStale, PeekWindow,
         PeekTotal, Abandon, ProviderReturns, CommitWindow, Committed, StreamEnds, DropStream,
         SettleWindow, DropGuard, Finish, Committing
    <3>. QED
      BY <1>2, <2>1, <3>1
  <2>. QED
    BY <2>2, <2>3
<1>6. ASSUME UNCHANGED <<pc, cloned>> PROVE cloned'[q]["team"] # None
  BY <1>2, <1>6
<1>. QED
  BY <1>3, <1>4, <1>5, <1>6 DEF Next, vars, Elapse, ChangePeriod, ChangePlan

\* r becomes pending on its team's total only by an allowed check of it.
LEMMA BecomesPendingTotal ==
    ASSUME GuardInv, NEW r \in Requests, Resolve(r) \/ Step(r) \/ Abandon(r),
           NEW t, r \in PendingTotal(t)', r \notin PendingTotal(t)
    PROVE  /\ PeekTotal(r, "team") /\ pc[r] = "teamPeek"
           /\ ScopeOf(r, "team") = t /\ cloned[r]["team"] # None
           /\ TotalAllows(charge[r]["team"], ScopeOf(r, "team"))
<1> USE DEF reqVars
<1>1. TypeOK
  BY DEF GuardInv
<1>2. /\ pc \in [Requests -> PC] /\ cloned \in [Requests -> [Layers -> Plans \cup {None}]]
      /\ "team" \in Layers
  BY <1>1 DEF TypeOK, Layers
<1>3. Team(r)' = Team(r) /\ Team(r) = t /\ cloned'[r]["team"] # None /\ pc'[r] \in Unsettled
  <2>1. ask' = ask
    BY <1>1, OthersStay
  <2>. QED
    BY <2>1 DEF PendingTotal, Team
<1>4. ~Resolve(r)
  BY <1>2, <1>3 DEF Resolve, Unsettled, AfterTeam, Committing
<1>5. cloned' = cloned
  BY <1>4 DEF Step, TeamGuard, TeamStart, KeyGuard, GuardFails, ClearStale, PeekWindow, PeekTotal,
         Abandon, ProviderReturns, CommitWindow, Committed, StreamEnds, DropStream,
         SettleWindow, SettleTotal, DropGuard, Finish
<1>6. pc[r] \notin Unsettled
  BY <1>3, <1>5 DEF PendingTotal
<1>7. ~Abandon(r) /\ ~TeamGuard(r) /\ ~TeamStart(r) /\ ~KeyGuard(r)
  BY <1>2, <1>3, <1>6 DEF Abandon, TeamGuard, TeamStart, KeyGuard, Unsettled, AfterTeam, Committing
<1>8. ~ProviderReturns(r) /\ ~CommitWindow(r) /\ ~Committed(r)
  BY <1>6 DEF ProviderReturns, CommitWindow, Committed, Unsettled, AfterTeam, Committing
<1>9. ~StreamEnds(r) /\ ~DropStream(r) /\ ~SettleWindow(r) /\ ~SettleTotal(r)
  BY <1>6 DEF StreamEnds, DropStream, SettleWindow, SettleTotal, Unsettled
<1>10. ~DropGuard(r) /\ ~Finish(r)
  BY <1>2, <1>3 DEF DropGuard, Finish, Unsettled, AfterTeam, Committing
<1>11. ASSUME NEW l \in Layers PROVE ~GuardFails(r, l) /\ ~ClearStale(r, l) /\ ~PeekWindow(r, l)
  BY <1>2, <1>3, <1>6 DEF GuardFails, ClearStale, PeekWindow, Unsettled, AfterTeam, Committing
<1>12. PICK l \in Layers : PeekTotal(r, l)
  BY <1>4, <1>7, <1>8, <1>9, <1>10, <1>11 DEF Step
<1>13. l = "team" /\ pc[r] = "teamPeek"
  BY <1>6, <1>12 DEF PeekTotal, Peeking, Unsettled, AfterTeam, Layers
<1>14. TotalAllows(charge[r]["team"], ScopeOf(r, "team"))
  <2> SUFFICES ASSUME ~TotalAllows(charge[r]["team"], ScopeOf(r, "team")) PROVE FALSE
    OBVIOUS
  <2>1. pc'[r] = "dropping"
    BY <1>2, <1>12, <1>13 DEF PeekTotal
  <2>. QED
    BY <1>3, <2>1 DEF Unsettled, AfterTeam, Committing
<1>. QED
  BY <1>3, <1>5, <1>12, <1>13, <1>14 DEF ScopeOf

\* A team's total grows only by the settlement of a request pending on it,
\* which is then pending no more.
LEMMA TotalGrows ==
    ASSUME GuardInv, TeamSettles, NEW r \in Requests, Resolve(r) \/ Step(r) \/ Abandon(r),
           NEW t \in Teams
    PROVE  \/ total'[t] = total[t]
           \/ /\ total'[t] = total[t] + used[r]
              /\ r \in PendingTotal(t) /\ r \notin PendingTotal(t)'
<1> USE DEF reqVars
<1>1. TypeOK
  BY DEF GuardInv
<1>2. /\ pc \in [Requests -> PC] /\ total \in [Scopes -> Nat] /\ t \in Scopes
  BY <1>1 DEF TypeOK, Scopes
<1>3. CASE ~SettleTotal(r)
  <2>1. total' = total
    BY <1>3 DEF Step, Resolve, TeamGuard, TeamStart, KeyGuard, GuardFails, ClearStale, PeekWindow, PeekTotal,
           Abandon, ProviderReturns, CommitWindow, Committed, StreamEnds, DropStream,
           SettleWindow, DropGuard, Finish
  <2>. QED
    BY <2>1
<1>4. CASE SettleTotal(r)
  <2>1. PICK x : x = ScopeOf(r, SettleLayer(r))
    OBVIOUS
  <2>2. total' = [total EXCEPT ![x] = @ + used[r]]
    BY <1>4, <2>1 DEF SettleTotal
  <2>3. CASE x # t
    BY <1>2, <2>2, <2>3
  <2>4. CASE x = t
    <3>1. pc[r] = "settleTeam" /\ Team(r) = t
      <4>1. ScopeOf(r, "key") # t
        BY <1>1, ScopeFacts, PlanConstants
      <4>. QED
        BY <1>4, <2>1, <2>4, <4>1 DEF SettleTotal, SettleLayer, ScopeOf
    <3>2. cloned[r]["team"] # None
      BY <3>1 DEF TeamSettles
    <3>3. r \in PendingTotal(t)
      BY <3>1, <3>2 DEF PendingTotal, Unsettled
    <3>4. pc'[r] = "dropping"
      BY <1>2, <1>4, <3>1 DEF SettleTotal, SettleLayer
    <3>5. r \notin PendingTotal(t)'
      BY <3>4 DEF PendingTotal, Unsettled, AfterTeam, Committing
    <3>. QED
      BY <1>2, <2>2, <2>4, <3>3, <3>5
  <2>. QED
    BY <2>3, <2>4
<1>. QED
  BY <1>3, <1>4

LEMMA TotalRoomStepOfOne ==
    ASSUME GuardInv, GuardInv', TeamSettles, Capped, Metered,
           NEW r \in Requests, Resolve(r) \/ Step(r) \/ Abandon(r),
           NEW t \in Teams, TotalRoomAt(t)
    PROVE  TotalRoomAt(t)'
<1> DEFINE P == PendingTotal(t)
           Q == PendingTotal(t)'
<1>1. TypeOK /\ LocalInv(r) /\ t \in Scopes
  BY DEF GuardInv, Scopes
<1>2. total[t] \in Nat
  BY <1>1 DEF TypeOK
<1>3. used[r] \in Nat /\ used[r] <= MaxUsage
  <2>1. used[r] \in Usages \cup {0}
    BY <1>1 DEF TypeOK
  <2>2. used[r] \in Nat
    BY <2>1, NumberFacts, Zenon
  <2>3. CASE used[r] = 0
    BY <2>2, <2>3, BoundTypes
  <2>4. CASE used[r] \in Usages
    BY <2>2, <2>4, PlanBounds
  <2>. QED
    BY <2>1, <2>2, <2>3, <2>4
<1>4. P \in SUBSET Requests /\ Q \in SUBSET Requests
  BY DEF PendingTotal
<1>5. Cardinality(P) \in Nat /\ Cardinality(Q) \in Nat
  BY <1>4, RequestSets
<1>6. Cardinality(Q) <= MaxConc
  BY PendingHoldAfter DEF PendingBounded, Capped
<1>7. Q \ {r} = P \ {r}
  <2>1. /\ ask' = ask
        /\ \A q \in Requests \ {r} : pc'[q] = pc[q] /\ cloned'[q] = cloned[q]
    BY <1>1, OthersStay
  <2>. QED
    BY <2>1 DEF PendingTotal, Team, Unsettled, AfterTeam, Committing
<1>8. MaxUsage * Cardinality(P) \in Nat /\ MaxUsage * Cardinality(Q) \in Nat /\ MaxUsage * MaxConc \in Nat
  BY <1>5, BoundTypes, TimesMonotone
<1>9. CASE r \in Q /\ r \notin P
  <2>1. /\ PeekTotal(r, "team") /\ pc[r] = "teamPeek"
        /\ ScopeOf(r, "team") = t /\ cloned[r]["team"] # None
        /\ TotalAllows(charge[r]["team"], ScopeOf(r, "team"))
    BY <1>9, BecomesPendingTotal
  <2>2. PICK L \in charge[r]["team"].total : L <= MaxTotal
    BY <1>1, <2>1 DEF LocalInv
  <2>3. L \in Nat
    <3>1. charge[r]["team"] \in Limits
      BY <1>1 DEF TypeOK, Layers
    <3>. QED
      BY <2>2, <3>1 DEF Limits
  <2>4. total[t] < L
    BY <2>1, <2>2 DEF TotalAllows
  <2>5. total' = total
    BY <2>1 DEF PeekTotal
  <2>6. MaxUsage * Cardinality(Q) <= MaxUsage * MaxConc
    BY <1>5, <1>6, BoundTypes, TimesMonotone
  <2>7. total'[t] + MaxUsage * Cardinality(Q) < MaxTotal + MaxUsage * MaxConc
    BY <1>2, <1>8, <2>2, <2>3, <2>4, <2>5, <2>6, BoundTypes
  <2>. QED
    BY <2>7 DEF TotalRoomAt
<1>10. CASE ~(r \in Q /\ r \notin P)
  <2>1. Q \subseteq P
    BY <1>7, <1>10
  <2>2. CASE total'[t] = total[t]
    <3>1. Cardinality(Q) <= Cardinality(P)
      BY <1>4, <2>1, RequestSets
    <3>2. MaxUsage * Cardinality(Q) <= MaxUsage * Cardinality(P)
      BY <1>5, <3>1, BoundTypes, TimesMonotone
    <3>3. total'[t] + MaxUsage * Cardinality(Q) < MaxTotal + MaxUsage * MaxConc
      BY <1>2, <1>8, <2>2, <3>2, BoundTypes DEF TotalRoomAt
    <3>. QED
      BY <3>3 DEF TotalRoomAt
  <2>3. CASE total'[t] = total[t] + used[r] /\ r \in P /\ r \notin Q
    <3>1. Cardinality(Q) + 1 <= Cardinality(P)
      BY <1>4, <2>1, <2>3, RequestSets
    <3>2. MaxUsage * Cardinality(Q) + MaxUsage <= MaxUsage * Cardinality(P)
      BY <1>5, <3>1, BoundTypes, TimesPredecessor
    <3>3. total'[t] + MaxUsage * Cardinality(Q) < MaxTotal + MaxUsage * MaxConc
      BY <1>2, <1>3, <1>8, <2>3, <3>2, BoundTypes DEF TotalRoomAt
    <3>. QED
      BY <3>3 DEF TotalRoomAt
  <2>. QED
    BY <2>2, <2>3, TotalGrows
<1>. QED
  BY <1>9, <1>10

LEMMA TotalRoomStep ==
    GuardInv /\ GuardInv' /\ TeamSettles /\ TotalRoom /\ [Next]_vars => TotalRoom'
<1> SUFFICES ASSUME GuardInv, GuardInv', TeamSettles, TotalRoom, [Next]_vars, Capped, Metered,
                    NEW t \in Teams
             PROVE  TotalRoomAt(t)'
  BY DEF TotalRoom, TotalRoomAt, Capped, Metered
<1>1. TotalRoomAt(t)
  BY DEF TotalRoom, TotalRoomAt
<1>2. ASSUME NEW r \in Requests, Resolve(r) \/ Step(r) \/ Abandon(r) PROVE TotalRoomAt(t)'
  BY <1>1, <1>2, TotalRoomStepOfOne
<1>3. ASSUME UNCHANGED <<total, ask, pc, cloned>> PROVE TotalRoomAt(t)'
  <2>1. PendingTotal(t)' = PendingTotal(t)
    BY <1>3 DEF PendingTotal, Team, Unsettled, AfterTeam, Committing
  <2>. QED
    BY <1>1, <1>3, <2>1 DEF TotalRoomAt
<1>. QED
  BY <1>2, <1>3 DEF Next, vars, reqVars, Elapse, ChangePeriod, ChangePlan

LEMMA TotalRoomInit == Init => TotalRoom /\ TeamSettles
<1> SUFFICES ASSUME Init PROVE TotalRoom /\ TeamSettles
  OBVIOUS
<1>1. TeamSettles
  BY DEF Init, TeamSettles
<1>2. ASSUME NEW t \in Teams PROVE TotalRoomAt(t)
  <2>1. PendingTotal(t) = {}
    BY DEF Init, PendingTotal, Unsettled, AfterTeam, Committing
  <2>2. Cardinality(PendingTotal(t)) = 0
    BY <2>1, FS_EmptySet
  <2>3. total[t] = 0
    BY DEF Init, Scopes
  <2>4. MaxUsage * 0 = 0 /\ MaxUsage * MaxConc \in Nat
    BY BoundTypes, TimesMonotone
  <2>. QED
    BY <2>2, <2>3, <2>4, BoundTypes DEF TotalRoomAt
<1>. QED
  BY <1>1, <1>2 DEF TotalRoom, TotalRoomAt

\* A team's lifetime total exceeds its limit by at most one request's usage
\* per guard, because the guard outlives the settlement.
THEOREM TeamOvershootIsBounded == Spec => []TeamOvershootBounded
<1>1. GuardInv /\ TotalRoom => TeamOvershootBounded
  <2> SUFFICES ASSUME GuardInv, TotalRoom, Capped, Metered, NEW t \in Teams
               PROVE  total[t] < MaxTotal + MaxUsage * MaxConc
    BY DEF TeamOvershootBounded
  <2>1. total[t] \in Nat
    BY DEF GuardInv, TypeOK, Scopes
  <2>2. PendingTotal(t) \in SUBSET Requests
    BY DEF PendingTotal
  <2>3. Cardinality(PendingTotal(t)) \in Nat
    BY <2>2, RequestSets
  <2>4. MaxUsage * Cardinality(PendingTotal(t)) \in Nat /\ MaxUsage * MaxConc \in Nat
    BY <2>3, BoundTypes, TimesMonotone
  <2>5. total[t] + MaxUsage * Cardinality(PendingTotal(t)) < MaxTotal + MaxUsage * MaxConc
    BY DEF TotalRoom
  <2>. QED
    BY <2>1, <2>4, <2>5, BoundTypes
<1>2. GuardInv => TypeOK
  BY DEF GuardInv
<1>. QED
  BY <1>1, <1>2, GuardInit, GuardStep, TotalRoomInit, TotalRoomStep, TeamSettlesStep, PTL DEF Spec


-----------------------------------------------------------------------------
(***************************************************************************)
(* Lifetime totals are exact.  What one request has paid to a scope and    *)
(* the scope's total move together, step by step.                          *)
(***************************************************************************)

\* What r has paid to s.
Paid(r, s) == IF r \in Payers(s) THEN used[r] ELSE 0

LEMMA UsedType == TypeOK => \A r \in Requests : used[r] \in Nat
<1> SUFFICES ASSUME TypeOK, NEW r \in Requests PROVE used[r] \in Nat
  OBVIOUS
<1>1. used[r] \in Usages \cup {0}
  BY DEF TypeOK
<1> QED
  BY <1>1, NumberFacts, Zenon

\* The total of a scope is what r has paid and what the others have.
PayersSplit ==
    \A r \in Requests, s \in Scopes :
        /\ SumFunctionOnSet(used, Payers(s)) = Paid(r, s) + SumFunctionOnSet(used, Payers(s) \ {r})
        /\ SumFunctionOnSet(used, Payers(s) \ {r}) \in Int
        /\ IsFiniteSet(Payers(s) \ {r}) /\ Paid(r, s) \in Int

LEMMA PaidApart == TypeOK => PayersSplit
<1> SUFFICES ASSUME TypeOK, NEW r \in Requests, NEW s \in Scopes
    PROVE  /\ SumFunctionOnSet(used, Payers(s)) = Paid(r, s) + SumFunctionOnSet(used, Payers(s) \ {r})
           /\ SumFunctionOnSet(used, Payers(s) \ {r}) \in Int
           /\ IsFiniteSet(Payers(s) \ {r}) /\ Paid(r, s) \in Int
  BY DEF PayersSplit
<1>1. /\ \A q \in Payers(s) : used[q] \in Int
      /\ used[r] \in Int
  BY UsedType DEF Payers
<1>2. IsFiniteSet(Payers(s)) /\ IsFiniteSet(Payers(s) \ {r})
  <2>1. Payers(s) \subseteq Requests
    BY DEF Payers
  <2> QED
    BY <2>1, PlanConstants, FS_Subset
<1>3. SumFunctionOnSet(used, Payers(s) \ {r}) \in Int
  BY <1>1, <1>2, SumInt
<1>4. CASE r \in Payers(s)
  <2>1. SumFunctionOnSet(used, Payers(s)) = used[r] + SumFunctionOnSet(used, Payers(s) \ {r})
    BY <1>1, <1>2, <1>4, SumRemove
  <2> QED
    BY <1>1, <1>2, <1>3, <1>4, <2>1 DEF Paid
<1>5. CASE r \notin Payers(s)
  <2>1. Payers(s) \ {r} = Payers(s)
    BY <1>5
  <2>2. Paid(r, s) = 0
    BY <1>5 DEF Paid
  <2>3. SumFunctionOnSet(used, Payers(s)) = SumFunctionOnSet(used, Payers(s) \ {r})
    BY <2>1
  <2> QED
    BY <1>2, <1>3, <2>2, <2>3
<1> QED
  BY <1>4, <1>5

LEMMA PaidApartAfter == TypeOK' => PayersSplit'
BY PaidApart, PTL

\* A step of r leaves what the others have paid.
LEMMA OthersPay ==
    ASSUME TypeOK, NEW r \in Requests, Resolve(r) \/ Step(r) \/ Abandon(r), NEW s
    PROVE  /\ Payers(s)' \ {r} = Payers(s) \ {r}
           /\ \A q \in Requests \ {r} : used'[q] = used[q]
<1>1. /\ ask' = ask
      /\ \A q \in Requests \ {r} : pc'[q] = pc[q] /\ cloned'[q] = cloned[q]
  BY OthersStay
<1>2. \A q \in Requests \ {r}, l \in Layers :
        ScopeOf(q, l)' = ScopeOf(q, l) /\ (Settled(q, l)' <=> Settled(q, l))
  BY <1>1 DEF ScopeOf, Team, Settled
<1>3. Payers(s)' \ {r} = Payers(s) \ {r}
  BY <1>2 DEF Payers
<1>4. used' = used \/ \E x : used' = [used EXCEPT ![r] = x]
  BY DEF Step, reqVars, Resolve, TeamGuard, TeamStart, KeyGuard, GuardFails, ClearStale, PeekWindow, PeekTotal,
         Abandon, ProviderReturns, CommitWindow, Committed, StreamEnds, DropStream, SettleWindow,
         SettleTotal, DropGuard, Finish
<1>5. \A q \in Requests \ {r} : used'[q] = used[q]
  BY <1>4 DEF TypeOK
<1> QED
  BY <1>3, <1>5

\* Whom a request has paid, by where it is.
PayersByPlace ==
    \A r \in Requests, s \in Scopes :
        /\ pc[r] \in {"dropping", "done"} =>
             (r \in Payers(s) <=> s = ask[r].key \/ (s = Team(r) /\ cloned[r]["team"] # None))
        /\ pc[r] = "settleTeam" => (r \in Payers(s) <=> s = ask[r].key)
        /\ pc[r] \notin {"dropping", "done", "settleTeam"} => r \notin Payers(s)

LEMMA PaysWhom == TypeOK => PayersByPlace
<1> SUFFICES ASSUME TypeOK, NEW r \in Requests, NEW s \in Scopes
    PROVE  /\ pc[r] \in {"dropping", "done"} =>
                (r \in Payers(s) <=> s = ask[r].key \/ (s = Team(r) /\ cloned[r]["team"] # None))
           /\ pc[r] = "settleTeam" => (r \in Payers(s) <=> s = ask[r].key)
           /\ pc[r] \notin {"dropping", "done", "settleTeam"} => r \notin Payers(s)
  BY DEF PayersByPlace
<1>1. ScopeOf(r, "key") = ask[r].key /\ ScopeOf(r, "team") = Team(r)
  BY ScopeFacts
<1> QED
  BY <1>1 DEF Payers, Settled, Layers

LEMMA PaysWhomAfter == TypeOK' => PayersByPlace'
BY PaysWhom, PTL

\* What r has paid to s grows by what is added to the total of s.
LEMMA PaidMoves ==
    ASSUME GuardInv, GuardInv', TeamSettles, NothingOwed, NEW s \in Scopes,
           NEW r \in Requests, Resolve(r) \/ Step(r) \/ Abandon(r)
    PROVE  total'[s] = total[s] + (Paid(r, s)' - Paid(r, s))
<1>1. TypeOK /\ TypeOK' /\ ask' = ask /\ Team(r)' = Team(r)
  BY OthersStay DEF GuardInv, Team
<1>2. /\ pc \in [Requests -> PC] /\ total \in [Scopes -> Nat] /\ used \in [Requests -> Usages \cup {0}]
      /\ total[s] \in Nat /\ used[r] \in Nat /\ ask[r].key \in Scopes /\ ask[r].key # Team(r)
  BY <1>1, UsedType, ScopeFacts DEF TypeOK, Scopes
<1>3. /\ pc[r] \in {"dropping", "done"} =>
             (r \in Payers(s) <=> s = ask[r].key \/ (s = Team(r) /\ cloned[r]["team"] # None))
      /\ pc[r] = "settleTeam" => (r \in Payers(s) <=> s = ask[r].key)
      /\ pc[r] \notin {"dropping", "done", "settleTeam"} => r \notin Payers(s)
  BY <1>1, PaysWhom DEF PayersByPlace
<1>4. /\ pc'[r] \in {"dropping", "done"} =>
             (r \in Payers(s)' <=> s = ask[r].key \/ (s = Team(r) /\ cloned'[r]["team"] # None))
      /\ pc'[r] = "settleTeam" => (r \in Payers(s)' <=> s = ask[r].key)
      /\ pc'[r] \notin {"dropping", "done", "settleTeam"} => r \notin Payers(s)'
  BY <1>1, PaysWhomAfter DEF PayersByPlace
<1>5. ASSUME total' = total, Paid(r, s)' = Paid(r, s), Paid(r, s) \in Nat
      PROVE  total'[s] = total[s] + (Paid(r, s)' - Paid(r, s))
  BY <1>2, <1>5
<1>6. Paid(r, s) \in Nat
  BY <1>2 DEF Paid
\* Most steps pay nothing.
<1>7. ASSUME total' = total, pc[r] \notin {"dropping", "done", "settleTeam"},
             pc'[r] \notin {"dropping", "done", "settleTeam"}
      PROVE  total'[s] = total[s] + (Paid(r, s)' - Paid(r, s))
  BY <1>3, <1>4, <1>5, <1>6, <1>7 DEF Paid
\* Refused or abandoned: everybody is paid, nothing.
<1>8. ASSUME total' = total, used' = used,
             pc[r] \in {"team", "teamClear", "teamPeek", "key", "keyClear", "keyPeek", "admitted"}
      PROVE  total'[s] = total[s] + (Paid(r, s)' - Paid(r, s))
  <2>1. used[r] = 0 /\ used'[r] = 0
    BY <1>8 DEF NothingOwed
  <2> QED
    BY <1>5, <1>6, <1>8, <2>1 DEF Paid
\* Afterwards nothing changes.
<1>9. ASSUME total' = total, used' = used, cloned' = cloned,
             \/ pc'[r] = pc[r]
             \/ pc[r] = "dropping" /\ pc'[r] = "done"
      PROVE  total'[s] = total[s] + (Paid(r, s)' - Paid(r, s))
  <2>1. r \in Payers(s)' <=> r \in Payers(s)
    BY <1>3, <1>4, <1>9
  <2> QED
    BY <1>5, <1>6, <1>9, <2>1 DEF Paid
<1>10. CASE SettleTotal(r)
  <2>1. PICK x : x = ScopeOf(r, SettleLayer(r))
    OBVIOUS
  <2>2. /\ total' = [total EXCEPT ![x] = @ + used[r]] /\ used' = used /\ cloned' = cloned
        /\ pc[r] \in {"settleKey", "settleTeam"}
    BY <1>10, <2>1 DEF SettleTotal, reqVars
  <2>3. CASE pc[r] = "settleKey"
    <3>1. /\ x = ask[r].key
          /\ pc'[r] = IF cloned[r]["team"] # None THEN "settleTeam" ELSE "dropping"
      BY <1>1, <1>2, <1>10, <2>1, <2>3, ScopeFacts DEF SettleTotal, SettleLayer
    <3>2. r \notin Payers(s) /\ (r \in Payers(s)' <=> s = ask[r].key)
      BY <1>3, <1>4, <2>2, <2>3, <3>1
    <3>3. CASE s = x
      <4>1. Paid(r, s)' = used[r] /\ Paid(r, s) = 0
        BY <2>2, <3>1, <3>2, <3>3 DEF Paid
      <4>2. total'[s] = total[s] + used[r]
        BY <1>2, <2>2, <3>3
      <4> QED
        BY <1>2, <4>1, <4>2
    <3>4. CASE s # x
      <4>1. Paid(r, s)' = 0 /\ Paid(r, s) = 0
        BY <3>1, <3>2, <3>4 DEF Paid
      <4>2. total'[s] = total[s]
        BY <1>2, <2>2, <3>4
      <4> QED
        BY <1>2, <4>1, <4>2
    <3> QED
      BY <3>3, <3>4
  <2>4. CASE pc[r] = "settleTeam"
    <3>1. x = Team(r) /\ pc'[r] = "dropping"
      BY <1>1, <1>2, <1>10, <2>1, <2>4, ScopeFacts DEF SettleTotal, SettleLayer
    <3>2. cloned[r]["team"] # None
      BY <2>4 DEF TeamSettles
    <3>3. /\ r \in Payers(s) <=> s = ask[r].key
          /\ r \in Payers(s)' <=> s = ask[r].key \/ s = Team(r)
      BY <1>3, <1>4, <2>2, <2>4, <3>1, <3>2
    <3>4. CASE s = x
      <4>1. Paid(r, s)' = used[r] /\ Paid(r, s) = 0
        BY <1>2, <2>2, <3>1, <3>3, <3>4 DEF Paid
      <4>2. total'[s] = total[s] + used[r]
        BY <1>2, <2>2, <3>4
      <4> QED
        BY <1>2, <4>1, <4>2
    <3>5. CASE s # x
      <4>1. Paid(r, s)' = Paid(r, s)
        BY <2>2, <3>1, <3>3, <3>5 DEF Paid
      <4>2. total'[s] = total[s]
        BY <1>2, <2>2, <3>5
      <4> QED
        BY <1>2, <1>6, <4>1, <4>2
    <3> QED
      BY <3>4, <3>5
  <2> QED
    BY <2>2, <2>3, <2>4
<1>11. CASE Resolve(r) \/ TeamGuard(r) \/ TeamStart(r) \/ KeyGuard(r)
  BY <1>2, <1>7, <1>11 DEF Resolve, TeamGuard, TeamStart, KeyGuard
<1>12. CASE ProviderReturns(r) \/ Committed(r) \/ StreamEnds(r) \/ DropStream(r)
  <2>1. total' = total
    BY <1>12 DEF ProviderReturns, Committed, StreamEnds, DropStream
  <2>2. pc[r] \notin {"dropping", "done", "settleTeam"}
    BY <1>12 DEF ProviderReturns, Committed, StreamEnds, DropStream
  <2>3. pc'[r] \notin {"dropping", "done", "settleTeam"}
    BY <1>2, <1>12 DEF ProviderReturns, Committed, StreamEnds, DropStream, Committing
  <2> QED
    BY <1>7, <2>1, <2>2, <2>3
<1>13. CASE Abandon(r) \/ \E l \in Layers : GuardFails(r, l) \/ ClearStale(r, l) \/ PeekWindow(r, l)
                                            \/ PeekTotal(r, l)
  BY <1>8, <1>13 DEF Abandon, GuardFails, ClearStale, PeekWindow, PeekTotal, Peeking, Layers, reqVars
<1>14. CASE CommitWindow(r) \/ SettleWindow(r) \/ DropGuard(r)
  BY <1>9, <1>14 DEF CommitWindow, SettleWindow, DropGuard, reqVars
<1>15. CASE Finish(r)
  BY <1>2, <1>9, <1>15 DEF Finish, reqVars
<1> QED
  BY <1>10, <1>11, <1>12, <1>13, <1>14, <1>15 DEF Step

LEMMA TotalsStepOfOne ==
    ASSUME GuardInv, GuardInv', TeamSettles, NothingOwed, TotalsExact,
           NEW r \in Requests, Resolve(r) \/ Step(r) \/ Abandon(r)
    PROVE  TotalsExact'
<1> SUFFICES ASSUME NEW s \in Scopes PROVE total'[s] = SumFunctionOnSet(used', Payers(s)')
  BY DEF TotalsExact
<1>1. TypeOK /\ TypeOK'
  BY DEF GuardInv
<1> DEFINE rest == SumFunctionOnSet(used, Payers(s) \ {r})
           after == SumFunctionOnSet(used', Payers(s)' \ {r})
<1>2. /\ total[s] = Paid(r, s) + rest
      /\ rest \in Int /\ Paid(r, s) \in Int /\ IsFiniteSet(Payers(s) \ {r})
  BY <1>1, PaidApart DEF TotalsExact, PayersSplit
<1>3. SumFunctionOnSet(used', Payers(s)') = Paid(r, s)' + after /\ Paid(r, s)' \in Int
  BY <1>1, PaidApartAfter DEF PayersSplit
<1>4. after = rest
  <2>1. /\ Payers(s)' \ {r} = Payers(s) \ {r}
        /\ \A q \in Requests \ {r} : used'[q] = used[q]
    BY <1>1, OthersPay
  <2>2. Payers(s) \subseteq Requests
    BY DEF Payers
  <2>3. SumFunctionOnSet(used', Payers(s) \ {r}) = rest
    BY <1>2, <2>1, <2>2, SumAgree
  <2> QED
    BY <2>1, <2>3
<1>5. total'[s] = total[s] + (Paid(r, s)' - Paid(r, s))
  BY PaidMoves
<1> HIDE DEF rest, after
<1> QED
  BY <1>2, <1>3, <1>4, <1>5

LEMMA TotalsStep ==
    GuardInv /\ GuardInv' /\ TeamSettles /\ NothingOwed /\ TotalsExact /\ [Next]_vars => TotalsExact'
<1> SUFFICES ASSUME GuardInv, GuardInv', TeamSettles, NothingOwed, TotalsExact, [Next]_vars
             PROVE  TotalsExact'
  OBVIOUS
<1>1. ASSUME NEW r \in Requests, Resolve(r) \/ Step(r) \/ Abandon(r) PROVE TotalsExact'
  BY <1>1, TotalsStepOfOne
<1>2. ASSUME UNCHANGED <<total, ask, pc, cloned, used>> PROVE TotalsExact'
  <2>1. \A s : Payers(s)' = Payers(s)
    BY <1>2 DEF Payers, ScopeOf, Team, Settled
  <2> QED
    BY <1>2, <2>1 DEF TotalsExact
<1> QED
  BY <1>1, <1>2 DEF Next, vars, reqVars, Elapse, ChangePeriod, ChangePlan

LEMMA NothingOwedStep == TypeOK /\ NothingOwed /\ [Next]_vars => NothingOwed'
<1> DEFINE Early == {"idle", "team", "teamStart", "teamClear", "teamPeek", "key", "keyClear",
                     "keyPeek", "admitted"}
<1> SUFFICES ASSUME TypeOK, NothingOwed, [Next]_vars, NEW q \in Requests, pc'[q] \in Early
             PROVE  used'[q] = 0
  BY DEF NothingOwed
<1>1. pc \in [Requests -> PC] /\ used \in [Requests -> Usages \cup {0}]
  BY DEF TypeOK
<1>2. pc[q] \in Early => used[q] = 0
  BY DEF NothingOwed
<1>3. ASSUME NEW r \in Requests, Resolve(r) \/ Step(r) \/ Abandon(r), q # r PROVE used'[q] = 0
  <2>1. pc'[q] = pc[q] /\ used'[q] = used[q]
    BY <1>3, OthersStay, OthersPay
  <2> QED
    BY <1>2, <2>1
<1>4. ASSUME Resolve(q) \/ Step(q) \/ Abandon(q) PROVE used'[q] = 0
  <2>1. ~ProviderReturns(q) /\ ~DropStream(q)
    BY <1>1 DEF ProviderReturns, DropStream, Committing
  <2>2. used' = used
    BY <1>4, <2>1 DEF Step, reqVars, Resolve, TeamGuard, TeamStart, KeyGuard, GuardFails, ClearStale, PeekWindow,
           PeekTotal, Abandon, CommitWindow, Committed, StreamEnds, SettleWindow, SettleTotal,
           DropGuard, Finish
  <2>3. pc[q] \in Early
    <3>1. CASE Resolve(q) \/ TeamGuard(q) \/ TeamStart(q) \/ KeyGuard(q)
      BY <3>1 DEF Resolve, TeamGuard, TeamStart, KeyGuard
    <3>2. CASE Abandon(q) \/ \E l \in Layers : GuardFails(q, l) \/ ClearStale(q, l) \/ PeekWindow(q, l)
                                                \/ PeekTotal(q, l)
      BY <3>2 DEF Abandon, GuardFails, ClearStale, PeekWindow, PeekTotal, Peeking, Layers
    <3>3. ~Committed(q) /\ ~StreamEnds(q) /\ ~SettleTotal(q) /\ ~Finish(q)
      BY <1>1 DEF Committed, StreamEnds, SettleTotal, Finish
    <3>4. CASE CommitWindow(q) \/ SettleWindow(q) \/ DropGuard(q)
      BY <3>4 DEF CommitWindow, SettleWindow, DropGuard
    <3> QED
      BY <1>4, <2>1, <3>1, <3>2, <3>3, <3>4 DEF Step
  <2> QED
    BY <1>2, <2>2, <2>3
<1>5. ASSUME UNCHANGED <<pc, used>> PROVE used'[q] = 0
  BY <1>2, <1>5
<1> QED
  BY <1>3, <1>4, <1>5 DEF Next, vars, reqVars, Elapse, ChangePeriod, ChangePlan

LEMMA TotalsInit == Init => TotalsExact /\ NothingOwed
<1> SUFFICES ASSUME Init PROVE TotalsExact /\ NothingOwed
  OBVIOUS
<1>1. NothingOwed
  BY DEF Init, NothingOwed
<1>2. ASSUME NEW s \in Scopes PROVE total[s] = SumFunctionOnSet(used, Payers(s))
  <2>1. Payers(s) = {}
    BY DEF Init, Payers, Settled
  <2>2. SumFunctionOnSet(used, Payers(s)) = 0
    BY <2>1, SumEmpty
  <2> QED
    BY <2>2 DEF Init
<1> QED
  BY <1>1, <1>2 DEF TotalsExact

\* The lifetime total of every key and every team is the sum of what the
\* providers reported for the requests that have settled with it: nothing is
\* settled twice, nothing is lost, and a refused request costs nothing.
THEOREM TotalsStayExact == Spec => []TotalsExact
<1>1. GuardInv => TypeOK
  BY DEF GuardInv
<1> QED
  BY <1>1, GuardInit, GuardStep, TotalRoomInit, TeamSettlesStep, TotalsInit, NothingOwedStep,
     TotalsStep, PTL DEF Spec

-----------------------------------------------------------------------------
(***************************************************************************)
(* Windows keep what they have counted.                                    *)
(***************************************************************************)

CountsType == \A c \in Counters : Now(c).counts \in Nat

LEMMA CountsTyped == TypeOK => CountsType
BY WindowType DEF Window, CountsType

LEMMA CountsTypeAfter == TypeOK' => CountsType'
BY CountsTyped, PTL

\* The limits in force clear a window that they count in only outside of all
\* slots, and only the one-minute window.
LEMMA StaleUnused ==
    ASSUME TypeOK, NEW s \in Scopes, NEW w \in Windows, Enforced(s, w),
           w \in plan[s][period].stale
    PROVE  period = Base /\ w = Minute
<1>1. period \in Periods /\ plan[s] \in Plans /\ w \in WindowsOf(plan[s][period])
  BY DEF TypeOK, Enforced
<1> QED
  BY <1>1, PlanSchedules

\* Which steps of a request lower a counter in use.
LEMMA CounterStays ==
    ASSUME TypeOK, NEW r \in Requests, Resolve(r) \/ Step(r) \/ Abandon(r),
           NEW s \in Scopes, NEW w \in Windows, Enforced(s, w), NEW c, c = <<s, "plan", w>>
    PROVE  \/ Now(c).counts <= Now(c)'.counts
           \/ ClearsOutdated(s, w)
           \/ period = Base /\ w = Minute
<1>1. counter \in [Counters -> Window] /\ c \in Counters /\ Now(c).counts \in Nat
  BY PlanCounter, WindowType DEF TypeOK, Window
<1>2. ASSUME counter'[c] = counter[c] PROVE Now(c).counts <= Now(c)'.counts
  BY <1>1, <1>2 DEF Now
<1>3. ASSUME NEW l \in Layers, ClearStale(r, l)
      PROVE  \/ Now(c).counts <= Now(c)'.counts
             \/ ClearsOutdated(s, w)
             \/ period = Base /\ w = Minute
  <2>1. counter' = ClearWindows(ScopeOf(r, l), charge[r][l].stale)
    BY <1>3 DEF ClearStale
  <2>2. c[1] = s /\ c[3] = w
    OBVIOUS
  <2>3. CASE ScopeOf(r, l) = s /\ w \in charge[r][l].stale
    <3>1. CASE charge[r][l] = plan[s][period]
      BY <2>3, <3>1, StaleUnused
    <3>2. CASE charge[r][l] # plan[s][period]
      BY <1>3, <2>3, <3>2 DEF ClearsOutdated
    <3> QED
      BY <3>1, <3>2
  <2>4. CASE ~(ScopeOf(r, l) = s /\ w \in charge[r][l].stale)
    <3>1. counter'[c] = counter[c]
      BY <1>1, <2>1, <2>2, <2>4 DEF ClearWindows
    <3> QED
      BY <1>2, <3>1
  <2> QED
    BY <2>3, <2>4
<1>4. CASE SettleWindow(r)
  <2>1. PICK d, u : counter' = [counter EXCEPT ![d] = BumpUsage(d, u)]
    BY <1>4 DEF SettleWindow
  <2>2. CASE d # c \/ u = 0
    BY <1>1, <1>2, <2>1, <2>2 DEF BumpUsage
  <2>3. CASE d = c /\ u # 0
    <3>1. counter'[c] = BumpUsage(c, u)
      BY <1>1, <2>1, <2>3
    <3>2. counter'[c].live = TRUE /\ counter'[c].counts = Now(c).counts
      BY <2>3, <3>1 DEF BumpUsage
    <3> QED
      BY <1>1, <3>2 DEF Now
  <2> QED
    BY <2>2, <2>3
<1>5. CASE CommitWindow(r)
  <2>1. PICK d : counter' = [counter EXCEPT ![d] = BumpCounts(d, ask[r].weight)]
    BY <1>5 DEF CommitWindow
  <2>2. CASE d # c
    BY <1>1, <1>2, <2>1, <2>2
  <2>3. CASE d = c
    <3>1. counter'[c] = BumpCounts(c, ask[r].weight)
      BY <1>1, <2>1, <2>3
    <3>2. counter'[c].live = TRUE /\ counter'[c].counts = Now(c).counts + ask[r].weight
      BY <3>1 DEF BumpCounts
    <3>3. ask[r].weight \in Nat
      BY ScopeFacts, NumberFacts
    <3> QED
      BY <1>1, <3>2, <3>3 DEF Now
  <2> QED
    BY <2>2, <2>3
<1>6. CASE ~(SettleWindow(r) \/ CommitWindow(r) \/ \E l \in Layers : ClearStale(r, l))
  <2>1. counter' = counter
    BY <1>6 DEF Step, Resolve, TeamGuard, TeamStart, KeyGuard, GuardFails, PeekWindow, PeekTotal,
           Abandon, ProviderReturns, Committed, StreamEnds, DropStream, SettleTotal, DropGuard, Finish
  <2> QED
    BY <1>2, <2>1
<1> QED
  BY <1>3, <1>4, <1>5, <1>6

\* A window that the plan in force uses loses its counts only by elapsing, to a
\* check that evaluated its limits before the period changed or the plan was
\* replaced, or, outside of all slots, if it is the one-minute window.
THEOREM WindowsKeepCounts == Spec => ForgottenOnlyBy
<1> DEFINE Kept == \A s \in Scopes, w \in Windows :
             LET c == <<s, "plan", w>> IN
             Enforced(s, w) /\ Now(c)'.counts < Now(c).counts =>
                 \/ Elapse(c)
                 \/ ClearsOutdated(s, w)
                 \/ period = Base /\ w = Minute
<1>1. TypeOK /\ TypeOK' /\ [Next]_vars => [Kept]_vars
  <2> SUFFICES ASSUME TypeOK, TypeOK', Next, NEW s \in Scopes, NEW w \in Windows, NEW c,
                      c = <<s, "plan", w>>, Enforced(s, w), Now(c)'.counts < Now(c).counts
               PROVE  \/ Elapse(c)
                      \/ ClearsOutdated(s, w)
                      \/ period = Base /\ w = Minute
    OBVIOUS
  <2>1. counter \in [Counters -> Window] /\ c \in Counters /\ Now(c).counts \in Nat
    BY PlanCounter, WindowType DEF TypeOK, Window
  <2>2. counter'[c] # counter[c]
    BY <2>1 DEF Now
  <2>3. ASSUME NEW r \in Requests, Resolve(r) \/ Step(r) \/ Abandon(r)
        PROVE  ClearsOutdated(s, w) \/ (period = Base /\ w = Minute)
    <3>1. Now(c)'.counts \in Nat
      BY <2>1, CountsTypeAfter DEF CountsType
    <3>2. ~(Now(c).counts <= Now(c)'.counts)
      BY <2>1, <3>1
    <3> QED
      BY <2>3, <3>2, CounterStays
  <2>4. ASSUME NEW d \in Counters, Elapse(d) PROVE Elapse(c)
    <3>1. CASE d = c
      BY <2>4, <3>1
    <3>2. CASE d # c
      <4>1. counter'[c] = counter[c]
        BY <2>1, <2>4, <3>2 DEF Elapse
      <4> QED
        BY <2>2, <4>1
    <3> QED
      BY <3>1, <3>2
  <2>5. ASSUME (\E q \in Periods : ChangePeriod(q))
               \/ (\E x \in Replaceable, p \in Plans \cup {None} : ChangePlan(x, p))
        PROVE  FALSE
    BY <2>2, <2>5 DEF ChangePeriod, ChangePlan
  <2> QED
    BY <2>3, <2>4, <2>5 DEF Next
<1>2. GuardInv => TypeOK
  BY DEF GuardInv
<1>3. Spec => [][Kept]_vars
  BY <1>1, <1>2, GuardInit, GuardStep, PTL DEF Spec
<1> QED
  BY <1>3 DEF ForgottenOnlyBy

\* window_limits over a set of windows.
Tables(W) == [counts : [W -> SUBSET Nat], usage : [W -> SUBSET Nat]]

\* PlanSchedules is what effective_limits guarantees: in each of its periods a
\* plan clears no window that it counts in, except for the one-minute window
\* outside of all slots, which the shorthand brings in.
THEOREM StaleApart ==
    ASSUME NEW W, Minute \in W, NEW base, NEW p,
           p.table \in Tables(W), p.rpm \in SUBSET Nat, p.tpm \in SUBSET Nat,
           base \notin DOMAIN p.slots,
           \A q \in DOMAIN p.slots : p.slots[q].table \in Tables(W),
           NEW q \in DOMAIN p.slots \cup {base},
           NEW lim, lim = EffectiveLimits(p, base)[q],
           NEW w \in W, w \in lim.stale, lim.counts[w] \cup lim.usage[w] # {}
    PROVE  q = base /\ w = Minute
<1> DEFINE slot == p.slots[q]
           table == IF SecsOf(slot.table) = {} THEN p.table ELSE slot.table
           inSlot == MergeShorthand(table, Or(slot.rpm, p.rpm), Or(slot.tpm, p.tpm))
           outside == MergeShorthand(p.table, p.rpm, p.tpm)
<1>1. ASSUME NEW t \in Tables(W), NEW a, NEW b
      PROVE  LET m == MergeShorthand(t, a, b) IN
             /\ DOMAIN m.counts = W
             /\ w # Minute => m.counts[w] = t.counts[w] /\ m.usage[w] = t.usage[w]
  BY DEF MergeShorthand, Tables
<1>2. CASE q # base
  <2>1. lim = SlotLimits(p, slot) /\ table \in Tables(W)
    BY <1>2 DEF EffectiveLimits
  <2>2. /\ lim.counts = inSlot.counts /\ lim.usage = inSlot.usage
        /\ lim.stale = SecsOf(p.table) \ SecsOf(inSlot)
    BY <2>1 DEF SlotLimits
  <2>3. DOMAIN inSlot.counts = W
    BY <1>1, <2>1
  <2>4. w \in SecsOf(inSlot)
    BY <2>2, <2>3 DEF SecsOf
  <2> QED
    BY <2>2, <2>4
<1>3. CASE q = base
  <2>1. lim = BaseLimits(p)
    BY <1>3 DEF EffectiveLimits
  <2>2. /\ lim.counts = outside.counts /\ lim.usage = outside.usage
        /\ w \notin SecsOf(p.table)
    <3> DEFINE others == UNION {SecsOf(p.slots[x].table) : x \in DOMAIN p.slots}
    <3>1. lim = [conc |-> p.conc, counts |-> outside.counts, usage |-> outside.usage,
                 total |-> p.total, stale |-> others \ SecsOf(p.table)]
      BY <2>1 DEF BaseLimits
    <3> HIDE DEF outside, others
    <3> QED
      BY <3>1
  <2>3. DOMAIN p.table.counts = W
    BY DEF Tables
  <2>4. CASE w # Minute
    <3>1. p.table.counts[w] \cup p.table.usage[w] # {}
      BY <1>1, <2>2, <2>4
    <3> QED
      BY <2>2, <2>3, <3>1 DEF SecsOf
  <2> QED
    BY <1>3, <2>4
<1> QED
  BY <1>2, <1>3
=============================================================================
