-------------------------- MODULE MCPlanAdmission --------------------------
EXTENDS PlanAdmission, TLC

CONSTANT t1

Sym == Permutations(Requests)

Hour == 3600

Table(minute, hour, u) ==
    [counts |-> (Minute :> minute) @@ (Hour :> hour),
     usage |-> (Minute :> u) @@ (Hour :> {})]

NoTable == Table({}, {}, {})

OneWindow == {Minute}
TwoWindows == {Minute, Hour}

Restrict1(lim) == [lim EXCEPT !.counts = [w \in Windows |-> @[w]],
                              !.stale = @ \cap Windows,
                              !.usage = [w \in Windows |-> @[w]]]

Of(p) == LET e == EffectiveLimits(p, "base") IN [q \in DOMAIN e |-> Restrict1(e[q])]

NoSlots == [q \in {} |-> NoTable]

BaseOnly == {"base"}
DayAndBase == {"base", "day"}

\* rpm as a shorthand; one request and two tokens per minute with a lifetime limit.
Basic == [conc |-> {2}, rpm |-> {2}, tpm |-> {}, table |-> NoTable, total |-> {}, slots |-> NoSlots]
Billed == [Basic EXCEPT !.rpm = {1}, !.tpm = {2}, !.total = {1}]

\* One guard; an hour window and the shorthand outside of the slot, which has
\* a one-minute window of its own.
DayPlan == [Basic EXCEPT !.conc = {1}, !.rpm = {1}, !.table = Table({}, {1}, {}),
              !.slots = [q \in {"day"} |-> [conc |-> {}, rpm |-> {}, tpm |-> {}, table |-> Table({1}, {}, {})]]]

BilledPlans == {Of(Billed)}
DayPlans == {Of(DayPlan)}

\* The global fallback of keys without plan.
LegacyLimits == [NoLimits EXCEPT !.counts = [w \in Windows |-> IF w = Minute THEN {1} ELSE {}]]

\* No global fallback.
NoLegacy == NoLimits

OneTeam == [k \in Keys |-> t1]
=============================================================================
