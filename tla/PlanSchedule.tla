---------------------------- MODULE PlanSchedule ----------------------------
(***************************************************************************)
(* RateLimitPlan::effective_limits: what a plan with a schedule allows in  *)
(* each period, and which window counters the check clears there.          *)
(*                                                                         *)
(* A limit is a set of numbers, empty when it is not configured, so the    *)
(* entries of window_limits with the same window_secs are one set.  Tokens *)
(* and costs are one dimension, usage; tpm is its one-minute shorthand.    *)
(***************************************************************************)
EXTENDS Naturals

\* The window_secs of the rpm and tpm shorthand.
Minute == 60

\* slot.x.or(self.x)
Or(a, b) == IF a # {} THEN a ELSE b

\* window_limits of a plan or a slot: window_secs -> configured limits.
SecsOf(t) == {w \in DOMAIN t.counts : t.counts[w] \cup t.usage[w] # {}}

\* merge_shorthand: rpm and tpm stand in for a missing one-minute limit.
MergeShorthand(t, rpm, tpm) ==
    [t EXCEPT !.counts = [@ EXCEPT ![Minute] = Or(@, rpm)],
              !.usage = [@ EXCEPT ![Minute] = Or(@, tpm)]]

\* The limits of plan p while its slot is active; the base windows that the
\* slot does not use are stale.
SlotLimits(p, slot) ==
    LET table == IF SecsOf(slot.table) = {} THEN p.table ELSE slot.table
        merged == MergeShorthand(table, Or(slot.rpm, p.rpm), Or(slot.tpm, p.tpm))
    IN  [conc |-> Or(slot.conc, p.conc), counts |-> merged.counts, usage |-> merged.usage,
         total |-> p.total, stale |-> SecsOf(p.table) \ SecsOf(merged)]

\* The limits outside of all slots; the slots' windows that window_limits
\* does not list are stale.
BaseLimits(p) ==
    LET merged == MergeShorthand(p.table, p.rpm, p.tpm)
    IN  [conc |-> p.conc, counts |-> merged.counts, usage |-> merged.usage,
         total |-> p.total,
         stale |-> (UNION {SecsOf(p.slots[q].table) : q \in DOMAIN p.slots}) \ SecsOf(p.table)]

\* effective_limits() of a plan as a function of the period.
EffectiveLimits(p, base) ==
    [q \in DOMAIN p.slots \cup {base} |->
        IF q = base THEN BaseLimits(p) ELSE SlotLimits(p, p.slots[q])]

=============================================================================
