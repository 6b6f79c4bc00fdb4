----------------------- MODULE MCLimiterPersistence -----------------------
(***************************************************************************)
(* Instances of LimiterPersistence for TLC: a key and its team.            *)
(***************************************************************************)
EXTENDS LimiterPersistence, TLC

CONSTANTS k1, t, r1, a1, a2

OneKey == r1 :> k1

\* One administrator resets the key's totals, the other uses every other reset.
CrossingResets ==
    (({a1} \X Kinds \X {k1, t}) \ {<<a1, "totals", k1>>}) \cup {<<a2, "totals", k1>>}
=============================================================================
