------------------------------- MODULE MCFusion -------------------------------
EXTENDS Fusion
CONSTANTS d1, d2, q1, q2, q3, q4, x1, x2, agg, t1, t2, k1, k2, a, b, total, agents

MCDeps == <<d2, d1>>
MCCap == (d1 :> 1 @@ d2 :> 2)
MCPanel == <<x1, x2>>
MCNodes == 1 .. 6

Quiet == [policy |-> "round_robin", requests |-> {}, keys |-> {k1}, prefixes |-> {<<a>>},
          held |-> <<>>, fusion |-> FALSE, stream |-> FALSE, ticks |-> FALSE, ages |-> FALSE, reloads |-> FALSE]
L1 == {[Quiet EXCEPT !.policy = "kvc_aware", !.requests = {q1, q2}, !.prefixes = {<<b>>, <<a, b>>}]}
L2 == {[Quiet EXCEPT !.policy = "kvc_aware", !.fusion = TRUE, !.prefixes = {<<a, b>>}]}
L3 == {[Quiet EXCEPT !.fusion = TRUE, !.stream = TRUE, !.requests = {q1}]}
L4 == {[Quiet EXCEPT !.policy = "key_affinity", !.requests = {q1, q2, q3}, !.reloads = TRUE]}
L5 == {[Quiet EXCEPT !.requests = {q1, q2}, !.ticks = TRUE]}
L6 == {[Quiet EXCEPT !.policy = "kvc_aware", !.requests = {q1, q2}, !.ages = TRUE, !.reloads = TRUE]}
L7 == {[Quiet EXCEPT !.policy = "kvc_aware", !.requests = {q1}, !.held = (q2 :> d1 @@ q3 :> d2 @@ q4 :> d2)]}
MCLoads == UNION {L1, L2, L3, L4, L5, L6, L7}
=============================================================================
