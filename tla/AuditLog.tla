------------------------------ MODULE AuditLog ------------------------------
(***************************************************************************)
(* What the request log promises: a record that was handed over stays      *)
(* pending until it is stored or counted as dropped.  A record may be      *)
(* stored although it was counted (an INSERT that timed out and committed  *)
(* later).  A restart forgets what was pending and what was counted.       *)
(***************************************************************************)
CONSTANT Records

VARIABLES sent, pending, stored, counted, gone

auditVars == <<sent, pending, stored, counted, gone>>

AuditInit == sent = {} /\ pending = {} /\ stored = {} /\ counted = {} /\ gone = {}

Submit(r) ==
    /\ r \notin sent /\ sent' = sent \cup {r}
    /\ \/ pending' = pending \cup {r} /\ UNCHANGED counted
       \/ counted' = counted \cup {r} /\ UNCHANGED pending
    /\ UNCHANGED <<stored, gone>>

\* A batch leaves the writer: each record of it is in the table or counted.
Resolve(B) ==
    /\ B # {} /\ B \subseteq pending
    /\ pending' = pending \ B
    /\ \E S \in SUBSET B, D \in SUBSET B :
          /\ stored' = stored \cup S /\ counted' = counted \cup D
          /\ B \subseteq stored' \cup D
    /\ UNCHANGED <<sent, gone>>

\* The database finishes a statement nobody waits for any more.
StoreLate(S) ==
    /\ S \subseteq sent
    /\ stored' = stored \cup S
    /\ UNCHANGED <<sent, pending, counted, gone>>

Forget ==
    /\ gone' = gone \cup pending \cup counted
    /\ pending' = {} /\ counted' = {}
    /\ UNCHANGED <<sent, stored>>

AuditNext ==
    \/ \E r \in Records : Submit(r)
    \/ \E B \in SUBSET Records : Resolve(B) \/ StoreLate(B)
    \/ Forget

AuditSafety == AuditInit /\ [][AuditNext]_auditVars

\* No record is pending for ever.
AuditSpec ==
    /\ AuditSafety
    /\ \A r \in Records : WF_auditVars(\E B \in SUBSET Records : r \in B /\ Resolve(B))
=============================================================================
