----------------------------- MODULE MCAlertSla -----------------------------
(* Small instances of AlertSla for TLC. *)
EXTENDS AlertSla, TLC

CONSTANTS r1, r2, r3, r4, e1, loop, ana1, ana2

CooldownOne == [r \in Rules |-> 1]
OneRule == <<r1>>
FourRules == <<r1, r2, r3, r4>>

Severities == [r \in Rules |-> IF r = r1 THEN "high" ELSE "info"]
Acks == [sev \in SLA_SEVERITIES |-> IF sev = "high" THEN 1 ELSE 0]
Closes == [sev \in SLA_SEVERITIES |-> IF sev = "high" THEN 3 ELSE 0]
NoBody == [sev \in {} |-> 0]
Requests == Permutations(Analysts)
Bodies == {NoBody, [high |-> 2], [high |-> 9]}
=============================================================================
