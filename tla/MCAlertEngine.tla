---------------------------- MODULE MCAlertEngine ----------------------------
(* Small instances of AlertEngine for TLC. *)
EXTENDS AlertDedup, TLC

CONSTANTS r1, r2, e1, e2, loop, api, ana1, ana2

CooldownOne == [r \in Rules |-> 1]
OneRule == <<r1>>
TwoRules == <<r1, r2>>
SameIdTwice == <<r1, r1>>

Requests == Permutations(Analysts)
=============================================================================
