---------------------------- MODULE RuleDirectory ----------------------------
(***************************************************************************)
(* What the rule endpoints promise, without files: a map from ids to       *)
(* rules, changed by one request at a time. last is the request that was   *)
(* answered last. Once requests have overlapped or been cut short (off)    *)
(* nothing is promised.                                                    *)
(***************************************************************************)
CONSTANTS Ids, Defs

VARIABLES rules, last, off

None == [def |-> "none"]
Rule(enabled, def) == [enabled |-> enabled, def |-> def]

Init == last = [op |-> "none"] /\ off = FALSE

Create == /\ last'.op = "create"
          /\ rules[last'.rule.id] = None
          /\ rules' = [rules EXCEPT ![last'.rule.id] = Rule(last'.rule.enabled, last'.rule.def)]

Replace == /\ last'.op = "put"
           /\ rules' = [rules EXCEPT ![last'.rule.id] = Rule(last'.rule.enabled, last'.rule.def)]

Toggle == /\ last'.op = "toggle"
          /\ rules[last'.rule.id] # None
          /\ rules' = [rules EXCEPT ![last'.rule.id] =
                         Rule(last'.rule.enabled, rules[last'.rule.id].def)]

Delete == /\ last'.op = "delete"
          /\ rules[last'.id] # None
          /\ rules' = [rules EXCEPT ![last'.id] = None]

Next == Create \/ Replace \/ Toggle \/ Delete

Spec == Init /\ [][off' \/ Next]_<<rules, last, off>>
=============================================================================
