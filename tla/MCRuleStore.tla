----------------------------- MODULE MCRuleStore -----------------------------
(* Small instances of RuleStore for TLC. *)
EXTENDS RuleStore, TLC

CONSTANTS a, b, d1, d2, c1, c2

(* a.yml and b.yml, named after their ids. *)
TwoNames == <<"a.yml", "b.yml">>
OwnStem == ("a.yml" :> a) @@ ("b.yml" :> b)
OwnYml == (a :> "a.yml") @@ (b :> "b.yml")
OwnRule == "a.yml" :> RuleOf(a, TRUE, d1)

(* rules/firewall-deny.yml: the id is not the stem. b stands for           *)
(* firewall-deny-burst, and b.yaml is a second spelling of a name.         *)
OddNames == <<"a.yml", "b.yml", "b.yaml">>
OddStem == ("a.yml" :> a) @@ ("b.yml" :> b) @@ ("b.yaml" :> b)
OddYaml == (a :> "a.yml") @@ (b :> "b.yaml")
OddRule == "a.yml" :> RuleOf(b, TRUE, d1)

=============================================================================
