----------------------------- MODULE MCRuleEval ------------------------------
(* Small instances of RuleEval for TLC. *)
EXTENDS RuleEval

CONSTANTS lab, acme, ip1, ip2

Event(a, k, l) == [action |-> a, src_ip |-> k, label |-> l]
Failed(k) == Event("login_failed", k, Null)
Success(k) == Event("login_success", k, Null)
Logins == { Failed(ip1), Failed(ip2), Success(ip1), Failed(Null) }
LabelledLogins == Logins \cup { Event("login_failed", ip1, "powershell.exe") }

On(a) == [c \in {"action"} |-> {a}]
OnLabel(a, l) == [c \in {"action", "label"} |-> IF c = "action" THEN {a} ELSE {l}]

(* Minutes: as in the code, a correlation file without a window has more   *)
(* of them than validation gives it.                                       *)
EvaluatorWindows == [type \in TYPES |-> IF type = "correlation" THEN 2 ELSE 1]
Columns == {"action", "label", "src_ip"}
KeyColumns == {"src_ip"}

(* Spellings: High for high, VT for vt; a value with a blank before it,    *)
(* and one so long that the cut leaves it with a blank at its end.         *)
Spellings == SEVERITIES \cup ENRICH_PROVIDERS \cup ENRICH_VERDICTS \cup {"High", "VT"}
LowerCase == [x \in Spellings |-> CASE x = "High" -> "high" [] x = "VT" -> "vt" [] OTHER -> x]

MatchValues == {"", "login_failed", "login_success", " login_success", "login_success ",
                "login_success and more", "powershell.exe"}
Shortened == [v \in MatchValues |->
                IF v = "login_success and more" THEN "login_success "
                ELSE IF v \in {" login_success", "login_success "} THEN "login_success" ELSE v]

Named == [severity |-> "high", window_minutes |-> 1, cooldown_minutes |-> 1]
AnySuccess == Named @@ [type |-> "match", match |-> [action |-> {"login_success", ""}]]
Spaced == [type |-> "match", severity |-> "High", match |-> [action |-> {" login_success", ""}]]
Long == [type |-> "match", match |-> [action |-> {"login_success and more"}]]
Brute == Named @@ [type |-> "threshold", match |-> On("login_failed"), threshold |-> 2,
                   group_by |-> "src_ip"]
BruteLabel == [Brute EXCEPT !.match = OnLabel("login_failed", "powershell.exe")]
Step(a, n) == [match |-> On(a), min_count |-> n]
Spray == Named @@ [type |-> "correlation",
                   steps |-> <<Step("login_failed", 2), [match |-> On("login_success")]>>]
SprayBad == [type |-> "correlation", join_on |-> "src_ip", window_minutes |-> 1,
             steps |-> <<Step("login_failed", 2), [enrich |-> [providers |-> {"VT"}]]>>]
SprayAny == [type |-> "correlation", window_minutes |-> 1,
             steps |-> <<Step("login_failed", 2), [enrich |-> NoFilters]>>]
SprayAsked == Named @@ [type |-> "correlation",
                        steps |-> <<[enrich |-> [verdicts |-> {"suspicious"}]], Step("login_failed", 2)>>]
SprayBare == [type |-> "correlation", severity |-> "high", cooldown_minutes |-> 1,
              steps |-> Spray.steps]

AllFiles == { AnySuccess, Spaced, Long, Brute, Spray, SprayBad, SprayAny, SprayAsked }
LabelFiles == { BruteLabel }
BareFiles == { SprayBare }
EmptyEnrichFiles == { SprayAny }
SpacedFiles == { Spaced }

Symmetry == Permutations(Tenants)
=============================================================================
