--------------------------- MODULE MCEnrichCache ----------------------------
(* Small instances of EnrichCache for TLC. *)
EXTENDS EnrichCache, TLC

CONSTANTS lab, acme, ip1, host1, c1, c2

Types == [i \in Iocs |-> IF i = host1 THEN "domain" ELSE "ip"]

Stats(m, s, h, u) == [malicious |-> m, suspicious |-> s, harmless |-> h, undetected |-> u]
Reports == [p \in Providers |->
              CASE p = "vt" -> { Stats(1, 0, 5, 2), Stats(0, 0, 0, 3) }
                [] p = "abuseipdb" -> {75}
                [] p = "otx" -> {0, 3}]

Job(kind, tenant, iocs, providers) ==
    [kind |-> kind, tenant |-> tenant, iocs |-> iocs, providers |-> providers,
     wanted |-> {"malicious"}]

Work == { Job("pass", lab, {ip1}, <<"vt", "abuseipdb">>), Job("vt", acme, {ip1}, <<"vt">>) }

Benches == { Job("dry-run", lab, {ip1}, <<"vt">>), Job("vt", lab, {ip1}, <<"vt">>) }

Symmetry == Permutations(Callers)
=============================================================================
