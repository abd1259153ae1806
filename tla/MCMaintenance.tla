---------------------------- MODULE MCMaintenance ----------------------------
(* Small instances of Maintenance for TLC. *)
EXTENDS Maintenance

CONSTANTS lab, acme, firewall, windows, api, apiB

TwoTenants == <<lab, acme>>
OneSource == <<firewall>>
=============================================================================
