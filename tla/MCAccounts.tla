----------------------------- MODULE MCAccounts -----------------------------
(* Small instances of Accounts for TLC. *)
EXTENDS Accounts

CONSTANTS api, apiB, analyst, viewer, lab, acme, cl

Fresh == [n \in Names |-> NoUser]
HalfThere == [Fresh EXCEPT ![analyst] = Account("admin", lab, TRUE)]
Tables == { Fresh, HalfThere }
Changed == { NoUser, Account("analyst", acme, TRUE), Account("admin", lab, FALSE) }
=============================================================================
