--------------------------- MODULE MCSyslogServer ---------------------------
(* Small instances of SyslogServer for TLC. *)
EXTENDS SyslogServer, TLC

CONSTANTS h1, h2

Senders == Permutations(Hosts)
=============================================================================
