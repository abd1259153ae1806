--------------------------- MODULE MCIngestStats ---------------------------
(* Small instances of IngestStats for TLC. *)
EXTENDS IngestStats

CONSTANTS http, agent, w1, w2, w3

(* A batch of one channel, and two that visit the channels in opposite     *)
(* orders.                                                                 *)
MixedBatches == { <<http, http>>, <<http, agent>>, <<agent, http>> }
=============================================================================
