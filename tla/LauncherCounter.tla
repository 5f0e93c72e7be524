--------------------------- MODULE LauncherCounter ---------------------------
(***************************************************************************)
(* The counter of executed requests, which a Launcher of assignment 1      *)
(* keeps in memory that processes share: executors increment it, the       *)
(* driver compares it with what it issued, and the monitor samples it.     *)
(***************************************************************************)
EXTENDS Integers

VARIABLE txns_executed_

CounterInit == txns_executed_ = 0

(* One locked instruction. *)
FetchAndIncrement == txns_executed_' = txns_executed_ + 1
=============================================================================
