---------------------------- MODULE MCDrainLedger ----------------------------
(* Small instances of DrainLedger for TLC: those of MCWorkerPool. *)
EXTENDS DrainLedger, MCWorkerPool
=============================================================================
