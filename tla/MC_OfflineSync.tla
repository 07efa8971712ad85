---------------------------- MODULE MC_OfflineSync ----------------------------
(* Model-checking instances of OfflineSync. *)
EXTENDS OfflineSync
=============================================================================
