--------------------------- MODULE TunnelConnectMC ---------------------------
(***************************************************************************)
(* The bounds of the runs are in their .cfg files: a run that reaches      *)
(* MaxAttempts stops in the main thread, which Quiet excludes.             *)
(***************************************************************************)
EXTENDS TunnelConnect
=============================================================================
