----------------------------- MODULE AppStoreMC -----------------------------
(***************************************************************************)
(* An instance of AppStore for TLC, and the mutants of its definitions.    *)
(***************************************************************************)
EXTENDS AppStore
=============================================================================
