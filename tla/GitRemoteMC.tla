---- MODULE GitRemoteMC ----
(***************************************************************************)
(* A helper a that git gives several commands and a helper b that shares   *)
(* the server with it.                                                     *)
(***************************************************************************)
EXTENDS GitRemote

CONSTANTS a, b, CommandsA, CommandsB

MCCommands == [h \in Helpers |-> IF h = a THEN CommandsA ELSE CommandsB]
====
