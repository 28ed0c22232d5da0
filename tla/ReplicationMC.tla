---------------------------- MODULE ReplicationMC ----------------------------
(***************************************************************************)
(* alice and bob publish LastA and LastB messages, and ThreadsA and        *)
(* ThreadsB threads of theirs start one session.                           *)
(***************************************************************************)
EXTENDS Replication

CONSTANTS LastA, LastB, ThreadsA, ThreadsB

MCLast == [x \in Peers |-> IF x = alice THEN LastA ELSE LastB]

MCThreads == [p \in Peers |-> IF p = alice THEN ThreadsA ELSE ThreadsB]

=============================================================================
