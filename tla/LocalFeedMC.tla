----------------------------- MODULE LocalFeedMC -----------------------------
(***************************************************************************)
(* Rooms r1 and r2, of which r1 holds OldR1 messages of the feed and r2    *)
(* OldR2.                                                                  *)
(***************************************************************************)
EXTENDS LocalFeed

CONSTANTS r1, r2, OldR1, OldR2

MCOld == [r \in Rooms |-> IF r = r1 THEN OldR1 ELSE OldR2]

=============================================================================
