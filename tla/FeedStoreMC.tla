----------------------------- MODULE FeedStoreMC -----------------------------
(***************************************************************************)
(* Instances of FeedStore.  Author A has the feed a1 <- a2 <- a3 and a     *)
(* fork f2 of a2 (the same identity on two devices); B has b1 <- b2, and   *)
(* b1 replies to a2 (a tangle dependency across feeds).  x3 is a signed    *)
(* message with sequence 3 that names a1 as its predecessor.               *)
(***************************************************************************)
EXTENDS FeedStore

CONSTANTS a1, a2, a3, f2, b1, b2, x3, A, B, n1, n2

Fields == [m \in {a1, a2, a3, f2, b1, b2, x3} |->
    CASE m = a1 -> [author |-> A, seq |-> 1, prev |-> Nil, tangle |-> {},
                    name |-> n1]
      [] m = a2 -> [author |-> A, seq |-> 2, prev |-> a1, tangle |-> {},
                    name |-> n2]
      [] m = a3 -> [author |-> A, seq |-> 3, prev |-> a2, tangle |-> {b1},
                    name |-> Nil]
      [] m = f2 -> [author |-> A, seq |-> 2, prev |-> a1, tangle |-> {},
                    name |-> Nil]
      [] m = b1 -> [author |-> B, seq |-> 1, prev |-> Nil, tangle |-> {a2},
                    name |-> Nil]
      [] m = b2 -> [author |-> B, seq |-> 2, prev |-> b1, tangle |-> {},
                    name |-> n1]
      [] m = x3 -> [author |-> A, seq |-> 3, prev |-> a1, tangle |-> {},
                    name |-> Nil]]

MCAuthor == [m \in Messages |-> Fields[m].author]
MCSequence == [m \in Messages |-> Fields[m].seq]
MCPrevious == [m \in Messages |-> Fields[m].prev]
MCTangleDeps == [m \in Messages |-> Fields[m].tangle]
MCAboutName == [m \in Messages |-> Fields[m].name]

=============================================================================
