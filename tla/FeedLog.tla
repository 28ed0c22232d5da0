------------------------------- MODULE FeedLog -------------------------------
(***************************************************************************)
(* What a feed store promises its readers: a set of feeds, each of which   *)
(* is a gapless log that only grows at its end, and none of which shows a  *)
(* message before everything the message refers to.  The only other event  *)
(* is that the user wipes everything.                                      *)
(***************************************************************************)
EXTENDS Integers

CONSTANTS Messages, Authors, Author, Sequence, Dependencies(_)

VARIABLE log   \* the set of visible messages

Slot(a, i) == {m \in log : Author[m] = a /\ Sequence[m] = i}

Init == log = {}

(* m becomes the new end of its author's log. *)
Extend(m) ==
    /\ Sequence[m] >= 1
    /\ \A i \in 1 .. (Sequence[m] - 1) : Slot(Author[m], i) # {}
    /\ \A n \in log : Author[n] = Author[m] => Sequence[n] < Sequence[m]
    /\ Dependencies(m) \subseteq log
    /\ log' = log \cup {m}

Wipe == log' = {}

Next == (\E m \in Messages : Extend(m)) \/ Wipe

Spec == Init /\ [][Next]_log

=============================================================================
