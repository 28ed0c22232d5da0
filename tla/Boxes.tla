---- MODULE Boxes ----
(***************************************************************************)
(* Calls of crypto_box and crypto_box_open, on what was sealed or on what  *)
(* was made of it on the way.                                              *)
(***************************************************************************)
EXTENDS Calls, SecretBox

CONSTANTS
  Unknowns,         \* what is xored into the cells of messages
  BoxTexts,         \* messages, two zero cells first
  Nonces, Secrets

ASSUME BoxTextsAssumption ==
  /\ <<"changed">> \notin Unknowns
  /\ BoxTexts \subseteq Seq(SUBSET Unknowns)
  /\ \A m \in BoxTexts : \A i \in 1 .. 2 : i <= Len(m) => m[i] = {}

\* A box is sealed with one nonce by x for y, and opened with a nonce by y
\* as if from z, after cell i of it, when there is one, was replaced.
CallBox ==
  \E m \in BoxTexts, n, o \in Nonces, x, y, z \in Secrets, i \in 0 .. 4 :
    Call("crypto_box", [m |-> m, n |-> n, o |-> o, x |-> x, y |-> y, z |-> z, i |-> i])
Changed(c, i) == IF i \in DOMAIN c THEN [c EXCEPT ![i] = @ \union {<<"changed">>}] ELSE c
ReturnBox ==
  /\ Called("crypto_box")
  /\ LET a == call.args
         Public(s) == crypto_scalarmult_base(s)
         c == crypto_box(a.m, a.n, Public(a.y), a.x)
     IN  Returns([c |-> c,
                  m |-> IF c = Failed THEN c
                        ELSE crypto_box_open(Changed(c, a.i), a.o, Public(a.z), a.y)])
----
\* A box opens to the message that was sealed, and only when nonce, cells
\* and both parties are those it was sealed with (the first cell is not
\* sent and is not looked at).
OnlySealedBoxesOpen ==
  Returned("crypto_box") =>
    LET a == call.args
        r == call.result
        pair(x, y) == {x} \union {y}
        untouched == a.i \in {0, 1} \/ a.i > Len(a.m)
    IN  IF Len(a.m) < 2 THEN r.c = Failed /\ r.m = Failed
        ELSE IF a.n = a.o /\ pair(a.z, a.y) = pair(a.x, a.y) /\ untouched
        THEN r.m = a.m ELSE r.m = Failed
====
