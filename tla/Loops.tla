---- MODULE Loops ----
(***************************************************************************)
(* The counted loops of the algorithms of src/Sources as operators.        *)
(***************************************************************************)
EXTENDS Integers

\* F(x), written so that TLC computes all of x before it evaluates F.
Then(x, F(_)) == IF x = x THEN F(x) ELSE x

\* The loop  for (i = 0; i < n; i++) x = Step(x, i)
Iterate(Step(_, _), x, n) ==
  LET after[i \in 0 .. n] ==
        IF i = 0 THEN x ELSE Then(after[i - 1], LAMBDA z: Step(z, i - 1))
  IN  after[n]

\* The loop  while (Test(x)) x = Step(x), which ends within bound turns.
While(Test(_), Step(_), x, bound) ==
  Iterate(LAMBDA y, i: IF Test(y) THEN Step(y) ELSE y, x, bound)

\* The loop  for (i = n - 1; i >= 0; i--) x = Step(x, i)
Down(Step(_, _), x, n) == Iterate(LAMBDA y, i: Step(y, n - 1 - i), x, n)
====
