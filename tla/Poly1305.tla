---- MODULE Poly1305 ----
(***************************************************************************)
(* The one-time authenticator of src/Sources/tweetnacl.c, in limbs of W    *)
(* bits: N + 1 of them, 17 of 8 bits in the code, so that the modulus is   *)
(* 2^(W * N + 2) - 5.  Limb vectors and byte strings are functions from 0. *)
(* The code's u32 is an unsigned long and never wraps in these sums.       *)
(***************************************************************************)
EXTENDS Words

CONSTANT N    \* bytes in a block, at least one (W >= 3): 16 in the code

Limbs == 0 .. N
Base == 2^W

\* Carries u into the limbs in the set, lowest first, and leaves the rest.
Carry(h, u, limbs) ==
  Iterate(LAMBDA s, j: IF j \in limbs
                       THEN [h |-> [s.h EXCEPT ![j] = (@ + s.u) % Base],
                             u |-> (s.h[j] + s.u) \div Base]
                       ELSE s, [h |-> h, u |-> u], N + 1)

add1305(h, c) == Carry([j \in Limbs |-> h[j] + c[j]], 0, Limbs).h

minusp == [j \in Limbs |-> CASE j = 0 -> 5 [] j = N -> Base - 4 [] OTHER -> 0]

\* r[3], r[7], .. lose their upper half, r[4], r[8], .. their low two bits.
Clamp(k) ==
  [j \in Limbs |->
     CASE j = N -> 0
       [] j < N /\ j % 4 = 3 -> k[j] % 2^(W \div 2)
       [] j < N /\ j % 4 = 0 /\ j > 0 -> k[j] - (k[j] % 4)
       [] OTHER -> k[j]]

\* The next block of m, with its end marked.
Chunk(m, from, n) ==
  [j \in Limbs |-> LET size == IF n < N THEN n ELSE N
                   IN  IF j < size THEN m[from + j] ELSE IF j = size THEN 1 ELSE 0]

\* 320 is 5 * 2^(8 - 2): limb 17 weighs five times limb 0, over four.
Product(h, r) ==
  [i \in Limbs |->
     Iterate(LAMBDA u, j: u + h[j] * (IF j <= i THEN r[i - j]
                                      ELSE 5 * 2^(W - 2) * r[i + N + 1 - j]), 0, N + 1)]

Low == 0 .. N - 1

\* Mutant: A fold that drops the multiple of the modulus.
SqueezeOnce(x) ==
  LET first == Carry(x, 0, Low)
  IN  [first.h EXCEPT ![N] = (@ + first.u) % 4]

\* Both passes of carries, the first of which folds what exceeds two bits
\* of the top limb back in, five times.
Squeeze(x) ==
  LET first == Carry(x, 0, Low)
      top == first.h[N] + first.u
      second == Carry([first.h EXCEPT ![N] = top % 4], 5 * (top \div 4), Low)
  IN  [second.h EXCEPT ![N] = @ + second.u]

Absorb(h, r, m, n) ==
  Iterate(LAMBDA g, b: Squeeze(Product(add1305(g, Chunk(m, b * N, n - b * N)), r)),
          h, (n + N - 1) \div N)

\* h[16] >> 7 selects the copy from before the subtraction.
Freeze(g) ==
  LET h == add1305(g, minusp)
  IN  IF h[N] \div 2^(W - 1) = 1 THEN g ELSE h

crypto_onetimeauth(m, n, k) ==
  LET h == Freeze(Absorb([j \in Limbs |-> 0], Clamp(k), m, n))
      pad == [j \in Limbs |-> IF j < N THEN k[N + j] ELSE 0]
      out == add1305(h, pad)
  IN  [j \in Low |-> out[j]]

\* 0 when x and y agree in their first n bytes, else -1: the borrow of
\* d - 1 reaches bit W only when no byte differs.
vn(x, y, n) ==
  LET d == Iterate(LAMBDA u, i: u + XOR(x[i], y[i]) - AND(u, XOR(x[i], y[i])), 0, n)
  IN  (((d - 1) \div 2^W) % 2) - 1

crypto_onetimeauth_verify(h, m, n, k) == vn(h, crypto_onetimeauth(m, n, k), N)
----
(***************************************************************************)
(* The polynomial: the chunks, marked, are the coefficients, evaluated at  *)
(* r modulo P (a prime in the code, not at every size); s is added modulo  *)
(* 2^(W * N).                                                              *)
(***************************************************************************)
P == 2^(W * N + 2) - 5

Value(x, n) == Iterate(LAMBDA v, j: v + x[j] * Base^j, 0, n)

\* a * b modulo P in two halves of b, which keeps TLC's integers in range.
MulP(a, b) == (((((a * (b \div 256)) % P) * 256) % P) + a * (b % 256)) % P

SpecTag(m, n, k) ==
  LET r == Value(Clamp(k), N)
      blocks == (n + N - 1) \div N
      Coefficient(b) == LET size == IF n - b * N < N THEN n - b * N ELSE N
                        IN  Value([j \in 0 .. size - 1 |-> m[b * N + j]], size) + Base^size
      h == Iterate(LAMBDA a, b: MulP((a + Coefficient(b)) % P, r), 0, blocks)
  IN  (h + Value([j \in Low |-> k[N + j]], N)) % 2^(W * N)
====
