---- MODULE Ed25519 ----
(***************************************************************************)
(* The curve of src/Sources/tweetnacl.c: the field in limbs with delayed   *)
(* carries, the Montgomery ladder, Edwards points, reduction modulo the    *)
(* group order, signatures, and the conversion of signing keys to box      *)
(* keys.  All sizes are parameters; those of the runs are a small curve of *)
(* the same shape: p = 2^14 - 3 for 2^255 - 19, order 8 * (2^11 + 21).     *)
(*                                                                         *)
(* N limbs of W bits make a field element (16 of 16 bits), and N digits of *)
(* W bits a scalar or an encoded point (32 bytes); limbs and digits have   *)
(* the same width here, so that packing writes one digit per limb.         *)
(***************************************************************************)
EXTENDS Integers, Sequences, Loops

CONSTANTS
  W, N,
  C,                   \* 2^(W * N - 1) - C is the prime: 19
  InvSkip, PowSkip,    \* exponent bits the two ladders of squares skip: {2, 4} and {1}
  a24,                 \* _121665
  BaseU,               \* _9
  D, X, Y, I,          \* the Edwards constant, the base point, the root of -1
  L,                   \* digits of the prime order of the base point
  Settled,             \* digits in which a step of modL lets its carry settle: 20
  Hash(_)              \* crypto_hash: from a sequence of digits to 2 * N digits

Index == 0 .. N - 1
Base == 2^W
Bits == W * N

Sum(F(_), S) == Iterate(LAMBDA total, i: total + IF i \in S THEN F(i) ELSE 0, 0, N)

----
(* The field. *)

Gf(v) == [i \in Index |-> IF i = 0 THEN v % Base ELSE (v \div Base^i) % Base]
gf0 == [i \in Index |-> 0]
gf1 == [gf0 EXCEPT ![0] = 1]

\* 38 is 2 * 19; the carry out of the last limb enters the first.
car25519(o) ==
  Iterate(LAMBDA x, i:
       LET y == [x EXCEPT ![i] = @ + Base]
           c == y[i] \div Base
           k == IF i < N - 1 THEN i + 1 ELSE 0
           z == [y EXCEPT ![k] = @ + c - 1 + IF i = N - 1 THEN (2 * C - 1) * (c - 1) ELSE 0]
       IN  [z EXCEPT ![i] = @ - c * Base], o, N)

A(a, b) == [i \in Index |-> a[i] + b[i]]
Z(a, b) == [i \in Index |-> a[i] - b[i]]

\* The 2 * N - 1 coefficients of the product.
Convolve(a, b) ==
  [k \in 0 .. 2 * N - 2 |-> Sum(LAMBDA i: a[i] * b[k - i], {i \in Index : k - i \in Index})]

\* Mutant: A product that folds the upper half once, not twice 19 times.
MHalf(a, b) ==
  LET Fold(t) == [i \in Index |-> t[i] + IF i < N - 1 THEN C * t[i + N] ELSE 0]
  IN  car25519(car25519(Fold(Convolve(a, b))))

M(a0, b0) ==
  LET Fold(t) == [i \in Index |-> t[i] + IF i < N - 1 THEN 2 * C * t[i + N] ELSE 0]
  IN  Then(<<a0, b0>>, LAMBDA ab: car25519(car25519(Fold(Convolve(ab[1], ab[2])))))

S(a) == M(a, a)

\* One conditional subtraction of the prime: kept unless it borrows.
SubtractPrime(t) ==
  LET Borrow(x, i) == IF i = 0 THEN 0 ELSE (x[i - 1] \div Base) % 2
      less(i) == CASE i = 0 -> Base - C [] i = N - 1 -> Base \div 2 - 1 [] OTHER -> Base - 1
      Limb(x, i) == [j \in Index |-> CASE j = i -> t[i] - less(i) - Borrow(x, i)
                                       [] j = i - 1 -> x[j] % Base
                                       [] OTHER -> x[j]]
  IN  Then(Iterate(Limb, t, N), LAMBDA m: IF (m[N - 1] \div Base) % 2 = 1 THEN t ELSE m)

Settle(n) == car25519(car25519(car25519(n)))
Low(m) == [i \in Index |-> m[i] % Base]

\* Mutant: a single subtraction.
packOnce(n) == Low(Then(Settle(n), SubtractPrime))

pack25519(n) == Low(Then(Then(Settle(n), SubtractPrime), SubtractPrime))

neq25519(a, b) == pack25519(a) # pack25519(b)
par25519(a) == pack25519(a)[0] % 2
unpack25519(n) == [n EXCEPT ![N - 1] = @ % (Base \div 2)]

Power(i, n, skip) == Down(LAMBDA c, a: IF a \in skip THEN S(c) ELSE M(S(c), i), i, n)
inv25519(i) == Power(i, Bits - 2, InvSkip)
pow2523(i) == Power(i, Bits - 5, PowSkip)
----
(* The Montgomery ladder. *)

Bit(s, i) == (s[i \div W] \div 2^(i % W)) % 2

\* Bits 0 .. 2 and the top one cleared, the one below it set.
Clamp(n) ==
  LET low == [n EXCEPT ![0] = @ - (@ % 8)]
  IN  [low EXCEPT ![N - 1] = (@ % (Base \div 4)) + Base \div 4]

sel25519(p, q, b) == IF b = 1 THEN <<q, p>> ELSE <<p, q>>

\* The differential addition and doubling, between the swaps by r.
LadderStep(s, x, r) ==
  LET Mix(a, b, c, d) ==
        Then(<<S(A(a, c)), S(Z(a, c)), M(A(b, d), Z(a, c)), M(Z(b, d), A(a, c))>>, LAMBDA v:
          Then(<<Z(v[1], v[2]), M(v[1], v[2]), S(Z(v[3], v[4])), S(A(v[3], v[4]))>>, LAMBDA w:
            <<w[2], w[4], M(w[1], A(M(w[1], Gf(a24)), v[1])), M(w[3], x)>>))
      Unswap(v) == LET ab == sel25519(v[1], v[2], r)
                       cd == sel25519(v[3], v[4], r)
                   IN  [a |-> ab[1], b |-> ab[2], c |-> cd[1], d |-> cd[2]]
      ab == sel25519(s.a, s.b, r)
      cd == sel25519(s.c, s.d, r)
  IN  Then(Mix(ab[1], ab[2], cd[1], cd[2]), Unswap)

crypto_scalarmult(n, p) ==
  Then(<<Clamp(n), unpack25519(p)>>, LAMBDA zx:
    Then(Down(LAMBDA s, i: LadderStep(s, zx[2], Bit(zx[1], i)),
              [a |-> gf1, b |-> zx[2], c |-> gf0, d |-> gf1], Bits - 1),
         LAMBDA end: pack25519(M(end.a, inv25519(end.c)))))

crypto_scalarmult_base(n) == crypto_scalarmult(n, Gf(BaseU))

\* crypto_box_keypair, for the secret that randombytes returned.
crypto_box_keypair(x) == [pk |-> crypto_scalarmult_base(x), sk |-> x]
----
(* Edwards points, as functions from 1 .. 4 to field elements. *)

add(p, q) ==
  Then(<<M(Z(p[2], p[1]), Z(q[2], q[1])),
         M(A(p[1], p[2]), A(q[1], q[2])),
         M(M(p[4], q[4]), Gf(D + D)),
         M(p[3], q[3])>>, LAMBDA v:
    Then([e |-> Z(v[2], v[1]), h |-> A(v[2], v[1]),
          f |-> Z(A(v[4], v[4]), v[3]), g |-> A(A(v[4], v[4]), v[3])], LAMBDA u:
      <<M(u.e, u.f), M(u.h, u.g), M(u.g, u.f), M(u.e, u.h)>>))

\* The sign of x goes to the top bit of the encoded y.
pack(p) ==
  Then(inv25519(p[3]), LAMBDA zi:
    Then(par25519(M(p[1], zi)), LAMBDA sign:
      [pack25519(M(p[2], zi)) EXCEPT ![N - 1] = (@ + (Base \div 2) * sign) % Base]))

\* cswap; q += p; p += p; cswap.
Swapped(pq, b) == sel25519(pq[1], pq[2], b)

scalarmult(q0, s0) ==
  Then(<<q0, s0>>, LAMBDA qs:
    Down(LAMBDA pq, i:
           LET t == Swapped(pq, Bit(qs[2], i))
           IN  Swapped(<<add(t[1], t[1]), add(t[2], t[1])>>, Bit(qs[2], i)),
         << <<gf0, gf1, gf1, gf0>>, qs[1] >>, Bits)[1])

scalarbase(s) == scalarmult(<<Gf(X), Gf(Y), gf1, M(Gf(X), Gf(Y))>>, s)
----
(* Scalars modulo the order. *)

\* v[i], v[i + 1], .. for n digits, each reduced by Digit and its carry
\* passed on.
Carried(x, n, Digit(_, _), Rest(_)) ==
  Iterate(LAMBDA s, k: Then(Digit(s, k), LAMBDA v:
            [x |-> [s.x EXCEPT ![k] = v - Base * Rest(v)], carry |-> Rest(v)]),
          [x |-> x, carry |-> 0], n)

Rounded(v) == (v + Base \div 2) \div Base
Floored(v) == v \div Base

\* Digit i is removed by subtracting x[i] * 16 times the order, whose top
\* digit makes that exactly its weight; the carry settles on the way.
Eliminate(x, i) ==
  LET Window(s, k) == s.x[k] + s.carry - 16 * x[i] * L[k]
  IN  Then(Carried([k \in Index |-> x[i - N + k]], Settled, Window, Rounded), LAMBDA s:
        [j \in DOMAIN x |-> CASE j = i -> 0
                              [] j = i - N + Settled /\ Settled < N -> x[j] + s.carry
                              [] j \in i - N .. i - N + Settled - 1 -> s.x[j - i + N]
                              [] OTHER -> x[j]])

Eliminated(x) == Down(LAMBDA y, k: Eliminate(y, N + k), x, N)
Digits0(x) == Carried([j \in Index |-> x[j]], N, LAMBDA s, k: s.x[k] + s.carry, Floored).x

\* Mutant: a reduction that leaves out the last subtraction.
modLOnce(x) == Then(Eliminated(x), Digits0)

\* What exceeds four bits of the top digit is subtracted as multiples of
\* the order, and the order once more if that went too far.
modL(x) ==
  Then(Eliminated(x), LAMBDA y:
    Then(Carried([j \in Index |-> y[j]], N,
                 LAMBDA s, k: s.x[k] + s.carry - (y[N - 1] \div 2^(W - 4)) * L[k], Floored),
         LAMBDA s: Digits0([j \in Index |-> s.x[j] - s.carry * L[j]])))

reduce(r) == modL(r)
----
(* Signatures.  Messages and signatures are sequences of digits. *)

Digits(x) == [i \in 1 .. N |-> x[i - 1]]
Half(s, k) == [i \in Index |-> s[k * N + i + 1]]
Secret(sk) == LET d == Hash(SubSeq(sk, 1, N)) IN [low |-> Clamp(Half(d, 0)), high |-> Half(d, 1)]
Wide(d) == [i \in 0 .. 2 * N - 1 |-> d[i + 1]]

crypto_sign_seed_keypair(seed) ==
  LET pk == Digits(pack(scalarbase(Secret(seed).low)))
  IN  [pk |-> pk, sk |-> seed \o pk]

\* crypto_sign_keypair, for the seed that randombytes returned.
crypto_sign_keypair(seed) == crypto_sign_seed_keypair(seed)

\* r + h * d, digit by digit without carries.
MulAdd(r, h, d) ==
  [k \in 0 .. 2 * N - 1 |->
     (IF k < N THEN r[k] ELSE 0) + Sum(LAMBDA i: h[i] * d[k - i], {i \in Index : k - i \in Index})]

crypto_sign(m, sk) ==
  LET Answer(d, r, R, h) == R \o Digits(modL(MulAdd(r, h, d.low))) \o m
      Challenge(R) == reduce(Wide(Hash(R \o SubSeq(sk, N + 1, 2 * N) \o m)))
  IN  Then(Secret(sk), LAMBDA d:
        Then(reduce(Wide(Hash(Digits(d.high) \o m))), LAMBDA r:
          Then(Digits(pack(scalarbase(r))), LAMBDA R:
            Then(Challenge(R), LAMBDA h: Answer(d, r, R, h)))))

Invalid == <<-1>>

\* The point with the encoded y and the other sign of x, or Invalid.
unpackneg(p) ==
  LET IsRoot(x, q) == ~ neq25519(M(S(x), q.den), q.num)
      Signed(x, q) ==
        Then(IF par25519(x) = p[N - 1] \div (Base \div 2) THEN Z(gf0, x) ELSE x,
             LAMBDA r: <<r, q.y, gf1, M(r, q.y)>>)
      Root(q, den4) ==
        Then(pow2523(M(M(M(den4, S(q.den)), q.num), q.den)), LAMBDA t:
          M(M(M(M(t, q.num), q.den), q.den), q.den))
      Checked(x, q) == IF IsRoot(x, q) THEN Signed(x, q) ELSE Invalid
      Solve(q) ==
        Then(Root(q, S(S(q.den))), LAMBDA x:
          Then(IF IsRoot(x, q) THEN x ELSE M(x, Gf(I)), LAMBDA z: Checked(z, q)))
  IN  Then(unpack25519(p), LAMBDA y:
        Then(S(y), LAMBDA yy:
          Then([y |-> y, num |-> Z(yy, gf1), den |-> A(gf1, M(yy, Gf(D)))], Solve)))

crypto_sign_open(sm, pk) ==
  LET m == SubSeq(sm, 2 * N + 1, Len(sm))
      Compared(q) ==
        Then(reduce(Wide(Hash(SubSeq(sm, 1, N) \o pk \o m))), LAMBDA h:
          Then(<<scalarmult(q, h), scalarbase(Half(sm, 1))>>, LAMBDA ps:
            IF Digits(pack(add(ps[1], ps[2]))) = SubSeq(sm, 1, N) THEN m ELSE Invalid))
  IN  IF Len(sm) < 2 * N THEN Invalid
      ELSE Then(unpackneg(Half(pk, 0)), LAMBDA q: IF q = Invalid THEN Invalid ELSE Compared(q))

crypto_sign_ed25519_pk_to_curve25519(ed25519_pk) ==
  Then(unpackneg(Half(ed25519_pk, 0)), LAMBDA q:
    IF q = Invalid THEN Invalid
    ELSE pack25519(M(A(q[3], q[2]), inv25519(Z(q[3], q[2])))))

crypto_sign_ed25519_sk_to_curve25519(ed25519_sk) == Secret(ed25519_sk).low
====
