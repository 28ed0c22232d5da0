---- MODULE Salsa20 ----
(***************************************************************************)
(* The Salsa20 and HSalsa20 cores and the XSalsa20 stream of               *)
(* src/Sources/tweetnacl.c.  The core of the code turns the matrix after   *)
(* every round, so that a row round is a column round too.  Byte strings   *)
(* are functions from 0 .. n - 1 to bytes; a word is four bytes.           *)
(***************************************************************************)
EXTENDS Words

sigma == [i \in 0 .. 15 |-> (5 * i + 1) % Power[W \div 4]]

L32(x, c) == Rotl(x, c)
ld32(x, at) == LoadLE(x, at, 4)
st32(u, i) == ByteLE(u, i, 4)

StartMatrix(in, k, c) ==
  [p \in 0 .. 15 |->
     CASE p % 5 = 0 -> ld32(c, 4 * (p \div 5))
       [] p \in 1 .. 4 -> ld32(k, 4 * (p - 1))
       [] p \in 6 .. 9 -> ld32(in, 4 * (p - 6))
       [] p \in 11 .. 14 -> ld32(k, 16 + 4 * (p - 11))]

\* Column j of x after one round, from its diagonal word downwards.
Quarter(x, j) ==
  LET t == [m \in 0 .. 3 |-> x[(5 * j + 4 * m) % 16]]
      t1 == XOR(t[1], L32(Add(t[0], t[3]), 7))
      t2 == XOR(t[2], L32(Add(t1, t[0]), 9))
      t3 == XOR(t[3], L32(Add(t2, t1), 13))
      t0 == XOR(t[0], L32(Add(t3, t2), 18))
  IN  <<t0, t1, t2, t3>>

\* Mutant: The same without the turn of the matrix.
TurnNone(x, i) ==
  LET t == [j \in 0 .. 3 |-> Quarter(x, j)]
  IN  [p \in 0 .. 15 |-> t[p % 4][(((p \div 4) - (p % 4)) % 4) + 1]]

\* w[4 * j + (j + m) % 4] = t[m]
Turn(x, i) ==
  LET t == [j \in 0 .. 3 |-> Quarter(x, j)]
  IN  [p \in 0 .. 15 |-> t[p \div 4][((p - (p \div 4)) % 4) + 1]]

Turns(y) == Iterate(Turn, y, 20)

core(in, k, c, h) ==
  LET y == StartMatrix(in, k, c)
      x == Turns(y)
      sum == [p \in 0 .. 15 |-> Add(x[p], y[p])]
      diff == [p \in 0 .. 15 |->
                 CASE p % 5 = 0 -> Sub(sum[p], ld32(c, 4 * (p \div 5)))
                   [] p \in 6 .. 9 -> Sub(sum[p], ld32(in, 4 * (p - 6)))
                   [] OTHER -> sum[p]]
  IN  IF h
      THEN [b \in 0 .. 31 |-> st32(diff[IF b < 16 THEN 5 * (b \div 4) ELSE 6 + (b - 16) \div 4], b % 4)]
      ELSE [b \in 0 .. 63 |-> st32(sum[b \div 4], b % 4)]

crypto_core_salsa20(in, k, c) == core(in, k, c, FALSE)
crypto_core_hsalsa20(in, k, c) == core(in, k, c, TRUE)

\* Mutant: A counter that loses the carry out of its lowest byte.
IncrementLow(z) == [z EXCEPT ![8] = (@ + 1) % Power[W \div 4]]

\* Bytes 8 .. 15 of z count the blocks, lowest byte first.
Ripple(s, i) ==
  LET u == s.u + s.z[8 + i]
  IN  [z |-> [s.z EXCEPT ![8 + i] = u % Power[W \div 4]], u |-> u \div Power[W \div 4]]
Increment(z) == Iterate(Ripple, [z |-> z, u |-> 1], 8).z

\* The next block of the stream, onto m or, where the code passes no
\* message, onto the empty sequence.
XorBlock(s, j, m, b, k) ==
  LET x == crypto_core_salsa20(s.z, k, sigma)
      left == b - 64 * j
      part == [i \in 1 .. (IF left >= 64 THEN 64 ELSE left) |->
                 XOR(IF m = << >> THEN 0 ELSE m[64 * j + i - 1], x[i - 1])]
  IN  [c |-> s.c \o part, z |-> Increment(s.z)]

crypto_stream_salsa20_xor(m, b, n, k) ==
  Iterate(LAMBDA s, j: XorBlock(s, j, m, b, k),
          [c |-> << >>, z |-> [i \in 0 .. 15 |-> IF i < 8 THEN n[i] ELSE 0]],
          (b + 63) \div 64).c

crypto_stream_salsa20(d, n, k) == crypto_stream_salsa20_xor(<< >>, d, n, k)

\* n + 16
Behind(n, at) == [i \in 0 .. 7 |-> n[at + i]]

crypto_stream(d, n, k) ==
  crypto_stream_salsa20(d, Behind(n, 16), crypto_core_hsalsa20(n, k, sigma))
crypto_stream_xor(m, d, n, k) ==
  crypto_stream_salsa20_xor(m, d, Behind(n, 16), crypto_core_hsalsa20(n, k, sigma))
----
(***************************************************************************)
(* Bernstein's definition: twenty rounds, alternately of columns and of    *)
(* rows, each quarter round starting at the diagonal; block j of the       *)
(* stream is the hash of key, nonce and j.                                 *)
(***************************************************************************)
quarterround(x, a, b, c, d) ==
  LET z1 == XOR(x[b], Rotl(Add(x[a], x[d]), 7))
      z2 == XOR(x[c], Rotl(Add(z1, x[a]), 9))
      z3 == XOR(x[d], Rotl(Add(z2, z1), 13))
      z0 == XOR(x[a], Rotl(Add(z3, z2), 18))
  IN  [x EXCEPT ![a] = z0, ![b] = z1, ![c] = z2, ![d] = z3]

At(row, col) == 4 * (row % 4) + (col % 4)
Column(x, j) == quarterround(x, At(j, j), At(j + 1, j), At(j + 2, j), At(j + 3, j))
Row(x, j) == quarterround(x, At(j, j), At(j, j + 1), At(j, j + 2), At(j, j + 3))
Round(x, i) == IF i % 2 = 0 THEN Iterate(Column, x, 4) ELSE Iterate(Row, x, 4)

SpecRounds(in, k) == Iterate(Round, StartMatrix(in, k, sigma), 20)

SpecSalsa20(in, k) ==
  LET y == StartMatrix(in, k, sigma)
      x == SpecRounds(in, k)
  IN  [b \in 0 .. 63 |-> ByteLE(Add(x[b \div 4], y[b \div 4]), b % 4, 4)]

SpecHSalsa20(in, k) ==
  LET x == SpecRounds(in, k)
      order == <<0, 5, 10, 15, 6, 7, 8, 9>>
  IN  [b \in 0 .. 31 |-> ByteLE(x[order[b \div 4 + 1]], b % 4, 4)]

\* The counter is two words, the lower one first.
SpecInput(j, n) ==
  [i \in 0 .. 15 |-> CASE i < 8 -> n[i]
                       [] i \in 8 .. 11 -> ByteLE(j % Power[W], i - 8, 4)
                       [] OTHER -> ByteLE(j \div Power[W], i - 12, 4)]
SpecBlock(j, n, k) == SpecSalsa20(SpecInput(j, n), k)

SpecXSalsa20(m, d, n, k) ==
  LET s == SpecHSalsa20(n, k)
      block == [j \in 0 .. d \div 64 |-> SpecBlock(j, Behind(n, 16), s)]
  IN  [i \in 1 .. d |-> XOR(m[i - 1], block[(i - 1) \div 64][(i - 1) % 64])]
====
