---- MODULE Blake2b ----
(***************************************************************************)
(* BLAKE2b-256 of src/Sources/blake2b.c, the hash of the Bamboo and Gabby  *)
(* Grove codecs: a buffer of one block that is compressed only when more   *)
(* input follows it, a byte counter in two words, and a final block that   *)
(* is padded and flagged.  Input is a function from 0 .. n - 1 to bytes.   *)
(***************************************************************************)
EXTENDS Words

BlockBytes == 128
WordBytes == 8

\* Stand-ins for the eight 64-bit constants: any words do.
IV == [i \in 0 .. 7 |-> (97 * i + 106) % Power[W]]

SIGMA == <<
  << 0,  1,  2,  3,  4,  5,  6,  7,  8,  9, 10, 11, 12, 13, 14, 15>>,
  <<14, 10,  4,  8,  9, 15, 13,  6,  1, 12,  0,  2, 11,  7,  5,  3>>,
  <<11,  8, 12,  0,  5,  2, 15, 13, 10, 14,  3,  6,  7,  1,  9,  4>>,
  << 7,  9,  3,  1, 13, 12, 11, 14,  2,  6,  5, 10,  4,  0, 15,  8>>,
  << 9,  0,  5,  7,  2,  4, 10, 15, 14,  1, 11, 12,  6,  8,  3, 13>>,
  << 2, 12,  6, 10,  0, 11,  8,  3,  4, 13,  7,  5, 15, 14,  1,  9>>,
  <<12,  5,  1, 15, 14, 13,  4, 10,  0,  7,  6,  3,  9,  2,  8, 11>>,
  <<13, 11,  7, 14, 12,  1,  3,  9,  5,  0, 15,  4,  8,  6,  2, 10>>,
  << 6, 15, 14,  9, 11,  3,  0,  8, 12,  2, 13,  7,  1,  4, 10,  5>>,
  <<10,  2,  8,  4,  7,  6,  1,  5, 15, 11,  9, 14,  3, 12, 13,  0>>,
  << 0,  1,  2,  3,  4,  5,  6,  7,  8,  9, 10, 11, 12, 13, 14, 15>>,
  <<14, 10,  4,  8,  9, 15, 13,  6,  1, 12,  0,  2, 11,  7,  5,  3>> >>

\* Rotations by 32, 24, 16 and 63 of 64 bits.
G(v, a, b, c, d, x, y) ==
  LET a1 == Add(v[a], v[b] + x)
      d1 == Rotr(XOR(v[d], a1), W \div 2)
      c1 == Add(v[c], d1)
      b1 == Rotr(XOR(v[b], c1), (3 * W) \div 8)
      a2 == Add(a1, b1 + y)
      d2 == Rotr(XOR(d1, a2), W \div 4)
      c2 == Add(c1, d2)
  IN  [v EXCEPT ![a] = a2, ![b] = Rotr(XOR(b1, c2), W - 1), ![c] = c2, ![d] = d2]

\* The four words each of the eight calls of a round mixes.
Calls == << <<0, 4, 8, 12>>, <<1, 5, 9, 13>>, <<2, 6, 10, 14>>, <<3, 7, 11, 15>>,
            <<0, 5, 10, 15>>, <<1, 6, 11, 12>>, <<2, 7, 8, 13>>, <<3, 4, 9, 14>> >>

load64_le(p, at) == LoadLE(p, at, WordBytes)

Message(block) == [i \in 0 .. 15 |-> load64_le(block, i * WordBytes)]

StartState(S) ==
  [i \in 0 .. 15 |->
     CASE i < 8 -> S.h[i]
       [] i = 12 -> XOR(IV[4], S.t0)
       [] i = 13 -> XOR(IV[5], S.t1)
       [] i = 14 /\ S.last -> Complement(IV[6])
       [] OTHER -> IV[i - 8]]

\* Call i of round r on the message m.
Mix(v, m, r, i) == G(v, Calls[i + 1][1], Calls[i + 1][2], Calls[i + 1][3], Calls[i + 1][4],
                     m[SIGMA[r + 1][2 * i + 1]], m[SIGMA[r + 1][2 * i + 2]])
Round(v, m, r) == Iterate(LAMBDA u, i: Mix(u, m, r, i), v, 8)

Chained(h, v) == [i \in 0 .. 7 |-> XOR(h[i], XOR(v[i], v[i + 8]))]

compress(S, block) ==
  LET m == Message(block)
  IN  [S EXCEPT !.h = Chained(@, Iterate(LAMBDA v, r: Round(v, m, r), StartState(S), 12))]

\* The parameter word: digest length, one leaf, one level, no key.
init(outlen) ==
  [h |-> [IV EXCEPT ![0] = XOR(@, (outlen + Power[W \div 4] + Power[(3 * W) \div 8]) % Power[W])],
   t0 |-> 0, t1 |-> 0, buf |-> [i \in 0 .. BlockBytes - 1 |-> 0], buflen |-> 0,
   outlen |-> outlen, last |-> FALSE]

\* Mutant: An overflow check that forgets the carry into the high word.
CountLow(S, n) == [S EXCEPT !.t0 = Add(@, n)]

Count(S, n) ==
  LET t0 == Add(S.t0, n)
  IN  [S EXCEPT !.t0 = t0, !.t1 = IF t0 < n THEN Add(@, 1) ELSE @]

Filled(S, in, from, fill) ==
  [S EXCEPT !.buf = [i \in DOMAIN @ |-> IF i \in S.buflen .. S.buflen + fill - 1
                                        THEN in[from + i - S.buflen] ELSE @[i]],
            !.buflen = @ + fill]
Flush(S) ==
  [compress([Count(S, BlockBytes) EXCEPT !.last = FALSE], S.buf) EXCEPT !.buflen = 0]

\* One turn of the loop: the buffer is filled, and compressed only when it
\* is full and more input follows.
Fill(s, in) ==
  LET space == BlockBytes - s.S.buflen
      fill == IF s.left < space THEN s.left ELSE space
      filled == Filled(s.S, in, s.from, fill)
      more == filled.buflen = BlockBytes /\ s.left - fill > 0
  IN  [S |-> IF more THEN Flush(filled) ELSE filled,
       from |-> s.from + fill,
       left |-> s.left - fill]

update(S, in, inlen) ==
  While(LAMBDA s: s.left > 0, LAMBDA s: Fill(s, in),
        [S |-> S, from |-> 0, left |-> inlen], inlen \div BlockBytes + 2).S

Padded(S) ==
  [Count(S, S.buflen) EXCEPT !.buf = [i \in DOMAIN @ |-> IF i < S.buflen THEN @[i] ELSE 0],
                             !.last = TRUE]
final(S) ==
  LET h == compress(Padded(S), Padded(S).buf).h
  IN  [i \in 0 .. S.outlen - 1 |-> ByteLE(h[i \div WordBytes], i % WordBytes, WordBytes)]

blake2b256(in, inlen) == final(update(init(32), in, inlen))
----
(***************************************************************************)
(* RFC 7693: the padded message cut into blocks, each compressed with the  *)
(* number of message bytes up to its end; rounds mix columns, then         *)
(* diagonals, with schedule r mod 10.                                      *)
(***************************************************************************)
Column(u, m, r, i) ==
  LET s == SIGMA[(r % 10) + 1]
  IN  G(u, i, 4 + i, 8 + i, 12 + i, m[s[2 * i + 1]], m[s[2 * i + 2]])
Diagonal(u, m, r, i) ==
  LET s == SIGMA[(r % 10) + 1]
  IN  G(u, i, 4 + ((i + 1) % 4), 8 + ((i + 2) % 4), 12 + ((i + 3) % 4),
        m[s[2 * i + 9]], m[s[2 * i + 10]])
Columns(v, m, r) == Iterate(LAMBDA u, i: Column(u, m, r, i), v, 4)
Diagonals(v, m, r) == Iterate(LAMBDA u, i: Diagonal(u, m, r, i), v, 4)

Mixed(v, m, r) == Diagonals(Columns(v, m, r), m, r)

SpecStart(h, t, f) ==
  LET v == [i \in 0 .. 15 |-> IF i < 8 THEN h[i] ELSE IV[i - 8]]
  IN  [v EXCEPT ![12] = XOR(@, t % Power[W]), ![13] = XOR(@, (t \div Power[W]) % Power[W]),
                ![14] = IF f THEN Complement(@) ELSE @]
F(h, m, t, f) ==
  Chained(h, Iterate(LAMBDA v, r: Mixed(v, m, r), SpecStart(h, t, f), 12))

Blocks(n) == IF n = 0 THEN 1 ELSE (n + BlockBytes - 1) \div BlockBytes
Words16(in, n, k) ==
  LET At(j) == IF j < n THEN in[j] ELSE 0
  IN  [i \in 0 .. 15 |-> LoadLE([j \in 0 .. 7 |-> At(k * BlockBytes + 8 * i + j)], 0, 8)]
SpecBlock(h, k, in, n) ==
  LET last == k = Blocks(n) - 1
  IN  F(h, Words16(in, n, k), IF last THEN n ELSE (k + 1) * BlockBytes, last)

RFC7693(in, n) ==
  LET h == Iterate(LAMBDA g, k: SpecBlock(g, k, in, n), init(32).h, Blocks(n))
  IN  [i \in 0 .. 31 |-> ByteLE(h[i \div 8], i % 8, 8)]
====
