---- MODULE Sha512 ----
(***************************************************************************)
(* SHA-512 of src/Sources/tweetnacl.c: blocks hashed with a message        *)
(* schedule kept in sixteen words, and the last, partial block copied,     *)
(* marked and followed by the length.  Byte strings are functions from     *)
(* 0 .. n - 1 to bytes; a word is eight bytes, the highest first.          *)
(***************************************************************************)
EXTENDS Words

BlockBytes == 128
ByteBase == Power[W \div 8]

R(x, c) == Rotr(x, c)
Ch(x, y, z) == XOR(AND(x, y), AND(Complement(x), z))
Maj(x, y, z) == XOR(AND(x, y), XOR(AND(x, z), AND(y, z)))
Sigma0(x) == XOR(R(x, 28), XOR(R(x, 34), R(x, 39)))
Sigma1(x) == XOR(R(x, 14), XOR(R(x, 18), R(x, 41)))
sigma0(x) == XOR(R(x, 1), XOR(R(x, 8), Shr(x, 7)))
sigma1(x) == XOR(R(x, 19), XOR(R(x, 61), Shr(x, 6)))

\* Stand-ins for the eighty and the eight 64-bit constants: any words do.
K == [i \in 0 .. 79 |-> (57 * i + 34) % Power[W]]
iv == [i \in 0 .. 63 |-> (i * i + 1) % ByteBase]

dl64(x, at) == Iterate(LAMBDA u, i: u * ByteBase + x[at + i], 0, 8)
ts64(u, i) == ByteLE(u, 7 - i, 8)

\* Mutant: The same from the words of the last sixteen rounds only.
NextWordsAtOnce(w) ==
  [j \in 0 .. 15 |->
     Add(w[j] + w[(j + 9) % 16], sigma0(w[(j + 1) % 16]) + sigma1(w[(j + 14) % 16]))]

\* Every sixteenth round makes the next sixteen words of the schedule, each
\* from words some of which this loop has already replaced.
Rewrite(v, j) ==
  [v EXCEPT ![j] = Add(@ + v[(j + 9) % 16], sigma0(v[(j + 1) % 16]) + sigma1(v[(j + 14) % 16]))]
NextWords(w) == Iterate(Rewrite, w, 16)

HashRound(s, i) ==
  LET a == s.a
      t == Add(a[7] + Sigma1(a[4]) + Ch(a[4], a[5], a[6]), K[i] + s.w[i % 16])
      b == [a EXCEPT ![7] = Add(t, Sigma0(a[0]) + Maj(a[0], a[1], a[2])), ![3] = Add(@, t)]
  IN  [a |-> [j \in 0 .. 7 |-> b[(j + 7) % 8]],
       w |-> IF i % 16 = 15 THEN NextWords(s.w) ELSE s.w]

Load16(m, at) == [i \in 0 .. 15 |-> dl64(m, at + 8 * i)]
Load8(x) == [i \in 0 .. 7 |-> dl64(x, 8 * i)]
Store8(y) == [b \in 0 .. 63 |-> ts64(y[b \div 8], b % 8)]

HashBlock(y, m, at) ==
  LET a == Iterate(HashRound, [a |-> y, w |-> Load16(m, at)], 80).a
  IN  [i \in 0 .. 7 |-> Add(a[i], y[i])]

\* x, the chaining value as 64 bytes, after the whole blocks of m.
crypto_hashblocks(x, m, n) ==
  Store8(Iterate(LAMBDA y, b: HashBlock(y, m, b * BlockBytes), Load8(x), n \div BlockBytes))

\* b >> 61 and b << 3 are the bits of b bytes; the length of one "byte" in
\* bits is W / 8, so these are b * ByteBits over and within one word.
Rest(b) == 256 - 128 * (IF b % BlockBytes < 112 THEN 1 ELSE 0)
LastBlocks(m, b) ==
  LET n == b % BlockBytes
      bits == b * (W \div 8)
  IN  [i \in 0 .. Rest(b) - 1 |->
         CASE i < n -> m[b - n + i]
           [] i = n -> ByteBase \div 2
           [] i = Rest(b) - 9 -> (bits \div Power[W]) % ByteBase
           [] i >= Rest(b) - 8 -> ts64(bits % Power[W], i - (Rest(b) - 8))
           [] OTHER -> 0]

crypto_hash(m, n) ==
  crypto_hashblocks(crypto_hashblocks(iv, m, n), LastBlocks(m, n), Rest(n))
----
(***************************************************************************)
(* FIPS 180-4: a one bit, as few zero bits as make the length a multiple   *)
(* of a block with room for the length in two words, and a schedule of     *)
(* eighty words.                                                           *)
(***************************************************************************)
SpecWord(v, block, t) ==
  IF t < 16 THEN block[t]
  ELSE Add(sigma1(v[t - 1]) + v[t - 6], sigma0(v[t - 14]) + v[t - 15])
SpecSchedule(block) == Iterate(LAMBDA v, t: Append(v, SpecWord(v, block, t)), << >>, 80)

SpecRound(v, w, t) ==
  LET T1 == v[8] + Sigma1(v[5]) + Ch(v[5], v[6], v[7]) + K[t] + w[t + 1]
      T2 == Sigma0(v[1]) + Maj(v[1], v[2], v[3])
  IN  <<Add(T1, T2), v[1], v[2], v[3], Add(v[4], T1), v[5], v[6], v[7]>>
SpecBlock(h, block) ==
  LET w == SpecSchedule(block)
      v == Iterate(LAMBDA u, t: SpecRound(u, w, t), [i \in 1 .. 8 |-> h[i - 1]], 80)
  IN  [i \in 0 .. 7 |-> Add(h[i], v[i + 1])]

SpecLength(n) == CHOOSE l \in n + 17 .. n + 17 + 127 : l % 128 = 0
SpecPadded(m, n) ==
  LET total == SpecLength(n)
      bits == n * (W \div 8)
  IN  [i \in 0 .. total - 1 |->
         CASE i < n -> m[i]
           [] i = n -> ByteBase \div 2
           [] i > n /\ i < total - 16 -> 0
           [] i >= total - 16 /\ i < total - 8 -> ts64(bits \div Power[W], i - (total - 16))
           [] i >= total - 8 -> ts64(bits % Power[W], i - (total - 8))]

SpecHash(m, n) ==
  LET byte == SpecPadded(m, n)
      Block(h, b) == SpecBlock(h, Load16(byte, b * 128))
  IN  Store8(Iterate(Block, Load8(iv), SpecLength(n) \div 128))
====
