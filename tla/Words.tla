---- MODULE Words ----
(***************************************************************************)
(* Machine words for the cryptographic primitives of src/Sources: the      *)
(* unsigned arithmetic, rotations and byte order that tweetnacl.c,         *)
(* blake2b.c and blake3.c each define for themselves.  The width W is a    *)
(* parameter: 32 or 64 in the code, a few bits in the runs, which keeps    *)
(* every carry, wrap and rotation and makes each happen often.             *)
(***************************************************************************)
EXTENDS Integers, Sequences, Loops

CONSTANT W    \* bits in a word, at most 8 in the runs

\* Power[n] is 2^n.
Power[n \in 0 .. W] == IF n = 0 THEN 1 ELSE 2 * Power[n - 1]

Word == 0 .. Power[W] - 1

\* Exclusive or of every pair of words, computed once: table[k] is that of
\* the words of 2^k bits, each made of two of half the bits.
Doubled(half, s) ==
  [x \in 0 .. s * s - 1 |-> [y \in 0 .. s * s - 1 |->
     s * half[x \div s][y \div s] + half[x % s][y % s]]]
XorTable ==
  LET table[k \in 0 .. 6] ==
        IF k = 0 THEN [x \in 0 .. 1 |-> [y \in 0 .. 1 |-> (x + y) % 2]]
        ELSE Doubled(table[k - 1], Power[2^(k - 1)])
  IN  table[CHOOSE k \in 0 .. 6 : 2^k >= W /\ \A i \in 0 .. k - 1 : 2^i < W]

XOR(x, y) == XorTable[x][y]
AND(x, y) == (x + y - XOR(x, y)) \div 2
Add(x, y) == (x + y) % Power[W]
Sub(x, y) == (x - y) % Power[W]
Complement(x) == Power[W] - 1 - x

\* Rotation to the left and to the right; an amount of the code that
\* exceeds the word counts modulo its width.
Rotl(x, c) == ((x * Power[c % W]) % Power[W]) + x \div Power[W - (c % W)]
Rotr(x, c) == Rotl(x, W - (c % W))
Shr(x, c) == x \div Power[c]

\* A word is size bytes, and a byte is W / size bits.
Byte(size) == 0 .. Power[W \div size] - 1

\* The word stored at p[at], p[at + 1], ... with the lowest byte first, and
\* the byte at position i of a word stored that way.
LoadLE(p, at, size) ==
  Iterate(LAMBDA u, i: u + p[at + i] * Power[(W \div size) * i], 0, size)
ByteLE(x, i, size) == Shr(x, (W \div size) * i) % Power[W \div size]
====
