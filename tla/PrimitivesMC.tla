---- MODULE PrimitivesMC ----
(***************************************************************************)
(* The inputs of the run of Primitives: the boundaries of blocks, chunks   *)
(* and counters, and a curve of 8 * 2069 points.                           *)
(***************************************************************************)
EXTENDS Primitives

Fnv == INSTANCE LineHash WITH W <- 8, FNV_OFFSET_BASIS <- 197, FNV_PRIME <- 147
MCHashLine(line) == Fnv!ssb_diff_hash_line(line)
MCLines == Seq(0 .. 255)
\* Lines with the hashes 140, 69 and again 140.
MCFiles == UNION {[1 .. n -> {<<1>>, <<2>>, <<4, 23>>}] : n \in 0 .. 3} \union {<< << >>, <<1>> >>}
\* Bytes of an input in which no two short runs repeat.
MCPattern(bits) == [i \in 0 .. 1099 |-> ((i * i) \div 3 + i \div 7) % 2^bits]
MCKey == [i \in 0 .. 31 |-> (i * i + i \div 3) % 4]
MCNonce24 == [i \in 0 .. 23 |-> (3 * i + i \div 4) % 4]
MCBlake2bLengths == {0, 1, 31, 127, 128, 129, 255, 256, 257, 300, 383, 384, 385, 512, 513}
MCBlake3Lengths == {0, 1, 63, 64, 65, 127, 128, 129, 256, 257, 384, 513, 640, 700, 897, 1024, 1025}
MCSha512Lengths == {0, 1, 32, 64, 111, 112, 127, 128, 129, 239, 240, 256, 300}
MCStreamLengths == {0, 1, 32, 63, 64, 65, 128, 200, 256, 257, 320, 321}
MCTagKeys ==
  {[i \in 0 .. 9 |-> IF i = 0 THEN 1 ELSE 0],
   [i \in 0 .. 9 |-> 7],
   [i \in 0 .. 9 |-> (i * i + 2) % 8],
   [i \in 0 .. 9 |-> IF i < 5 THEN (3 * i + 1) % 8 ELSE 7]}
MCTagMessages ==
  {[i \in 0 .. n - 1 |-> v] : n \in 0 .. 12, v \in {0, 7}}
    \union {[i \in 0 .. n - 1 |-> (i * i + v) % 8] : n \in 0 .. 12, v \in 0 .. 2}
MCElements == {0, 1, 2, 3, 5, 31, 32, 1023, 1024, 8191, 12345} \union (Prime - 3 .. Prime + 5)
  \union (2 * Prime - 2 .. 2 * Prime + 5)
MCSecrets == {1, 2, 3}
MCSeeds == {<<k, (k * 7 + 3) % 32, (k * 5) % 32>> : k \in 0 .. 3}
MCTexts == {<< >>, <<2, 3>>}
MCUnknowns == {<<"m", i>> : i \in 3 .. 4}
MCBoxTexts == {[i \in 1 .. n |-> IF i < 3 THEN {} ELSE {<<"m", i>>}] : n \in 1 .. 4}
====
