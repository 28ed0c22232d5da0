---- MODULE Blake3 ----
(***************************************************************************)
(* BLAKE3-256 of src/Sources/blake3.c, the hash of the Buttwoo codec:      *)
(* chunks of blocks chained by the compression function, whose chaining    *)
(* values are merged level by level into a tree with a flagged root.       *)
(* Input is a function from 0 .. n - 1 to bytes.                           *)
(***************************************************************************)
EXTENDS Words

CONSTANT ChunkBlocks    \* blocks in a chunk, at least one: 16 in the code

CHUNK_START == 1
CHUNK_END == 2
PARENT == 4
ROOT == 8

BLOCK_LEN == 64
CHUNK_LEN == ChunkBlocks * BLOCK_LEN
MAX_CHUNKS == 8

\* Stand-ins for the eight 32-bit constants: any words do.
IV == [i \in 0 .. 7 |-> (89 * i + 103) % Power[W]]

SIGMA == <<
  << 0,  1,  2,  3,  4,  5,  6,  7,  8,  9, 10, 11, 12, 13, 14, 15>>,
  << 2,  6,  3, 10,  7,  0,  4, 13,  1, 11, 12,  5,  9, 14, 15,  8>>,
  << 3,  4, 10, 12, 13,  2,  7, 14,  6,  5,  9,  0, 11, 15,  8,  1>>,
  <<10,  7, 12,  9, 14,  3, 13, 15,  4,  0, 11,  2,  5,  8,  1,  6>>,
  <<12, 13,  9, 11, 15, 10, 14,  8,  7,  2,  5,  3,  0,  1,  6,  4>>,
  << 9, 14, 11,  5,  8, 12, 15,  1, 13,  3,  0, 10,  2,  6,  4,  7>>,
  <<11, 15,  5,  0,  1,  9,  8,  6, 14, 10,  2, 12,  3,  4,  7, 13>> >>

\* Rotations by 16, 12, 8 and 7 of 32 bits.
G(v, a, b, c, d, mx, my) ==
  LET a1 == Add(v[a], v[b] + mx)
      d1 == Rotr(XOR(v[d], a1), W \div 2)
      c1 == Add(v[c], d1)
      b1 == Rotr(XOR(v[b], c1), (3 * W) \div 8)
      a2 == Add(a1, b1 + my)
      d2 == Rotr(XOR(d1, a2), W \div 4)
      c2 == Add(c1, d2)
  IN  [v EXCEPT ![a] = a2, ![b] = Rotr(XOR(b1, c2), W \div 4 - 1), ![c] = c2, ![d] = d2]

Calls == << <<0, 4, 8, 12>>, <<1, 5, 9, 13>>, <<2, 6, 10, 14>>, <<3, 7, 11, 15>>,
            <<0, 5, 10, 15>>, <<1, 6, 11, 12>>, <<2, 7, 8, 13>>, <<3, 4, 9, 14>> >>

StartState(cv, counter, block_len, flags) ==
  [i \in 0 .. 15 |->
     CASE i < 8 -> cv[i]
       [] i = 12 -> counter % Power[W]
       [] i = 13 -> counter \div Power[W]
       [] i = 14 -> block_len
       [] i = 15 -> flags
       [] OTHER -> IV[i - 8]]

Message(block) == [i \in 0 .. 15 |-> LoadLE(block, 4 * i, 4)]

Halves(v) == [i \in 0 .. 7 |-> XOR(v[i], v[i + 8])]

\* Call i of round r on the message m.
Mix(v, m, r, i) == G(v, Calls[i + 1][1], Calls[i + 1][2], Calls[i + 1][3], Calls[i + 1][4],
                     m[SIGMA[r + 1][2 * i + 1]], m[SIGMA[r + 1][2 * i + 2]])
Round(v, m, r) == Iterate(LAMBDA u, i: Mix(u, m, r, i), v, 8)

compress(cv, block, counter, block_len, flags) ==
  Halves(Iterate(LAMBDA v, r: Round(v, Message(block), r),
                 StartState(cv, counter, block_len, flags), 7))

words_to_bytes(words) == [i \in 0 .. 31 |-> ByteLE(words[i \div 4], i % 4, 4)]

\* The len bytes from in[from] on, padded with zeros to a block.
Padded(in, from, len) == [i \in 0 .. BLOCK_LEN - 1 |-> IF i < len THEN in[from + i] ELSE 0]

\* One turn of the do-while loop, on the chaining value, the offset and
\* the flags of the next block; an empty chunk has one empty block.
HashBlock(s, in, from, input_len, chunk_counter, extra_flags) ==
  LET left == input_len - s.offset
      blen == IF left > BLOCK_LEN THEN BLOCK_LEN ELSE left
      last == s.offset + blen = input_len
      flags == s.flags + IF last THEN CHUNK_END + extra_flags ELSE 0
  IN  [cv |-> compress(s.cv, Padded(in, from + s.offset, blen), chunk_counter, blen, flags),
       offset |-> s.offset + blen,
       flags |-> 0]

Blocks(input_len) == IF input_len = 0 THEN 1 ELSE (input_len + BLOCK_LEN - 1) \div BLOCK_LEN

hash_chunk(in, from, input_len, chunk_counter, extra_flags) ==
  LET Turn(s, i) == HashBlock(s, in, from, input_len, chunk_counter, extra_flags)
  IN  words_to_bytes(Iterate(Turn, [cv |-> IV, offset |-> 0, flags |-> CHUNK_START],
                             Blocks(input_len)).cv)

hash_parent(left_cv, right_cv, extra_flags) ==
  LET block == [i \in 0 .. BLOCK_LEN - 1 |-> IF i < 32 THEN left_cv[i] ELSE right_cv[i - 32]]
  IN  words_to_bytes(compress(IV, block, 0, BLOCK_LEN, PARENT + extra_flags))

\* Mutant: A tree that flags every merge of a level as the root.
MergeLevelAllRoots(level) ==
  LET count == Len(level)
      merged == [i \in 1 .. count \div 2 |-> hash_parent(level[2 * i - 1], level[2 * i], ROOT)]
  IN  IF count % 2 = 1 THEN Append(merged, level[count]) ELSE merged

\* One level up: neighbours are merged, an odd last value is carried.
MergeLevel(level) ==
  LET count == Len(level)
      xflags == IF count = 2 THEN ROOT ELSE 0
      merged == [i \in 1 .. count \div 2 |-> hash_parent(level[2 * i - 1], level[2 * i], xflags)]
  IN  IF count % 2 = 1 THEN Append(merged, level[count]) ELSE merged

MergeTree(level) == While(LAMBDA l: Len(l) > 1, MergeLevel, level, MAX_CHUNKS)[1]

blake3_256(in, inlen) ==
  IF inlen > MAX_CHUNKS * CHUNK_LEN THEN -1
  ELSE LET num_chunks == IF inlen = 0 THEN 1 ELSE (inlen + CHUNK_LEN - 1) \div CHUNK_LEN
           chunk_len(i) == IF inlen - i * CHUNK_LEN > CHUNK_LEN THEN CHUNK_LEN
                           ELSE inlen - i * CHUNK_LEN
           extra == IF num_chunks = 1 THEN ROOT ELSE 0
       IN  MergeTree([i \in 1 .. num_chunks |->
             hash_chunk(in, (i - 1) * CHUNK_LEN, chunk_len(i - 1), i - 1, extra)])
----
(***************************************************************************)
(* The BLAKE3 specification: rounds of columns and diagonals between which *)
(* the message is permuted, and a tree in which a left subtree is a        *)
(* complete one over the largest power of two of chunks that leaves at     *)
(* least one for the right.                                                *)
(***************************************************************************)
Permutation == <<2, 6, 3, 10, 7, 0, 4, 13, 1, 11, 12, 5, 9, 14, 15, 8>>

Column(v, m, i) == G(v, i, 4 + i, 8 + i, 12 + i, m[2 * i], m[2 * i + 1])
Diagonal(v, m, i) == G(v, i, 4 + ((i + 1) % 4), 8 + ((i + 2) % 4), 12 + ((i + 3) % 4),
                       m[8 + 2 * i], m[9 + 2 * i])
Columns(v, m) == Iterate(LAMBDA u, i: Column(u, m, i), v, 4)
Diagonals(v, m) == Iterate(LAMBDA u, i: Diagonal(u, m, i), v, 4)

SpecRound(s, r) == [v |-> Diagonals(Columns(s.v, s.m), s.m),
                    m |-> [i \in 0 .. 15 |-> s.m[Permutation[i + 1]]]]

SpecCompress(cv, block, counter, block_len, flags) ==
  Halves(Iterate(SpecRound, [v |-> StartState(cv, counter, block_len, flags),
                             m |-> Message(block)], 7).v)

\* Block b of a chunk of len bytes, the only one when the chunk is empty.
LastBlock(len) == IF len = 0 THEN 0 ELSE (len - 1) \div BLOCK_LEN
SpecBlock(cv, b, in, from, len, k, root) ==
  LET last == b = LastBlock(len)
      size == IF last THEN len - b * BLOCK_LEN ELSE BLOCK_LEN
  IN  SpecCompress(cv, Padded(in, from + b * BLOCK_LEN, size), k, size,
        (IF b = 0 THEN CHUNK_START ELSE 0) + (IF last THEN CHUNK_END + root ELSE 0))

SpecChunk(in, from, len, k, root) ==
  words_to_bytes(Iterate(LAMBDA cv, b: SpecBlock(cv, b, in, from, len, k, root),
                         IV, LastBlock(len) + 1))

\* The leaf of chunk k of n bytes.
SpecLeaf(in, n, k, root) ==
  LET len == IF n > (k + 1) * CHUNK_LEN THEN CHUNK_LEN ELSE n - k * CHUNK_LEN
  IN  SpecChunk(in, k * CHUNK_LEN, len, k, root)

SpecParent(l, r, root) ==
  LET block == [i \in 0 .. 63 |-> IF i < 32 THEN l[i] ELSE r[i - 32]]
  IN  words_to_bytes(SpecCompress(IV, block, 0, BLOCK_LEN, PARENT + root))

\* The subtrees over count chunks, of which one is the root.
Subtrees ==
  {t \in [first : 0 .. MAX_CHUNKS - 1, count : 1 .. MAX_CHUNKS, root : {0, ROOT}] :
     t.first + t.count <= MAX_CHUNKS}
Subtree(first, count, root) == [first |-> first, count |-> count, root |-> root]

LeftChunks(count) == CHOOSE l \in {1, 2, 4} : l < count /\ 2 * l >= count

SpecNode(in, n, tree) ==
  LET node[t \in Subtrees] ==
        IF t.count = 1 THEN SpecLeaf(in, n, t.first, t.root)
        ELSE LET left == LeftChunks(t.count)
             IN  SpecParent(node[Subtree(t.first, left, 0)],
                            node[Subtree(t.first + left, t.count - left, 0)], t.root)
  IN  node[tree]

Chunks(n) == IF n = 0 THEN 1 ELSE (n + CHUNK_LEN - 1) \div CHUNK_LEN
SpecHash(in, n) == SpecNode(in, n, Subtree(0, Chunks(n), ROOT))
====
